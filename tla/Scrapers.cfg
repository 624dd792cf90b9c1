\* Two requests to any one of the scrapers.
SPECIFICATION Spec
CONSTANTS
  c1 = c1
  c2 = c2
  Requests = {c1, c2}
  Kinds <- AllScrapers
  Sessions = {1, 2, 3, 4, 5, 6}
  MaxTroubles = 1
  None = None
INVARIANTS
  NoFinesIsTrue
  FinesAreLabelledTruly
  ListsReadAsMeant
PROPERTIES
  SessionsSettle
