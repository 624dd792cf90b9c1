\* Two searches over two plates, one of which the mock knows, and a restart.
SPECIFICATION FairSpec
CONSTANTS
  c1 = c1
  c2 = c2
  p1 = p1
  p2 = p2
  odd = odd
  f1 = f1
  Requests = {c1, c2}
  Plates = {p1, p2}
  Odd = odd
  Facts = {f1}
  MockFacts = mocked
  MockKnows = {p1}
  Routers <- AllRouters
  MaxRestarts = 1
  None = None
INVARIANTS
  KnownSurvivesOutage
PROPERTIES
  SearchedIsLearned
