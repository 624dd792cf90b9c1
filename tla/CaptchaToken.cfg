\* Two requests to one provider, whichever it is.
SPECIFICATION FairSpec
CONSTANTS
  c1 = c1
  c2 = c2
  Callers = {c1, c2}
  CallLimit = 1
  TokenLife = 3
  SolveLimit = 4
  retries = 2
  None = None
INVARIANTS
  SentTokenIsFresh
  SolveServesEveryone
PROPERTIES
  SolvesAreSpaced
  FetchReturns
