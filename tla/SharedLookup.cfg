\* Two requests for two keys over two providers.
SPECIFICATION LookupSpec
CONSTANTS
  k1 = k1
  k2 = k2
  p1 = p1
  p2 = p2
  Callers = {k1, k2}
  Procs = {p1, p2}
  Queries <- TwoQueries
  N = 2
  retries = 1
  Threshold = 2
  Cooldown = 2
  MaxHangUps = 1
  None = None
INVARIANTS
  AnswerIsFirstAvailable
  OpenIsAccountedFor
PROPERTIES
  OpenCircuitRecovers
  EverySearchReturns
