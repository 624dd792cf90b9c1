\* One source answers, the other is dead; with and without the mock.
SPECIFICATION FairSpec
CONSTANTS
  k1 = k1
  k2 = k2
  h1 = h1
  Rows = {k1, k2}
  DeadSources = {k2}
  Handlers = {h1}
  maxAge = 0
  MaxRestarts = 1
  Nothing = Nothing
PROPERTIES
  
  RowsSurviveFailures
  
