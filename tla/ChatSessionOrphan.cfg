SPECIFICATION Spec
CONSTANTS
  k1 = k1
  k2 = k2
  h1 = h1
  h2 = h2
  s1 = s1
  s2 = s2
  s3 = s3
  Keys = {k1, k2}
  Handlers = {h1, h2}
  Sessions = {s1, s2, s3}
  sessionTTL = 1
  MaxRequests = 2
  MaxTurns = 3
  None = None
SYMMETRY Symmetric
PROPERTIES
  FullHistory
