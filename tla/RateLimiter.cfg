SPECIFICATION LimiterSpec
CONSTANTS
  a = a
  b = b
  Clients = {a, b}
  limit = 3
  window = 3
  idleTTL = 5
  MaxLag = 1
INVARIANTS
  WithinTwoQuotas
PROPERTIES
  ForgottenWindowsAreOver
