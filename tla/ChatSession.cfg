\* Two conversations, two handlers, and as many sessions as can be in use.
SPECIFICATION FairSpec
CONSTANTS
  k1 = k1
  k2 = k2
  h1 = h1
  h2 = h2
  s1 = s1
  s2 = s2
  s3 = s3
  Keys = {k1, k2}
  Handlers = {h1, h2}
  Sessions = {s1, s2, s3}
  sessionTTL = 0
  MaxRequests = 2
  MaxTurns = 2
  None = None
PROPERTIES
  ImplementsConversations
  FullHistoryUnlessOrphaned
  EveryChatReturns
  ForgottenWhenIdle
