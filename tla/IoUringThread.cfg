SPECIFICATION FairSpec
CONSTANTS
  NConnections = 2
  Sessions = {s1, s2}
  NULL = NULL
INVARIANTS
  TypeOK
  NoUseAfterFree
  AwaitingCountIsExact
  OneRequestPerDirection
  PoolsBalance
  NoAssertionFires
  NoSessionIsForgotten
  StrandedOnlyInHandshake
  RequestsFitSessions
PROPERTIES
  FailedSessionIsQuiet
  OnlyHandshakesKillTheServer
  ImplementsLifecycle
  FailedProxyIsDeleted
CHECK_DEADLOCK FALSE
