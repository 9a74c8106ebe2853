SPECIFICATION PeerSpec
CONSTANTS
  Sessions = {s1, s2, s3}
  parallelSessions = 2
  Connectors <- Both
  RetryConnection = 2
  UsePairing = TRUE
  DebugModeEnabled = TRUE
CHECK_DEADLOCK FALSE
INVARIANTS
  PeerTypeOK
  TokensConserved
  QuietRestart
  SpawnerOutlived
  SessionProtocol
  TokenHasOwner
PROPERTIES
  PoolImplemented
  LostGatewayNoticed
  PeerSettles
