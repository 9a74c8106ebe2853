SPECIFICATION DirSpec
CONSTANTS
  Peers = {1, 2}
  Calls = {c1, c2}
  NotifyCap = 2
INVARIANTS
  DirTypeOK
  StreamsCounted
  NoEndBeforeStart
PROPERTIES
  RegistryStable
  OrphanGivenUp
  SilentStreamEnds
  OnlineSettles
  RosterImplemented
