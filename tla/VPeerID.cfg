SPECIFICATION IdentitySpec
CONSTANTS
  Jobs = {j1}
  Peers = {p1, p2}
  Workers = {w1}
  Vals = {v1}
  NoJob = NoJob
  NaN = NaN
  ParallelSessions = 1
  QueueCap = 1
  BackendStatus <- OnlySuccess
  TaskCounts <- TwoTasks
  FlagChoices <- AllFlags
SYMMETRY Symmetry
CHECK_DEADLOCK FALSE
INVARIANT
  SmcPeerIDStable
