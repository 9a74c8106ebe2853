SPECIFICATION FairSpec
CONSTANTS
  Jobs = {j1, j2}
  Peers = {p1}
  Workers = {w1}
  Vals = {v1}
  NoJob = NoJob
  NaN = NaN
  ParallelSessions = 1
  QueueCap = 1
  BackendStatus <- OnlySuccess
  TaskCounts <- OneTask
  FlagChoices <- AllFlags
CHECK_DEADLOCK FALSE
PROPERTY
  QueuedJobStarts
