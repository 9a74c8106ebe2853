SPECIFICATION FairSpec
CONSTANTS
  Jobs = {j1}
  Peers = {p1}
  Workers = {w1, w2}
  Vals = {v1}
  NoJob = NoJob
  NaN = NaN
  ParallelSessions = 1
  QueueCap = 1
  BackendStatus <- OnlySuccess
  TaskCounts <- TwoTasks
  FlagChoices <- AllFlags
CHECK_DEADLOCK FALSE
PROPERTIES
  QueryEnds
  ClosedChatEnds
