SPECIFICATION OrchSpec
CONSTANTS
  Jobs = {j1}
  Peers = {p1, p2}
  Workers = {w1, w2}
  Vals = {v1}
  NoJob = NoJob
  NaN = NaN
  ParallelSessions = 1
  QueueCap = 1
  BackendStatus <- OnlySuccess
  TaskCounts <- OneTask
  FlagChoices <- AllFlags
SYMMETRY Symmetry
CHECK_DEADLOCK FALSE
INVARIANT
  NoPanic
