SPECIFICATION Spec
CONSTANTS
  Jobs = {j1}
  Peers = {p1, p2}
  Workers = {w1, w2}
  Vals = {v1}
  NoJob = NoJob
  ParallelSessions = 1
  QueueCap = 1
  BackendStatus <- SomeStatus
  TaskCounts <- TwoTasks
  FlagChoices <- RequestFlags
SYMMETRY Symmetry
CHECK_DEADLOCK FALSE
INVARIANTS
  TypeOK
  ChatsTracked
  Lockstep
  QuietBetweenAttempts
  HandlerNeverBlocks
  PhaseBarrier
  ExclusiveJob
PROPERTY
  LifeImplemented
