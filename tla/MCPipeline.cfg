SPECIFICATION PipeSpec
CONSTANTS
  Peers = {1, 2}
  Requests = {r1, r2}
  TaskOptions <- SomeTasks
  Debug = TRUE
  pipeMaxRetries = 2
SYMMETRY Symmetry
CHECK_DEADLOCK FALSE
INVARIANTS
  InstructionSound
  SelectionDeterministic
  PortsFollowChannels
