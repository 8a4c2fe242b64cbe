CONSTANTS
  PoolSize = 2
  MaxTasks = 1
  MaySignal = TRUE
SPECIFICATION Spec
INVARIANTS ServesLiveRequest
CHECK_DEADLOCK FALSE
