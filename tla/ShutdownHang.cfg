CONSTANTS
  PoolSize = 2
  MaxTasks = 1
  MaySignal = TRUE
SPECIFICATION FairSpec
PROPERTIES ShutdownCompletes
CHECK_DEADLOCK FALSE
