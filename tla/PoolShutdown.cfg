CONSTANTS
  PoolSize = 3
  MaxTasks = 3
  MaySignal = TRUE
SPECIFICATION FairSpec
INVARIANTS TypeOK FrontNonEmpty NoMissedTask HeldOnce AtMostOneOverslept
PROPERTIES ImplementsTaskQueue EveryTaskServed ShutdownEndsOrOneSleeps
CHECK_DEADLOCK FALSE
