CONSTANTS
  MaxTasks = 2
  MaxWorkers = 2
  PoolSize = 2
  Duration = 1
  QueryTimeout = 1
  MaxTime = 2
SPECIFICATION Spec
INVARIANT QueryTimesOut
CHECK_DEADLOCK FALSE
