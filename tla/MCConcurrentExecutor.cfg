CONSTANTS
  MaxTasks = 3
  MaxWorkers = 2
  PoolSize = 1
  Duration = 1
  QueryTimeout = 1
  MaxTime = 2
SPECIFICATION Spec
INVARIANTS
  TypeOK
  AllAccountedFor
  ConnectionsSuffice
  NoCallHangs
PROPERTIES
  CallEnds
  ImplementsBatch
CHECK_DEADLOCK FALSE
