SPECIFICATION Spec
CONSTANTS
  MaxTasks = 4
  MaxParallelism = 3
INVARIANTS
  NoTaskRunsTwice
PROPERTIES
  ImplementsBatch
  CallReturns
CHECK_DEADLOCK FALSE
