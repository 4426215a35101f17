SPECIFICATION Spec
CONSTANTS
  ThreadCount = 1
  MaxTasks = 2
  MaxLosses = 1
INVARIANTS RemainingTasksExecuted
CHECK_DEADLOCK FALSE
