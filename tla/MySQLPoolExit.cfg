SPECIFICATION FairSpec
CONSTANTS
  ThreadCount = 1
  MaxTasks = 1
  MaxLosses = 1
PROPERTIES ExitEndsWorker
CHECK_DEADLOCK FALSE
