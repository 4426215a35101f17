SPECIFICATION FairSpec
CONSTANTS
  ThreadCount = 2
  MaxTasks = 2
  MaxLosses = 1
INVARIANTS TypeOK OneResult InOrder TruthfulResult
PROPERTIES Answered
CHECK_DEADLOCK FALSE
