SPECIFICATION Spec
CONSTANTS
  ThreadCount = 1
  SessionCount = 1
  MaxIds = 2
  MaxSends = 1
  MaxCloses = 1
INVARIANTS WithinSessionCount
CHECK_DEADLOCK FALSE
