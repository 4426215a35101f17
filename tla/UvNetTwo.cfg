SPECIFICATION Spec
CONSTANTS
  ThreadCount = 2
  SessionCount = 2
  MaxIds = 2
  MaxSends = 1
  MaxCloses = 1
INVARIANTS OnlyWriteDangles
CHECK_DEADLOCK FALSE
