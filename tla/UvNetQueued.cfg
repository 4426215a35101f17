SPECIFICATION FairSpec
CONSTANTS
  ThreadCount = 1
  SessionCount = 1
  MaxIds = 1
  MaxSends = 2
  MaxCloses = 0
PROPERTIES QueuedIsSent
CHECK_DEADLOCK FALSE
