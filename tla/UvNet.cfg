SPECIFICATION FairSpec
CONSTANTS
  ThreadCount = 1
  SessionCount = 1
  MaxIds = 1
  MaxSends = 3
  MaxCloses = 1
INVARIANTS TypeOK StreamIntact OneWriteAtATime MapMatches
PROPERTIES IsSendStream CloseCompletes StopCompletes
CHECK_DEADLOCK FALSE
