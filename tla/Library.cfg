SPECIFICATION Spec
CONSTANTS
  StmtConfigs <- SomeConfigs
  StmtMessages <- SomeMessages
  StmtOutcomes <- SomeOutcomes
  ResultRoom = 9
  MaxRequests = 2
  Frames <- SomeFrames
  FrameRooms = {8, 11}
  MaxLen = 9
  MaxFrames = 3
  MaxConnects = 2
  SessionCount = 2
  ResultLists <- SomeResults
  MaxQueries = 2
  MaxReads = 6
  DBs = {1, 2}
  MaxStatements = 5
  LogThreads = {"p"}
  MaxLines = 3
  MaxDay = 2
  IdThreads = {1, 2}
  MaxGiven = 5
  MaxTime = 3
  ServerMax = 4
  SeqMax = 4
  BitOr <- MachineOr
  Callers = {1, 2, 3}
  MaxAsked = 4
  MaxDeletes = 1
INVARIANTS StmtFaithful FramesIntact CursorExact CommitIsAll LogIntact IdsUnique OneInstance
PROPERTIES ClientConnects
CHECK_DEADLOCK FALSE
