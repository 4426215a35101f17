SPECIFICATION FairSpec
CONSTANTS
  c1 = c1
  Callers = {c1}
  MaxCount = 2
  MaxPosts = 2
  MaxExits = 2
INVARIANTS TypeOK StoppedDrained ExitInOrder
PROPERTIES ExitReturns
CHECK_DEADLOCK FALSE
