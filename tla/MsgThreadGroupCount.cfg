SPECIFICATION Spec
CONSTANTS
  c1 = c1
  Callers = {c1}
  MaxCount = 2
  MaxPosts = 2
  MaxExits = 1
INVARIANTS CountIsExact
CHECK_DEADLOCK FALSE
