SPECIFICATION FairSpec
CONSTANTS
  p1 = p1
  p2 = p2
  own = own
  Producers = {p1, p2}
  Owner = own
  Kinds = {"work", "CLEAR"}
  MaxPosts = 2
  MaxStops = 1
INVARIANTS TypeOK BatchIsPrivate FifoExactlyOnce NoLostWakeup StopDrains NoOrphanAfterExit
PROPERTIES ExitIsFinal IsMailbox StopCompletes PostedIsHandled
