SPECIFICATION FairSpec
CONSTANTS
  PoolSize = 2
  Limits = {0, 1}
  MaxIds = 2
  MaxCalls = 2
INVARIANTS PoolSound StaleCloseIsHarmless SessionBound
PROPERTIES IsSendStream QueuedIsSent
CHECK_DEADLOCK FALSE
