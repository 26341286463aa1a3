CONSTANTS
  Kinds <- Sessions
  Asked <- Info
  MaxSessions = 3
  MaxCalls = 2
SPECIFICATION RpcFairSpec
INVARIANTS
  Welcoming
  PendingInTable
  LateOnlyIfDropped
PROPERTIES
  CallsEnd
  StopsReturn
CHECK_DEADLOCK FALSE
