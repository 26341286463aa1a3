CONSTANTS
  MaxSessions = 3
  MaxMessages = 3
  QueueSizes <- AllSizes
SPECIFICATION FairSpec
INVARIANTS
  StreamInOrder
  NewestKept
PROPERTIES
  StatesDelivered
  StopReturns
CHECK_DEADLOCK FALSE
