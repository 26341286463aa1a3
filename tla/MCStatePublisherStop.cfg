CONSTANTS
  MaxSessions = 3
  MaxMessages = 3
  QueueSizes <- AllSizes
SPECIFICATION Spec
INVARIANT
  StopCancelsAll
CHECK_DEADLOCK FALSE
