CONSTANTS
  None = None
  MaxSize = 4
  MaxFiles = 2
  BufSize = 2
  Sizes <- AllSizes
  MaxMessages = 4
  MaxFaults = 1
  MaxOpens = 2
SPECIFICATION Spec
INVARIANTS
  FilesInOrder
  NothingSkipped
  ForgetsOnlyOldest
CHECK_DEADLOCK FALSE
