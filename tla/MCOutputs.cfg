CONSTANTS
  BUF_LEN = 16
  Lengths = {1, 3, 12}
  Vectors <- MCVectors
  MaxPieces = 4
  INTERNAL_BUF_SIZE = 4
  PartLengths = {1, 2, 6}
  MaxBytes = 10
  OUT_BUF_SIZE = 4
  FrameParts = {1, 3}
  MaxFrameLen = 5
  MaxFrames = 3
  _max_file_size = 2
  _max_file_count = 2
  Sizes = {1, 3}
  MaxMessages = 6
  MaxFaults = 2
SPECIFICATION Spec
INVARIANTS
  TypeOK
  LossIsMarked
  NewestBytesKept
  ScreenInOrder
  MessagesKept
CHECK_DEADLOCK FALSE
