CONSTANTS
  main = main
  rt1 = rt1
  default = default
  raw = raw
  keep = keep
  App <- TwoApps
  Main <- main
  Kinds <- ChunkKinds
  Patterns <- OnePattern
  Default <- default
  Raw <- raw
  Keep <- keep
  Capacity = 2
  ContCapacity = 1
  MaxCalls = 2
  MaxSessions = 1
  MaxFaults = 1
SPECIFICATION Spec
INVARIANTS
  OutputOrder
  Accounted
  TerminateWritesAll
CHECK_DEADLOCK FALSE
