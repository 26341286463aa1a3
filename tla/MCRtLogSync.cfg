CONSTANTS
  main = main
  rt1 = rt1
  default = default
  raw = raw
  keep = keep
  App <- OneApp
  Main <- main
  Kinds <- LineKinds
  Patterns <- OnePattern
  Default <- default
  Raw <- raw
  Keep <- keep
  Capacity = 2
  ContCapacity = 1
  MaxCalls = 2
  MaxSessions = 1
  MaxFaults = 0
SPECIFICATION Spec
PROPERTIES
  SyncDrains
CHECK_DEADLOCK FALSE
