CONSTANTS
  main = main
  rt1 = rt1
  default = default
  raw = raw
  keep = keep
  App <- TwoApps
  Main <- main
  Kinds <- AllKinds
  Patterns <- OnePattern
  Default <- default
  Raw <- raw
  Keep <- keep
  Capacity = 2
  ContCapacity = 1
  MaxCalls = 1
  MaxSessions = 2
  MaxFaults = 1
SPECIFICATION FairSpec
PROPERTIES
  SyncReturns
  TerminateReturns
  EntriesGetOut
CHECK_DEADLOCK FALSE
