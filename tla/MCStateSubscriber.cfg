CONSTANTS
  MaxStates = 3
SPECIFICATION FairSpec
INVARIANTS
  CallContract
  RunningTellsExit
PROPERTIES
  ImplementsStateStream
  Reconnects
  StopReturns
CHECK_DEADLOCK FALSE
