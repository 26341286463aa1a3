CONSTANTS
  TUI_MAX_ROWS_PER_GROUP = 2
  HeaderLines = 2
  MaxSets = 2
  LOG_KEEP = 3
  QUEUE_CAPACITY = 2
  MAX_LAYOUTS = 2
  MaxLogs = 4
  AREA2_MIN_ROWS = 3
  TermRows = {9, 10}
  NoKey = NoKey
SPECIFICATION Spec
INVARIANTS
  FreshRows
  TornRows
  HistoryIsNewest
  EveryLayoutReached
PROPERTIES
  PausedViewStable
CHECK_DEADLOCK FALSE
