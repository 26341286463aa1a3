CONSTANTS
  Adders = {t1, t2}
  Waiters = {w1}
  Sems = {s1, s2}
  Mutexes = {m1, m2}
  Places <- MCPlaces
  inc_per_thread = 1
  NoObject = NoObject
SPECIFICATION FairSpec
INVARIANTS
  ListsAreLive
  SumIsExact
PROPERTIES
  ShutdownEnds
CHECK_DEADLOCK FALSE
