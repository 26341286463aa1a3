SPECIFICATION FairSpec
CONSTANTS
  p1 = p1
  p2 = p2
  Torn = Torn
  Empty = Empty
  Producers <- TwoProducers
  MaxCalls = 4
  Capacity = 2
  Modulus = 8
  SignRules <- Wrapped
INVARIANTS DeliveredPrefix SlotExclusive
PROPERTIES ImplementsBoundedLog EveryEntryPopped
CHECK_DEADLOCK FALSE
