CONSTANTS
  k1 = k1
  c1 = c1
  Refresher = Refresher
  None = None
  Failed = Failed
  Refused = Refused
  Key = {k1}
  Caller = {c1}
  TTL = 1
  StaleOption = 0
  Background = TRUE
  MayPanic = TRUE
  MaxTime = 3
  MaxVersion = 2
SPECIFICATION FairSpec
INVARIANTS TypeOK SingleFlight NoOrphanWait NeverGoesBack ServedWithinGrace
PROPERTIES EveryCallReturns LoopEnds ImplementsKeyCache
CHECK_DEADLOCK FALSE
