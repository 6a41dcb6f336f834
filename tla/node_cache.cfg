CONSTANTS
  k1 = k1
  c1 = c1
  c2 = c2
  s1 = s1
  s2 = s2
  None = None
  Failed = Failed
  Refused = Refused
  Key = {k1}
  Caller = {c1, c2}
  Slot = {s1, s2}
  TTL = 1
  StaleIfError = 1
  BackgroundRefresh = TRUE
  MaxTime = 2
  MaxVersion = 2
SPECIFICATION FairSpec
INVARIANTS TypeOK SingleFlight NoOrphanWait NeverGoesBack ServedWithinGrace
PROPERTIES EveryCallAnswered ImplementsKeyCache
CHECK_DEADLOCK FALSE
