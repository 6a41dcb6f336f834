CONSTANTS
  k1 = k1
  c1 = c1
  c2 = c2
  Refresher = Refresher
  None = None
  Failed = Failed
  Refused = Refused
  Key = {k1}
  Caller = {c1, c2}
  TTL = 1
  StaleOption = 0
  Background = FALSE
  MayPanic = TRUE
  MaxTime = 1
  MaxVersion = 1
SPECIFICATION FairSpec
PROPERTY WaitersReceiveResult
CHECK_DEADLOCK FALSE
