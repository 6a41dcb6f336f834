CONSTANTS
  k1 = k1
  c1 = c1
  c2 = c2
  Refresher = Refresher
  None = None
  Failed = Failed
  Refused = Refused
  Key = {k1}
  Caller = {c1, c2}
  TTL = 1
  StaleOption <- NoGrace
  Background = TRUE
  MayPanic = FALSE
  MaxTime = 1
  MaxVersion = 1
SPECIFICATION Spec
PROPERTY RefusedAfterDispose
CHECK_DEADLOCK FALSE
