CONSTANTS
  a = a
  b = b
  r1 = r1
  s1 = s1
  Uri = Uri
  None = None
  Failed = Failed
  Refused = Refused
  Request = {r1}
  Kid = {a, b}
  KeysOf <- EmptyBetween
  Latency = 1
  Slot = {s1}
  TTL = 1
  BackgroundRefresh = TRUE
  MaxTime = 4
  MaxVersion = 3
SPECIFICATION FairSpec
PROPERTIES RevocationBound RotationPickedUp OutageTolerated EveryRequestDecided
CHECK_DEADLOCK FALSE
