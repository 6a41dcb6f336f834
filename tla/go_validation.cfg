CONSTANTS
  a = a
  b = b
  r1 = r1
  Refresher = Refresher
  Uri = Uri
  None = None
  Failed = Failed
  Refused = Refused
  Request = {r1}
  Kid = {a, b}
  KeysOf <- EmptyBetween
  Latency = 1
  TTL = 1
  Background = TRUE
  MaxTime = 3
  MaxVersion = 3
SPECIFICATION Spec
INVARIANT TypeOK
PROPERTIES RotationPickedUp RevocationBound OutageTolerated
CHECK_DEADLOCK FALSE
