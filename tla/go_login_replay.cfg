CONSTANTS
  None = None
  ms = ms
  s1 = s1
  r1 = r1
  r2 = r2
  google = google
  Flow = {ms, google}
  Sid = {s1}
  MaxAttempt = 2
  Request = {r1, r2}
SPECIFICATION Spec
PROPERTY SignsInOnce
CHECK_DEADLOCK FALSE
