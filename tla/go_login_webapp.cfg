CONSTANTS
  None = None
  ms = ms
  google = google
  s1 = s1
  s2 = s2
  r1 = r1
  r2 = r2
  Flow = {ms, google}
  Sid = {s1, s2}
  MaxAttempt = 2
  Request = {r1, r2}
SPECIFICATION Spec
SYMMETRY Symmetry
INVARIANT TypeOK
PROPERTIES NoOutdatedSignIn NoReplayAfterSignIn UndisturbedIsNotRefused LogoutLasts
CHECK_DEADLOCK FALSE
