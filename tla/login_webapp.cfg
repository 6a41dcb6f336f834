CONSTANTS
  None = None
  Browser = {b1}
  Flow = {ms, google}
  Sid = {s1, s2}
  MaxAttempt = 2
  Callback = {c1, c2}
SPECIFICATION FairSpec
INVARIANTS TypeOK CodeGoesToItsProvider
PROPERTIES OnlyNewestSignsIn SignsInOnce NewestIsNotRefused LogoutLasts EveryCallbackEnds
CHECK_DEADLOCK FALSE
