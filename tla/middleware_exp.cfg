CONSTANTS
  u = u
  blank = blank
  junk = junk
  nan = nan
  absent = absent
  malformed = malformed
  ok = ok
  home = home
  partner = partner
  personal = personal
  homeText = homeText
  HOMETEXT = HOMETEXT
  partnerText = partnerText
  personalText = personalText
  login = login
  loginUrl = loginUrl
  gov = gov
  sts = sts
  loginHost = loginHost
  govHost = govHost
  stsHost = stsHost
  googleHost = googleHost
  noHost = noHost
  app = app
  other = other
  corp = corp
  Undefined = u
  Blank = blank
  Junk = junk
  NaN = nan
  Absent = absent
  Malformed = malformed
  Ok = ok
  Guid = {home, partner, personal}
  MSA = personal
  TenantText = {homeText, HOMETEXT, partnerText, personalText}
  GuidOf <- Tenants
  HostText = {login, loginUrl, gov, sts, blank}
  Bare <- Hosts
  NoHost = noHost
  ClaimName = {"oid", "sub", "roles", "groups"}
  DefaultAuthority = login
  DefaultV1Host = sts
  GoogleHost = googleHost
  DefaultTolerance = 1
  DefaultTTL = 2
  Case <- Cases
  Latency = 1
  MaxTime = 4
SPECIFICATION Spec
INVARIANT ExpAlwaysChecked
CHECK_DEADLOCK FALSE
