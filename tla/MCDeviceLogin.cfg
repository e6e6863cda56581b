CONSTANTS
  ua = ua
  ub = ub
  ca = ca
  cb = cb
  e1 = e1
  e2 = e2
  e3 = e3
  r1 = r1
  r2 = r2
  None = None
  Users = {ua}
  Codes = {ca}
  Exchanges = {e1, e2}
  Requests = {r1, r2}
  CodeTTL = 1
  MaxTime = 1
  MaxAuth = 3
SPECIFICATION FairDeviceSpec
CHECK_DEADLOCK FALSE
INVARIANTS DeliveredOnce ClaimExclusive LogoutIsComplete RefusedForGood
PROPERTIES ClaimsEnd
