CONSTANTS
  ua = ua
  ub = ub
  ca = ca
  cb = cb
  e1 = e1
  e2 = e2
  e3 = e3
  r1 = r1
  r2 = r2
  None = None
  Users = {ua}
  Codes = {ca}
  Exchanges = {e1}
  Requests = {r1, r2}
  CodeTTL = 1
  MaxTime = 2
  MaxAuth = 3
SPECIFICATION DeviceSpec
CHECK_DEADLOCK FALSE
PROPERTIES
  LiftedByUnlock
