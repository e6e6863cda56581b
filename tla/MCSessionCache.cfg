SPECIFICATION Spec
CONSTANTS
  p1 = p1
  p2 = p2
  r1 = r1
  Procs = {p1, p2}
  NoOne = NoOne
  Caches = {r1}
  CacheOf <- OneRedis
  TTL = 2
  Grace = 1
  Retention = 1
  ExpiresAt = 4
  Ops = {"validate", "refresh", "advance", "revoke", "revokeAll", "logout"}
  MaxTime = 3
  MaxVersion = 2
  MaxGen = 2

PROPERTIES SealedIsFinal ImplementsGate
SYMMETRY Symmetric
CHECK_DEADLOCK FALSE
