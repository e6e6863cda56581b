SPECIFICATION BusySpec
CONSTANTS
  t1 = t1
  t2 = t2
  s1 = s1
  s2 = s2
  None = None
  Tabs = {t1, t2}
  Sids = {s1, s2, s3}
  Locks = TRUE
  Ops = {"logout", "call"}
  MaxSteps = 2
  MaxGen = 3
  MaxInbox = 1
  MaxOrphans = 1

INVARIANTS SignedOutStaysOut NoFalseReuse EndedAsAsked
PROPERTIES WaitsEnd
CHECK_DEADLOCK FALSE
