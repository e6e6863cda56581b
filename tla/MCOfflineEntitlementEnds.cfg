CONSTANTS
    Users = {u1}
    Licenses = {l1, l2}
    Devices = {d1}
    Tokens = {}
    Requests = {r1}
    None = None
    OfflinePeriods = {1, 2}
    DefaultPeriod = 1
    TrialPeriod = 2
    ExtensionPeriod = 2
    LeaseTTL = 1
    MonthLength = 4
    Forever = 50
    MaxNow = 2
    MaxPaidRevokes = 0
    MaxEntitlements = 2
    MaxDeadline = 6
SPECIFICATION Spec
SYMMETRY Symmetry
CHECK_DEADLOCK FALSE
INVARIANT OfflineEntitlementEnds
