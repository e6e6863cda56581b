CONSTANTS
    Users = {u1, u2}
    Licenses = {l1, l2}
    Devices = {d1, d2}
    Tokens = {t1, t2}
    Requests = {}
    None = None
    OfflinePeriods = {1}
    DefaultPeriod = 1
    TrialPeriod = 2
    ExtensionPeriod = 2
    LeaseTTL = 1
    MonthLength = 3
    Forever = 50
    MaxNow = 3
    MaxPaidRevokes = 1
    MaxEntitlements = 0
    MaxDeadline = 0
SPECIFICATION Spec
SYMMETRY Symmetry
CHECK_DEADLOCK FALSE
INVARIANTS DeviceExclusive LeaseFollowsBinding
PROPERTIES UnbindIsLimited TrialClockNeverRestarts LeaseNotStolen
