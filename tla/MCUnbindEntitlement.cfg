CONSTANTS
    Users = {u1}
    Licenses = {l1, l2}
    Devices = {d1, d2}
    Tokens = {t1}
    Requests = {r1, r2}
    None = None
    OfflinePeriods = {1}
    DefaultPeriod = 1
    TrialPeriod = 2
    ExtensionPeriod = 2
    LeaseTTL = 1
    MonthLength = 4
    Forever = 50
    MaxNow = 2
    MaxPaidRevokes = 0
    MaxEntitlements = 1
    MaxDeadline = 3
SPECIFICATION Spec
SYMMETRY Symmetry
CHECK_DEADLOCK FALSE
INVARIANTS OneManualUnbindPerAccount DeadlineCoversEntitlements
PROPERTIES PermanentIsSticky CooldownNeverShortened
