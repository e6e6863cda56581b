CONSTANTS
    Users = {ua}
    ua = ua
    ub = ub
    la = la
    lb = lb
    ta = ta
    tb = tb
    ka = ka
    Licenses = {la}
    Devices = {d1}
    Tokens = {}
    Requests = {}
    None = None
    OfflinePeriods = {1}
    DefaultPeriod = 1
    TrialPeriod = 3
    ExtensionPeriod = 1
    LeaseTTL = 1
    MonthLength = 1
    Forever = 50
    MaxNow = 2
    MaxPaidRevokes = 2
    MaxEntitlements = 0
    MaxDeadline = 0
    Keys = {ka, kb}
    Withdrawals = {}
    Refunds = {}
    Gateways = {"epay"}
    Inviter <- MCInviter
    Price <- MCPrice
    OnSale = {"paid_revoke"}
    RewardAmount = 2
    MinWithdrawal = 1
    SingleWriter = FALSE
    OrderTTL = 1
    MaxCalls = 2
SPECIFICATION FairBillingSpec
CHECK_DEADLOCK FALSE
INVARIANTS OnePendingRevoke RevokesCounted
PROPERTIES ImplementsLicensing SettlesInRegion ExpiredOrdersEnd
