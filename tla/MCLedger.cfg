CONSTANTS
    Users = {ua, ub}
    ua = ua
    ub = ub
    la = la
    lb = lb
    ta = ta
    tb = tb
    ka = ka
    Licenses = {la, lb, ta, tb, l5}
    Devices = {}
    Tokens = {}
    Requests = {}
    None = None
    OfflinePeriods = {1}
    DefaultPeriod = 1
    TrialPeriod = 3
    ExtensionPeriod = 1
    LeaseTTL = 1
    MonthLength = 2
    Forever = 50
    MaxNow = 2
    MaxPaidRevokes = 0
    MaxEntitlements = 0
    MaxDeadline = 2
    Keys = {ka, kb}
    Withdrawals = {w1}
    Refunds = {}
    Gateways = {"epay"}
    Inviter <- MCInviter
    Price <- MCPrice
    OnSale = {"license"}
    RewardAmount = 2
    MinWithdrawal = 1
    SingleWriter = TRUE
    OrderTTL = 1
    MaxCalls = 1
SPECIFICATION SoldSpec
CHECK_DEADLOCK FALSE
INVARIANTS ReservedMatches LedgerBalanced RewardFollowsOrder LicenseSoldOnce MoneyInRegion
