CONSTANTS
    ua = ua
    ta = ta
    ka = ka
    Ordered = {"license", "offline_extension"}
    Users = {ua}
    Licenses = {ta, l1}
    Devices = {}
    Tokens = {}
    Requests = {}
    None = None
    OfflinePeriods = {1}
    DefaultPeriod = 1
    TrialPeriod = 3
    ExtensionPeriod = 1
    LeaseTTL = 1
    MonthLength = 3
    Forever = 50
    MaxNow = 2
    MaxPaidRevokes = 0
    MaxEntitlements = 0
    MaxDeadline = 9
    Keys = {ka}
    Withdrawals = {}
    Refunds = {f1, f2}
    Gateways = {"alipay_pc"}
    Inviter <- MCInviter
    Price <- MCPrice
    OnSale = {}
    RewardAmount = 2
    MinWithdrawal = 1
    SingleWriter = FALSE
    OrderTTL = 2
    MaxCalls = 0
    Admins = {adm}
    BridgeEvents = {"paid", "canceled", "chargeback"}
    Batch = 1
    EnvMatches = TRUE
SPECIFICATION OrderedSpec
SYMMETRY Symmetric
CHECK_DEADLOCK FALSE
INVARIANTS CanceledIsUnpaid ReversedIsReturned RefundsCovered ReversedIsSuspended
PROPERTIES ImplementsBilling
