CONSTANTS
    ua = ua
    ta = ta
    ka = ka
    Ordered = {"license", "offline_extension"}
    Users = {ua}
    Licenses = {ta, l1, l2}
    Devices = {}
    Tokens = {}
    Requests = {}
    None = None
    OfflinePeriods = {1}
    DefaultPeriod = 1
    TrialPeriod = 3
    ExtensionPeriod = 1
    LeaseTTL = 1
    MonthLength = 3
    Forever = 50
    MaxNow = 3
    MaxPaidRevokes = 0
    MaxEntitlements = 0
    MaxDeadline = 9
    Keys = {ka, kb}
    Withdrawals = {}
    Refunds = {}
    Gateways = {"alipay_pc"}
    Inviter <- MCInviter
    Price <- MCPrice
    OnSale = {}
    RewardAmount = 2
    MinWithdrawal = 1
    SingleWriter = TRUE
    OrderTTL = 2
    MaxCalls = 0
    Admins = {}
    BridgeEvents = {}
    Batch = 1
    EnvMatches = TRUE
SPECIFICATION FairOrderedSpec
CHECK_DEADLOCK FALSE
PROPERTIES PaidSettles OpenedOrdersEnd
