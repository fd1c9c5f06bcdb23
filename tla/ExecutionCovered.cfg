CONSTANTS
    a1 = a1
    Accounts = {a1}
    Tasks = {s1, s2}
    Rids = {r1, r2}
    MaxAmount = 2
    CashLimit <- MCCash
    TTL = 0
    MaxClock = 0
    NoTask = NoTask
    MaxQuantity = 2
    SignalTypes = {"open_long"}
    Price = 1
    Validity = {0}
    Adapters = {TRUE}
    NoRid = NoRid
SPECIFICATION ExecSpec
INVARIANT OrdersCovered
