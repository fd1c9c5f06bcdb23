CONSTANTS
    a1 = a1
    Accounts = {a1}
    Tasks = {s1, s2}
    Rids = {r1, r2}
    MaxAmount = 2
    CashLimit <- MCCash
    TTL = 0
    MaxClock = 1
    NoTask = NoTask
    MaxQuantity = 2
    SignalTypes = {"open_long", "hold"}
    Price = 1
    Validity = {0}
    Adapters = {TRUE, FALSE}
    NoRid = NoRid
SPECIFICATION ExecSpec
SYMMETRY MCSymmetry
INVARIANTS
    ExecTypeOK
    OrdersBacked
    NothingLeftHeld
PROPERTIES
    UsesManager
