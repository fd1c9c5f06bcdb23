CONSTANTS
    a1 = a1
    Accounts = {a1}
    Tasks = {t1, t2}
    Rids = {r1, r2}
    MaxAmount = 2
    CashLimit <- MCCash
    TTL = 1
    MaxClock = 2
    NoTask = NoTask
SPECIFICATION FairSpec
INVARIANTS
    ReservedWithinCash
PROPERTIES
    GrantWithinSnapshot
    ImplementsCashPool
    ReserveReturns
