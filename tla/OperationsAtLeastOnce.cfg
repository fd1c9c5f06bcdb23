CONSTANTS
    Callers = {c1, c2}
    MaxConnects = 3
    MaxCalls = 4
    ReportThreshold = 2
    QueryThreshold = 3
    MaxFailures = 3
    o1 = o1
    m1 = m1
    m2 = m2
    Orders = {o1}
    Manual = {m1, m2}
    Quantity = 2
    Lookalikes <- MCLookalikes
    Bare = {m2}
    MaxCrashes = 1
    Groups = {g1, g2}
    BatchSize = 2
    MaxPublished = 4
    MaxStarts = 3
    k1 = k1
    k2 = k2
    e1 = e1
    e2 = e2
    e3 = e3
    Sockets = {k1, k2}
    Events = {e1, e2, e3}
    Tokens <- MCTokens
    StreamOf <- MCStream
    TypeOf <- MCType
    BufferSize = 2
    ReplaySize = 2
    Counted = {"order_submitted", "order_failed", "order_accepted", "order_filled"}
    Gauges = {"daily_pnl_drawdown_pct"}
    Window = 1
    MaxTime = 3
    MaxRecords = 3
SPECIFICATION Spec
INVARIANT AtLeastOnce
CHECK_DEADLOCK FALSE
