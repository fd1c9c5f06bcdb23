CONSTANTS
    RuleSet = {"index_drop_halt", "extreme_volatility_halt", "special_time_restriction", "total_position_limit", "daily_loss_limit", "intraday_drawdown", "min_available_cash", "strategy_position_limit", "consecutive_loss_halt", "cooldown_period", "strategy_daily_loss_limit", "single_instrument_max_exposure", "liquidity_filter", "blacklist", "st_filter", "invalid_price_check", "min_lot_size_check", "duplicate_order_check", "frequent_cancel_limit"}
    MaxRegistered = 2
    MaxShares = 2
    MaxPrice = 1
    MaxCash = 1
    MinCash = 1
    LotSize = 2
    MaxQuantity = 2
    MaxChanges = 4
    Instruments = {i1, i2}
    Flattens = {f1}
    FlattenCalls = {c1, c2}
    MaxRetries = 3
    AgentCallers = {a1, a2}
    Proposals = {p1}
    Approvals = {x1}
    Executions = {e1, e2}
    Environments = {"paper", "live"}
    Types = {"close_only", "report"}
    NoApproval = NoApproval
    AgentTasks = {t1, t2}
    RateLimit = 2
    RateWindow = 2
    EvictAfter = 3
    MaxKeys = 1
    MaxClock = 5
SPECIFICATION Spec
SYMMETRY MCSymmetry
CHECK_DEADLOCK FALSE
INVARIANTS
    TypesOK
    AnswerIsRight
    VerdictIsRight
    FlattenPassesCheck
    FlattenIsExact
    HumanInTheLoop
    TaskTellsOutcome
    GatewayHolds
