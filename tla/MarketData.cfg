CONSTANTS
    f1 = f1
    f2 = f2
    b1 = b1
    b2 = b2
    Fetches = {f1, f2}
    Builds = {b1, b2}
    Versions = {"v1", "v2"}
    Batches <- MCBatches
    SessionMinutes = 2
    Lunch = 1
    Cycles = {2}
    Callers = {c1, c2}
    Burst = 2
    Cost = 2
    Rate = 1
    MaxAttempts = 2
    RetryDelay = 1
    MaxDates = 1
    Window = 4
    Singles = {q1}
    Sweeps = {q2}
    Grid = 4
    MaxCombinations = 3
    Returns = {1, 2}
SPECIFICATION Spec
CHECK_DEADLOCK FALSE
INVARIANTS
    TypesOK
    BarsAreTrue
    CallsBounded
    ResultsAddUp
PROPERTIES
    AllRequestsEnd
