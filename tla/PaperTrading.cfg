CONSTANTS
    Signals = {s1, s2, s3}
    Instruments = {i1}
    SignalTypes = {"open_long", "close_long", "open_short", "hold"}
    Prices = {10, 20}
    InitialCash = 25
    CommissionDiv = 10
    CommissionMin = 2
    StampDiv = 10
    LotSize = 1
    Resizes = {0, 1}
    HasManager = TRUE
SPECIFICATION Spec
SYMMETRY MCSymmetry
INVARIANTS
    TypeOK
    AccountIsExact
    HeldForPending
