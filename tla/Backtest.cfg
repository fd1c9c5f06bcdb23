CONSTANTS
    i1 = i1
    i2 = i2
    Instruments = {i1, i2}
    Traded = {i1, i2}
    Orders <- MCOrders
    Prices = {100, 110}
    Volumes = {1, 2}
    InitialCash = 230
    CommissionDiv = 10
    CommissionMin = 15
    StampDiv = 10
    Slippage = 0
    LimitPercent <- MCLimitPercent
    LotSize = 1
    Resizes = {0, 1}
    MaxDelay = 1
    MaxBars = 4
SPECIFICATION Spec
CHECK_DEADLOCK FALSE
INVARIANTS
    TypeOK
    TPlusOne
PROPERTIES
    OverdrawnByFeeOnly
    DaysValuedAtTheirClose
