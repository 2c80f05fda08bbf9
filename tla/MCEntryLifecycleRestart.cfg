\* A deployment that is restarted between two trades.
CONSTANTS
    MaxTrades = 2
    Quantity = 1
    Budget = 0
    Crashes = 1
    SlowPass = FALSE
    NoPosition = NoPosition
    NoSnapshot = NoSnapshot
SPECIFICATION Spec
INVARIANT
    OneBuyPerLane
CHECK_DEADLOCK FALSE
