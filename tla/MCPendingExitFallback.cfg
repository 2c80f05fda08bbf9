\* A hard flat that is still unfilled after ten seconds.
CONSTANTS
    Quantity = 2
    MaxOrders = 4
    MaxShort = 1
    Budget = 0
    Modes = {"HARD_FLAT"}
    Unusual = {"fallback"}
    NoPosition = NoPosition
    NoSnapshot = NoSnapshot
SPECIFICATION Spec
INVARIANT NeverOversold
CHECK_DEADLOCK FALSE
