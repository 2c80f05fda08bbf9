\* A two-lot exit in every mode; nothing in UnusualEvents happens.
CONSTANTS
    Quantity = 2
    MaxOrders = 4
    MaxShort = 1
    Budget = 3
    Modes <- AllModes
    Unusual = {}
    NoPosition = NoPosition
    NoSnapshot = NoSnapshot
SPECIFICATION Spec
INVARIANTS
    TypeOK
    NeverOversold
    WorkingSellIsKnown
    ClosedAccountsForEveryFill
CHECK_DEADLOCK FALSE
