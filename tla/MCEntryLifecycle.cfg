\* One trade, with everything that can happen to it.
CONSTANTS
    MaxTrades = 1
    Quantity = 2
    Budget = 1
    Crashes = 1
    SlowPass = FALSE
    NoPosition = NoPosition
    NoSnapshot = NoSnapshot
SPECIFICATION Spec
INVARIANTS
    TypeOK
    LaneGuarded
    NeverOverbought
    ReleasedMeansUnfilled
    HoldKeepsSubmittedQuantity
PROPERTIES
    HeldGetsProtected
    EntryHoldsResolve
