\* Three contracts, two actions, one fault; the old stop below or above breakeven.
CONSTANTS
    Quantity = 3
    InitStops = {1, 3}
    MaxIntents = 2
    MaxStops = 3
    Budget = 1
    NoPosition = NoPosition
    NoLadder = NoLadder
    NoIntent = NoIntent
    NoOrder = NoOrder
    NoRow = NoRow
    OrderIds <- MCOrderIds
    IntentKeys = {}
    Hashes = {}
SPECIFICATION Spec
INVARIANTS
    TypeOK
    NeverOversold
    BankedIsSold
    LegsAreSales
    LadderBanked
PROPERTIES
    ProtectedAgain
    IntentResolves
CHECK_DEADLOCK FALSE
