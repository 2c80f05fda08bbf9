\* One crash while the partial is working at the broker, and no other fault.
CONSTANTS
    Quantity = 3
    InitStops = {1}
    MaxIntents = 2
    MaxStops = 3
    Budget = 1
    NoPosition = NoPosition
    NoLadder = NoLadder
    NoIntent = NoIntent
    NoOrder = NoOrder
    NoRow = NoRow
    OrderIds <- MCOrderIds
    IntentKeys = {}
    Hashes = {}
SPECIFICATION Spec
INVARIANT Target1BanksOnce
CHECK_DEADLOCK FALSE
