\* Two lock-taking managers and one lifecycle sync over one trade.
CONSTANTS
    m1 = m1
    m2 = m2
    s1 = s1
    k1 = k1
    k2 = k2
    Managers <- MCManagers
    Syncers <- MCSyncers
    IntentKeys <- MCIntentKeys
    OrderIds <- MCIntentKeys
    Hashes = {h}
    NoRow = NoRow
    NoIntent = NoIntent
    NoOrder = NoOrder
    NoClient = NoClient
    NoKey = NoKey
    MaxQuantity = 2
    MaxLevel = 2
    MaxVersion = 4
SPECIFICATION Spec
SYMMETRY MCSymmetry
INVARIANTS
    TypeOK
    MemoryIsPast
    OneOpenIntent
    ConfirmedStopIsCommitted
    BankedIsOneFill
PROPERTIES
    RowNeverRegresses
    OutcomeIsFinal
