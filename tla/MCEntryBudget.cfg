\* Two entries and one older position, one replacement each, few failed calls and restarts.
CONSTANTS
    a = a
    b = b
    f = f
    Own = {a, b}
    Foreign = {f}
    Cost <- MCCost
    Loss <- MCLoss
    Cluster <- MCCluster
    Settings <- MCSettings
    LossDivisor = 3
    Reprices = 1
    NoDay = NoDay
    NoTrade = NoTrade
SPECIFICATION Spec
INVARIANTS
    TypeOK
    BookWithinLimits
    RefusedKeepsNothing
PROPERTIES
    SettledCashOnly
CHECK_DEADLOCK FALSE
