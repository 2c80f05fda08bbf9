\* A hard flat or emergency exit of two lots in which all of UnusualEvents may happen.
CONSTANTS
    Quantity = 2
    MaxOrders = 3
    MaxShort = 0
    Budget = 1
    Modes = {"HARD_FLAT", "EMERGENCY"}
    Unusual <- UnusualEvents
    NoPosition = NoPosition
    NoSnapshot = NoSnapshot
SPECIFICATION Spec
PROPERTIES EmergencyGetsFlat
CHECK_DEADLOCK FALSE
