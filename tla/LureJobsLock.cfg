SPECIFICATION LuresSpec
CONSTANTS
    normal = normal
    mossy = mossy
    stop = stop
    Orders <- BothTypes
    Keys <- OneStop
    KeyOf <- SameKey
    MaxCommands = 2
    MaxFaults = 0
    Msgs = {"a", "b"}
    MaxPending = 2
    MaxLost = 0
    MaxUpsets = 0
INVARIANTS
    LockLasts
CHECK_DEADLOCK FALSE
