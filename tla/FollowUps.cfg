SPECIFICATION FollowFairSpec
CONSTANTS
    normal = normal
    mossy = mossy
    stop = stop
    Orders <- OneType
    Keys <- OneStop
    KeyOf <- SameKey
    MaxCommands = 2
    MaxFaults = 1
    Msgs = {"a", "b"}
    MaxPending = 2
    MaxLost = 1
    MaxUpsets = 1
INVARIANTS
    JobsAreTold
    OneRunOneResult
PROPERTIES
    NothingIsLeft
CHECK_DEADLOCK FALSE
