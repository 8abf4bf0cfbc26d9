SPECIFICATION PlayersFairSpec
CONSTANTS
    Pairs = {"a", "c"}
    To <- MCTo
    Recipients = 1
    Day = 3
    Horizon = 5
    MaxRaised = 1
    MaxMishaps = 1
    Players = {"p", "q"}
    MaxStamps = 2
    MaxBroken = 1
    MaxReturns = 1
    MaxSaves = 2
    MaxChannels = 2
    MaxRefusals = 1
    Spawns = {"s", "e"}
    AtEvent = {"e"}
    Latest = 5
    MaxTroubles = 1
    Admins = {"x", "y"}
    Channels = {"c", "d"}
    Pokemon = {"p"}
    MaxRules = 3
    MaxOrders = 3
    MaxSlips = 1
INVARIANTS
    TradesAreTold
    OneDecisionEach
    ConfirmedWasRead
    SpawnsAreTold
    RulesAsSaid
PROPERTIES
    PlayersAreServed
CHECK_DEADLOCK FALSE
