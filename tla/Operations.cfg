SPECIFICATION OperationsFairSpec
CONSTANTS
    Stale = 4
    Cooldown = 6
    MaxRefusals = 2
    MaxUnsure = 1
    MaxFailures = 2
    MaxRestarts = 1
    MaxOutages = 3
    Ladder <- FiveFifteen
    MaxCrashes = 1
    MaxRaises = 1
    MaxSwallowed = 1
    Checks = {"a", "b", "c"}
    Name <- MCName
    MaxState = 2
    Retention = 1
    MaxChanges = 4
    MaxBreaks = 1
    Newest = 3
    MaxCuts = 2
    q1 = q1
    q2 = q2
    t = t
    Calls = {q1, q2, t}
    Tx = {t}
    TxSize = 2
    Retries = 2
    NoCall = NoCall
    Questions = {"m", "n"}
    Slots = 1
    Lookup = 2
    Wait = 1
    RunTime = 1
    Outer = 4
    Hold = 1
    MaxFalls = 1
INVARIANTS
    TruthfulDMs
    RecoveryIsOrderly
    OwnerKnows
    UpdatesFit
    OneThread
    AllOrNothing
    RepliesAreSound
PROPERTIES
    OwnerHearsInTheEnd
    LastingOutageIsRecovered
    KeepsContract
    EveryoneIsAnswered
CHECK_DEADLOCK FALSE
