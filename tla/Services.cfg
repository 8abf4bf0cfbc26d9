SPECIFICATION ServicesFairSpec
CONSTANTS
    Areas = {"leiria"}
    MaxCount = 2
    PlateauTicks = 2
    StuckTicks = 3
    QuietTicks = 2
    FloorNum = 9
    FloorDen = 10
    LeftoverTicks = 4
    MaxDays = 1
    MaxTroubles = 1
    AlertAfter = 2
    ShortGap = 2
    LongGap = 4
    LongOutage = 5
    Horizon = 10
    Zones = {"a", "b"}
    Workers = 1
    RenameBudget = 2
    RenameWindow = 4
    Ladder = "ladder"
    Owner = "owner"
    MaxFlaps = 2
    MaxHangs = 1
    MaxOps = 3
    DayLength = 2
    Nine = 1
    LastSecond = 5
    WeekLength = 2
    Chunks = 2
    Entries = {"x", "y"}
    Preview = 1
    MaxVersion = 2
    Stops = {"s"}
    Searches = {"u", "v"}
    CacheLife = 2
    LastDay = 1
    Exports = {"tick", "admin"}
    MaxScans = 1
    ExportEvery = 1
    LastDate = 1
    MaxMasterfile = 2
    Life = 2
    MaxRaises = 3
INVARIANTS
    DoneIsReal
    DoneIsShown
    ScannerIsWatched
    PostsAreTrue
    QuestsAreRight
PROPERTIES
    DataComesToBe
CHECK_DEADLOCK FALSE
