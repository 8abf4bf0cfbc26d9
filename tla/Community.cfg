SPECIFICATION CommunitySpec
CONSTANTS
    c1 = c1
    c2 = c2
    c3 = c3
    other = other
    Events = {c1, c2, c3, other}
    Copies = {c1, c2, c3}
    Horizon = 3
    MaxTroubles = 2
    AreaKeys = {"a", "b"}
    Callers = {"c", "d"}
    RefreshAfter = 2
    RetryAfter = 1
    MaxFence = 0
    Nobody = "nobody"
    Spawns = {"s"}
    Variants = {"v", "w"}
    Retention = 3
    MaxGap = 1
    Life = 1
    LastMoment = 7
    Traps = {1, 2, 3}
    AuthorOf <- MCAuthor
    MaxMistakes = 2
    Folk = {"p", "q"}
    MaxMoves = 5
    MaxStumbles = 2
SYMMETRY Symmetry
INVARIANTS
    OncePerEvent
    MarksAreTrue
    HistoryIsTrue
    MembersAreKept
PROPERTIES
    AreasHold
CHECK_DEADLOCK FALSE
