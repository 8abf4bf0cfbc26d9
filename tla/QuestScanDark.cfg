SPECIFICATION Spec
CONSTANTS
    leiria = leiria
    Areas = {leiria}
    MaxCount = 2
    PlateauTicks = 2
    StuckTicks = 3
    QuietTicks = 2
    FloorNum = 9
    FloorDen = 10
    LeftoverTicks = 4
    MaxDays = 1
    MaxTroubles = 0
INVARIANTS
    NoCrashDone
