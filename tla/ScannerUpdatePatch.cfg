SPECIFICATION UpdateSpec
CONSTANTS
    Newest = 3
    MaxCuts = 0
INVARIANTS
    PatchResolved
CHECK_DEADLOCK FALSE
