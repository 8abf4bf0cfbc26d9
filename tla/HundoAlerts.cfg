SPECIFICATION Spec
CONSTANTS
    a = a
    b = b
    Areas = {a, b}
    MaxRevisions = 2
    MaxTiles = 0
    MaxFaults = 2
    MaxChanges = 0
    MaxAreaChanges = 0
SYMMETRY Symmetry
INVARIANTS
    OneDMEach
    RulesWereTold
    ReadyIsTrue
CHECK_DEADLOCK FALSE
