SPECIFICATION FairSpec
CONSTANTS
    a = a
    b = b
    Areas = {a, b}
    MaxRevisions = 1
    MaxTiles = 1
    MaxFaults = 1
    MaxChanges = 1
    MaxAreaChanges = 1
PROPERTIES
    SettingsTakeEffect
CHECK_DEADLOCK FALSE
