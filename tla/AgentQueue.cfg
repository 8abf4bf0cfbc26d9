SPECIFICATION QueueSpec
CONSTANTS
    MaxJobs = 3
    MaxRev = 2
    MaxPending = 2
    MaxFaults = 1
INVARIANTS
    OneRunning
    TellingIsMarked
    Admission
PROPERTIES
    ImplementsLifecycle
CHECK_DEADLOCK FALSE
