SPECIFICATION FairSpec
CONSTANTS
    MaxJobs = 2
    MaxRev = 1
    MaxPending = 2
    MaxFaults = 1
PROPERTIES
    OwnerIsServed
CHECK_DEADLOCK FALSE
