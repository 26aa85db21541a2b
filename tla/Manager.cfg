CONSTANTS
    NumQueues = 2
    MaxRecs = 1
    PowerCuts = TRUE
    DiskFaults = TRUE
    ParentsFollow = TRUE
SPECIFICATION Spec
INVARIANTS ServesAllConfirmed NamesUsable RefusalRepairable
PROPERTIES CreateReturns
CHECK_DEADLOCK FALSE
