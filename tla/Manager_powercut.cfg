CONSTANTS
    NumQueues = 2
    MaxRecs = 1
    PowerCuts = TRUE
    DiskFaults = TRUE
    ParentsFollow = FALSE
SPECIFICATION Spec
INVARIANT ServesAllConfirmed
CHECK_DEADLOCK FALSE
