CONSTANTS
    none = none
    d1 = d1
    DedupId = {d1}
    NoDedup = none
    Ordering = "fifo"
    PriorityEnabled = FALSE
    MaxAttempts = 2
    DedupWindow = 1
    AgingInterval = 0
    AgingMaxBoost = 0
    IntMax = 7
    Priority = {0}
    Delay = {0}
    Lease = {1}
    MaxWaiting = 1
    MaxDequeue = 1
    PurgeInterval = 1
    MaxMsgs = 2
    MaxTime = 0
    MaxCompactions = 1
    MaxStops = 1
    DiskFaults = FALSE
    Watch = {"duplicates"}
SPECIFICATION Spec
INVARIANTS DuplicateSurvives
CHECK_DEADLOCK FALSE
