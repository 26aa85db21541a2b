CONSTANTS
    none = none
    d1 = d1
    DedupId = {d1}
    NoDedup = none
    Ordering = "lifo"
    PriorityEnabled = TRUE
    MaxAttempts = 1
    DedupWindow = 1
    AgingInterval = 0
    AgingMaxBoost = 0
    IntMax = 7
    Priority = {0, 1}
    Delay = {0, 1}
    Lease = {5}
    MaxWaiting = 1
    MaxDequeue = 2
    PurgeInterval = 1
    MaxMsgs = 2
    MaxTime = 1
    MaxCompactions = 1
    MaxStops = 1
    DiskFaults = FALSE
    Watch = {}
SPECIFICATION Spec
INVARIANTS DedupHonoured
PROPERTIES DeliveredIsBest
CHECK_DEADLOCK FALSE
