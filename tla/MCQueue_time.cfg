CONSTANTS
    none = none
    DedupId = {}
    NoDedup = none
    Ordering = "fifo"
    PriorityEnabled = TRUE
    MaxAttempts = 2
    DedupWindow = 1
    AgingInterval = 1
    AgingMaxBoost = 1
    IntMax = 7
    Priority = {0}
    Delay = {0}
    Lease = {1}
    MaxWaiting = 2
    MaxDequeue = 1
    PurgeInterval = 9
    MaxMsgs = 1
    MaxTime = 2
    MaxCompactions = 1
    MaxStops = 0
    DiskFaults = TRUE
    Watch = {"deliveries"}
SPECIFICATION FairSpec
INVARIANTS DeliveryBound ReplayReproducesIndex
PROPERTIES AgingCurrent RequestAnswered LeaseEnds
CHECK_DEADLOCK FALSE
