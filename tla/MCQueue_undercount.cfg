CONSTANTS
    none = none
    DedupId = {}
    NoDedup = none
    Ordering = "fifo"
    PriorityEnabled = FALSE
    MaxAttempts = 3
    DedupWindow = 1
    AgingInterval = 0
    AgingMaxBoost = 0
    IntMax = 7
    Priority = {0}
    Delay = {0}
    Lease = {1}
    MaxWaiting = 2
    MaxDequeue = 1
    PurgeInterval = 1
    MaxMsgs = 1
    MaxTime = 0
    MaxCompactions = 1
    MaxStops = 1
    DiskFaults = FALSE
    Watch = {"deliveries"}
SPECIFICATION Spec
INVARIANTS UndercountByOne
CHECK_DEADLOCK FALSE
