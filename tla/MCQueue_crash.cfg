CONSTANTS
    none = none
    DedupId = {}
    NoDedup = none
    Ordering = "fifo"
    PriorityEnabled = FALSE
    MaxAttempts = 2
    DedupWindow = 1
    AgingInterval = 0
    AgingMaxBoost = 0
    IntMax = 7
    Priority = {0}
    Delay = {0}
    Lease = {1}
    MaxWaiting = 1
    MaxDequeue = 1
    PurgeInterval = 1
    MaxMsgs = 2
    MaxTime = 0
    MaxCompactions = 1
    MaxStops = 2
    DiskFaults = TRUE
    Watch = {}
SPECIFICATION Spec
INVARIANTS TypeOK OneHome SeqIncreases ReplayReproducesIndex ReplayNeverRefuses AnswersSurvive
PROPERTIES ImplementsAtLeastOnce
CHECK_DEADLOCK FALSE
