CONSTANTS
    NumQueues = 2
    MaxRecs = 1
    PowerCuts = FALSE
    DiskFaults = FALSE
    ParentsFollow = TRUE
    MaxDamage = 2
SPECIFICATION OpSpec
INVARIANTS RefuseOrServe NothingDestroyed LabAsExplained
PROPERTIES LogsChangedOffline
