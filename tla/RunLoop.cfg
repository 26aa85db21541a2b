CONSTANTS
    Msg = {m1}
    Delay = {0, 2}
    Lease = {1}
    AgingInterval = 2
    PurgeInterval = 2
    Hour = 3
    Threshold = 2
    MaxSize = 2
    MaxWaiting = 1
    NoTime = none
SPECIFICATION FairSpec
INVARIANTS TypeOK NothingSleptPast
PROPERTIES AutoCompactPaced LeaseExpires NoSpinAfterFailure CloseReturns
CHECK_DEADLOCK FALSE
