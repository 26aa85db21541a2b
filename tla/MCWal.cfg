CONSTANTS
    w1 = w1
    w2 = w2
    Writer <- TwoWriters
    MaxAppends = 4
    MaxCrashes = 1
SPECIFICATION FairSpec
INVARIANTS TypeOK ConfirmedDurable WaitersLocated CloseDrains
PROPERTIES FailStop ImplementsDurableLog EveryCallReturns
CHECK_DEADLOCK FALSE
