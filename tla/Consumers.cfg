CONSTANTS
    none = none
    producer = producer
    m1 = m1
    Msg = {m1}
    MaxAttempts = 2
    MaxWorkers = 2
    MaxPool = 1
    MaxKills = 1
    MaxTimeouts = 1
    MaxBatch = 2
    MaxSubmitted = 2
SPECIFICATION Spec
INVARIANTS DoneForGood NoJobLost BoardIsPool
PROPERTIES EveryJobEnds StoppedWorkersExit
CHECK_DEADLOCK FALSE
