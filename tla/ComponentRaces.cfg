SPECIFICATION Spec
CONSTANTS
    Tasks = {t1}
    NoTask = NoTask
    Transitions <- Looping
    Wide = 2
    MaxRetries = 1
    MaxRounds = 1
    ChanSize = 1
INVARIANT RetriesBounded
PROPERTIES OnlyForward StopReturns
CHECK_DEADLOCK FALSE
