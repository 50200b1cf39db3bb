CONSTANTS
    Tasks = {t1, t2}
    t1 = t1
    t2 = t2
    NoTask = NoTask
    Pending = "pending"
    InitialState = "pending"
    States <- SmallStates
    TerminalStates <- SmallTerminals
    Transitions <- SmallTransitions
    AutoRetry <- SmallAutoRetry
    RetryTo <- SmallRetryTo
    MaxRetries <- SmallMaxRetries
    MaxConcurrent = 1
    ChanSize = 1
    MaxRestarts = 0
    Faulty = FALSE
    Panics = FALSE
SPECIFICATION Spec
INVARIANTS
    ConcurrencyLimit
