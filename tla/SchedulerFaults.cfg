CONSTANTS
    Tasks = {t1}
    t1 = t1
    NoTask = NoTask
    Pending = "pending"
    InitialState = "pending"
    States <- SmallStates
    TerminalStates <- SmallTerminals
    Transitions <- SmallTransitions
    AutoRetry <- SmallAutoRetry
    RetryTo <- SmallRetryTo
    MaxRetries <- SmallMaxRetries
    MaxConcurrent = 1
    ChanSize = 1
    MaxRestarts = 1
    Faulty = TRUE
    Panics = TRUE
SPECIFICATION Spec
INVARIANTS
    TypeOK
    NoOrphan
    NoSlotLeak
    RetryBudget
PROPERTIES
    RetryStepsByOne
    LifeIsKept
CHECK_DEADLOCK FALSE
