CONSTANTS
    Tasks = {t1}
    t1 = t1
    NoTask = NoTask
    Pending = "pending"
    InitialState = "pending"
    States <- ShippedStates
    TerminalStates <- ShippedTerminals
    Transitions <- ShippedTransitions
    AutoRetry <- ShippedAutoRetry
    RetryTo <- ShippedRetryTo
    MaxRetries <- ShippedMaxRetries
    MaxConcurrent = 1
    ChanSize = 1
    MaxRestarts = 1
    Faulty = FALSE
    Panics = FALSE
SPECIFICATION FairSpec
INVARIANTS
    AnnouncedHasDeadline
PROPERTIES
    TimeoutHandled
