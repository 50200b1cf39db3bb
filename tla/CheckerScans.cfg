CONSTANTS
    Tasks = {t1, t2}
    t1 = t1
    t2 = t2
    NoTask = NoTask
    CheckInterval = 2
    RebuildInterval = 3
    MaxTimeout = 3
    Slack = 1
    MaxTime = 8
    MaxFailures = 1
SPECIFICATION Spec
SYMMETRY Symmetry
INVARIANTS
    LateIsReported
CHECK_DEADLOCK FALSE
