SPECIFICATION Spec
CONSTANTS
    Size = 3
    Interval = 1
    Threshold = 1
    Callers = {c1, c2}
    MaxTime = 7
    None = None
INVARIANT WindowCountsAll
CHECK_DEADLOCK FALSE
