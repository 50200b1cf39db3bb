CONSTANTS
    Ids = {i1}
    i1 = i1
    NoId = NoId
    States = {"pending", "running", "done"}
    Pending = "pending"
    InitialState = "running"
    Terminal = {"done"}
    Callers = {c1, c2}
    c1 = c1
    c2 = c2
    Locks = {l1, l2, l3}
    l1 = l1
    l2 = l2
    l3 = l3
    NoLock = NoLock
    ReadFaults = FALSE
    MaxVersion = 5
    MaxRestarts = 1
SPECIFICATION Spec
SYMMETRY Symmetry
INVARIANTS
    TypeOK
    ReadStaysFresh
    UpdateNeverReverts
    IndexAgrees
PROPERTIES
    DeletedStaysDeleted
CHECK_DEADLOCK FALSE
