SPECIFICATION Spec
CONSTANTS
    Ids = {p1}
    Bodies = {b1, b2}
    Requests = {r1, r2}
    Nothing = Nothing
    MaxVersion = 3
    MaxEvals = 1
    QueueSize = 1
INVARIANTS ProgramIsCurrent ConflictIsRefused SilencedStaysQuiet MatchIsOneBody
SYMMETRY Symmetry
CHECK_DEADLOCK FALSE
