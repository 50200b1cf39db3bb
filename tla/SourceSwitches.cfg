SPECIFICATION Spec
CONSTANTS
    Types = {"containerd", "nri", "mock"}
    Sections = {"containerd", "nri", "mock"}
    Requests = {r1, r2}
    Nobody = Nobody
    Closer = Closer
    ChanSize = 1
INVARIANTS ActiveIsStarted SecondNeedsRace StopIsThorough
PROPERTIES RequestEnds ClosedIsQuiet
CHECK_DEADLOCK FALSE
