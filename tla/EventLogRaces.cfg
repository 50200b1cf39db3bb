CONSTANTS
    Entries = {1, 2, 3}
    RingSize = 2
    Writers = {w1}
    Traces = {t1}
    Tasks = {k1}
    NoKey = NoKey
    ChanSize = 1
    ListRank <- MCListRank
SPECIFICATION MCSpec
INVARIANTS IndexFindsAll LastingIsFound CloseFlushes PanicsExplained
PROPERTIES LogIsKept StopReturns
CHECK_DEADLOCK FALSE
