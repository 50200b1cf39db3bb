CONSTANTS
    Clients = {c1, c2}
    c1 = c1
    c2 = c2
    LocalPublishers = {p1}
    p1 = p1
    RemotePublishers = {r1}
    r1 = r1
    BufferSize = 1
    MaxSubs = 3
    MaxPlainSubs = 2
SPECIFICATION FairSpec
INVARIANTS
    ListedIsOpen
    StreamIsListed
    SingleSubscriber
    EachServedOnce
PROPERTIES
    Served
    CloseDrains
CHECK_DEADLOCK FALSE
