\* Two connections with buffers of one message, so clients are slow.  Every
\* connection may end and events are bounded, so the hub may stop.
SPECIFICATION FairSpec
CONSTANTS
    Clients = {c1, c2}
    Auctions = {a1}
    SendSize = 1
    QueueSize = 2
    MaxMessages = 2
INVARIANTS
    TypeOK
    RoomsAgree
    EventsStayInOrder
    ClosedOnce
PROPERTIES
    SlowAreTakenOut
    GoneAreTakenOut
CHECK_DEADLOCK FALSE
