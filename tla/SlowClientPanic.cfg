\* A client taken out for being slow still sends; expected to fail.
SPECIFICATION Spec
CONSTANTS
    Clients = {c1}
    Auctions = {a1}
    SendSize = 1
    QueueSize = 2
    MaxMessages = 2
SYMMETRY MCSymmetry
INVARIANT SlowAreOnlyDisconnected
CHECK_DEADLOCK FALSE
