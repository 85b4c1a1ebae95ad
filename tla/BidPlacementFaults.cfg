\* Three calls, a retry among them; anything but an ambiguous commit may fail.
\* Every call ends, so the system may stop.
SPECIFICATION Spec
CONSTANTS
    Calls = {c1, c2, c3}
    Users = {u1}
    Keys = {k1, k2, k3}
    Auctions = {a1}
    NoBid = NoBid
    Requests <- MCRequests
    StartPrice <- MCStartPrice
    MinIncrement <- MCMinIncrement
    Faults = {"db", "redis", "crash"}
SYMMETRY MCSymmetry
INVARIANTS
    TypeOK
    OneBidPerKey
    PriceIsHighestBid
    BidsKeepIncrement
    RecordsMatchRows
    UpdateIsReached
    PricesAreGuarded
PROPERTY BookSpec
CHECK_DEADLOCK FALSE
