\* Two bidders, a clock that moves, calls that die, messages that are late, lost
\* or answered by the stream.  Every call ends, so the system may stop.
SPECIFICATION Spec
CONSTANTS
    Calls = {c1, c2}
    Users = {u1, u2}
    Keys = {k1, k2}
    Auctions = {a1}
    NoBid = NoBid
    Requests <- MCLowAndHigh
    StartPrice <- MCStartPrice
    MinIncrement <- MCMinIncrement
    Schedulers = {s1}
    StartsAt <- MCStartsAt
    EndsAt <- MCEndsAt
    MaxTime = 1
    Balance <- MCBalance
    PlacementFaults = {"redis", "crash", "ambiguous"}
    SchedulerFaults = {"db"}
    NetworkFaults = {"timeout", "loss", "wallet", "pubAck"}
SYMMETRY MCSymmetry
INVARIANTS
    TypeOK
    HeldWithinBalance
    AcceptedBidIsBacked
PROPERTIES
    AnswersAreTrue
CHECK_DEADLOCK FALSE
