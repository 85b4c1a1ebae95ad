\* Each bidder has one amount to bid; the validator may be restarted and the
\* callers may time out.  Every call ends, so the system may stop.
SPECIFICATION FairSpec
CONSTANTS
    Calls = {c1, c2}
    Users = {u1, u2}
    Keys = {k1}
    Auctions = {a1}
    NoBid = NoBid
    Requests <- MCOneEach
    StartPrice <- MCStartPrice
    MinIncrement <- MCMinIncrement
    Schedulers = {s1}
    StartsAt <- MCStartsAt
    EndsAt <- MCEndsAt
    MaxTime = 0
    Balance <- MCBalance
    PlacementFaults = {"db"}
    SchedulerFaults = {}
    NetworkFaults = {"timeout", "restart"}
PROPERTIES
    KeysSettle
    CallsAreAnswered
    FailedBidFreesFunds
    HoldsEndWithAuction
CHECK_DEADLOCK FALSE
