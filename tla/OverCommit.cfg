\* One bidder in two auctions, each bid within the balance; expected to fail.
SPECIFICATION Spec
CONSTANTS
    Calls = {c1, c2}
    Users = {u1}
    Keys = {k1, k2}
    Auctions = {a1, a2}
    NoBid = NoBid
    Requests <- MCRequests
    StartPrice <- MCStartPrice
    MinIncrement <- MCMinIncrement
    Schedulers = {s1}
    StartsAt <- MCStartsAt
    EndsAt <- MCEndsAt
    MaxTime = 0
    Balance <- MCBalance
    PlacementFaults = {}
    SchedulerFaults = {}
    NetworkFaults = {}
INVARIANT TotalWithinBalance
CHECK_DEADLOCK FALSE
