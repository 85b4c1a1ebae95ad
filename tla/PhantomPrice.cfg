\* Three calls, two of which are refused out of order; expected to fail.
SPECIFICATION Spec
CONSTANTS
    Calls = {c1, c2, c3}
    Users = {u1}
    Keys = {k1, k2, k3}
    Auctions = {a1}
    NoBid = NoBid
    Requests <- MCRequests
    StartPrice <- MCStartPrice
    MinIncrement <- MCMinIncrement
    Faults = {}
SYMMETRY MCSymmetry
PROPERTY MinimumBidIsTaken
CHECK_DEADLOCK FALSE
