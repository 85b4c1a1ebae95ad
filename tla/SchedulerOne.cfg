\* One replica: every failure may happen at every point of a check, while the
\* clock and the ticker go on.
SPECIFICATION FairSpec
CONSTANTS
    a1 = a1
    a2 = a2
    Auctions <- MCAuctions
    Schedulers = {s1}
    StartsAt <- MCStartsAt
    EndsAt <- MCEndsAt
    MaxTime = 3
    Winners = {w1, w2}
    Faults = {"db", "publish", "crash"}
INVARIANTS
    TypeOK
    PublishedOnce
PROPERTIES
    StatusMovesForward
    AuctionsEnd
