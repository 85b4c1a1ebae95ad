\* A crash between the update and the publication; expected to fail.
SPECIFICATION FairSpec
CONSTANTS
    a1 = a1
    a2 = a2
    Auctions <- MCAuctions
    Schedulers = {s1}
    StartsAt <- MCStartsAt
    EndsAt <- MCEndsAt
    MaxTime = 3
    Winners = {w1}
    Faults = {"crash"}
PROPERTY EndsAreAnnounced
