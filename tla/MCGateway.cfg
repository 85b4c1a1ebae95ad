\* One cluster of two backends and two requests at a time.
SPECIFICATION FairSpec
CONSTANTS
    b1 = b1
    b2 = b2
    api = api
    Backends = {b1, b2}
    Clusters = {api}
    Destinations <- MCDestinations
    Requests = {r1, r2}
    Turns = 2
INVARIANTS
    TypeOK
    FlagsAreOneRoundOld
    TurnsAreShared
PROPERTIES
    DeadAreTakenOut
    LiveAreLetIn
