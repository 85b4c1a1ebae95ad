\* Intervals of one and a half seconds.
SPECIFICATION Spec
CONSTANTS
    Clients = {c1}
    Capacity = 2
    RefillInterval = 3
    Second = 2
    MaxTime = 10
    MaxSetBack = 3
INVARIANTS
    TypeOK
    WindowIsBounded
    RetryIsAdmitted
    WaitIsShort
PROPERTIES
    MeterSpec
