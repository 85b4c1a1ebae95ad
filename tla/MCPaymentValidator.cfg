\* Two bidders, two auctions, three reservations: a replaced one, a released
\* one and a charged one can coexist.
SPECIFICATION Spec
CONSTANTS
    Users = {u1, u2}
    Auctions = {a1, a2}
    Reservations = {r1, r2, r3}
    Amounts <- MCAmounts
SYMMETRY MCSymmetry
INVARIANTS
    TypeOK
    OneActivePerKey
    LedgerMatches
PROPERTY HoldsSpec
