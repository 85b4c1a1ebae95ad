-------------------------- MODULE PaymentValidator --------------------------
(***************************************************************************)
(* The payment validator: internal/payment/validator.go.  It keeps, in     *)
(* memory and behind one mutex, the funds a user's bids hold in an         *)
(* auction.  Every handler holds the mutex from its first read to its last *)
(* write, so each is one action.  Money is an integer number of cents.     *)
(* handleValidate changes nothing; its verdict is the operator Validates.  *)
(*                                                                         *)
(* A definition commented "Bug:" is not part of the specification.  It is  *)
(* the next one with a plausible mistake, which a property must reject.    *)
(***************************************************************************)
EXTENDS Integers, FiniteSetsExt

CONSTANTS Users, Auctions, Amounts,
          Reservations    \* the uuids handleReserve may draw: bounds their number

ASSUME AmountsAssumption == Amounts \subseteq Nat

VARIABLES reservations,   \* reservation id -> the reservation, as in the Go map
          issued,         \* the uuids drawn so far; a restart does not give them back
          userReserved    \* <<user, auction>> -> total reserved

paymentVars == <<reservations, issued, userReserved>>

ReservedKeys == Users \X Auctions

Reservation == [user : Users, auction : Auctions, amount : Amounts,
                status : {"active", "released", "charged"}]

\* One per module: the shape of the state.
TypeOK ==
    /\ issued \subseteq Reservations
    /\ DOMAIN reservations \subseteq issued
    /\ \A r \in DOMAIN reservations : reservations[r] \in Reservation
    /\ userReserved \in [ReservedKeys -> Int]

KeyOf(r) == <<reservations[r].user, reservations[r].auction>>

Active == {r \in DOMAIN reservations : reservations[r].status = "active"}

ActiveOf(k) == {r \in Active : KeyOf(r) = k}

Amount(S) == MapThenSumSet(LAMBDA r : reservations[r].amount, S)

WithStatus(S, status) ==
    [r \in DOMAIN reservations |->
        IF r \in S THEN [reservations[r] EXCEPT !.status = status]
                   ELSE reservations[r]]

\* userReserved after each reservation in S has been subtracted from its key.
Less(S) == [k \in ReservedKeys |-> userReserved[k] - Amount({r \in S : KeyOf(r) = k})]

Release(S) ==
    /\ reservations' = WithStatus(S, "released")
    /\ userReserved' = Less(S)
    /\ UNCHANGED issued

Init ==
    /\ reservations = <<>>
    /\ issued = {}
    /\ userReserved = [k \in ReservedKeys |-> 0]

\* The reply of handleValidate, for a wallet that answered with this balance.
Validates(u, a, amount, balance) == balance - userReserved[<<u, a>>] >= amount

\* Bug: the bidder's earlier reservation stays.
handleReserveKeepsOld(r, u, a, amount) ==
    /\ r \notin issued
    /\ issued' = issued \cup {r}
    /\ reservations' =
         [i \in DOMAIN reservations \cup {r} |->
            IF i = r THEN [user |-> u, auction |-> a, amount |-> amount, status |-> "active"]
                     ELSE reservations[i]]
    /\ userReserved' = [userReserved EXCEPT ![<<u, a>>] = @ + amount]

\* A new reservation takes the place of the bidder's earlier one in the auction.
handleReserve(r, u, a, amount) ==
    LET old == ActiveOf(<<u, a>>)
    IN  /\ r \notin issued
        /\ issued' = issued \cup {r}
        /\ reservations' =
             [i \in DOMAIN reservations \cup {r} |->
                IF i = r THEN [user |-> u, auction |-> a, amount |-> amount,
                               status |-> "active"]
                         ELSE WithStatus(old, "released")[i]]
        /\ userReserved' = [Less(old) EXCEPT ![<<u, a>>] = @ + amount]

\* Bug: the status of the reservation is not looked at.
handleReleaseAgain(r) == r \in DOMAIN reservations /\ Release({r})

handleRelease(r) == r \in Active /\ Release({r})

\* Bug: a status no other handler knows.
handleChargePays(r) ==
    /\ r \in Active
    /\ reservations' = WithStatus({r}, "paid")
    /\ UNCHANGED <<issued, userReserved>>

\* The charge keeps the amount in userReserved: the wallet is not yet debited.
handleCharge(r) ==
    /\ r \in Active
    /\ reservations' = WithStatus({r}, "charged")
    /\ UNCHANGED <<issued, userReserved>>

\* Bug: charged reservations are released as well.
handleAuctionEndedReleasesAll(a, winner) ==
    Release({r \in DOMAIN reservations :
                reservations[r].auction = a /\ reservations[r].user # winner})

\* Bug: an auction without a winner is passed over, as if there were no bids to free.
handleAuctionEndedNeedsWinner(a, winner) ==
    Release({r \in Active : /\ winner \in Users
                            /\ reservations[r].auction = a /\ reservations[r].user # winner})

\* winner is a user, or any other value when the auction ended without a bid.
handleAuctionEnded(a, winner) ==
    Release({r \in Active : reservations[r].auction = a /\ reservations[r].user # winner})

\* The process restarts: nothing was persisted.
Restart ==
    /\ reservations' = <<>>
    /\ userReserved' = [k \in ReservedKeys |-> 0]
    /\ UNCHANGED issued

NoWinner == "no winner"

Next ==
    \/ \E r \in Reservations, u \in Users, a \in Auctions, m \in Amounts :
          handleReserve(r, u, a, m)
    \/ \E r \in Reservations : handleRelease(r) \/ handleCharge(r)
    \/ \E a \in Auctions, w \in Users \cup {NoWinner} : handleAuctionEnded(a, w)
    \/ Restart

Spec == Init /\ [][Next]_paymentVars

-----------------------------------------------------------------------------
\* Two bids of one user in one auction never hold funds together, however the
\* reservations, releases and auction ends interleave (validator.go:109-117).
OneActivePerKey == \A k \in ReservedKeys : \A r, s \in ActiveOf(k) : r = s

\* The running total of a user in an auction, kept incrementally by four
\* handlers, is the sum of the reservations that are active or charged: no
\* path releases an amount twice or forgets to.
LedgerMatches ==
    \A k \in ReservedKeys :
        userReserved[k] = Amount({r \in DOMAIN reservations :
                                    /\ KeyOf(r) = k
                                    /\ reservations[r].status \in {"active", "charged"}})

-----------------------------------------------------------------------------
\* What the bookkeeping amounts to: one replaceable hold per user and auction.
Hold(k) == Amount(ActiveOf(k))

Holds == INSTANCE WalletHolds WITH
             hold     <- [k \in ReservedKeys |-> Hold(k)],
             captured <- [k \in ReservedKeys |-> userReserved[k] - Hold(k)]

\* Every handler is a step of the abstract holds, or invisible there.
HoldsSpec == Holds!Spec
=============================================================================
