----------------------------- MODULE WalletHolds -----------------------------
(***************************************************************************)
(* What the payment validator promises its callers, without reservation    *)
(* ids: in each auction a user has at most one hold.  A new hold replaces  *)
(* the old one; a hold is given back, or captured by a charge.             *)
(***************************************************************************)
EXTENDS Integers

CONSTANTS Users, Auctions, Amounts

VARIABLES hold,       \* <<user, auction>> -> the amount held, 0 for none
          captured    \* <<user, auction>> -> the amount charged so far

vars == <<hold, captured>>

Pairs == Users \X Auctions

Init == hold = [k \in Pairs |-> 0] /\ captured = [k \in Pairs |-> 0]

Place(k, amount) ==
    hold' = [hold EXCEPT ![k] = amount] /\ UNCHANGED captured

GiveBack(k) == Place(k, 0)

Capture(k) ==
    /\ captured' = [captured EXCEPT ![k] = @ + hold[k]]
    /\ hold' = [hold EXCEPT ![k] = 0]

\* The end of an auction gives back every hold in it but the winner's, if any.
Settle(a, kept) ==
    /\ hold' = [k \in Pairs |-> IF k[2] = a /\ k[1] \notin kept THEN 0 ELSE hold[k]]
    /\ UNCHANGED captured

Forget ==
    hold' = [k \in Pairs |-> 0] /\ captured' = [k \in Pairs |-> 0]

Next ==
    \/ \E k \in Pairs, m \in Amounts : Place(k, m)
    \/ \E k \in Pairs : GiveBack(k) \/ Capture(k)
    \/ \E a \in Auctions : Settle(a, {}) \/ \E w \in Users : Settle(a, {w})
    \/ Forget

Spec == Init /\ [][Next]_vars
=============================================================================
