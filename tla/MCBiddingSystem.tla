--------------------------- MODULE MCBiddingSystem ---------------------------
(* Instances of BiddingSystem for TLC. *)
EXTENDS BiddingSystem, TLC

MCStartPrice == [a \in Auctions |-> 0]
MCMinIncrement == [a \in Auctions |-> 1]

\* The end is due as soon as the start, so one check may do both; a call that
\* reads the clock after a tick is late.
MCStartsAt == [a \in Auctions |-> 0]
MCEndsAt == [a \in Auctions |-> 0]

\* A wallet that covers each bid of a user, and not two of them.
MCBalance == [u \in Users |-> 2]

MCRequests == [user : Users, key : Keys, auction : Auctions, amount : {1, 2}]

\* The same bidders, each with one amount.
MCOneEach == {r \in MCRequests : r.amount = IF r.user = CHOOSE u \in Users : TRUE THEN 1 ELSE 2}

\* Every bidder may bid low with one key and high with the other, in any order.
MCLowAndHigh == {r \in MCRequests : r.amount = IF r.key = CHOOSE k \in Keys : TRUE THEN 1 ELSE 2}

MCSymmetry == Permutations(Calls) \cup Permutations(Users)
=============================================================================
