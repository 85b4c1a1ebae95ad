--------------------------- MODULE MCBidPlacement ---------------------------
(* Instances of BidPlacement for TLC. *)
EXTENDS BidPlacement, TLC

MCStartPrice == [a \in Auctions |-> 1]
MCMinIncrement == [a \in Auctions |-> 2]

\* With start price 1: the first minimum and the minimum after it.
MCRequests == [user : Users, key : Keys, auction : Auctions, amount : {3, 5}]

MCSymmetry == Permutations(Calls) \cup Permutations(Keys)
=============================================================================
