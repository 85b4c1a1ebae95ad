------------------------- MODULE MCAuctionScheduler -------------------------
(* Instances of AuctionScheduler for TLC. *)
EXTENDS AuctionScheduler, TLC

\* a1 starts at once; a2 starts later and its end is due when a1's is.
CONSTANTS a1, a2

MCAuctions == {a1, a2}
MCStartsAt == (a1 :> 0) @@ (a2 :> 2)
MCEndsAt == [a \in MCAuctions |-> 2]
=============================================================================
