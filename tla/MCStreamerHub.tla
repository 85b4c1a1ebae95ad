---------------------------- MODULE MCStreamerHub ----------------------------
(* Instances of StreamerHub for TLC. *)
EXTENDS StreamerHub, TLC

MCSymmetry == Permutations(Clients) \cup Permutations(Auctions)
=============================================================================
