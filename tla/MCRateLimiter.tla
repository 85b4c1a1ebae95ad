---------------------------- MODULE MCRateLimiter ----------------------------
(* Instances of RateLimiter for TLC: its constants are given by the cfg. *)
EXTENDS RateLimiter
=============================================================================
