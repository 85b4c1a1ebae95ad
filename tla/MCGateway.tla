------------------------------ MODULE MCGateway ------------------------------
(* Instances of Gateway for TLC. *)
EXTENDS Gateway

CONSTANTS b1, b2, api

MCDestinations == [cl \in Clusters |-> <<b1, b2>>]
=============================================================================
