------------------------------ MODULE MCGateway ------------------------------
(* Instances of Gateway. *)
EXTENDS Gateway
==============================================================================
