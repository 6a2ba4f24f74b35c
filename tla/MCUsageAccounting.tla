-------------------------- MODULE MCUsageAccounting --------------------------
(* Two containers that reuse one address, or one container that moves. *)
EXTENDS UsageAccounting, TLC

CONSTANTS c1, c2, a1, a2

Reused == (c1 :> {a1}) @@ (c2 :> {a1})
Moving == c1 :> {a1, a2}
==============================================================================
