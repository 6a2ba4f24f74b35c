---------------------------- MODULE MCPortForward ----------------------------
(* Two usage identities and two containers; the second container may be the *)
(* replacement of the first at the same address.                            *)
EXTENDS PortForward, TLC

CONSTANTS u1, u2, c1, c2, a1, a2, p1, p2

Forwarding(usage, address, port) ==
    [usage_id |-> usage, ipv4_address |-> address, target_port |-> port,
     port_forward_target |-> TRUE, compliant |-> TRUE]

Nothing == [c \in Container |-> NoClient]

\* Two targets, and the first one recreated as c2 with the second gone.
TwoTargets ==
    { [Nothing EXCEPT ![c1] = Forwarding(u1, a1, p1), ![c2] = Forwarding(u2, a2, p1)],
      [Nothing EXCEPT ![c2] = Forwarding(u1, a1, p1)] }

\* One target that comes and goes.
OneTarget == { Nothing, [Nothing EXCEPT ![c1] = Forwarding(u1, a1, p1)] }

MCInventories == TwoTargets \cup OneTarget

\* With one target the environment may become calm; with two it never does, and
\* a lost tunnel comes back without a recovery.
VARIABLE settles

MCInit == Init /\ settles \in BOOLEAN

MCNext ==
    /\ Next
    /\ IF settles THEN d_clients' \in OneTarget
       ELSE d_clients' \in TwoTargets \cup {d_clients} /\ ~calm' /\ t_pc' # "recover"
    /\ UNCHANGED settles

MCFairSpec == MCInit /\ [][MCNext]_<<vars, settles>> /\ Fairness
==============================================================================
