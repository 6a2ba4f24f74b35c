---------------------------- MODULE MCEnforcement ----------------------------
(***************************************************************************)
(* Forwarding from the provider to the packet: the NAT-PMP requests of a   *)
(* lease, the coordinator that commits the rules, and the packet path      *)
(* under them.  In a behaviour one of the three takes the steps, so that   *)
(* the state spaces add up and do not multiply.                            *)
(*   coordinator: two usage identities and two containers, one of which    *)
(*     may be recreated under the other's usage identity, moved, made      *)
(*     ineligible or lose its port;                                        *)
(*   packets: one tracked flow at a time (flows do not influence each      *)
(*     other);                                                             *)
(*   natpmp: at most three answers to a request, and one late request or   *)
(*     one port of another customer at a time.                             *)
(***************************************************************************)
EXTENDS Enforcement, GatewayFirewall, NatPmp, FiniteSets, TLC

CONSTANTS u1, u2, c1, c2, a1, a2, p1, p2

Forwarding(usage, address, port) ==
    [usage_id |-> usage, ipv4_address |-> address, target_port |-> port,
     port_forward_target |-> TRUE, compliant |-> TRUE]

MCInventories ==
    { [c \in Container |-> NoClient],
      (c1 :> Forwarding(u1, a1, p1)) @@ (c2 :> NoClient),
      (c1 :> Forwarding(u1, a2, p1)) @@ (c2 :> NoClient),
      (c1 :> NoClient) @@ (c2 :> Forwarding(u1, a1, p1)),
      (c1 :> [Forwarding(u1, a1, p1) EXCEPT !.compliant = FALSE])
         @@ (c2 :> Forwarding(u2, a2, p2)),
      (c1 :> [Forwarding(u1, a1, NoPort) EXCEPT !.compliant = TRUE])
         @@ (c2 :> Forwarding(u2, a2, p2)),
      (c1 :> Forwarding(u1, a1, p1)) @@ (c2 :> Forwarding(u2, a2, p2)) }

VARIABLE part

MaxTracked == 1
MaxAnswers == 3
MaxForeign == 1

MCInit ==
    /\ Init /\ FirewallInit /\ NatPmpInit
    /\ part \in {"coordinator", "packets", "natpmp"}

Coordinator == part = "coordinator" /\ Next /\ UNCHANGED <<fw_vars, natpmp_vars>>

Packets ==
    /\ part = "packets" /\ FirewallNext /\ UNCHANGED <<vars, natpmp_vars>>
    /\ Cardinality({f \in Flow : track'[f] # "none"}) <= MaxTracked

LeaseRequests ==
    /\ part = "natpmp" /\ NatPmpNext /\ UNCHANGED <<vars, fw_vars>>
    /\ Cardinality(granted'["udp"]) + Cardinality(granted'["tcp"]) <= MaxAnswers
    /\ Cardinality(late') + Cardinality(taken') <= MaxForeign

MCNext == (Coordinator \/ Packets \/ LeaseRequests) /\ UNCHANGED part

MCSpec ==
    MCInit /\ [][MCNext]_<<vars, fw_vars, natpmp_vars, part>> /\ NatPmpFairness
==============================================================================
