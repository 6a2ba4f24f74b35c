-------------------------- MODULE MCHostPolicyAgent --------------------------
(* Instances of HostPolicyAgent. *)
EXTENDS HostPolicyAgent

CONSTANTS s1, s2, b1, g1, v6

Policy(subnet, ipv6) ==
    [subnet |-> subnet, bridge |-> b1, gateway_ip |-> g1, ipv6 |-> ipv6]

\* A deployment with IPv6 routed, on a host set up before it was.
DualStack == {Policy(s1, v6)}
Ipv4Only == {Policy(s1, NoIpv6)}
=============================================================================
