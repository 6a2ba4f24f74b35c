----------------------------- MODULE MCDnsHealth -----------------------------
(***************************************************************************)
(* The monitors that publish checks.  DnsHealth has two query tasks,       *)
(* thresholds of two, a window of four outcomes and a transition window of *)
(* four; VpnServer two peers, two endpoints and a window of three samples. *)
(* In a behaviour one query task shares the publisher with the other       *)
(* monitors, or both query tasks run and the outcomes may settle for good, *)
(* or the VPN-server monitor runs: the state spaces add up and do not      *)
(* multiply.                                                               *)
(***************************************************************************)
EXTENDS DnsHealth, VpnServer

VARIABLE part

MCComponent == {"dns.upstream_udp", "gateway.firewall", "gateway.routes", "vpn_server.endpoint"}
MCCritical == MCComponent \ {"vpn_server.endpoint"}

Tasks == IF part = "shared" THEN {CHOOSE w \in QueryTask : TRUE} ELSE QueryTask

MCInit ==
    /\ HealthInit /\ VpnServerInit
    /\ part \in {"shared", "settling", "vpn_server"}
    /\ part # "vpn_server" => peer = NoPeer /\ endpoint = NoEndpoint

DnsMonitor ==
    /\ part # "vpn_server" /\ UNCHANGED vpn_vars
    /\ \/ part = "shared" /\ Monitors
       \/ part = "settling" /\ Settle
       \/ HealthTick \/ Publication
       \/ \E w \in Tasks : Record(w)

MCNext ==
    /\ \/ DnsMonitor
       \/ part = "vpn_server" /\ VpnServerNext /\ UNCHANGED health_vars
    /\ UNCHANGED part

\* Fairness is about the behaviours that may settle.
MCFairSpec ==
    /\ MCInit /\ [][MCNext]_<<health_vars, vpn_vars, part>>
    /\ part = "settling" => Fairness
==============================================================================
