--------------------------- MODULE GatewayFirewall ---------------------------
(***************************************************************************)
(* The gateway's packet path under render_gateway_firewall                 *)
(* (src/src/host.rs): the forward, prerouting and postrouting chains of    *)
(* table "inet egressy", evaluated in their order, over the kernel's       *)
(* connection tracking.  Tracked flows outlive what they were opened       *)
(* under: the tunnel and its routes come and go, the forwards and counter  *)
(* rules are replaced with the whole table, and somebody else may flush    *)
(* the table for a while.                                                  *)
(*                                                                         *)
(* A flow is opened by an enrolled client towards the internet, by an      *)
(* internet peer towards a forwarded port, or by a host on the uplink side *)
(* towards a client.  Addresses are reduced to the side they are on; the   *)
(* input chain and traffic between two clients, which the bridge carries   *)
(* past the gateway, are left out.                                         *)
(***************************************************************************)
CONSTANTS Enrolled,      \* enrolled clients
          Ipv6Routing,   \* config.network.ipv6_routing
          Nobody, NoPacket

ASSUME FirewallAssumption ==
    Ipv6Routing \in BOOLEAN /\ Nobody \notin Enrolled

Family == IF Ipv6Routing THEN {"ipv4", "ipv6"} ELSE {"ipv4"}

\* service is the port the flow is opened to: DNS, or any other
Flow == [client : Enrolled, opener : {"client", "peer", "uplink"},
         family : Family, service : {"dns", "other"}]

\* dir is "out" away from the client and "in" towards it
Packet == [flow : Flow, dir : {"out", "in"}, iif : {"bridge", "tunnel", "uplink"},
           oif : {"bridge", "tunnel", "uplink"}]

ASSUME FirewallNullAssumption == NoPacket \notin Packet

VARIABLES table,     \* the table is installed
          forward,   \* the client its DNAT rule sends inbound flows to
          counters,  \* clients its counter rules name, by family
          tunnel,    \* the tunnel interface exists
          route,     \* where the kernel sends an enrolled packet, by family
          track,     \* connection tracking: per flow, how far it got
          bare,      \* history: flows opened while there was no table
          last,      \* history: the latest forwarded packet
          counted    \* history: the clients it was counted for

ruleset == <<table, forward, counters>>
history == <<bare, last, counted>>
fw_vars == <<ruleset, tunnel, route, track, history>>
------------------------------------------------------------------------------
(* What the rules match. *)

FromEnrolled(p) == p.dir = "out"

\* ip saddr S ip daddr != S oifname != tunnel drop, and the reverse
LeakGuard(p) ==
    \/ FromEnrolled(p) /\ p.oif # "tunnel"
    \/ ~FromEnrolled(p) /\ p.iif # "tunnel"

\* The packet travels in the direction its flow was opened in.
Opening(p) == FromEnrolled(p) <=> p.flow.opener = "client"

Established(p) ==
    \/ track[p.flow] = "replied"
    \/ track[p.flow] = "opened" /\ ~Opening(p)

\* udp and tcp dport 53 to anything but the gateway.  A reply to a peer carries
\* the peer's port as its destination, and is established.
ClientDns(p) == FromEnrolled(p) /\ p.flow.opener = "client" /\ p.flow.service = "dns"

\* oifname tunnel accept for both families, iifname tunnel accept for IPv4 only
TunnelAccept(p) ==
    \/ FromEnrolled(p) /\ p.oif = "tunnel"
    \/ ~FromEnrolled(p) /\ p.iif = "tunnel" /\ p.flow.family = "ipv4"

\* Planted fault: established flows are accepted before the guards.
FaultyForwardChain(p) ==
    IF ~table \/ Established(p) THEN "accept"
    ELSE IF LeakGuard(p) THEN "drop"
    ELSE IF ClientDns(p) THEN "reject"
    ELSE IF TunnelAccept(p) THEN "accept"
    ELSE "drop"

\* Planted fault: the DNS rejects follow the tunnel accepts.
FaultyDnsForwardChain(p) ==
    IF table /\ LeakGuard(p) THEN "drop"
    ELSE IF ~table \/ Established(p) \/ TunnelAccept(p) THEN "accept"
    ELSE IF ClientDns(p) THEN "reject"
    ELSE "drop"

\* The forward chain, policy drop.  Without the table everything is forwarded.
ForwardChain(p) ==
    CASE ~table -> "accept"
      [] table /\ LeakGuard(p) -> "drop"
      [] OTHER -> IF Established(p) THEN "accept"
                  ELSE IF ClientDns(p) THEN "reject"
                  ELSE IF TunnelAccept(p) THEN "accept" ELSE "drop"

\* Planted fault: the counter rules follow the established accept.
FaultyCounterRules(p) ==
    {c \in {p.flow.client} : table /\ ~Established(p)
        /\ p.flow.client \in counters[p.flow.family]
        /\ IF FromEnrolled(p) THEN p.oif = "tunnel" ELSE p.iif = "tunnel"}

\* The counter rules, at the head of the forward chain.
CounterRules(p) ==
    {c \in {p.flow.client} : table
        /\ p.flow.client \in counters[p.flow.family]
        /\ IF FromEnrolled(p) THEN p.oif = "tunnel" ELSE p.iif = "tunnel"}

\* prerouting: an inbound packet reaches the client when a DNAT rule names it
\* (IPv4 only), or when its flow is tracked; otherwise it is for the gateway
\* itself.  An uplink host addresses the client directly.
Addressed(p) ==
    \/ FromEnrolled(p)
    \/ track[p.flow] # "none"
    \/ /\ p.flow.opener = "peer" /\ p.iif = "tunnel" /\ p.flow.family = "ipv4"
       /\ table /\ forward = p.flow.client
    \/ p.flow.opener = "uplink" /\ p.iif = "uplink"

\* postrouting masquerades what a client opens through the tunnel; a flow keeps
\* the translation, or the lack of one, that it was opened with.
Masqueraded(f) == f.opener = "client" /\ f \notin bare
------------------------------------------------------------------------------
FirewallInit ==
    /\ table = FALSE /\ forward = Nobody /\ counters = [f \in Family |-> {}]
    /\ tunnel = FALSE /\ route = [f \in Family |-> "uplink"]
    /\ track = [f \in Flow |-> "none"]
    /\ bare = {} /\ last = NoPacket /\ counted = {}

\* Interfaces a packet can come in and leave by.
Routed(p) ==
    /\ FromEnrolled(p) => p.iif = "bridge" /\ p.oif = route[p.flow.family]
    /\ ~FromEnrolled(p) => p.iif # "bridge" /\ p.oif = "bridge"
    /\ "tunnel" \in {p.iif, p.oif} => tunnel

\* The kernel forwards a packet.  One that no entry knows opens a flow in its
\* own direction; the entry is confirmed once the packet has left.
Forward(p) ==
    /\ Routed(p) /\ Addressed(p)
    /\ ~Opening(p) => track[p.flow] # "none"
    /\ ForwardChain(p) = "accept"
    /\ track' = [track EXCEPT ![p.flow] =
                   IF @ = "none" THEN "opened" ELSE IF Opening(p) THEN @ ELSE "replied"]
    /\ bare' = IF track[p.flow] = "none" /\ ~table THEN bare \cup {p.flow} ELSE bare
    /\ last' = p /\ counted' = CounterRules(p)
    /\ UNCHANGED <<ruleset, tunnel, route>>

\* A refused packet leaves no entry, and none that is there is removed.
Refuse(p) ==
    /\ Routed(p) /\ Addressed(p)
    /\ ForwardChain(p) # "accept"
    /\ last' = NoPacket /\ counted' = {}
    /\ UNCHANGED <<ruleset, tunnel, route, track, bare>>

\* The enforcement coordinator commits a whole new table; tracked flows stay.
Commit(target, clients) ==
    /\ table' = TRUE /\ forward' = target /\ counters' = clients
    /\ last' = NoPacket /\ counted' = {}
    /\ UNCHANGED <<tunnel, route, track, bare>>

Flush ==
    /\ table /\ table' = FALSE /\ forward' = Nobody
    /\ counters' = [f \in Family |-> {}]
    /\ last' = NoPacket /\ counted' = {}
    /\ UNCHANGED <<tunnel, route, track, bare>>

TunnelUp(r) ==
    /\ tunnel' = TRUE /\ route' = r
    /\ last' = NoPacket /\ counted' = {}
    /\ UNCHANGED <<ruleset, track, bare>>

\* The interface goes, its routes and the masqueraded flows with it; flows that
\* a DNAT rule opened are not masqueraded and stay.
TunnelDown ==
    /\ tunnel /\ tunnel' = FALSE
    /\ route' = [f \in Family |-> "uplink"]
    /\ track' = [f \in Flow |-> IF Masqueraded(f) THEN "none" ELSE track[f]]
    /\ last' = NoPacket /\ counted' = {}
    /\ UNCHANGED <<ruleset, bare>>

\* A tracked flow times out.
Expire(f) ==
    /\ track[f] # "none" /\ track' = [track EXCEPT ![f] = "none"]
    /\ bare' = bare \ {f}
    /\ last' = NoPacket /\ counted' = {}
    /\ UNCHANGED <<ruleset, tunnel, route>>

FirewallNext ==
    \/ \E p \in Packet : Forward(p) \/ Refuse(p)
    \/ \E t \in Enrolled \cup {Nobody}, c \in [Family -> SUBSET Enrolled] : Commit(t, c)
    \/ Flush
    \/ \E r \in [Family -> {"tunnel", "uplink"}] : TunnelUp(r)
    \/ TunnelDown
    \/ \E f \in Flow : Expire(f)

FirewallSpec == FirewallInit /\ [][FirewallNext]_fw_vars
------------------------------------------------------------------------------
\* Every variable has its type.
FirewallTypeOK ==
    /\ table \in BOOLEAN /\ forward \in Enrolled \cup {Nobody}
    /\ counters \in [Family -> SUBSET Enrolled]
    /\ tunnel \in BOOLEAN /\ route \in [Family -> {"tunnel", "uplink"}]
    /\ track \in [Flow -> {"none", "opened", "replied"}]
    /\ bare \subseteq Flow /\ last \in Packet \cup {NoPacket}
    /\ counted \subseteq Enrolled

\* A packet that the table forwards crosses between the enrolled subnet and the
\* rest of the world through the tunnel only, also for a flow that was opened
\* through a tunnel that has gone since, or while there was no table ("Enrolled
\* traffic may only cross the gateway through the tunnel, and this is checked
\* before the established accept", render_gateway_firewall).
OnlyThroughTunnel ==
    last # NoPacket /\ table =>
        (IF FromEnrolled(last) THEN last.oif ELSE last.iif) = "tunnel"

\* A DNS flow of a client never passes the gateway, whatever replaces or
\* restores the table, unless it was opened while there was none.
DnsStaysLocal ==
    last # NoPacket /\ table /\ ClientDns(last) => last.flow \in bare

\* Every packet that the table forwards for a client with a counter rule is
\* counted for that client, in both families and both directions, the packets
\* of established flows included.
CountedWhole ==
    last # NoPacket /\ table /\ last.flow.client \in counters[last.flow.family] =>
        counted = {last.flow.client}
==============================================================================
