--------------------------- MODULE IsolationPolicy ---------------------------
(***************************************************************************)
(* Peer isolation on the enrolled bridge, as a function of what was        *)
(* discovered: build_policy, screen_kubernetes_candidates and the rules of *)
(* render_bridge_policy in src/src/isolation.rs.  Addresses, MACs and      *)
(* identities are values; an allow or accept list is a set of identities   *)
(* and, perhaps, Malformed; ports and protocols are one service; counters, *)
(* IPv6 and ARP rules are left out.  A rule set is what its rules, taken   *)
(* in their order, decide about a frame.                                   *)
(***************************************************************************)
EXTENDS Naturals, FiniteSets

CONSTANTS Identity,          \* the valid isolation identities
          Malformed,         \* a text that does not parse
          Missing,           \* no label, no MAC
          BoundRange,        \* the addresses of kubernetes.address_range
          Gateway            \* the address of the egress gateway

Docker(cs) == {c \in cs : c.source = "Docker"}
Pods(cs) == cs \ Docker(cs)
Clash(c, d) == \/ c.address = d.address
               \/ c.mac = d.mac /\ c.mac # Missing
               \/ c.identity = d.identity

\* Docker wins, and pods that clash with one another all lose.
screen_kubernetes_candidates(cs) ==
    LET remaining == {p \in Pods(cs) : /\ p.identity \in Identity
                                       /\ \A d \in Docker(cs) : ~Clash(p, d)}
    IN Docker(cs) \cup {p \in remaining : \A q \in remaining \ {p} : ~Clash(p, q)}

Unique(kept, i) == Cardinality({c \in kept : c.identity = i}) = 1
Owner(kept, i) == CHOOSE c \in kept : c.identity = i

\* One entry that does not parse voids an allow-list; of an accept-list it
\* voids only itself.
parse_allow_list(c) == IF Malformed \in c.allow THEN {} ELSE c.allow

\* Planted fault: what a pod allows needs no consent.
faulty_allowances(kept, c) ==
    {Owner(kept, i).address : i \in {j \in parse_allow_list(c) : Unique(kept, j)}}

\* The destinations of a candidate's allow-list that resolve; those of a pod
\* only when the destination accepts it.
allowances(kept, c) ==
    {Owner(kept, i).address :
        i \in {j \in parse_allow_list(c) : /\ Unique(kept, j)
                                 /\ \/ c.source = "Docker"
                                    \/ c.identity \in Owner(kept, j).accept}}

HasIssues(kept) ==
    \/ \E c \in kept : c.identity \notin Identity
    \/ \E c \in kept : \E d \in kept \ {c} :
          \/ c.identity = d.identity /\ c.identity \in Identity
          \/ c.address = d.address
          \/ c.mac = d.mac /\ c.mac # Missing /\ c.address # d.address
    \/ \E c \in Docker(kept) :
          \/ Malformed \in c.allow
          \/ Malformed \in c.accept /\ c.identity \in Identity /\ Unique(kept, c.identity)
          \/ \E i \in parse_allow_list(c) : ~Unique(kept, i)

\* A MAC is bound to its address unless either is claimed twice.
BoundMac(kept, c) ==
    IF /\ c.mac # Missing
       /\ \A d \in kept \ {c} : d.address # c.address
       /\ \A d \in kept : d.mac = c.mac => d.address = c.address
    THEN c.mac ELSE Missing

build_policy(cs) ==
    LET kept == screen_kubernetes_candidates(cs)
    IN [participants |-> {[id |-> c.id, address |-> c.address, mac |-> BoundMac(kept, c),
                           allowances |-> allowances(kept, c)] : c \in kept},
        rejected |-> {c.id : c \in cs \ kept},
        eligible |-> kept # {} /\ ~HasIssues(kept)]

----------------------------------------------------------------------------
\* render_bridge_policy.  The mode is the effective one.

effective_mode(policy, requested) ==
    IF requested = "Enforce" /\ ~policy.eligible THEN "Audit" ELSE requested

verdict(mode) == IF mode = "Enforce" THEN "drop" ELSE "accept"

\* Planted fault: an address that is bound may come from any MAC.
faulty_render_address_bindings(policy, frame) ==
    LET Bound == {p \in policy.participants : p.mac # Missing}
    IN \/ \E p \in Bound : /\ frame.mac = p.mac /\ frame.src # p.address
                           /\ p.address # Gateway
       \/ frame.src \in BoundRange \ {p.address : p \in Bound}

\* Whether the anti-spoof rules drop a frame, in whatever mode
render_address_bindings(policy, frame) ==
    LET Bound == {p \in policy.participants : p.mac # Missing}
    IN \/ \E p \in Bound : \/ frame.src = p.address /\ frame.mac # p.mac
                           \/ /\ frame.mac = p.mac /\ frame.src # p.address
                              /\ p.address # Gateway
       \/ frame.src \in BoundRange \ {p.address : p \in Bound}

\* The chain: bindings, connection tracking (established, DNAT), allowances,
\* then the verdict of the mode for everything within the subnet.
render_bridge_policy(policy, requested, frame) ==
    LET mode == effective_mode(policy, requested)
        Allowed == \E p \in policy.participants :
                      p.address = frame.src /\ frame.dst \in p.allowances
    IN IF mode = "Disabled" THEN "accept"
       ELSE IF render_address_bindings(policy, frame) THEN "drop"
       ELSE IF frame.tracked \/ Allowed THEN "accept"
       ELSE verdict(mode)
----------------------------------------------------------------------------
\* What the labels ask for, read off the candidates: the source names the
\* destination, and a pod is let in only where it is accepted by name.
Wanted(c, d) == /\ Malformed \notin c.allow /\ d.identity \in c.allow
                /\ c.source # "Docker" => c.identity \in d.accept
==============================================================================
