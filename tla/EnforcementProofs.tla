-------------------------- MODULE EnforcementProofs --------------------------
(***************************************************************************)
(* Forwarding from the provider to the packet, proved: the coordinator for *)
(* every set of usage identities, containers, addresses, ports and         *)
(* inventories; the packet path for any set of enrolled clients, with or   *)
(* without IPv6; the NAT-PMP requests for any ports, lifetimes and waits.  *)
(* And what becomes of a published transition: the history for any number  *)
(* of handles, every capacity of channel and queue and any number of       *)
(* faults.                                                                 *)
(***************************************************************************)
EXTENDS Enforcement, GatewayFirewall, NatPmp, History, TLAPS

----------------------------------------------------------------------------
(* The coordinator *)

\* A removed table holds no forwards, and without apply_gateway_firewall there
\* is never a table.
AbsentTable ==
    /\ ~table_present => kernel_dnat = NoForwards
    /\ ~ApplyGatewayFirewall => ~table_present

\* The inductive invariant.  KernelOwned follows from it but is not inductive on
\* its own: a commit copies desired_dnat into the kernel, so the desired map has
\* to be owned before the step, and a step that edits only the policy needs the
\* kernel to be equal to the desired map.
Inv == TypeOK /\ DesiredOwned /\ SettledKernel /\ AbsentTable

\* select_dnat_targets gives every usage identity a target or none.
LEMMA SelectType ==
    ASSUME NEW inv \in Inventories
    PROVE  select_dnat_targets(inv) \in [Usage -> Target \cup {NoTarget}]
<1> SUFFICES ASSUME NEW u \in Usage
             PROVE select_dnat_targets(inv)[u] \in Target \cup {NoTarget}
  BY DEF select_dnat_targets
<1>1. CASE \E c \in Container : Eligible(inv, c) /\ inv[c].usage_id = u
  <2> DEFINE e == CHOOSE c \in Container : Eligible(inv, c) /\ inv[c].usage_id = u
  <2>1. e \in Container /\ Eligible(inv, e)
    BY <1>1
  <2>2. inv[e] \in Client
    BY <2>1, InventoriesAssumption DEF Eligible
  <2>3. DnatTarget(inv, e) \in Target
    BY <2>1, <2>2 DEF DnatTarget, Target, Client, Eligible
  <2> QED
    BY <1>1, <2>3 DEF select_dnat_targets
<1>2. CASE ~\E c \in Container : Eligible(inv, c) /\ inv[c].usage_id = u
  BY <1>2 DEF select_dnat_targets
<1> QED
  BY <1>1, <1>2

\* The empty map is a forward map and is owned under every policy.
LEMMA NoForwardsOwned ==
    /\ NoForwards \in ForwardMap
    /\ \A allowed, targets : Owned(allowed, targets, NoForwards)
BY DEF NoForwards, ForwardMap, Owned

\* tunnel_dnat forwards to the address and port of its target.
LEMMA TunnelDnat ==
    ASSUME NEW mapping, NEW target
    PROVE  /\ tunnel_dnat(mapping, target).address = target.address
           /\ tunnel_dnat(mapping, target).port = target.port
BY DEF tunnel_dnat

\* A commit of an owned map keeps the parts of the invariant about the kernel.
LEMMA CommitKeeps ==
    ASSUME Inv, NEW ok \in BOOLEAN, desired_dnat' \in ForwardMap,
           apply_locked(desired_dnat', ok)
    PROVE  /\ applied_dnat' \in ForwardMap
           /\ table_present' \in BOOLEAN
           /\ kernel_dnat' \in ForwardMap
           /\ settled' \in BOOLEAN
           /\ SettledKernel'
           /\ AbsentTable'
<1>1. CASE ApplyGatewayFirewall
  BY <1>1 DEF Inv, TypeOK, SettledKernel, AbsentTable, apply_locked
<1>2. CASE ~ApplyGatewayFirewall
  BY <1>2 DEF Inv, TypeOK, SettledKernel, AbsentTable, apply_locked
<1> QED
  BY <1>1, <1>2

\* A fresh coordinator satisfies the invariant: no forwards, no table.
LEMMA InitInv == Init => Inv
BY NoForwardsOwned, ConfigAssumption, Zenon
   DEF Init, Inv, TypeOK, DesiredOwned, SettledKernel, AbsentTable

\* Every operation of the coordinator, failed and cancelled ones included, and an
\* external flush preserve the invariant.
LEMMA StepInv == Inv /\ [Next]_vars => Inv'
<1> SUFFICES ASSUME Inv, [Next]_vars
             PROVE  Inv'
  OBVIOUS
<1> USE ConfigAssumption, NullAssumption
<1>1. ASSUME NEW ok \in BOOLEAN, reconcile_base(ok)
      PROVE  Inv'
  <2>1. desired_dnat' = desired_dnat /\ apply_locked(desired_dnat', ok)
    BY <1>1 DEF reconcile_base
  <2>2. desired_dnat' \in ForwardMap
    BY <2>1 DEF Inv, TypeOK
  <2>3. DesiredOwned'
    BY <1>1 DEF Inv, DesiredOwned, Owned, reconcile_base
  <2> QED
    BY <1>1, <2>1, <2>2, <2>3, CommitKeeps DEF Inv, TypeOK, reconcile_base
<1>2. CASE reconcile_base_cancelled
  <2>1. TypeOK' /\ SettledKernel' /\ AbsentTable'
    BY <1>2, Zenon DEF Inv, TypeOK, SettledKernel, AbsentTable, reconcile_base_cancelled
  <2>2. DesiredOwned'
    BY <1>2 DEF Inv, DesiredOwned, Owned, reconcile_base_cancelled
  <2> QED
    BY <2>1, <2>2 DEF Inv
<1>3. CASE enable_dnat
  <2>1. TypeOK' /\ SettledKernel' /\ AbsentTable'
    BY <1>3 DEF Inv, TypeOK, SettledKernel, AbsentTable, enable_dnat
  <2>2. DesiredOwned'
    BY <1>3 DEF Inv, DesiredOwned, Owned, enable_dnat
  <2> QED
    BY <2>1, <2>2 DEF Inv
<1>4. ASSUME NEW ok \in BOOLEAN, disable_dnat(ok)
      PROVE  Inv'
  <2>1. desired_dnat' = NoForwards /\ apply_locked(desired_dnat', ok)
    BY <1>4 DEF disable_dnat
  <2>2. desired_dnat' \in ForwardMap /\ DesiredOwned'
    BY <2>1, NoForwardsOwned DEF DesiredOwned
  <2> QED
    BY <1>4, <2>1, <2>2, CommitKeeps, Zenon DEF Inv, TypeOK, disable_dnat
<1>5. ASSUME NEW u \in Usage, NEW target \in Target, NEW d \in Dnat,
             NEW ok \in BOOLEAN, d = tunnel_dnat(d.lease, target),
             set_dnat_for_target(u, d, target, ok)
      PROVE  Inv'
  <2>1. /\ desired_dnat' = [desired_dnat EXCEPT ![u] = d]
        /\ apply_locked(desired_dnat', ok)
        /\ dnat_allowed' = dnat_allowed /\ dnat_targets' = dnat_targets
        /\ dnat_allowed /\ dnat_targets[u] = target
    BY <1>5 DEF set_dnat_for_target, SetRefused, Inv, TypeOK
  <2>2. desired_dnat' \in ForwardMap
    BY <2>1 DEF Inv, TypeOK, ForwardMap
  <2>3. DesiredOwned'
    <3> SUFFICES ASSUME NEW v \in Usage, desired_dnat'[v] # NoDnat
                 PROVE  /\ dnat_allowed'
                        /\ dnat_targets'[v] # NoTarget
                        /\ desired_dnat'[v].address = dnat_targets'[v].address
                        /\ desired_dnat'[v].port = dnat_targets'[v].port
      BY DEF DesiredOwned, Owned
    <3>1. CASE v = u
      BY <1>5, <2>1, <3>1, TunnelDnat DEF Inv, TypeOK, ForwardMap
    <3>2. CASE v # u
      BY <2>1, <3>2 DEF Inv, TypeOK, ForwardMap, DesiredOwned, Owned
    <3> QED
      BY <3>1, <3>2
  <2> QED
    BY <2>1, <2>2, <2>3, CommitKeeps, Zenon DEF Inv, TypeOK
<1>6. ASSUME NEW u \in Usage, NEW ok \in BOOLEAN, clear_dnat_for_usage(u, ok)
      PROVE  Inv'
  <2>1. /\ desired_dnat' = [desired_dnat EXCEPT ![u] = NoDnat]
        /\ apply_locked(desired_dnat', ok)
        /\ dnat_allowed' = dnat_allowed /\ dnat_targets' = dnat_targets
    BY <1>6 DEF clear_dnat_for_usage
  <2>2. desired_dnat' \in ForwardMap
    BY <2>1 DEF Inv, TypeOK, ForwardMap
  <2>3. DesiredOwned'
    BY <2>1 DEF Inv, TypeOK, ForwardMap, DesiredOwned, Owned
  <2> QED
    BY <2>1, <2>2, <2>3, CommitKeeps, Zenon DEF Inv, TypeOK
<1>7. ASSUME NEW inv \in Inventories, NEW ok \in BOOLEAN, reconcile_clients(inv, ok)
      PROVE  Inv'
  <2>1. /\ dnat_targets' = select_dnat_targets(inv)
        /\ desired_dnat' = [u \in Usage |-> IF dnat_targets[u] = dnat_targets'[u]
                                            THEN desired_dnat[u] ELSE NoDnat]
        /\ apply_locked(desired_dnat', ok)
        /\ dnat_allowed' = dnat_allowed
    BY <1>7 DEF reconcile_clients
  <2>2. dnat_targets' \in [Usage -> Target \cup {NoTarget}]
    BY <2>1, SelectType
  <2>3. desired_dnat' \in ForwardMap
    BY <2>1 DEF Inv, TypeOK, ForwardMap
  <2>4. DesiredOwned'
    BY <2>1 DEF Inv, DesiredOwned, Owned
  <2> QED
    BY <2>1, <2>2, <2>3, <2>4, CommitKeeps DEF Inv, TypeOK
<1>8. CASE ExternalFlush
  <2>1. TypeOK' /\ SettledKernel' /\ AbsentTable'
    BY <1>8, NoForwardsOwned, Zenon
       DEF Inv, TypeOK, SettledKernel, AbsentTable, ExternalFlush
  <2>2. DesiredOwned'
    BY <1>8 DEF Inv, DesiredOwned, Owned, ExternalFlush
  <2> QED
    BY <2>1, <2>2 DEF Inv
<1>9. CASE UNCHANGED vars
  BY <1>9 DEF Inv, TypeOK, DesiredOwned, Owned, SettledKernel, AbsentTable, vars
<1> QED
  BY <1>1, <1>2, <1>3, <1>4, <1>5, <1>6, <1>7, <1>8, <1>9 DEF Next

\* The coordinator's fields and the kernel keep their shape.
THEOREM TypeCorrect == Spec => []TypeOK
<1>1. Inv => TypeOK
  BY DEF Inv
<1> QED
  BY InitInv, StepInv, <1>1, PTL DEF Spec

\* Once the last commit returned Ok, the kernel forwards only to the current
\* target of each usage identity, and not at all while DNAT is disabled.
THEOREM KernelAlwaysOwned == Spec => []KernelOwned
<1>1. Inv => KernelOwned
  <2> SUFFICES ASSUME Inv, settled
               PROVE  Owned(dnat_allowed, dnat_targets, kernel_dnat)
    BY DEF KernelOwned
  <2>1. CASE table_present
    BY <2>1 DEF Inv, SettledKernel, DesiredOwned
  <2>2. CASE ~table_present
    BY <2>2, NoForwardsOwned DEF Inv, AbsentTable
  <2> QED
    BY <2>1, <2>2 DEF Inv, TypeOK
<1> QED
  BY InitInv, StepInv, <1>1, PTL DEF Spec

\* In every step the kernel keeps its forwards, loses them, or gets the desired
\* map of the state the step leads to.
LEMMA KernelSteps ==
    ASSUME [Next]_vars
    PROVE  kernel_dnat' \in {kernel_dnat, NoForwards, desired_dnat'}
<1>1. ASSUME NEW d, NEW ok \in BOOLEAN, apply_locked(d, ok)
      PROVE  kernel_dnat' \in {kernel_dnat, d}
  BY <1>1 DEF apply_locked
<1>2. CASE \E ok \in BOOLEAN : reconcile_base(ok)
  BY <1>2, <1>1 DEF reconcile_base
<1>3. CASE reconcile_base_cancelled
  BY <1>3 DEF reconcile_base_cancelled
<1>4. CASE enable_dnat
  BY <1>4 DEF enable_dnat
<1>5. CASE \E ok \in BOOLEAN : disable_dnat(ok)
  BY <1>5, <1>1 DEF disable_dnat
<1>6. CASE \E u \in Usage, target \in Target, dnat \in Dnat, ok \in BOOLEAN :
             /\ dnat = tunnel_dnat(dnat.lease, target)
             /\ set_dnat_for_target(u, dnat, target, ok)
  BY <1>6, <1>1, Zenon DEF set_dnat_for_target
<1>7. CASE \E u \in Usage, ok \in BOOLEAN : clear_dnat_for_usage(u, ok)
  BY <1>7, <1>1, Zenon DEF clear_dnat_for_usage
<1>8. CASE \E inv \in Inventories, ok \in BOOLEAN : reconcile_clients(inv, ok)
  BY <1>8, <1>1 DEF reconcile_clients
<1>9. CASE ExternalFlush
  BY <1>9 DEF ExternalFlush
<1>10. CASE UNCHANGED vars
  BY <1>10 DEF vars
<1> QED
  BY <1>2, <1>3, <1>4, <1>5, <1>6, <1>7, <1>8, <1>9, <1>10 DEF Next

\* No operation puts a forward into the kernel that the policy it leaves behind
\* does not own, whatever commits failed or were cancelled before.
THEOREM InstallsAlwaysOwned == Spec => InstallsOwned
<1> DEFINE A == \A u \in Usage :
                  kernel_dnat'[u] \notin {NoDnat, kernel_dnat[u]} =>
                     /\ dnat_allowed'
                     /\ dnat_targets'[u] # NoTarget
                     /\ kernel_dnat'[u].address = dnat_targets'[u].address
                     /\ kernel_dnat'[u].port = dnat_targets'[u].port
<1>1. Inv /\ [Next]_vars => [A]_vars
  <2> SUFFICES ASSUME Inv, [Next]_vars, NEW u \in Usage,
                      kernel_dnat'[u] \notin {NoDnat, kernel_dnat[u]}
               PROVE  /\ dnat_allowed'
                      /\ dnat_targets'[u] # NoTarget
                      /\ kernel_dnat'[u].address = dnat_targets'[u].address
                      /\ kernel_dnat'[u].port = dnat_targets'[u].port
    OBVIOUS
  <2>1. DesiredOwned'
    BY StepInv DEF Inv
  <2>2. kernel_dnat' = desired_dnat'
    BY KernelSteps DEF NoForwards
  <2> QED
    BY <2>1, <2>2 DEF DesiredOwned, Owned
<1> QED
  BY InitInv, StepInv, <1>1, PTL DEF Spec, InstallsOwned

----------------------------------------------------------------------------
(* The packet path.  DnsStaysLocal is about the latest packet only; what makes it
   inductive is that a tracked DNS flow of a client, which the established accept
   would let through, was opened without the table. *)

TrackedDnsIsBare ==
    \A f \in Flow : f.opener = "client" /\ f.service = "dns" /\ track[f] # "none" =>
        f \in bare

FirewallInv ==
    /\ track \in [Flow -> {"none", "opened", "replied"}]
    /\ last \in Packet \cup {NoPacket}
    /\ TrackedDnsIsBare
    /\ OnlyThroughTunnel /\ DnsStaysLocal /\ CountedWhole

\* Before the first packet nothing is tracked.
LEMMA FirewallInvInit == FirewallInit => FirewallInv
  BY FirewallNullAssumption
  DEF FirewallInit, FirewallInv, TrackedDnsIsBare, OnlyThroughTunnel, DnsStaysLocal,
      CountedWhole

\* What an accepted packet tells once the table is there.
LEMMA AcceptedByTable ==
  ASSUME NEW p \in Packet, table, ForwardChain(p) = "accept"
  PROVE  ~LeakGuard(p) /\ (Established(p) \/ ~ClientDns(p))
  <1>1. ~LeakGuard(p)
    BY DEF ForwardChain
  <1>2. Established(p) \/ ~ClientDns(p)
    BY <1>1 DEF ForwardChain
  <1> QED BY <1>1, <1>2

\* A packet on the forward path keeps the invariant, accepted or dropped.
LEMMA ForwardKeepsInv ==
  ASSUME NEW p \in Packet, FirewallInv, Forward(p)
  PROVE  FirewallInv'
  <1>1. p.flow \in Flow /\ p.dir \in {"out", "in"}
    BY DEF Packet
  <1>2. last' = p /\ p # NoPacket /\ table' = table
    BY FirewallNullAssumption DEF Forward, ruleset
  <1>3. track' \in [Flow -> {"none", "opened", "replied"}]
    BY <1>1 DEF FirewallInv, Forward
  <1>4. ASSUME table, ClientDns(p)
        PROVE  p.flow \in bare
    <2>1. track[p.flow] # "none"
      BY <1>4, AcceptedByTable DEF Forward, Established
    <2> QED BY <2>1, <1>1, <1>4 DEF FirewallInv, TrackedDnsIsBare, ClientDns
  <1>5. TrackedDnsIsBare'
    <2> SUFFICES ASSUME NEW f \in Flow, f.opener = "client", f.service = "dns",
                        track'[f] # "none"
                 PROVE  f \in bare'
      BY DEF TrackedDnsIsBare
    <2>1. bare \subseteq bare'
      BY DEF Forward
    <2>2. CASE track[f] # "none"
      BY <2>1, <2>2 DEF FirewallInv, TrackedDnsIsBare
    <2>3. CASE track[f] = "none"
      <3>1. f = p.flow
        BY <2>3, <1>1 DEF FirewallInv, Forward
      <3>2. CASE ~table
        BY <3>1, <3>2, <2>3 DEF Forward
      <3>3. CASE table
        <4>1. Opening(p)
          BY <3>1, <2>3 DEF Forward
        <4>2. ClientDns(p)
          BY <4>1, <3>1 DEF Opening, ClientDns
        <4> QED BY <4>2, <3>3, <1>4, <3>1, <2>1
      <3> QED BY <3>2, <3>3
    <2> QED BY <2>2, <2>3
  <1>6. OnlyThroughTunnel'
    <2> SUFFICES ASSUME table
                 PROVE  (IF FromEnrolled(p) THEN p.oif ELSE p.iif) = "tunnel"
      BY <1>2 DEF OnlyThroughTunnel, FromEnrolled
    <2> QED BY AcceptedByTable DEF Forward, LeakGuard
  <1>7. DnsStaysLocal'
    <2>1. ClientDns(last)' <=> ClientDns(p)
      BY <1>2 DEF ClientDns, FromEnrolled
    <2>2. bare \subseteq bare'
      BY DEF Forward
    <2> QED BY <2>1, <2>2, <1>2, <1>4 DEF DnsStaysLocal
  <1>8. CountedWhole'
    <2> SUFFICES ASSUME table, p.flow.client \in counters[p.flow.family]
                 PROVE  CounterRules(p) = {p.flow.client}
      BY <1>2 DEF CountedWhole, Forward, ruleset
    <2>1. IF FromEnrolled(p) THEN p.oif = "tunnel" ELSE p.iif = "tunnel"
      BY AcceptedByTable DEF Forward, LeakGuard
    <2> QED BY <2>1 DEF CounterRules
  <1> QED BY <1>2, <1>3, <1>5, <1>6, <1>7, <1>8 DEF FirewallInv

\* Any other step forgets the packet and forgets flows at most.
LEMMA OtherKeepsInv ==
  ASSUME FirewallInv, FirewallNext, last' = NoPacket
  PROVE  FirewallInv'
  <1>1. track' \in [Flow -> {"none", "opened", "replied"}]
        /\ \A f \in Flow : track'[f] # "none" => track'[f] = track[f] /\ (f \in bare => f \in bare')
    <2>1. ASSUME NEW p \in Packet, Forward(p)
          PROVE  FALSE
      BY <2>1, FirewallNullAssumption DEF Forward
    <2>2. ASSUME NEW p \in Packet, Refuse(p) PROVE <1>1!1 /\ <1>1!2
      BY <2>2 DEF Refuse, FirewallInv
    <2>3. ASSUME NEW t, NEW c, Commit(t, c) PROVE <1>1!1 /\ <1>1!2
      BY <2>3 DEF Commit, FirewallInv
    <2>4. ASSUME Flush PROVE <1>1!1 /\ <1>1!2
      BY <2>4 DEF Flush, FirewallInv
    <2>5. ASSUME NEW r, TunnelUp(r) PROVE <1>1!1 /\ <1>1!2
      BY <2>5 DEF TunnelUp, FirewallInv
    <2>6. ASSUME TunnelDown PROVE <1>1!1 /\ <1>1!2
      BY <2>6 DEF TunnelDown, FirewallInv
    <2>7. ASSUME NEW g \in Flow, Expire(g) PROVE <1>1!1 /\ <1>1!2
      BY <2>7 DEF Expire, FirewallInv
    <2> QED BY <2>1, <2>2, <2>3, <2>4, <2>5, <2>6, <2>7 DEF FirewallNext
  <1>2. TrackedDnsIsBare'
    BY <1>1 DEF FirewallInv, TrackedDnsIsBare
  <1> QED BY <1>1, <1>2 DEF FirewallInv, OnlyThroughTunnel, DnsStaysLocal, CountedWhole

\* So does every step of the packet path.
LEMMA FirewallStep == FirewallInv /\ [FirewallNext]_fw_vars => FirewallInv'
  <1> SUFFICES ASSUME FirewallInv, [FirewallNext]_fw_vars
               PROVE  FirewallInv'
    OBVIOUS
  <1>1. ASSUME NEW p \in Packet, Forward(p) PROVE FirewallInv'
    BY <1>1, ForwardKeepsInv
  <1>2. ASSUME FirewallNext, \A p \in Packet : ~Forward(p)
        PROVE  last' = NoPacket
    BY <1>2 DEF FirewallNext, Refuse, Commit, Flush, TunnelUp, TunnelDown, Expire
  <1>3. CASE UNCHANGED fw_vars
    BY <1>3 DEF FirewallInv, TrackedDnsIsBare, OnlyThroughTunnel, DnsStaysLocal,
                CountedWhole, fw_vars, ruleset, history, ClientDns, FromEnrolled
  <1> QED BY <1>1, <1>2, <1>3, OtherKeepsInv

\* So it always holds.
LEMMA FirewallAlwaysInv == FirewallSpec => []FirewallInv
  BY FirewallInvInit, FirewallStep, PTL DEF FirewallSpec

\* The leak guards of the forward chain hold for every flow, however it came to
\* be tracked, for every set of clients and in both families.
THEOREM TunnelIsOnlyPath == FirewallSpec => []OnlyThroughTunnel
  <1>1. FirewallInv => OnlyThroughTunnel
    BY DEF FirewallInv
  <1> QED BY <1>1, FirewallAlwaysInv, PTL

\* A client's DNS never passes the gateway except in a flow opened while there
\* was no table.
THEOREM DnsAlwaysLocal == FirewallSpec => []DnsStaysLocal
  <1>1. FirewallInv => DnsStaysLocal
    BY DEF FirewallInv
  <1> QED BY <1>1, FirewallAlwaysInv, PTL

\* No forwarded packet of a client with a counter rule escapes its counter.
THEOREM AlwaysCountedWhole == FirewallSpec => []CountedWhole
  <1>1. FirewallInv => CountedWhole
    BY DEF FirewallInv
  <1> QED BY <1>1, FirewallAlwaysInv, PTL

----------------------------------------------------------------------------
(* The NAT-PMP requests *)

\* What LeaseSymmetric rests on: the answers at the socket of a mapping were
\* granted to this request for this protocol, never for another, and the UDP answer
\* that is kept while TCP is asked for was granted to it too.
Answered ==
    /\ stage \in Proto => inbox \ {Refusal} \subseteq granted[stage] /\ asked \in ExternalPort
    /\ stage = "tcp" => udp \in granted["udp"]
    /\ stage # "idle" => wait # 0

RequestInv == NatPmpTypeOK /\ Answered

\* The gateway maps a port it has.
LEMMA MappedPort ==
    ASSUME NatPmpTypeOK, NEW p \in Proto, NEW e
    PROVE  Mapped(p, e) \subseteq ExternalPort
BY DEF Mapped, Free, NatPmpTypeOK

\* The symmetric mapping of two answers is an answer or none; it has the port of
\* both and the shorter lifetime.
LEMMA SymmetricMapping ==
    ASSUME NEW u \in Answer, NEW t \in Answer
    PROVE  LET m == request_symmetric_mapping(u, t)
           IN /\ m \in Answer \cup {NoAnswer}
              /\ m # NoAnswer => /\ m.external = u.external /\ m.external = t.external
                                 /\ m.lifetime <= u.lifetime /\ m.lifetime <= t.lifetime
<1>1. u.lifetime \in Nat /\ t.lifetime \in Nat /\ Lifetime \subseteq Nat
  BY NatPmpAssumption, Zenon DEF Answer
<1>2. \A m \in Answer : m # NoAnswer
  BY NatPmpAssumption
<1>3. CASE u.external # t.external
  BY <1>3 DEF request_symmetric_mapping
<1>4. CASE u.external = t.external
  <2> DEFINE l == IF u.lifetime < t.lifetime THEN u.lifetime ELSE t.lifetime
  <2>1. l \in Lifetime /\ l <= u.lifetime /\ l <= t.lifetime
    BY <1>1 DEF Answer
  <2>2. request_symmetric_mapping(u, t) = [external |-> u.external, lifetime |-> l]
    BY <1>4 DEF request_symmetric_mapping
  <2> HIDE DEF l
  <2>3. [external |-> u.external, lifetime |-> l] \in Answer
    BY <2>1 DEF Answer
  <2> QED
    BY <1>2, <1>4, <2>1, <2>2, <2>3
<1> QED
  BY <1>3, <1>4

\* The end of a request, with a mapping or without, leaves nothing of it.
LEMMA FinishKeeps ==
    ASSUME RequestInv, NEW result \in Answer \cup {NoAnswer}, Finish(result)
    PROVE  RequestInv'
<1>1. late' \subseteq [proto : Proto, asked : ExternalPort]
  <2>1. stage \in Proto => [proto |-> stage, asked |-> asked] \in [proto : Proto, asked : ExternalPort]
    BY DEF RequestInv, Answered
  <2> QED
    BY <2>1 DEF Finish, CloseSocket, RequestInv, NatPmpTypeOK
<1>2. assigned' \in ExternalPort \cup {NoExternal}
  BY DEF Finish, RequestInv, NatPmpTypeOK, Answer
<1>3. granted' \in [Proto -> SUBSET Answer] /\ 0 \in 0 .. (2 * WaitLimit - 1)
  BY NatPmpAssumption DEF Finish, NoGrants
<1>4. NatPmpTypeOK'
  BY <1>1, <1>2, <1>3 DEF Finish, provider, RequestInv, NatPmpTypeOK
<1>5. Answered'
  BY DEF Finish, Answered, Proto
<1> QED
  BY <1>4, <1>5 DEF RequestInv

\* Every step keeps the answers with the request they were given to.
LEMMA RequestStep == RequestInv /\ [NatPmpNext]_natpmp_vars => RequestInv'
<1> SUFFICES ASSUME RequestInv, [NatPmpNext]_natpmp_vars PROVE RequestInv'
  OBVIOUS
<1> USE NatPmpAssumption
<1>0. NatPmpTypeOK /\ Answered
  BY DEF RequestInv
<1>00. InitialWait \in 0 .. (2 * WaitLimit - 1) /\ InitialWait # 0
  OBVIOUS
<1>1. CASE external_address
  <2>1. Answered'
    BY <1>00, <1>1 DEF external_address, rpc, Answered, Proto
  <2>2. NatPmpTypeOK'
    BY <1>0, <1>00, <1>1 DEF external_address, rpc, NatPmpTypeOK, provider
  <2> QED
    BY <2>1, <2>2 DEF RequestInv
<1>2. CASE AddressKnown
  <2>1. requested_external \in ExternalPort
    BY <1>0 DEF requested_external, NatPmpTypeOK
  <2>2. Answered'
    BY <1>00, <1>2, <2>1 DEF AddressKnown, rpc, Answered
  <2>3. NatPmpTypeOK'
    BY <1>0, <1>00, <1>2, <2>1 DEF AddressKnown, rpc, NatPmpTypeOK, provider, Proto
  <2> QED
    BY <2>2, <2>3 DEF RequestInv
<1>3. ASSUME NEW a \in Answer, UdpGranted(a) PROVE RequestInv'
  <2>1. a.external \in ExternalPort /\ a \in granted["udp"]
    BY <1>0, <1>3 DEF UdpGranted, Answer, Answered, Proto
  <2>2. late' \subseteq [proto : Proto, asked : ExternalPort]
    <3>1. [proto |-> stage, asked |-> asked] \in [proto : Proto, asked : ExternalPort]
      BY <1>0, <1>3 DEF UdpGranted, Answered, Proto
    <3> QED
      BY <1>0, <1>3, <3>1 DEF UdpGranted, CloseSocket, NatPmpTypeOK
  <2>3. Answered'
    BY <1>00, <1>3, <2>1 DEF UdpGranted, rpc, Answered
  <2>4. NatPmpTypeOK'
    BY <1>0, <1>00, <1>3, <2>1, <2>2 DEF UdpGranted, rpc, NatPmpTypeOK, provider, Proto
  <2> QED
    BY <2>3, <2>4 DEF RequestInv
<1>4. ASSUME NEW a \in Answer, TcpGranted(a) PROVE RequestInv'
  <2>1. udp \in Answer
    BY <1>0, <1>4 DEF TcpGranted, Answered, NatPmpTypeOK, Proto
  <2>2. request_symmetric_mapping(udp, a) \in Answer \cup {NoAnswer}
    BY <2>1, SymmetricMapping
  <2> QED
    BY <1>4, <2>2, FinishKeeps DEF TcpGranted
<1>5. CASE Refused \/ SocketFails
  BY <1>5, FinishKeeps DEF Refused, SocketFails
<1>6. CASE Timeout
  <2>1. CASE wait < WaitLimit
    <3>1. 2 * wait \in 0 .. (2 * WaitLimit - 1) /\ 2 * wait # 0
      BY <1>0, <1>6, <2>1 DEF NatPmpTypeOK, Answered, Timeout
    <3>2. /\ wait' = 2 * wait
          /\ UNCHANGED <<stage, asked, inbox, udp, assigned, lease, late, provider, granted>>
      BY <1>6, <2>1 DEF Timeout
    <3>3. Answered'
      BY <1>0, <3>1, <3>2 DEF Answered
    <3>4. NatPmpTypeOK'
      BY <1>0, <3>1, <3>2 DEF NatPmpTypeOK, provider
    <3> QED
      BY <3>3, <3>4 DEF RequestInv
  <2>2. CASE ~(wait < WaitLimit)
    BY <1>6, <2>2, FinishKeeps DEF Timeout
  <2> QED
    BY <2>1, <2>2
<1>7. CASE GiveUpSlot
  BY <1>0, <1>7 DEF GiveUpSlot, RequestInv, NatPmpTypeOK, Answered, request, provider
<1>8. CASE GatewayAnswers
  <2>1. PICK e \in Mapped(stage, asked), l \in Lifetime :
          /\ held' = [held EXCEPT ![stage] = e]
          /\ inbox' = inbox \cup {[external |-> e, lifetime |-> l]}
          /\ granted' = [granted EXCEPT ![stage] = @ \cup {[external |-> e, lifetime |-> l]}]
    BY <1>8, Zenon DEF GatewayAnswers
  <2>2. /\ stage \in Proto
        /\ UNCHANGED <<stage, wait, asked, udp, assigned, lease, late, taken>>
    BY <1>8 DEF GatewayAnswers
  <2>3. e \in ExternalPort
    BY <1>0, <2>2, MappedPort
  <2> DEFINE a == [external |-> e, lifetime |-> l]
  <2>4. a \in Answer
    BY <2>3 DEF Answer
  <2>5. inbox' = inbox \cup {a} /\ granted' = [granted EXCEPT ![stage] = @ \cup {a}]
    BY <2>1
  <2> HIDE DEF a
  <2>6. /\ granted'[stage] = granted[stage] \cup {a}
        /\ granted' \in [Proto -> SUBSET Answer] /\ granted["udp"] \subseteq granted'["udp"]
    BY <1>0, <2>2, <2>4, <2>5 DEF NatPmpTypeOK, Proto
  <2>7. Answered'
    BY <1>0, <2>2, <2>5, <2>6 DEF Answered
  <2>8. NatPmpTypeOK'
    BY <1>0, <2>1, <2>2, <2>3, <2>4, <2>5, <2>6 DEF NatPmpTypeOK
  <2> QED
    BY <2>7, <2>8 DEF RequestInv
<1>9. CASE GatewayTellsAddress \/ GatewayRefuses
  <2>1. Answered'
    BY <1>0, <1>9 DEF GatewayTellsAddress, GatewayRefuses, Answered, Proto
  <2>2. NatPmpTypeOK'
    BY <1>0, <1>9 DEF GatewayTellsAddress, GatewayRefuses, NatPmpTypeOK, provider
  <2> QED
    BY <2>1, <2>2 DEF RequestInv
<1>10. ASSUME NEW r \in late, LateRequest(r) PROVE RequestInv'
  <2>1. r.proto \in Proto
    BY <1>0 DEF NatPmpTypeOK
  <2>2. PICK e \in ExternalPort : held' = [held EXCEPT ![r.proto] = e]
    BY <1>0, <1>10, <2>1, MappedPort, Zenon DEF LateRequest
  <2>3. late' \subseteq late /\ UNCHANGED <<request, assigned, lease, taken, granted>>
    BY <1>10 DEF LateRequest
  <2> QED
    BY <1>0, <2>1, <2>2, <2>3 DEF RequestInv, NatPmpTypeOK, Answered, request
<1>11. ASSUME NEW p \in Proto, GatewayForgets(p) PROVE RequestInv'
  BY <1>0, <1>11 DEF GatewayForgets, RequestInv, NatPmpTypeOK, Answered, request
<1>12. ASSUME NEW p \in Proto, NEW e \in ExternalPort, OtherCustomer(p, e) PROVE RequestInv'
  <2>1. taken' \subseteq Proto \X ExternalPort
    BY <1>0, <1>12 DEF OtherCustomer, NatPmpTypeOK
  <2>2. UNCHANGED <<request, assigned, lease, late, held, granted>>
    BY <1>12 DEF OtherCustomer
  <2> QED
    BY <1>0, <2>1, <2>2 DEF RequestInv, NatPmpTypeOK, Answered, request
<1>13. CASE UNCHANGED natpmp_vars
  BY <1>0, <1>13 DEF natpmp_vars, request, provider, RequestInv, NatPmpTypeOK, Answered
<1> QED
  BY <1>1, <1>2, <1>3, <1>4, <1>5, <1>6, <1>7, <1>8, <1>9, <1>10, <1>11, <1>12, <1>13
  DEF NatPmpNext, Exchange, Provider

\* The invariant holds from the first request on.
LEMMA RequestAlways == NatPmpSpec => []RequestInv
<1>1. NatPmpInit => RequestInv
  BY NatPmpAssumption
  DEF NatPmpInit, RequestInv, NatPmpTypeOK, Answered, NoGrants, Proto
<1> QED
  BY <1>1, RequestStep, PTL DEF NatPmpSpec

\* A mapping that request_symmetric_mapping returns was granted for UDP and for TCP
\* by answers to this very request, on one port and for at least its lifetime,
\* whatever is lost, repeated, reordered or late, and whatever ports and lifetimes
\* the gateway has.
THEOREM LeaseAlwaysSymmetric == NatPmpSpec => LeaseSymmetric
<1>1. ASSUME RequestInv, [NatPmpNext]_natpmp_vars, stage # "idle", stage' = "idle",
             lease' # NoAnswer
      PROVE  \A p \in Proto : \E a \in granted[p] :
                a.external = lease'.external /\ lease'.lifetime <= a.lifetime
  <2>1. NatPmpTypeOK /\ Answered
    BY <1>1 DEF RequestInv
  <2>2. \E a \in Answer : TcpGranted(a)
    BY <1>1, <2>1
    DEF NatPmpNext, Exchange, Provider, external_address, AddressKnown, rpc, UdpGranted, Refused,
        Timeout, SocketFails, GiveUpSlot, GatewayAnswers, GatewayTellsAddress, GatewayRefuses,
        LateRequest, GatewayForgets, OtherCustomer, Finish, natpmp_vars, request
  <2>3. PICK t \in Answer : TcpGranted(t)
    BY <2>2
  <2>4. /\ udp \in granted["udp"] /\ t \in granted["tcp"] /\ udp \in Answer
        /\ lease' = request_symmetric_mapping(udp, t)
    BY <2>1, <2>3 DEF TcpGranted, Finish, Answered, NatPmpTypeOK, Proto
  <2>5. /\ lease'.external = udp.external /\ lease'.external = t.external
        /\ lease'.lifetime <= udp.lifetime /\ lease'.lifetime <= t.lifetime
    BY <1>1, <2>4, SymmetricMapping
  <2> QED
    BY <2>4, <2>5, Zenon DEF Proto
<1>2. RequestInv /\ [NatPmpNext]_natpmp_vars =>
        [stage # "idle" /\ stage' = "idle" /\ lease' # NoAnswer =>
           \A p \in Proto : \E a \in granted[p] :
              a.external = lease'.external /\ lease'.lifetime <= a.lifetime]_natpmp_vars
  BY <1>1, Zenon
<1> QED
  BY <1>2, RequestAlways, PTL DEF NatPmpSpec, LeaseSymmetric
------------------------------------------------------------------------------
(* The history of transitions *)

\* The types, and that a writer that has ended, or was never opened, has nothing
\* queued
StoreShape == [alive : BOOLEAN, used : BOOLEAN, queue : Seq(Command), dropped : BOOLEAN]
StoreShapes ==
    /\ stores \in [Store -> StoreShape]
    /\ \A s \in Store : /\ Len(stores[s].queue) <= QueueCapacity
                        /\ stores[s].queue # <<>> => stores[s].alive
                        /\ stores[s].alive => stores[s].used
    /\ slot \in Store \cup {NoStore} /\ (slot # NoStore => stores[slot].used)
ChannelShapes ==
    /\ channel \in Seq(BOOLEAN) /\ Len(channel) <= ChannelCapacity
    /\ written \in Nat /\ fate \in Fate /\ subscribed \in BOOLEAN
TaskShapes ==
    /\ check.status \in {"Healthy", "Degraded"}
    /\ phase \in {"serving", "stopping", "drained", "exited"}
    /\ supervisor \in Task /\ query \in Task
    /\ supervisor.at = "send" => supervisor.store \in Store

\* Where the queue of a store, and the channel, has the followed transition
Queued(s) == Copies(stores[s].queue)
Marks(c) == {i \in DOMAIN c : c[i]}

\* The followed transition is in one place at most, it is somewhere or nowhere as its
\* fate says, and no writer has it before the recorder subscribed.
AtMostOne ==
    /\ \A i, j \in InChannel : i = j
    /\ \A s, t \in Store : \A i \in Queued(s), j \in Queued(t) : s = t /\ i = j
    /\ InChannel # {} => \A s \in Store : Queued(s) = {}
    /\ written <= 1
    /\ written = 1 => InChannel = {} /\ \A s \in Store : Queued(s) = {}
Somewhere == \/ written = 1 \/ InChannel # {}
             \/ \E s \in Store : Queued(s) # {}
Counted ==
    /\ AtMostOne
    /\ fate = "recorded" => Somewhere /\ subscribed
    /\ fate # "recorded" /\ ~(fate = "unheard" /\ ~subscribed) => ~Somewhere
    /\ ~subscribed => written = 0 /\ \A s \in Store : Queued(s) = {}

\* Positions are positive numbers; appending and taking the head move them as expected.
LEMMA CopiesOf ==
    ASSUME NEW q \in Seq(Command)
    PROVE  /\ Copies(q) \subseteq Nat \ {0}
           /\ Copies(<<>>) = {}
           /\ \A c \in Command :
                 /\ Copies(Append(q, c)) =
                       IF c = "followed" THEN Copies(q) \cup {Len(q) + 1} ELSE Copies(q)
                 /\ Append(q, c) \in Seq(Command) /\ Append(q, c) # <<>>
                 /\ Len(Append(q, c)) = Len(q) + 1
           /\ q # <<>> => /\ \A i \in Nat : i \in Copies(Tail(q)) <=> i > 0 /\ i + 1 \in Copies(q)
                          /\ Copies(Tail(q)) \subseteq Nat \ {0}
                          /\ 1 \in Copies(q) <=> Head(q) = "followed"
                          /\ Tail(q) \in Seq(Command) /\ Len(Tail(q)) = Len(q) - 1
                          /\ Head(q) \in Command
<1>1. Copies(q) \subseteq Nat \ {0} /\ Copies(<<>>) = {}
  BY DEF Copies
<1>2. ASSUME NEW c \in Command
      PROVE  /\ Copies(Append(q, c)) =
                   IF c = "followed" THEN Copies(q) \cup {Len(q) + 1} ELSE Copies(q)
             /\ Append(q, c) \in Seq(Command) /\ Append(q, c) # <<>>
             /\ Len(Append(q, c)) = Len(q) + 1
  <2>1. /\ DOMAIN Append(q, c) = 1 .. Len(q) + 1 /\ DOMAIN q = 1 .. Len(q) /\ Len(q) \in Nat
        /\ \A i \in 1 .. Len(q) : Append(q, c)[i] = q[i]
        /\ Append(q, c)[Len(q) + 1] = c
    OBVIOUS
  <2> QED
    BY <2>1 DEF Copies
<1>3. ASSUME q # <<>>
      PROVE  /\ \A i \in Nat : i \in Copies(Tail(q)) <=> i > 0 /\ i + 1 \in Copies(q)
             /\ Copies(Tail(q)) \subseteq Nat \ {0}
             /\ 1 \in Copies(q) <=> Head(q) = "followed"
             /\ Tail(q) \in Seq(Command) /\ Len(Tail(q)) = Len(q) - 1
             /\ Head(q) \in Command
  <2>1. /\ DOMAIN q = 1 .. Len(q) /\ Len(q) \in Nat /\ Len(q) > 0
        /\ DOMAIN Tail(q) = 1 .. Len(q) - 1
        /\ \A i \in 1 .. Len(q) - 1 : Tail(q)[i] = q[i + 1]
        /\ Tail(q) \in Seq(Command) /\ Len(Tail(q)) = Len(q) - 1 /\ Head(q) = q[1]
        /\ Head(q) \in Command
    BY <1>3
  <2> QED
    BY <2>1 DEF Copies
<1> QED
  BY <1>1, <1>2, <1>3

\* The same of the channel, where the followed transition is TRUE
LEMMA MarksOf ==
    ASSUME NEW c \in Seq(BOOLEAN)
    PROVE  /\ Marks(c) \subseteq Nat \ {0}
           /\ \A b \in BOOLEAN :
                 /\ Marks(Append(c, b)) =
                       IF b THEN Marks(c) \cup {Len(c) + 1} ELSE Marks(c)
                 /\ Append(c, b) \in Seq(BOOLEAN) /\ Len(Append(c, b)) = Len(c) + 1
           /\ c # <<>> => /\ \A i \in Nat :
                                i \in Marks(Tail(c)) <=> i > 0 /\ i + 1 \in Marks(c)
                          /\ Marks(Tail(c)) \subseteq Nat \ {0}
                          /\ 1 \in Marks(c) <=> Head(c)
                          /\ Tail(c) \in Seq(BOOLEAN) /\ Len(Tail(c)) = Len(c) - 1
                          /\ Head(c) \in BOOLEAN
<1>1. Marks(c) \subseteq Nat \ {0}
  BY DEF Marks
<1>2. ASSUME NEW b \in BOOLEAN
      PROVE  /\ Marks(Append(c, b)) = IF b THEN Marks(c) \cup {Len(c) + 1} ELSE Marks(c)
             /\ Append(c, b) \in Seq(BOOLEAN) /\ Len(Append(c, b)) = Len(c) + 1
  <2>1. /\ DOMAIN Append(c, b) = 1 .. Len(c) + 1 /\ DOMAIN c = 1 .. Len(c) /\ Len(c) \in Nat
        /\ \A i \in 1 .. Len(c) : Append(c, b)[i] = c[i]
        /\ Append(c, b)[Len(c) + 1] = b
        /\ Append(c, b) \in Seq(BOOLEAN) /\ Len(Append(c, b)) = Len(c) + 1
    OBVIOUS
  <2> QED
    BY <2>1 DEF Marks
<1>3. ASSUME c # <<>>
      PROVE  /\ \A i \in Nat : i \in Marks(Tail(c)) <=> i > 0 /\ i + 1 \in Marks(c)
             /\ Marks(Tail(c)) \subseteq Nat \ {0}
             /\ 1 \in Marks(c) <=> Head(c)
             /\ Tail(c) \in Seq(BOOLEAN) /\ Len(Tail(c)) = Len(c) - 1
             /\ Head(c) \in BOOLEAN
  <2>1. /\ DOMAIN c = 1 .. Len(c) /\ Len(c) \in Nat /\ Len(c) > 0
        /\ DOMAIN Tail(c) = 1 .. Len(c) - 1
        /\ \A i \in 1 .. Len(c) - 1 : Tail(c)[i] = c[i + 1]
        /\ Tail(c) \in Seq(BOOLEAN) /\ Len(Tail(c)) = Len(c) - 1 /\ Head(c) = c[1]
        /\ Head(c) \in BOOLEAN
    BY <1>3
  <2>2. /\ \A i \in Nat : i \in Marks(Tail(c)) <=> i > 0 /\ i + 1 \in Marks(c)
        /\ Marks(Tail(c)) \subseteq Nat \ {0}
    BY <2>1 DEF Marks
  <2>3. 1 \in DOMAIN c
    BY <2>1
  <2>4. 1 \in Marks(c) <=> Head(c)
    BY <2>1, <2>3, Zenon DEF Marks
  <2> QED
    BY <2>1, <2>2, <2>4, Zenon
<1> QED
  BY <1>1, <1>2, <1>3, Zenon

\* What Places counts is what AtMostOne and Somewhere say.
LEMMA PlacesCounted ==
    ASSUME StoreShapes, ChannelShapes, AtMostOne
    PROVE  /\ Somewhere => \E p : Places = {p}
           /\ ~Somewhere => Places = {}
<1>1. written = 0 \/ written = 1
  BY DEF AtMostOne, ChannelShapes
<1>2. 1 .. written = IF written = 1 THEN {1} ELSE {}
  <2>1. 1 .. 1 = {1} /\ 1 .. 0 = {}
    OBVIOUS
  <2> QED
    BY <1>1, <2>1, Zenon
<1>3. CASE written = 1
  <2>1. Places = {<<"row", NoStore, 1>>}
    BY <1>2, <1>3 DEF AtMostOne, Places, Queued
  <2> QED
    BY <1>3, <2>1, Zenon DEF Somewhere
<1>4. CASE written = 0 /\ InChannel # {}
  <2>1. PICK i : InChannel = {i}
    BY <1>4 DEF AtMostOne
  <2>2. Places = {<<"channel", NoStore, i>>}
    BY <1>2, <1>4, <2>1 DEF AtMostOne, Places, Queued
  <2> QED
    BY <1>4, <2>2, Zenon DEF Somewhere
<1>5. CASE written = 0 /\ InChannel = {} /\ \E s \in Store : Queued(s) # {}
  <2>1. PICK s \in Store : Queued(s) # {}
    BY <1>5
  <2>2. PICK i : Queued(s) = {i}
    <3>1. \A i, j \in Queued(s) : i = j
      BY <2>1 DEF AtMostOne
    <3> QED
      BY <2>1, <3>1
  <2>3. \A t \in Store : t # s => Queued(t) = {}
    BY <2>2 DEF AtMostOne
  <2>4. UNION {{<<"queue", t, j>> : j \in Queued(t)} : t \in Store}
           = {<<"queue", s, i>>}
    BY <2>1, <2>2, <2>3
  <2>5. Places = {<<"queue", s, i>>}
    BY <1>2, <1>5, <2>4 DEF Places, Queued
  <2> QED
    BY <1>5, <2>5, Zenon DEF Somewhere
<1>6. CASE written = 0 /\ InChannel = {} /\ \A s \in Store : Queued(s) = {}
  <2>1. Places = {}
    BY <1>2, <1>6 DEF Places, Queued
  <2> QED
    BY <1>6, <2>1 DEF Somewhere
<1> QED
  BY <1>1, <1>3, <1>4, <1>5, <1>6, Zenon

\* A step that moves the followed transition nowhere keeps the count.
LEMMA Unmoved ==
    ASSUME Counted, UNCHANGED <<channel, written, fate, subscribed>>,
           \A s \in Store : Queued(s)' = Queued(s)
    PROVE  Counted'
<1>1. InChannel' = InChannel
  BY DEF InChannel
<1>2. AtMostOne' /\ (Somewhere' <=> Somewhere)
  BY <1>1 DEF Counted, AtMostOne, Somewhere
<1> QED
  BY <1>2 DEF Counted

\* A transition of any check is broadcast: the followed one enters an empty channel,
\* and another one pushes it out at most.
LEMMA Announced ==
    ASSUME ChannelShapes, Counted, Announce, UNCHANGED <<stores, written, subscribed>>
    PROVE  ChannelShapes' /\ Counted'
<1>1. PICK followed \in BOOLEAN :
        /\ followed => fate = "unpublished"
        /\ channel' = Append(IF Len(channel) < ChannelCapacity THEN channel ELSE Tail(channel),
                             followed)
        /\ fate' = IF followed THEN IF subscribed THEN "recorded" ELSE "unheard"
                   ELSE IF Len(channel) = ChannelCapacity /\ Head(channel) THEN "lagged"
                   ELSE fate
  BY Zenon DEF Announce
<1> DEFINE base == IF Len(channel) < ChannelCapacity THEN channel ELSE Tail(channel)
           lagging == Len(channel) = ChannelCapacity /\ Head(channel)
<1>2. /\ channel \in Seq(BOOLEAN) /\ Len(channel) \in Nat /\ Len(channel) <= ChannelCapacity
      /\ ChannelCapacity \in Nat \ {0}
  BY HistoryAssumption DEF ChannelShapes
<1>3. InChannel = Marks(channel) /\ InChannel' = Marks(channel')
  BY DEF InChannel, Marks
<1>4. /\ base \in Seq(BOOLEAN) /\ Len(base) < ChannelCapacity
      /\ Marks(base) \subseteq Nat \ {0}
      /\ \A i, j \in Marks(base) : i = j
      /\ Marks(base) # {} => InChannel # {} /\ ~lagging
      /\ InChannel # {} /\ ~lagging => Marks(base) # {}
  <2>0. /\ InChannel \subseteq Nat \ {0}
        /\ \A i, j \in InChannel : i = j
    <3>1. Marks(channel) \subseteq Nat \ {0}
      BY <1>2, MarksOf, Zenon
    <3> QED
      BY <1>3, <3>1 DEF Counted, AtMostOne
  <2>1. CASE Len(channel) < ChannelCapacity
    <3>1. base = channel /\ Len(channel) # ChannelCapacity
      BY <1>2, <2>1
    <3>2. ~lagging
      BY <3>1, Zenon
    <3> HIDE DEF base, lagging
    <3> QED
      BY <1>2, <1>3, <2>0, <2>1, <3>1, <3>2
  <2>2. CASE ~(Len(channel) < ChannelCapacity)
    <3>1. base = Tail(channel) /\ Len(channel) = ChannelCapacity /\ channel # <<>>
      BY <1>2, <2>2
    <3>2. /\ \A i \in Nat : i \in Marks(Tail(channel)) <=> i > 0 /\ i + 1 \in Marks(channel)
          /\ Marks(Tail(channel)) \subseteq Nat \ {0}
          /\ Tail(channel) \in Seq(BOOLEAN) /\ Len(Tail(channel)) = Len(channel) - 1
      BY <1>2, <3>1, MarksOf, Zenon
    <3>3. lagging <=> 1 \in InChannel
      <4>1. 1 \in Marks(channel) <=> Head(channel)
        BY <1>2, <3>1, MarksOf, Zenon
      <4> QED
        BY <1>3, <3>1, <4>1, Zenon
    <3> HIDE DEF base, lagging
    <3>4. \A i, j \in Marks(base) : i = j
      BY <1>3, <2>0, <3>1, <3>2
    <3>5. \A i \in Marks(base) : i + 1 \in InChannel /\ i + 1 # 1
      BY <1>3, <3>1, <3>2
    <3>6. Marks(base) # {} => InChannel # {} /\ ~lagging
      BY <2>0, <3>3, <3>5, Zenon
    <3>7. ASSUME InChannel # {}, ~lagging PROVE Marks(base) # {}
      <4>1. PICK i \in InChannel : i \in Nat /\ i > 1
        <5>1. PICK i \in InChannel : i # 1
          BY <3>3, <3>7
        <5> QED
          BY <2>0, <5>1
      <4>2. i - 1 \in Nat /\ i - 1 > 0 /\ (i - 1) + 1 = i
        BY <4>1
      <4>3. i - 1 \in Marks(Tail(channel))
        BY <1>3, <3>2, <4>1, <4>2
      <4> QED
        BY <3>1, <4>3
    <3> QED
      BY <1>2, <3>1, <3>2, <3>4, <3>6, <3>7
  <2> QED
    BY <2>1, <2>2, Zenon
<1> HIDE DEF base, lagging
<1>5. /\ InChannel' = IF followed THEN Marks(base) \cup {Len(base) + 1} ELSE Marks(base)
      /\ channel' \in Seq(BOOLEAN) /\ Len(channel') = Len(base) + 1 /\ Len(base) \in Nat
  <2>1. channel' = Append(base, followed)
    BY <1>1, Zenon DEF base
  <2>2. /\ Marks(Append(base, followed)) =
              IF followed THEN Marks(base) \cup {Len(base) + 1} ELSE Marks(base)
        /\ Append(base, followed) \in Seq(BOOLEAN)
        /\ Len(Append(base, followed)) = Len(base) + 1
    BY <1>4, MarksOf, Zenon
  <2>3. Len(base) \in Nat
    BY <1>4
  <2> QED
    BY <1>3, <2>1, <2>2, <2>3, Zenon
<1>6. fate' = IF followed THEN IF subscribed THEN "recorded" ELSE "unheard"
              ELSE IF lagging THEN "lagged" ELSE fate
  BY <1>1, Zenon DEF lagging
<1>7. ChannelShapes'
  BY <1>2, <1>4, <1>5, <1>6 DEF ChannelShapes, Fate
<1>8. UNCHANGED <<written, subscribed>> /\ \A s \in Store : Queued(s)' = Queued(s)
  BY DEF Queued
<1>9. CASE followed
  <2>1. ~Somewhere
    BY <1>1, <1>9, Zenon DEF Counted
  <2>2. InChannel' = {Len(base) + 1}
    BY <1>4, <1>5, <1>9, <2>1 DEF Somewhere
  <2>3. AtMostOne' /\ Somewhere'
    BY <1>8, <2>1, <2>2 DEF Somewhere, AtMostOne, Counted
  <2>4. ~subscribed => written = 0 /\ \A s \in Store : Queued(s) = {}
    BY DEF Counted
  <2> QED
    BY <1>6, <1>7, <1>8, <1>9, <2>3, <2>4 DEF Counted
<1>10. CASE ~followed
  <2>1. /\ \A i, j \in InChannel' : i = j
        /\ InChannel' # {} => InChannel # {} /\ ~lagging
        /\ InChannel # {} /\ ~lagging => InChannel' # {}
    BY <1>4, <1>5, <1>10
  <2>2. AtMostOne'
    BY <1>8, <2>1 DEF AtMostOne, Counted
  <2>3. lagging => InChannel # {}
    <3>1. ASSUME lagging PROVE channel # <<>> /\ Head(channel)
      BY <1>2, <3>1, Zenon DEF lagging
    <3> QED
      BY <1>2, <1>3, <3>1, MarksOf, Zenon
  <2>4. CASE lagging
    <3>1. ~Somewhere'
      BY <1>8, <2>1, <2>3, <2>4 DEF Somewhere, AtMostOne, Counted
    <3> QED
      BY <1>6, <1>7, <1>8, <1>10, <2>2, <2>4, <3>1 DEF Counted
  <2>5. CASE ~lagging
    <3>1. Somewhere' <=> Somewhere
      BY <1>8, <2>1, <2>5 DEF Somewhere
    <3> QED
      BY <1>6, <1>7, <1>8, <1>10, <2>2, <2>5, <3>1 DEF Counted
  <2> QED
    BY <2>4, <2>5
<1> QED
  BY <1>9, <1>10
------------------------------------------------------------------------------
\* A store that becomes r, and a slot that holds a store that is in use, or none
LEMMA OneStore ==
    ASSUME StoreShapes, NEW s \in Store, NEW r \in StoreShape,
           Len(r.queue) <= QueueCapacity, r.queue # <<>> => r.alive, r.alive => r.used,
           stores' = [stores EXCEPT ![s] = r],
           \/ slot' = NoStore
           \/ slot' = slot /\ (slot = s => r.used)
           \/ slot' = s /\ r.used
    PROVE  /\ StoreShapes'
           /\ Queued(s)' = Copies(r.queue)
           /\ \A t \in Store \ {s} : Queued(t)' = Queued(t)
<1>1. /\ stores' \in [Store -> StoreShape] /\ stores'[s] = r
      /\ \A t \in Store \ {s} : stores'[t] = stores[t]
  BY DEF StoreShapes
<1>2. slot' \in Store \cup {NoStore} /\ (slot' # NoStore => stores'[slot'].used)
  BY <1>1, HistoryAssumption DEF StoreShapes
<1>3. \A t \in Store : /\ Len(stores'[t].queue) <= QueueCapacity
                       /\ stores'[t].queue # <<>> => stores'[t].alive
                       /\ stores'[t].alive => stores'[t].used
  BY <1>1 DEF StoreShapes
<1>4. StoreShapes'
  BY <1>1, <1>2, <1>3 DEF StoreShapes
<1> QED
  BY <1>1, <1>4 DEF Queued

\* A command joins the queue of a living writer that has room.
LEMMA Enqueued ==
    ASSUME StoreShapes, NEW s \in Store, NEW c \in Command, Room(s),
           stores' = [stores EXCEPT ![s].queue = Append(@, c)],
           slot' = slot \/ slot' = NoStore
    PROVE  /\ StoreShapes'
           /\ Queued(s)' = IF c = "followed" THEN Queued(s) \cup {Len(stores[s].queue) + 1}
                           ELSE Queued(s)
           /\ \A t \in Store \ {s} : Queued(t)' = Queued(t)
<1> DEFINE q == Append(stores[s].queue, c)
           r == [stores[s] EXCEPT !.queue = q]
<1>1. /\ stores[s] \in StoreShape /\ stores[s].queue \in Seq(Command) /\ stores[s].alive
      /\ stores[s].used /\ Len(stores[s].queue) < QueueCapacity
      /\ Len(stores[s].queue) \in Nat /\ QueueCapacity \in Nat
  BY HistoryAssumption DEF StoreShapes, StoreShape, Room
<1>2. /\ q \in Seq(Command) /\ Len(q) = Len(stores[s].queue) + 1
      /\ Copies(q) = IF c = "followed" THEN Queued(s) \cup {Len(stores[s].queue) + 1}
                     ELSE Queued(s)
  BY <1>1, CopiesOf, Zenon DEF Queued
<1> HIDE DEF q
<1>3. r \in StoreShape /\ r.queue = q /\ r.alive = stores[s].alive /\ r.used = stores[s].used
  BY <1>1, <1>2, Zenon DEF StoreShape
<1>4. stores' = [stores EXCEPT ![s] = r]
  BY DEF q, StoreShapes
<1>5. Len(r.queue) <= QueueCapacity
  BY <1>1, <1>2, <1>3
<1> HIDE DEF r
<1>6. r.used /\ r.alive
  BY <1>1, <1>3
<1>7. /\ StoreShapes' /\ Queued(s)' = Copies(r.queue)
      /\ \A t \in Store \ {s} : Queued(t)' = Queued(t)
  BY <1>3, <1>4, <1>5, <1>6, OneStore, Zenon
<1> QED
  BY <1>2, <1>3, <1>7

\* HistoryStore's try_send: the command is queued, or counted as dropped.
LEMMA TrySent ==
    ASSUME StoreShapes, NEW s \in Store, NEW c \in Command, try_send(s, c), slot' = slot
    PROVE  /\ StoreShapes'
           /\ Queued(s)' = IF Room(s) /\ c = "followed"
                           THEN Queued(s) \cup {Len(stores[s].queue) + 1} ELSE Queued(s)
           /\ \A t \in Store \ {s} : Queued(t)' = Queued(t)
<1>1. CASE Room(s)
  BY <1>1, Enqueued, Zenon DEF try_send
<1>2. CASE ~Room(s)
  <2> DEFINE r == [stores[s] EXCEPT !.dropped = TRUE]
  <2>1. /\ stores[s] \in StoreShape
        /\ Len(stores[s].queue) <= QueueCapacity
        /\ stores[s].queue # <<>> => stores[s].alive
        /\ stores[s].alive => stores[s].used
        /\ slot = s => stores[s].used
    BY HistoryAssumption DEF StoreShapes
  <2>2. /\ r \in StoreShape /\ r.queue = stores[s].queue /\ r.alive = stores[s].alive
        /\ r.used = stores[s].used
    BY <2>1, Zenon DEF StoreShape
  <2>3. stores' = [stores EXCEPT ![s] = r]
    BY <1>2 DEF try_send, StoreShapes
  <2> HIDE DEF r
  <2>4. /\ Len(r.queue) <= QueueCapacity /\ (r.queue # <<>> => r.alive)
        /\ (r.alive => r.used) /\ (slot = s => r.used)
    BY <2>1, <2>2
  <2>5. /\ StoreShapes' /\ Queued(s)' = Copies(r.queue)
        /\ \A t \in Store \ {s} : Queued(t)' = Queued(t)
    BY <2>2, <2>3, <2>4, OneStore, Zenon
  <2> QED
    BY <1>2, <2>2, <2>5 DEF Queued
<1> QED
  BY <1>1, <1>2

HistoryInv == StoreShapes /\ ChannelShapes /\ TaskShapes /\ Counted

\* A step that leaves the stores and the channel alone keeps the count.
LEMMA NothingMoves ==
    ASSUME StoreShapes, ChannelShapes, Counted,
           UNCHANGED <<stores, channel, written, fate, subscribed>>,
           slot' = slot \/ slot' = NoStore
    PROVE  StoreShapes' /\ ChannelShapes' /\ Counted'
<1>1. StoreShapes'
  BY DEF StoreShapes
<1>2. ChannelShapes'
  BY DEF ChannelShapes
<1>3. Counted'
  BY Unmoved DEF Queued
<1> QED
  BY <1>1, <1>2, <1>3

\* A report changes the check, and announces the change.
LEMMA Reported ==
    ASSUME StoreShapes, ChannelShapes, Counted, NEW now, Report(now),
           UNCHANGED <<stores, slot, written, subscribed>>
    PROVE  StoreShapes' /\ ChannelShapes' /\ Counted' /\ check' = now
<1>1. StoreShapes' /\ check' = now
  BY DEF StoreShapes, Report
<1>2. CASE check = now
  BY <1>1, <1>2, NothingMoves DEF Report
<1>3. CASE check # now
  BY <1>1, <1>3, Announced DEF Report
<1> QED
  BY <1>2, <1>3
------------------------------------------------------------------------------
\* record_history takes the oldest transition from the channel, and offers it to the
\* store in the slot.
LEMMA RecordMoves ==
    ASSUME StoreShapes, ChannelShapes, Counted, RecordTransition
    PROVE  StoreShapes' /\ ChannelShapes' /\ Counted'
<1> DEFINE t == Head(channel)
<1>1. /\ subscribed /\ channel # <<>> /\ channel' = Tail(channel) /\ Taken(t)
      /\ IF slot = NoStore THEN UNCHANGED stores ELSE try_send(slot, Recordable(t))
      /\ UNCHANGED <<slot, written, subscribed>>
  BY DEF RecordTransition, recording
<1>2. channel \in Seq(BOOLEAN) /\ Len(channel) \in Nat /\ Len(channel) <= ChannelCapacity
  BY DEF ChannelShapes
<1>3. /\ \A i \in Nat : i \in InChannel' <=> i > 0 /\ i + 1 \in InChannel
      /\ InChannel' \subseteq Nat \ {0} /\ InChannel \subseteq Nat \ {0}
      /\ channel' \in Seq(BOOLEAN) /\ Len(channel') = Len(channel) - 1
  <2>1. InChannel = Marks(channel) /\ InChannel' = Marks(Tail(channel))
    BY <1>1 DEF InChannel, Marks
  <2>2. /\ \A i \in Nat : i \in Marks(Tail(channel)) <=> i > 0 /\ i + 1 \in Marks(channel)
        /\ Marks(Tail(channel)) \subseteq Nat \ {0} /\ Marks(channel) \subseteq Nat \ {0}
        /\ Tail(channel) \in Seq(BOOLEAN) /\ Len(Tail(channel)) = Len(channel) - 1
    BY <1>1, <1>2, MarksOf, Zenon
  <2> QED
    BY <1>1, <2>1, <2>2
<1>4. t \in BOOLEAN /\ (t <=> 1 \in InChannel)
  <2>1. InChannel = Marks(channel)
    BY DEF InChannel, Marks
  <2>2. (1 \in Marks(channel) <=> Head(channel)) /\ Head(channel) \in BOOLEAN
    BY <1>1, <1>2, MarksOf, Zenon
  <2> QED
    BY <2>1, <2>2, Zenon
<1>5. fate' = IF 1 \notin InChannel THEN fate ELSE IF slot = NoStore THEN "absent"
              ELSE IF Room(slot) THEN fate ELSE "full"
  <2>1. fate' = IF ~t THEN fate ELSE IF slot = NoStore THEN "absent"
                ELSE IF Room(slot) THEN fate ELSE "full"
    BY <1>1, Zenon DEF Taken
  <2> HIDE DEF t
  <2> QED
    BY <1>4, <2>1
<1>6. /\ Recordable(t) \in Command
      /\ Recordable(t) = "followed" <=> 1 \in InChannel
  <2> HIDE DEF t
  <2> QED
    BY <1>4 DEF Recordable, Command
<1> HIDE DEF t
<1>7. ChannelShapes'
  <2>1. UNCHANGED <<written, subscribed>>
    BY <1>1
  <2>2. fate' \in Fate
    BY <1>5 DEF ChannelShapes, Fate
  <2>3. channel' \in Seq(BOOLEAN) /\ Len(channel') <= ChannelCapacity
    BY <1>2, <1>3, HistoryAssumption
  <2> QED
    BY <2>1, <2>2, <2>3 DEF ChannelShapes
<1>8. CASE 1 \notin InChannel
  <2>1. StoreShapes' /\ \A u \in Store : Queued(u)' = Queued(u)
    <3>1. CASE slot = NoStore
      BY <1>1, <3>1, Zenon DEF StoreShapes, Queued
    <3>2. CASE slot # NoStore
      <4>1. slot \in Store /\ try_send(slot, Recordable(t))
        BY <1>1, <3>2 DEF StoreShapes
      <4> QED
        BY <1>1, <1>6, <1>8, <4>1, TrySent
    <3> QED
      BY <3>1, <3>2
  <2>2. \A i, j \in InChannel' : i = j
    BY <1>3 DEF Counted, AtMostOne
  <2>3. InChannel' # {} <=> InChannel # {}
    <3>1. ASSUME InChannel' # {} PROVE InChannel # {}
      BY <1>3, <3>1, Zenon
    <3>2. ASSUME NEW i \in InChannel PROVE InChannel' # {}
      <4>1. i - 1 \in Nat /\ i - 1 > 0 /\ (i - 1) + 1 = i
        BY <1>3, <1>8
      <4> QED
        BY <1>3, <4>1, Zenon
    <3> QED
      BY <3>1, <3>2
  <2>4. AtMostOne' /\ (Somewhere' <=> Somewhere)
    BY <1>1, <2>1, <2>2, <2>3 DEF Counted, AtMostOne, Somewhere
  <2> QED
    BY <1>1, <1>5, <1>7, <1>8, <2>1, <2>4 DEF Counted
<1>9. CASE 1 \in InChannel
  <2>1. InChannel' = {}
    <3> SUFFICES ASSUME NEW i \in InChannel' PROVE FALSE
      OBVIOUS
    <3>1. i + 1 \in InChannel /\ i + 1 # 1
      BY <1>3
    <3> QED
      BY <1>9, <3>1 DEF Counted, AtMostOne
  <2>2. written = 0 /\ \A u \in Store : Queued(u) = {}
    BY <1>9 DEF Counted, AtMostOne, ChannelShapes
  <2>3. fate = "recorded"
    BY <1>1, <1>9 DEF Counted, Somewhere
  <2>4. CASE slot = NoStore
    <3>1. UNCHANGED stores /\ fate' = "absent"
      BY <1>1, <1>5, <1>9, <2>4
    <3>2. StoreShapes' /\ \A u \in Store : Queued(u)' = {}
      BY <1>1, <2>2, <3>1, Zenon DEF StoreShapes, Queued
    <3> QED
      BY <1>1, <1>7, <2>1, <2>2, <3>1, <3>2 DEF Counted, AtMostOne, Somewhere
  <2>5. CASE slot # NoStore
    <3>1. PICK s \in Store : s = slot /\ try_send(s, Recordable(t))
      BY <1>1, <2>5 DEF StoreShapes
    <3>2. /\ StoreShapes'
          /\ Queued(s)' = IF Room(s) THEN Queued(s) \cup {Len(stores[s].queue) + 1}
                          ELSE Queued(s)
          /\ \A u \in Store \ {s} : Queued(u)' = Queued(u)
      BY <1>1, <1>6, <1>9, <3>1, TrySent
    <3>3. CASE Room(s)
      <4>1. Queued(s)' = {Len(stores[s].queue) + 1} /\ fate' = fate
        BY <1>5, <1>9, <2>2, <2>5, <3>1, <3>2, <3>3
      <4>2. AtMostOne' /\ Somewhere'
        <5>1. written' = 0 /\ \A u \in Store \ {s} : Queued(u)' = {}
          BY <1>1, <2>2, <3>2
        <5>2. \A u, v \in Store : \A i \in Queued(u)', j \in Queued(v)' : u = v /\ i = j
          BY <4>1, <5>1
        <5>3. AtMostOne'
          BY <2>1, <5>1, <5>2 DEF AtMostOne
        <5>4. Queued(s)' # {}
          BY <4>1, Zenon
        <5>5. Somewhere'
          BY <5>4 DEF Somewhere
        <5> QED
          BY <5>3, <5>5
      <4> QED
        BY <1>1, <1>7, <2>3, <3>2, <4>1, <4>2 DEF Counted
    <3>4. CASE ~Room(s)
      <4>1. fate' = "full" /\ \A u \in Store : Queued(u)' = {}
        BY <1>5, <1>9, <2>2, <2>5, <3>1, <3>2, <3>4
      <4> QED
        BY <1>1, <1>7, <2>1, <2>2, <3>2, <4>1 DEF Counted, AtMostOne, Somewhere
    <3> QED
      BY <3>3, <3>4
  <2> QED
    BY <2>4, <2>5
<1> QED
  BY <1>8, <1>9

\* A writer thread takes one command: the followed transition becomes a row, or is
\* lost with the thread.
LEMMA WriterMoves ==
    ASSUME StoreShapes, ChannelShapes, Counted, NEW s \in Store, NEW ok \in BOOLEAN,
           WriterStep(s, ok)
    PROVE  StoreShapes' /\ ChannelShapes' /\ Counted'
<1> DEFINE q == stores[s].queue
           command == Head(q)
           goes_on == ok /\ command # "shutdown"
           r == [stores[s] EXCEPT !.queue = IF goes_on THEN Tail(q) ELSE <<>>,
                                  !.alive = goes_on]
<1>1. /\ stores[s].alive /\ q # <<>>
      /\ stores' = [stores EXCEPT ![s].queue = IF goes_on THEN Tail(@) ELSE <<>>,
                                  ![s].alive = goes_on]
      /\ written' = IF ok /\ command = "followed" THEN written + 1 ELSE written
      /\ fate' = IF ~goes_on /\ Copies(IF ok THEN Tail(q) ELSE q) # {}
                 THEN "died" ELSE fate
      /\ UNCHANGED <<channel, slot, subscribed>>
  BY DEF WriterStep, published, recording
<1>2. /\ stores[s] \in StoreShape /\ q \in Seq(Command) /\ Len(q) <= QueueCapacity
      /\ stores[s].used /\ goes_on \in BOOLEAN /\ QueueCapacity \in Nat /\ Len(q) \in Nat
  BY <1>1, HistoryAssumption DEF StoreShapes, StoreShape
<1>3. /\ \A i \in Nat : i \in Copies(Tail(q)) <=> i > 0 /\ i + 1 \in Copies(q)
      /\ Copies(q) \subseteq Nat \ {0} /\ Copies(Tail(q)) \subseteq Nat \ {0}
      /\ 1 \in Copies(q) <=> command = "followed"
      /\ Tail(q) \in Seq(Command) /\ Len(Tail(q)) = Len(q) - 1 /\ Copies(<<>>) = {}
  BY <1>1, <1>2, CopiesOf
<1>5. Queued(s) = Copies(q)
  BY DEF Queued
<1> HIDE DEF q, goes_on, command
<1>6. /\ r \in StoreShape /\ r.queue = (IF goes_on THEN Tail(q) ELSE <<>>)
      /\ r.alive = goes_on /\ r.used = stores[s].used
  <2>1. (IF goes_on THEN Tail(q) ELSE <<>>) \in Seq(Command)
    BY <1>2, <1>3
  <2> QED
    BY <1>2, <2>1, Zenon DEF StoreShape
<1>7. stores' = [stores EXCEPT ![s] = r]
  BY <1>1, Zenon DEF StoreShapes, q
<1>8. Len(r.queue) <= QueueCapacity
  BY <1>2, <1>3, <1>6
<1> HIDE DEF r
<1>9. /\ StoreShapes' /\ Queued(s)' = Copies(r.queue)
      /\ \A t \in Store \ {s} : Queued(t)' = Queued(t)
  <2>1. r.used /\ (r.queue # <<>> => r.alive)
    BY <1>2, <1>6
  <2> QED
    BY <1>1, <1>6, <1>7, <1>8, <2>1, OneStore, Zenon
<1>10. ChannelShapes' /\ InChannel' = InChannel
  <2>1. written' \in Nat /\ fate' \in Fate
    BY <1>1 DEF ChannelShapes, Fate
  <2> QED
    BY <1>1, <2>1 DEF ChannelShapes, InChannel
<1>11. 1 \notin Copies(q) => (Copies(Tail(q)) # {} <=> Copies(q) # {})
  <2>1. ASSUME Copies(Tail(q)) # {} PROVE Copies(q) # {}
    BY <1>3, <2>1
  <2>2. ASSUME 1 \notin Copies(q), NEW i \in Copies(q) PROVE Copies(Tail(q)) # {}
    <3>1. i - 1 \in Nat /\ i - 1 > 0 /\ (i - 1) + 1 = i
      BY <1>3, <2>2
    <3> QED
      BY <1>3, <3>1
  <2> QED
    BY <2>1, <2>2
<1>12. CASE goes_on /\ command = "followed"
  <2>1. written' = written + 1 /\ fate' = fate
    BY <1>1, <1>12 DEF goes_on
  <2>2. /\ written = 0 /\ InChannel = {} /\ Queued(s) = {1}
        /\ \A t \in Store \ {s} : Queued(t) = {}
    <3>1. 1 \in Queued(s)
      BY <1>3, <1>5, <1>12
    <3> QED
      BY <3>1 DEF Counted, AtMostOne, ChannelShapes
  <2>3. Queued(s)' = {}
    <3>1. Queued(s)' = Copies(Tail(q))
      BY <1>6, <1>9, <1>12
    <3>2. ASSUME NEW i \in Copies(Tail(q)) PROVE FALSE
      <4>1. i + 1 \in Copies(q) /\ i + 1 # 1
        BY <1>3
      <4> QED
        BY <1>5, <2>2, <4>1
    <3> QED
      BY <3>1, <3>2
  <2>4. written' = 1 /\ InChannel' = {} /\ \A t \in Store : Queued(t)' = {}
    BY <1>9, <1>10, <2>1, <2>2, <2>3
  <2>5. AtMostOne' /\ Somewhere'
    BY <2>4 DEF AtMostOne, Somewhere
  <2>6. fate = "recorded" /\ subscribed
    BY <2>2 DEF Counted, Somewhere
  <2> QED
    BY <1>1, <1>9, <1>10, <2>1, <2>5, <2>6 DEF Counted
<1>13. CASE goes_on /\ command # "followed"
  <2>1. written' = written /\ fate' = fate /\ Queued(s)' = Copies(Tail(q))
    BY <1>1, <1>6, <1>9, <1>13
  <2>2. Queued(s)' # {} <=> Queued(s) # {}
    BY <1>3, <1>5, <1>11, <1>13, <2>1
  <2>3. \A i, j \in Queued(s)' : i = j
    <3> SUFFICES ASSUME NEW i \in Queued(s)', NEW j \in Queued(s)' PROVE i = j
      OBVIOUS
    <3>1. i \in Nat /\ j \in Nat /\ i + 1 \in Queued(s) /\ j + 1 \in Queued(s)
      BY <1>3, <1>5, <2>1
    <3>2. i + 1 = j + 1
      BY <3>1 DEF Counted, AtMostOne
    <3> QED
      BY <3>1, <3>2
  <2>4. \A t \in Store : Queued(t)' # {} <=> Queued(t) # {}
    BY <1>9, <2>2
  <2>5. \A t, u \in Store : \A i \in Queued(t)', j \in Queued(u)' : t = u /\ i = j
    <3> SUFFICES ASSUME NEW t \in Store, NEW u \in Store,
                        NEW i \in Queued(t)', NEW j \in Queued(u)'
                 PROVE  t = u /\ i = j
      OBVIOUS
    <3>1. t = u
      BY <2>4 DEF Counted, AtMostOne
    <3>2. CASE t = s
      BY <2>3, <3>1, <3>2
    <3>3. CASE t # s
      BY <1>9, <3>1, <3>3 DEF Counted, AtMostOne
    <3> QED
      BY <3>1, <3>2, <3>3
  <2>6. AtMostOne' /\ (Somewhere' <=> Somewhere)
    BY <1>10, <2>1, <2>4, <2>5 DEF Counted, AtMostOne, Somewhere
  <2>7. ~subscribed => written = 0 /\ \A t \in Store : Queued(t)' = {}
    BY <2>4 DEF Counted
  <2> QED
    BY <1>1, <1>9, <1>10, <2>1, <2>6, <2>7 DEF Counted
<1>14. CASE ~goes_on
  <2>1. written' = written /\ Queued(s)' = {}
    BY <1>1, <1>3, <1>6, <1>9, <1>14 DEF goes_on
  <2>2. fate' = IF Queued(s) # {} THEN "died" ELSE fate
    <3>1. CASE ok
      <4>1. 1 \notin Copies(q)
        BY <1>3, <1>14, <3>1 DEF goes_on
      <4> QED
        BY <1>1, <1>5, <1>11, <1>14, <3>1, <4>1
    <3>2. CASE ~ok
      BY <1>1, <1>5, <1>14, <3>2
    <3> QED
      BY <3>1, <3>2
  <2>3. CASE Queued(s) = {}
    <3>1. \A t \in Store : Queued(t)' = Queued(t)
      BY <1>9, <2>1, <2>3
    <3>2. UNCHANGED <<channel, written, fate, subscribed>>
      BY <1>1, <2>1, <2>2, <2>3
    <3> QED
      BY <1>9, <1>10, <3>1, <3>2, Unmoved
  <2>4. CASE Queued(s) # {}
    <3>1. written = 0 /\ InChannel = {} /\ \A t \in Store \ {s} : Queued(t) = {}
      BY <2>4 DEF Counted, AtMostOne, ChannelShapes
    <3>2. written' = 0 /\ InChannel' = {} /\ \A t \in Store : Queued(t)' = {}
      BY <1>9, <1>10, <2>1, <3>1
    <3>3. AtMostOne' /\ ~Somewhere'
      BY <3>2 DEF AtMostOne, Somewhere
    <3> QED
      BY <1>9, <1>10, <2>2, <2>4, <3>2, <3>3 DEF Counted
  <2> QED
    BY <2>3, <2>4
<1> QED
  BY <1>12, <1>13, <1>14

\* The recorder subscribes: what was published before is not for it.
LEMMA SubscribeMoves ==
    ASSUME StoreShapes, ChannelShapes, Counted, Subscribe
    PROVE  StoreShapes' /\ ChannelShapes' /\ Counted'
<1>1. /\ ~subscribed /\ subscribed' = TRUE /\ channel' = <<>>
      /\ UNCHANGED <<slot, stores, written, fate>>
  BY DEF Subscribe, storage
<1>2. StoreShapes' /\ \A s \in Store : Queued(s)' = Queued(s)
  BY <1>1 DEF StoreShapes, Queued
<1>3. ChannelShapes'
  BY <1>1, HistoryAssumption DEF ChannelShapes
<1>4. InChannel' = {}
  BY <1>1 DEF InChannel
<1>5. written' = 0 /\ \A s \in Store : Queued(s)' = {}
  BY <1>1, <1>2 DEF Counted
<1>6. AtMostOne' /\ ~Somewhere'
  BY <1>4, <1>5 DEF AtMostOne, Somewhere
<1>7. fate' # "recorded"
  BY <1>1 DEF Counted
<1> QED
  BY <1>1, <1>2, <1>3, <1>6, <1>7 DEF Counted

\* A handle nobody holds any more ends with an empty queue.
LEMMA EndMoves ==
    ASSUME StoreShapes, ChannelShapes, Counted, NEW s \in Store, WriterEnds(s)
    PROVE  StoreShapes' /\ ChannelShapes' /\ Counted'
<1>1. /\ s # slot /\ (~stores[s].alive \/ stores[s].queue = <<>>)
      /\ stores' = [stores EXCEPT ![s] = Unused]
      /\ UNCHANGED <<channel, slot, written, subscribed, fate>>
  BY Zenon DEF WriterEnds, Held, published, recording
<1>2. /\ Unused \in StoreShape /\ Unused.queue = <<>> /\ ~Unused.alive
      /\ Len(<<>>) <= QueueCapacity
  BY HistoryAssumption DEF Unused, StoreShape
<1>3. stores[s].queue = <<>>
  BY <1>1 DEF StoreShapes
<1>4. /\ StoreShapes' /\ Queued(s)' = Copies(<<>>)
      /\ \A t \in Store \ {s} : Queued(t)' = Queued(t)
  BY <1>1, <1>2, OneStore, Zenon
<1>5. \A t \in Store : Queued(t)' = Queued(t)
  BY <1>3, <1>4 DEF Queued
<1> QED
  BY <1>1, <1>4, <1>5, Unmoved DEF ChannelShapes

\* The recorder offers a port observation, which is not the followed transition.
LEMMA PortMoves ==
    ASSUME StoreShapes, ChannelShapes, Counted, RecordPort
    PROVE  StoreShapes' /\ ChannelShapes' /\ Counted'
<1>1. UNCHANGED <<channel, slot, written, subscribed, fate>>
  BY DEF RecordPort, published
<1>2. CASE UNCHANGED stores
  BY <1>1, <1>2, NothingMoves
<1>3. CASE slot # NoStore /\ try_send(slot, "other")
  <2>1. PICK s \in Store : s = slot
    BY <1>3 DEF StoreShapes
  <2>2. try_send(s, "other") /\ "other" \in Command /\ "other" # "followed"
    BY <1>3, <2>1 DEF Command
  <2>3. StoreShapes' /\ \A t \in Store : Queued(t)' = Queued(t)
    BY <1>1, <2>2, TrySent
  <2> QED
    BY <1>1, <2>3, Unmoved DEF ChannelShapes
<1> QED
  BY <1>2, <1>3 DEF RecordPort

\* The supervisor sends a flush, or the end of run() a shutdown.
LEMMA BarrierMoves ==
    ASSUME StoreShapes, ChannelShapes, TaskShapes, Counted, SendBarrier
    PROVE  StoreShapes' /\ ChannelShapes' /\ Counted'
<1>1. UNCHANGED <<channel, slot, written, subscribed, fate>>
  BY DEF SendBarrier, published, recording
<1>2. PICK s \in Store : s = supervisor.store
  BY DEF SendBarrier, TaskShapes
<1>3. CASE UNCHANGED stores
  BY <1>1, <1>3, NothingMoves
<1>4. CASE stores[s].alive
  <2>1. PICK c \in {"flush", "shutdown"} :
          Room(s) /\ stores' = [stores EXCEPT ![s].queue = Append(@, c)]
    <3>1. Room(s) /\ stores' = [stores EXCEPT ![s].queue =
                                   Append(@, IF Serving THEN "flush" ELSE "shutdown")]
      BY <1>2, <1>4 DEF SendBarrier
    <3> QED
      BY <3>1, Zenon
  <2>2. StoreShapes' /\ \A t \in Store : Queued(t)' = Queued(t)
    BY <1>1, <2>1, Enqueued, Zenon DEF Command
  <2> QED
    BY <1>1, <2>2, Unmoved DEF ChannelShapes
<1> QED
  BY <1>2, <1>3, <1>4 DEF SendBarrier

\* The supervisor opens a new store, or fails to.
LEMMA ReopenMoves ==
    ASSUME StoreShapes, ChannelShapes, Counted, NEW ok, Reopen(ok)
    PROVE  StoreShapes' /\ ChannelShapes' /\ Counted'
<1>1. UNCHANGED <<channel, written, subscribed, fate>>
  BY DEF Reopen, published, recording
<1>2. CASE UNCHANGED <<slot, stores>>
  BY <1>1, <1>2, NothingMoves
<1>3. ASSUME NEW s \in Store, ~stores[s].used, slot' = s,
             stores' = [stores EXCEPT ![s] = Opened]
      PROVE  StoreShapes' /\ ChannelShapes' /\ Counted'
  <2>1. /\ Opened \in StoreShape /\ Opened.queue = <<>> /\ Opened.used
        /\ Len(<<>>) <= QueueCapacity
    BY HistoryAssumption DEF Opened, StoreShape
  <2>2. stores[s].queue = <<>>
    BY <1>3 DEF StoreShapes
  <2>3. /\ StoreShapes' /\ Queued(s)' = Copies(<<>>)
        /\ \A t \in Store \ {s} : Queued(t)' = Queued(t)
    BY <1>3, <2>1, OneStore, Zenon
  <2>4. \A t \in Store : Queued(t)' = Queued(t)
    BY <2>2, <2>3 DEF Queued
  <2> QED
    BY <1>1, <2>3, <2>4, Unmoved DEF ChannelShapes
<1> QED
  BY <1>2, <1>3 DEF Reopen

\* The supervisor and the query keep to their places, and a flush or a shutdown is
\* sent to a store.
LEMMA TaskSteps ==
    ASSUME StoreShapes, TaskShapes, HistoryNext
    PROVE  TaskShapes'
<1>1. /\ \A reason : /\ Healthy(reason).status \in {"Healthy", "Degraded"}
                     /\ Degraded(reason).status \in {"Healthy", "Degraded"}
      /\ Idle \in Task /\ Idle.at = "idle"
  BY DEF Healthy, Degraded, Idle, Task
<1>2. \A at, store : [at |-> at, store |-> store] \in Task
                        <=> at \in {"idle", "send", "wait", "flushed", "failed", "report",
                                    "recovered", "open", "closing", "query"}
                            /\ store \in Store \cup {NoStore}
  BY DEF Task
<1>3. /\ slot \in Store \cup {NoStore} /\ supervisor.store \in Store \cup {NoStore}
      /\ supervisor.at \in {"idle", "send", "wait", "flushed", "failed", "report",
                            "recovered", "open", "closing", "query"}
  BY DEF StoreShapes, TaskShapes, Task
<1>4. CASE Transition \/ PortChange \/ Subscribe \/ RecordTransition \/ RecordPort
           \/ \E s \in Store : WriterEnds(s)
  BY <1>4, Zenon DEF Transition, PortChange, Subscribe, RecordTransition, RecordPort, WriterEnds,
              published, TaskShapes
<1>5. CASE \E s \in Store, ok \in BOOLEAN : WriterStep(s, ok)
  <2>1. PICK answer \in {"flushed", "failed", supervisor.at} :
          supervisor' \in {supervisor, [supervisor EXCEPT !.at = answer]}
    BY <1>5 DEF WriterStep
  <2>2. UNCHANGED <<check, phase, query>>
    BY <1>5 DEF WriterStep, published
  <2>3. supervisor' \in Task /\ (supervisor'.at = "send" => supervisor'.store \in Store)
    BY <1>3, <2>1 DEF TaskShapes, Task
  <2> QED
    BY <2>2, <2>3 DEF TaskShapes
<1>6. CASE Tick \/ SendBarrier \/ FlushTimeout \/ FlushFailed
  <2>1. UNCHANGED <<check, phase, query>>
    BY <1>6 DEF Tick, SendBarrier, FlushTimeout, FlushFailed, GiveUp, published
  <2>2. supervisor' \in Task /\ (supervisor'.at = "send" => supervisor'.store \in Store)
    BY <1>2, <1>3, <1>6 DEF Tick, SendBarrier, FlushTimeout, FlushFailed, Supervise
  <2> QED
    BY <2>1, <2>2 DEF TaskShapes
<1>7. CASE Flushed \/ ReportFailed \/ ReportRecovered
  <2>1. UNCHANGED <<phase, query>> /\ supervisor' = Idle
    BY <1>7 DEF Flushed, ReportFailed, ReportRecovered
  <2>2. check'.status \in {"Healthy", "Degraded"}
    BY <1>1, <1>7, Zenon DEF Flushed, ReportFailed, ReportRecovered, Report
  <2> QED
    BY <1>1, <2>1, <2>2 DEF TaskShapes
<1>8. CASE \E ok \in BOOLEAN : Reopen(ok)
  <2>1. UNCHANGED <<check, phase, query>>
    BY <1>8 DEF Reopen, published
  <2>2. supervisor' \in {Idle, [at |-> "recovered", store |-> NoStore]}
    BY <1>8 DEF Reopen, Supervise
  <2> QED
    BY <1>1, <1>2, <2>1, <2>2 DEF TaskShapes
<1>9. CASE BeginQuery \/ \E ok \in BOOLEAN : EndQuery(ok)
  <2>1. UNCHANGED <<check, phase, supervisor>>
    BY <1>9 DEF BeginQuery, EndQuery, GiveUp, published
  <2>2. query' \in Task
    BY <1>1, <1>2, <1>3, <1>9 DEF BeginQuery, EndQuery
  <2> QED
    BY <2>1, <2>2 DEF TaskShapes
<1>10. CASE ReportQuery
  BY <1>1, <1>10 DEF ReportQuery, Report, TaskShapes
<1>11. CASE Stop \/ Exit
  <2>1. UNCHANGED <<check, query>> /\ phase' \in {"stopping", "drained", "exited"}
    BY <1>11 DEF Stop, Exit, published
  <2>2. supervisor' \in Task /\ (supervisor'.at = "send" => supervisor'.store \in Store)
    BY <1>2, <1>3, <1>11 DEF Stop, Exit, TaskShapes
  <2> QED
    BY <2>1, <2>2 DEF TaskShapes
<1> QED
  BY <1>4, <1>5, <1>6, <1>7, <1>8, <1>9, <1>10, <1>11, Zenon
     DEF HistoryNext, Environment, Supervision, Recorder, Answering, Writer
------------------------------------------------------------------------------
LEMMA HistoryInitially == HistoryInit => HistoryInv
<1> SUFFICES ASSUME HistoryInit PROVE HistoryInv
  OBVIOUS
<1> DEFINE first == CHOOSE t \in Store : TRUE
<1>1. first \in Store
  BY HistoryAssumption
<1> HIDE DEF first
<1>2. PICK opened \in BOOLEAN :
        /\ check = IF opened THEN Healthy("ready") ELSE Degraded("unavailable")
        /\ slot = IF opened THEN first ELSE NoStore
        /\ stores = [t \in Store |-> IF opened /\ t = first THEN Opened ELSE Unused]
  BY Zenon DEF HistoryInit, first
<1>3. /\ channel = <<>> /\ phase = "serving" /\ written = 0 /\ supervisor = Idle
      /\ query = Idle /\ subscribed = FALSE /\ fate = "unpublished"
  BY Zenon DEF HistoryInit
<1>4. Opened \in StoreShape /\ Unused \in StoreShape /\ Len(<<>>) <= QueueCapacity
  BY HistoryAssumption DEF Opened, Unused, StoreShape
<1>5. \A t \in Store : stores[t] \in {Opened, Unused}
  BY <1>2, Zenon
<1>6. \A t \in Store : stores[t].queue = <<>> /\ (stores[t].alive => stores[t].used)
  <2>1. Opened.queue = <<>> /\ Opened.used /\ Unused.queue = <<>> /\ ~Unused.alive
    BY DEF Opened, Unused
  <2> QED
    BY <1>5, <2>1, Zenon
<1>7. StoreShapes
  <2>1. stores \in [Store -> StoreShape]
    BY <1>2, <1>4
  <2>2. slot \in Store \cup {NoStore} /\ (slot # NoStore => stores[slot].used)
    BY <1>1, <1>2 DEF Opened
  <2> QED
    BY <1>4, <1>6, <2>1, <2>2 DEF StoreShapes
<1>8. ChannelShapes
  <2>1. <<>> \in Seq(BOOLEAN) /\ Len(<<>>) = 0 /\ ChannelCapacity \in Nat
    BY HistoryAssumption
  <2>2. channel \in Seq(BOOLEAN) /\ Len(channel) <= ChannelCapacity
    BY <1>3, <2>1
  <2> QED
    BY <1>3, <2>2, Zenon DEF ChannelShapes, Fate
<1>9. TaskShapes
  BY <1>2, <1>3 DEF TaskShapes, Task, Idle, Healthy, Degraded
<1>10. InChannel = {} /\ \A t \in Store : Queued(t) = {}
  BY <1>3, <1>6 DEF InChannel, Queued, Copies
<1>11. Counted
  BY <1>3, <1>10 DEF Counted, AtMostOne, Somewhere
<1> QED
  BY <1>7, <1>8, <1>9, <1>11 DEF HistoryInv

\* Every step of the recorder, the writers, the supervisor, the queries and the end of
\* run() keeps the invariant.
LEMMA HistorySteps == HistoryInv /\ [HistoryNext]_history_vars => HistoryInv'
<1> SUFFICES ASSUME StoreShapes, ChannelShapes, TaskShapes, Counted, [HistoryNext]_history_vars
             PROVE  HistoryInv'
  BY DEF HistoryInv
<1>1. CASE UNCHANGED history_vars
  <2>1. UNCHANGED <<stores, slot, channel, written, fate, subscribed>>
    BY <1>1 DEF history_vars, published
  <2>2. TaskShapes'
    BY <1>1 DEF history_vars, published, TaskShapes
  <2> QED
    BY <2>1, <2>2, NothingMoves DEF HistoryInv
<1>2. CASE HistoryNext
  <2>1. TaskShapes'
    BY <1>2, TaskSteps
  <2> SUFFICES StoreShapes' /\ ChannelShapes' /\ Counted'
    BY <2>1 DEF HistoryInv
  <2>2. CASE Transition
    <3>1. UNCHANGED <<stores, slot, written, subscribed>> /\ Announce
      BY <2>2 DEF Transition, storage, recording
    <3> QED
      BY <3>1, Announced DEF StoreShapes
  <2>3. CASE PortChange \/ Tick \/ FlushTimeout \/ FlushFailed \/ BeginQuery \/ Stop \/ Exit
             \/ \E ok \in BOOLEAN : EndQuery(ok)
    <3>1. UNCHANGED <<stores, channel, written, fate, subscribed>>
      BY <2>3, Zenon DEF PortChange, Tick, FlushTimeout, FlushFailed, BeginQuery, Stop, Exit,
                  EndQuery, GiveUp, published, storage, recording
    <3>2. slot' = slot \/ slot' = NoStore
      BY <2>3, Zenon DEF PortChange, Tick, FlushTimeout, FlushFailed, BeginQuery, Stop, Exit,
                  EndQuery, GiveUp, published, storage, recording
    <3> QED
      BY <3>1, <3>2, NothingMoves
  <2>4. CASE Flushed \/ ReportFailed \/ ReportRecovered \/ ReportQuery
    <3>1. UNCHANGED <<stores, slot, written, subscribed>>
      BY <2>4 DEF Flushed, ReportFailed, ReportRecovered, ReportQuery, storage, recording
    <3>2. PICK now : Report(now)
      BY <2>4, Zenon DEF Flushed, ReportFailed, ReportRecovered, ReportQuery
    <3> QED
      BY <3>1, <3>2, Reported
  <2>5. CASE \E s \in Store, ok \in BOOLEAN : WriterStep(s, ok)
    BY <2>5, WriterMoves
  <2>6. CASE \E s \in Store : WriterEnds(s)
    BY <2>6, EndMoves
  <2>7. CASE \E ok \in BOOLEAN : Reopen(ok)
    BY <2>7, ReopenMoves
  <2>8. CASE Subscribe \/ RecordTransition \/ RecordPort
    BY <2>8, SubscribeMoves, RecordMoves, PortMoves
  <2>9. CASE SendBarrier
    BY <2>9, BarrierMoves
  <2> QED
    BY <1>2, <2>2, <2>3, <2>4, <2>5, <2>6, <2>7, <2>8, <2>9, Zenon
       DEF HistoryNext, Environment, Supervision, Recorder, Answering, Writer
<1> QED
  BY <1>1, <1>2

LEMMA HistoryAlways == HistorySpec => []HistoryInv
BY HistoryInitially, HistorySteps, PTL DEF HistorySpec

\* The bounds of the channel and of every writer's queue, and the shapes of the tasks,
\* for every number of handles and every capacity: in particular the store in the slot
\* is in use, and a thread that is alive belongs to a handle in use.
THEOREM HistoryTypeCorrect == HistorySpec => []HistoryTypeOK
<1>1. HistoryInv => HistoryTypeOK
  <2> SUFFICES ASSUME HistoryInv PROVE HistoryTypeOK
    OBVIOUS
  <2>1. written \in 0 .. 1
    BY DEF HistoryInv, ChannelShapes, Counted, AtMostOne
  <2>2. ASSUME NEW s \in Store
        PROVE  /\ Len(stores[s].queue) <= QueueCapacity
               /\ \A i \in DOMAIN stores[s].queue : stores[s].queue[i] \in Command
               /\ stores[s].alive => stores[s].used
    BY DEF HistoryInv, StoreShapes, StoreShape
  <2> QED
    BY <2>1, <2>2 DEF HistoryInv, StoreShapes, ChannelShapes, TaskShapes, HistoryTypeOK
<1> QED
  BY <1>1, HistoryAlways, PTL

\* record_history, HistoryStore and writer_loop, for every number of handles, every
\* capacity of channel and queues and every order of faults: a transition published
\* after the recorder subscribed is in exactly one place (the channel, the queue of one
\* writer, one row), or nowhere and its fate says how it was lost.  No reopening, failed
\* flush or end of a thread duplicates it or loses it silently.
THEOREM AlwaysAccountedFor == HistorySpec => []AccountedFor
<1>1. HistoryInv => AccountedFor
  <2> SUFFICES ASSUME HistoryInv PROVE AccountedFor
    OBVIOUS
  <2>1. /\ Somewhere => \E p : Places = {p}
        /\ ~Somewhere => Places = {}
    BY PlacesCounted, Zenon DEF HistoryInv, Counted
  <2>2. /\ fate = "recorded" => Somewhere
        /\ fate # "recorded" /\ ~(fate = "unheard" /\ ~subscribed) => ~Somewhere
    BY DEF HistoryInv, Counted
  <2> QED
    BY <2>1, <2>2 DEF AccountedFor
<1> QED
  BY <1>1, HistoryAlways, PTL
==============================================================================
