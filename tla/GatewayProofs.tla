---------------------------- MODULE GatewayProofs ----------------------------
(***************************************************************************)
(* The base firewall comes first, and routes that a script completed hold: *)
(* for every threshold and set of profiles, whatever fails, is dropped or  *)
(* is started again.  The monitor of the VPN server shows a measurement    *)
(* only with the endpoint it was taken at, for every set of peers and      *)
(* endpoints and every size of its window.                                 *)
(***************************************************************************)
EXTENDS Gateway, VpnServer, SequenceTheorems, FiniteSetTheorems, TLAPS

------------------------------------------------------------------------------
(* The VPN server monitor *)

\* MeasuredAtShown, and the types it needs: what the monitor has read, its window, and
\* what it shows
VpnServerInv ==
    /\ peer \in Peer \cup {NoPeer} /\ endpoint \in Endpoint \cup {NoEndpoint}
    /\ v_peer \in Peer \cup {NoPeer} /\ v_endpoint \in Endpoint \cup {NoEndpoint}
    /\ samples \in Seq(BOOLEAN)
    /\ shown \in [host : Peer \cup {NoPeer}, endpoint : Endpoint \cup {NoEndpoint},
                  status : ProbeResult \cup {"Pending"}, lost : Nat, of : Nat]
    /\ MeasuredAtShown

\* The window counts its lost samples, and one that ends with a measurement has lost
\* fewer than all.
LEMMA LostCounts ==
    ASSUME NEW w \in Seq(BOOLEAN)
    PROVE  /\ Lost(w) \in Nat
           /\ w # <<>> /\ w[Len(w)] => Lost(w) < Len(w)
<1> DEFINE lost == {i \in DOMAIN w : ~w[i]}
<1>1. Len(w) \in Nat /\ DOMAIN w = 1 .. Len(w) /\ (w # <<>> => Len(w) \in 1 .. Len(w))
  OBVIOUS
<1>2. IsFiniteSet(1 .. Len(w)) /\ Cardinality(1 .. Len(w)) = Len(w)
  <2>1. 1 \in Int /\ Len(w) \in Int
    BY <1>1
  <2>2. Cardinality(1 .. Len(w)) = IF 1 > Len(w) THEN 0 ELSE Len(w) - 1 + 1
    BY <2>1, FS_Interval
  <2> QED
    BY <1>1, <2>1, <2>2, FS_Interval
<1>3. lost \subseteq 1 .. Len(w)
  BY <1>1
<1>4. IsFiniteSet(lost) /\ Cardinality(lost) \in Nat
  BY <1>2, <1>3, FS_Subset, FS_CardinalityType
<1>5. ASSUME w # <<>>, w[Len(w)] PROVE Cardinality(lost) < Len(w)
  <2>1. lost # 1 .. Len(w)
    BY <1>1, <1>5
  <2> HIDE DEF lost
  <2>2. /\ Cardinality(lost) <= Cardinality(1 .. Len(w))
        /\ Cardinality(lost) # Cardinality(1 .. Len(w))
    BY <1>2, <1>3, <2>1, FS_Subset, Zenon
  <2> QED
    BY <1>1, <1>2, <1>4, <2>2
<1> HIDE DEF lost
<1>6. Lost(w) = Cardinality(lost)
  BY DEF Lost, lost
<1> QED
  BY <1>4, <1>5, <1>6

\* A sample ends the window it is recorded in.
LEMMA Recorded ==
    ASSUME NEW w \in Seq(BOOLEAN), NEW m \in BOOLEAN
    PROVE  /\ record(w, m) \in Seq(BOOLEAN) /\ record(w, m) # <<>>
           /\ record(w, m)[Len(record(w, m))] = m
           /\ Len(record(w, m)) \in Nat
<1> DEFINE kept == IF Len(w) = SampleCapacity THEN Tail(w) ELSE w
<1>1. kept \in Seq(BOOLEAN)
  <2>1. CASE Len(w) = SampleCapacity
    <3>1. w # <<>>
      BY <2>1, VpnServerAssumption
    <3> QED
      BY <2>1, <3>1
  <2> QED
    BY <2>1
<1> HIDE DEF kept
<1>2. record(w, m) = Append(kept, m)
  BY DEF record, kept
<1>3. Append(kept, m) \in Seq(BOOLEAN) /\ Len(Append(kept, m)) = Len(kept) + 1
  BY <1>1
<1>4. Append(kept, m)[Len(kept) + 1] = m
  BY <1>1
<1> QED
  BY <1>1, <1>2, <1>3, <1>4

\* MeasuredAtShown holds in every state: the endpoint shown is the one that was read
\* before the ping, however often it has changed since.
THEOREM MeasuredAlwaysAtShown == VpnServerSpec => []MeasuredAtShown
<1>1. VpnServerInit => VpnServerInv
  <2> SUFFICES ASSUME VpnServerInit PROVE VpnServerInv
    OBVIOUS
  <2>1. samples \in Seq(BOOLEAN)
    BY DEF VpnServerInit
  <2> QED
    BY <2>1 DEF VpnServerInit, VpnServerInv, MeasuredAtShown
<1>2. VpnServerInv /\ [VpnServerNext]_vpn_vars => VpnServerInv'
  <2> SUFFICES ASSUME VpnServerInv, [VpnServerNext]_vpn_vars PROVE VpnServerInv'
    OBVIOUS
  <2>1. CASE ReadPeer
    BY <2>1 DEF ReadPeer, VpnServerInv, MeasuredAtShown
  <2>2. CASE ReadEndpoint
    BY <2>2 DEF ReadEndpoint, VpnServerInv, MeasuredAtShown
  <2>3. CASE EndpointUnavailable
    <3>1. samples' \in Seq(BOOLEAN) /\ Lost(samples') \in Nat /\ Len(samples') \in Nat
      <4>1. samples' = record(samples, FALSE) /\ samples \in Seq(BOOLEAN)
        BY <2>3, Zenon DEF EndpointUnavailable, Sample, VpnServerInv
      <4> QED
        BY <4>1, Recorded, LostCounts, Zenon
    <3>2. /\ shown' = [shown EXCEPT !.status = "Unavailable", !.lost = Lost(samples'),
                                    !.of = Len(samples')]
          /\ v_peer' = NoPeer /\ UNCHANGED <<peer, endpoint, v_endpoint, probed>>
      BY <2>3 DEF EndpointUnavailable
    <3>3. shown'.status = "Unavailable"
      BY <3>2 DEF VpnServerInv
    <3>4. shown' \in [host : Peer \cup {NoPeer}, endpoint : Endpoint \cup {NoEndpoint},
                      status : ProbeResult \cup {"Pending"}, lost : Nat, of : Nat]
      BY <3>1, <3>2, Zenon DEF VpnServerInv, ProbeResult
    <3> QED
      BY <3>1, <3>2, <3>3, <3>4 DEF VpnServerInv, MeasuredAtShown
  <2>4. ASSUME NEW r \in ProbeResult, Probe(r) PROVE VpnServerInv'
    <3> DEFINE m == r = "Measured"
    <3>1. samples' = record(samples, m) /\ samples \in Seq(BOOLEAN) /\ m \in BOOLEAN
      BY <2>4 DEF Probe, Sample, VpnServerInv
    <3>2. PICK w \in Seq(BOOLEAN) : w = samples' /\ w # <<>> /\ w[Len(w)] = m
      BY <3>1, Recorded, Zenon
    <3>3. Lost(w) \in Nat /\ Len(w) \in Nat /\ (m => Lost(w) < Len(w))
      BY <3>2, LostCounts
    <3>4. /\ shown' = [host |-> v_peer, endpoint |-> v_endpoint, status |-> r,
                       lost |-> Lost(w), of |-> Len(w)]
          /\ probed' = v_endpoint /\ v_peer' = NoPeer /\ v_endpoint' = NoEndpoint
          /\ UNCHANGED <<peer, endpoint>>
      BY <2>4, <3>2 DEF Probe
    <3>5. MeasuredAtShown'
      BY <3>3, <3>4 DEF MeasuredAtShown
    <3> QED
      BY <3>2, <3>3, <3>4, <3>5 DEF VpnServerInv
  <2>5. CASE ObserveLatency
    BY <2>5 DEF ObserveLatency, VpnServerInv, MeasuredAtShown
  <2>6. ASSUME NEW p \in Peer \cup {NoPeer}, ProfileChanges(p) PROVE VpnServerInv'
    BY <2>6 DEF ProfileChanges, locals, VpnServerInv, MeasuredAtShown
  <2>7. ASSUME NEW e \in Endpoint \cup {NoEndpoint}, EndpointChanges(e) PROVE VpnServerInv'
    BY <2>7 DEF EndpointChanges, locals, VpnServerInv, MeasuredAtShown
  <2>8. CASE UNCHANGED vpn_vars
    BY <2>8 DEF vpn_vars, locals, VpnServerInv, MeasuredAtShown
  <2> QED
    BY <2>1, <2>2, <2>3, <2>4, <2>5, <2>6, <2>7, <2>8 DEF VpnServerNext
<1>3. VpnServerInv => MeasuredAtShown
  BY DEF VpnServerInv
<1> QED
  BY <1>1, <1>2, <1>3, PTL DEF VpnServerSpec
------------------------------------------------------------------------------
(* Startup and the routes *)

\* The provers get more time than by default.
USE SMTT(30), ZenonT(20)

\* FirewallFirst alone is not inductive: until the base policy is in, no installer
\* may be at work, or its next command would add a rule without it.
StartInv ==
    /\ phase # "base" => fw
    /\ phase = "base" => /\ ~iface /\ kernel = {}
                         /\ kind = "none" /\ prof["start"] = NoProfile

\* An installer at work has the base policy, and the process it belongs to goes on.
LEMMA WorkingLate ==
    ASSUME StartInv, NEW p \in Installer, Working(p)
    PROVE  phase # "base" /\ fw
BY DEF StartInv, Working, Installer

\* What an installer that is at work does after a failure never returns run() to
\* its start.
LEMMA FailsLate ==
    ASSUME phase # "base", NEW p, Fails(p)
    PROVE  phase' # "base"
BY DEF Fails, Rest

\* The steps of the installers
LEMMA InstallersKeep ==
    ASSUME StartInv,
           \/ InstallerStep \/ DropHandler
           \/ \E c \in Profile, stages \in Stages : BeginApply(c, stages)
    PROVE  StartInv'
<1> SUFFICES phase # "base" /\ fw /\ phase' # "base" /\ fw' = fw
  BY DEF StartInv
<1>1. ASSUME NEW p \in Installer, NEW ok \in BOOLEAN, WireguardUp(p, ok)
      PROVE  phase # "base" /\ fw /\ phase' # "base" /\ fw' = fw
  BY <1>1, WorkingLate, FailsLate DEF WireguardUp, Stage
<1>2. ASSUME NEW p \in Installer, NEW ok \in BOOLEAN, Step(p, ok)
      PROVE  phase # "base" /\ fw /\ phase' # "base" /\ fw' = fw
  BY <1>2, WorkingLate, FailsLate DEF Step, NextStage
<1>3. ASSUME NEW p \in Installer, NEW ok \in BOOLEAN, Finish(p, ok)
      PROVE  phase # "base" /\ fw /\ phase' # "base" /\ fw' = fw
  BY <1>3, WorkingLate, FailsLate DEF Finish
<1>4. ASSUME NEW ok \in BOOLEAN, ReconcileBase(ok) \/ WireguardDown(ok)
      PROVE  phase # "base" /\ fw /\ phase' # "base" /\ fw' = fw
  BY <1>4, WorkingLate DEF ReconcileBase, WireguardDown, Stage, NextStage, Installer
<1>5. ASSUME BeginRoutes \/ DropHandler
      PROVE  phase # "base" /\ fw /\ phase' # "base" /\ fw' = fw
  BY <1>5, WorkingLate DEF BeginRoutes, DropHandler, Stage, Installer
<1>6. ASSUME NEW c \in Profile, NEW stages \in Stages, BeginApply(c, stages)
      PROVE  phase # "base" /\ fw /\ phase' # "base" /\ fw' = fw
  BY <1>6 DEF BeginApply, Serving, StartInv
<1> QED
  BY <1>1, <1>2, <1>3, <1>4, <1>5, <1>6 DEF InstallerStep

\* The steps of the monitor, which runs only while run() serves or stops
LEMMA MonitorKeeps ==
    ASSUME StartInv, MonitorStep
    PROVE  StartInv'
<1>1. phase # "base" /\ fw
  BY DEF MonitorStep, ReadHandshake, Alive, Recover, Silent, StartRecovery, Monitoring, StartInv
<1>2. phase' # "base" /\ fw' = fw
  BY <1>1, Zenon DEF MonitorStep, ReadHandshake, Alive, Recover, Silent, StartRecovery, EndTask
<1> QED
  BY <1>1, <1>2 DEF StartInv

\* The steps of the process: its start, its end and what happens around it
LEMMA ProcessKeeps ==
    ASSUME StartInv, ProcessStep \/ StopRequested \/ Exit \/ LoseInterface \/ GoCalm
    PROVE  StartInv'
<1>1. ASSUME NEW ok \in BOOLEAN, RunBase(ok) PROVE StartInv'
  BY <1>1 DEF RunBase, StartInv, installers
<1>2. ASSUME NEW ok \in BOOLEAN, TearDown(ok) PROVE StartInv'
  BY <1>2 DEF TearDown, StartInv
<1>3. ASSUME NEW p \in Profile \cup {NoProfile}, RunLoad(p) PROVE StartInv'
  BY <1>3 DEF RunLoad, StartInv
<1>4. ASSUME StopTasks \/ StopRequested PROVE StartInv'
  BY <1>4 DEF StopTasks, StopRequested, StartInv
<1>5. ASSUME Exit PROVE StartInv'
  BY <1>5 DEF Exit, StartInv, Installer
<1>6. ASSUME LoseInterface \/ GoCalm PROVE StartInv'
  BY <1>6 DEF LoseInterface, GoCalm, StartInv, installers
<1> QED
  BY <1>1, <1>2, <1>3, <1>4, <1>5, <1>6 DEF ProcessStep

\* There is neither a tunnel nor a policy rule before the base policy is installed
\* (run, runtime.rs 38-60): no request served during the start, no recovery, no
\* dropped handler and no restart gets ahead of it.
THEOREM FirewallAlwaysFirst == Spec => []FirewallFirst
<1>1. Init => StartInv
  BY DEF Init, StartInv, Installer
<1>2. StartInv /\ [Next]_vars => StartInv'
  <2>1. StartInv /\ UNCHANGED vars => StartInv'
    BY DEF StartInv, vars, installers
  <2> QED
    BY <2>1, InstallersKeep, MonitorKeeps, ProcessKeeps DEF Next
<1>3. StartInv => FirewallFirst
  BY DEF StartInv, FirewallFirst
<1> QED
  BY <1>1, <1>2, <1>3, PTL DEF Spec
------------------------------------------------------------------------------
(* The policy routes. *)

\* How many commands configure_gateway_routes issues
ScriptLen == IF Ipv6Routing THEN 13 ELSE 7

\* What the commands before the n-th have left in the kernel and no other step takes
\* away: a route through the tunnel is lost only together with the interface.
Reached(n) ==
    /\ n > 3 => Rule90("ipv4") \in kernel
    /\ n > 4 => Rule100("ipv4") \in kernel
    /\ n > 5 => Unreachable("ipv4") \in kernel
    /\ n > 6 => (iface => TunnelRoute("ipv4") \in kernel)
    /\ n > 8 => Unreachable("ipv6") \in kernel
    /\ n > 12 => Rule90("ipv6") \in kernel
    /\ n > 13 => Rule100("ipv6") \in kernel

\* The installers' programs have their shape, and a script runs only where run()
\* lets one.
ScriptShape ==
    /\ pos \in [Installer -> 0 .. ScriptLen]
    /\ todo = [p \in Installer |-> todo[p]] /\ prof = [p \in Installer |-> prof[p]]
    /\ \A p \in Installer : pos[p] # 0 => todo[p] # <<>>
    /\ kind = "none" => pos["op"] = 0
    /\ phase \in {"base", "load"} =>
          kind = "none" /\ prof["start"] = NoProfile /\ pos["start"] = 0

\* RoutesHold follows a script through its commands: one that runs by itself has
\* reached what its place says, and none is under way when the last one's result
\* stands.
ScriptInv ==
    /\ ScriptShape
    /\ outcome \notin {"running", "mixed"} => \A p \in Installer : pos[p] = 0
    /\ \A p \in Installer, n \in 1 .. ScriptLen : outcome = "running" /\ pos[p] = n =>
          Reached(n) /\ \A q \in Installer \ {p} : pos[q] = 0
    /\ outcome = "ok" => Reached(ScriptLen + 1)

\* The commands, one by one
LEMMA ScriptCommands ==
    ASSUME NEW profile
    PROVE  LET s == configure_gateway_routes(profile)
           IN /\ Len(s) = ScriptLen
              /\ s[1] = Try(Rule100("ipv4")) /\ s[2] = Try(Rule90("ipv4"))
              /\ s[3] = Add(Rule90("ipv4")) /\ s[4] = Add(Rule100("ipv4"))
              /\ s[5] = Replace(Unreachable("ipv4")) /\ s[6] = Replace(TunnelRoute("ipv4"))
              /\ s[7] = Replace(ServiceRoute)
              /\ Ipv6Routing =>
                   /\ s[8] = Replace(Unreachable("ipv6"))
                   /\ s[9] \in {Replace(TunnelRoute("ipv6")), Try(TunnelRoute("ipv6"))}
                   /\ s[10] = Try(Rule100("ipv6")) /\ s[11] = Try(Rule90("ipv6"))
                   /\ s[12] = Add(Rule90("ipv6")) /\ s[13] = Add(Rule100("ipv6"))
<1> DEFINE items == {Rule100(f) : f \in {"ipv4", "ipv6"}} \cup {Rule90(f) : f \in {"ipv4", "ipv6"}}
                        \cup {Unreachable(f) : f \in {"ipv4", "ipv6"}}
                        \cup {TunnelRoute(f) : f \in {"ipv4", "ipv6"}} \cup {ServiceRoute}
<1> DEFINE All == {Try(x) : x \in items} \cup {Add(x) : x \in items} \cup {Replace(x) : x \in items}
<1>0. \A f \in {"ipv4", "ipv6"} :
        /\ {Try(Rule100(f)), Try(Rule90(f)), Try(TunnelRoute(f))} \subseteq All
        /\ {Add(Rule100(f)), Add(Rule90(f))} \subseteq All
        /\ {Replace(Unreachable(f)), Replace(TunnelRoute(f)), Replace(ServiceRoute)} \subseteq All
  BY Zenon
<1> HIDE DEF All
<1> DEFINE a == <<Try(Rule100("ipv4")), Try(Rule90("ipv4")),
                  Add(Rule90("ipv4")), Add(Rule100("ipv4"))>>
<1> DEFINE b == gateway_table_route_args("ipv4")
<1> DEFINE c == <<Replace(ServiceRoute)>>
<1> DEFINE d == configure_gateway_ipv6_routes(profile)
<1>1. /\ a \in Seq(All) /\ Len(a) = 4
      /\ a[1] = Try(Rule100("ipv4")) /\ a[2] = Try(Rule90("ipv4"))
      /\ a[3] = Add(Rule90("ipv4")) /\ a[4] = Add(Rule100("ipv4"))
  BY <1>0
<1>2. /\ b \in Seq(All) /\ Len(b) = 2
      /\ b[1] = Replace(Unreachable("ipv4")) /\ b[2] = Replace(TunnelRoute("ipv4"))
  BY <1>0 DEF gateway_table_route_args
<1>3. c \in Seq(All) /\ Len(c) = 1 /\ c[1] = Replace(ServiceRoute)
  BY <1>0
<1>4. ASSUME Ipv6Routing
      PROVE  /\ d \in Seq(All) /\ Len(d) = 6
             /\ d[1] = Replace(Unreachable("ipv6"))
             /\ d[2] \in {Replace(TunnelRoute("ipv6")), Try(TunnelRoute("ipv6"))}
             /\ d[3] = Try(Rule100("ipv6")) /\ d[4] = Try(Rule90("ipv6"))
             /\ d[5] = Add(Rule90("ipv6")) /\ d[6] = Add(Rule100("ipv6"))
  <2> DEFINE e == IF profile = "dual" THEN Replace(TunnelRoute("ipv6"))
                  ELSE Try(TunnelRoute("ipv6"))
  <2>1. e \in {Replace(TunnelRoute("ipv6")), Try(TunnelRoute("ipv6"))}
    OBVIOUS
  <2>2. d = <<Replace(Unreachable("ipv6")), e, Try(Rule100("ipv6")), Try(Rule90("ipv6")),
              Add(Rule90("ipv6")), Add(Rule100("ipv6"))>>
    BY <1>4 DEF configure_gateway_ipv6_routes
  <2> HIDE DEF d, e
  <2> QED
    BY <1>0, <2>1, <2>2
<1>5. ASSUME ~Ipv6Routing PROVE d = <<>> /\ d \in Seq(All) /\ Len(d) = 0
  BY <1>5 DEF configure_gateway_ipv6_routes
<1>6. configure_gateway_routes(profile) = a \o b \o c \o d
  BY DEF configure_gateway_routes
<1> HIDE DEF a, b, c, d
<1> DEFINE ab == a \o b
<1>7. /\ ab \in Seq(All) /\ Len(ab) = 6
      /\ \A i \in 1 .. 6 : ab[i] = IF i <= 4 THEN a[i] ELSE b[i - 4]
  <2>1. /\ ab \in Seq(All) /\ Len(ab) = Len(a) + Len(b)
        /\ \A i \in 1 .. Len(a) + Len(b) : ab[i] = IF i <= Len(a) THEN a[i] ELSE b[i - Len(a)]
    BY <1>1, <1>2, ConcatProperties, Zenon
  <2> HIDE DEF ab
  <2> QED
    BY <1>1, <1>2, <2>1
<1> HIDE DEF ab
<1> DEFINE abc == ab \o c
<1>8. /\ abc \in Seq(All) /\ Len(abc) = 7
      /\ \A i \in 1 .. 7 : abc[i] = IF i <= 6 THEN ab[i] ELSE c[i - 6]
  <2>1. /\ abc \in Seq(All) /\ Len(abc) = Len(ab) + Len(c)
        /\ \A i \in 1 .. Len(ab) + Len(c) :
              abc[i] = IF i <= Len(ab) THEN ab[i] ELSE c[i - Len(ab)]
    BY <1>3, <1>7, ConcatProperties, Zenon
  <2> HIDE DEF abc
  <2> QED
    BY <1>3, <1>7, <2>1
<1> HIDE DEF abc
<1> DEFINE s == abc \o d
<1>9. /\ Len(s) = 7 + Len(d)
      /\ \A i \in 1 .. 7 + Len(d) : s[i] = IF i <= 7 THEN abc[i] ELSE d[i - 7]
  <2>1. /\ Len(s) = Len(abc) + Len(d)
        /\ \A i \in 1 .. Len(abc) + Len(d) :
              s[i] = IF i <= Len(abc) THEN abc[i] ELSE d[i - Len(abc)]
    BY <1>4, <1>5, <1>8, ConcatProperties, Zenon
  <2> HIDE DEF s
  <2> QED
    BY <1>8, <2>1
<1>10. configure_gateway_routes(profile) = s
  BY <1>6 DEF ab, abc
<1> HIDE DEF s
<1>11. Len(d) \in {0, 6}
  BY <1>4, <1>5
<1>12. /\ s[1] = a[1] /\ s[2] = a[2] /\ s[3] = a[3] /\ s[4] = a[4]
       /\ s[5] = b[1] /\ s[6] = b[2] /\ s[7] = c[1]
  <2>1. \A i \in 1 .. 7 : s[i] = abc[i]
    BY <1>9, <1>11
  <2>2. \A i \in 1 .. 6 : s[i] = ab[i]
    BY <1>8, <2>1
  <2> QED
    BY <1>7, <1>8, <2>1, <2>2
<1>13. CASE Ipv6Routing
  <2>1. Len(d) = 6 /\ \A i \in 8 .. 13 : s[i] = d[i - 7]
    <3>1. Len(d) = 6
      BY <1>4, <1>13
    <3> QED
      BY <1>9, <3>1
  <2>2. /\ s[8] = d[1] /\ s[9] = d[2] /\ s[10] = d[3] /\ s[11] = d[4]
        /\ s[12] = d[5] /\ s[13] = d[6] /\ Len(s) = 13
    BY <1>9, <2>1
  <2> QED
    BY <1>1, <1>2, <1>3, <1>4, <1>10, <1>12, <1>13, <2>2 DEF ScriptLen
<1>14. CASE ~Ipv6Routing
  BY <1>1, <1>2, <1>3, <1>5, <1>9, <1>10, <1>12, <1>14 DEF ScriptLen
<1> QED
  BY <1>13, <1>14

\* What the commands are about is told apart.
LEMMA ItemsDiffer ==
    /\ Rule90("ipv4") \notin {Rule100("ipv4"), Rule90("ipv6"), Rule100("ipv6")} \cup ThroughTunnel
    /\ Rule100("ipv4") \notin {Rule90("ipv4"), Rule90("ipv6"), Rule100("ipv6")} \cup ThroughTunnel
    /\ Rule90("ipv6") \notin {Rule90("ipv4"), Rule100("ipv4"), Rule100("ipv6")} \cup ThroughTunnel
    /\ Rule100("ipv6") \notin {Rule90("ipv4"), Rule100("ipv4"), Rule90("ipv6")} \cup ThroughTunnel
    /\ \A f, g \in {"ipv4", "ipv6"} : Unreachable(f) \notin {Rule90(g), Rule100(g)} \cup ThroughTunnel
    /\ \A f, g \in {"ipv4", "ipv6"} : TunnelRoute(f) \notin {Rule90(g), Rule100(g)}
    /\ TunnelRoute("ipv4") # TunnelRoute("ipv6")
BY DEF Rule90, Rule100, Unreachable, TunnelRoute, ThroughTunnel, ServiceRoute

\* A command that is done, or that may fail and did, takes the script on.
LEMMA StepReaches ==
    ASSUME NEW profile, NEW n \in 1 .. ScriptLen, Reached(n), NEW ok \in BOOLEAN, NEW c,
           c = configure_gateway_routes(profile)[n], ok \/ ~c.must, iface' = iface,
           kernel' = IF ~ok THEN kernel
                     ELSE IF c.verb = "del" THEN kernel \ {c.item} ELSE kernel \cup {c.item}
    PROVE  Reached(n + 1)'
<1>1. /\ n \in 1 .. 13 /\ (n > 7 => Ipv6Routing)
  BY DEF ScriptLen
<1>2. \A item : /\ Try(item).verb = "del" /\ Try(item).item = item /\ ~Try(item).must
                /\ Add(item).verb = "add" /\ Add(item).item = item /\ Add(item).must
                /\ Replace(item).verb = "replace" /\ Replace(item).item = item
                /\ Replace(item).must
  BY DEF Try, Add, Replace
<1>3. /\ n = 1 => c = Try(Rule100("ipv4"))
      /\ n = 2 => c = Try(Rule90("ipv4"))
      /\ n = 3 => c = Add(Rule90("ipv4"))
      /\ n = 4 => c = Add(Rule100("ipv4"))
      /\ n = 5 => c = Replace(Unreachable("ipv4"))
      /\ n = 6 => c = Replace(TunnelRoute("ipv4"))
      /\ n = 7 => c = Replace(ServiceRoute)
      /\ n = 8 => c = Replace(Unreachable("ipv6"))
      /\ n = 9 => c \in {Replace(TunnelRoute("ipv6")), Try(TunnelRoute("ipv6"))}
      /\ n = 10 => c = Try(Rule100("ipv6"))
      /\ n = 11 => c = Try(Rule90("ipv6"))
      /\ n = 12 => c = Add(Rule90("ipv6"))
      /\ n = 13 => c = Add(Rule100("ipv6"))
  BY <1>1, ScriptCommands
<1>4. CASE c.must
  <2>1. kernel' = kernel \cup {c.item}
    BY <1>1, <1>2, <1>3, <1>4
  <2>2. /\ n = 3 => c.item = Rule90("ipv4")
        /\ n = 4 => c.item = Rule100("ipv4")
        /\ n = 5 => c.item = Unreachable("ipv4")
        /\ n = 6 => c.item = TunnelRoute("ipv4")
        /\ n = 8 => c.item = Unreachable("ipv6")
        /\ n = 12 => c.item = Rule90("ipv6")
        /\ n = 13 => c.item = Rule100("ipv6")
    BY <1>2, <1>3
  <2>3. n \notin {1, 2, 10, 11}
    BY <1>2, <1>3, <1>4
  <2>4. /\ n > 2 => Rule90("ipv4") \in kernel'
        /\ n > 3 => Rule100("ipv4") \in kernel'
        /\ n > 4 => Unreachable("ipv4") \in kernel'
    BY <1>1, <2>1, <2>2 DEF Reached
  <2>5. /\ n > 5 => (iface' => TunnelRoute("ipv4") \in kernel')
        /\ n > 7 => Unreachable("ipv6") \in kernel'
    BY <1>1, <2>1, <2>2 DEF Reached
  <2>6. /\ n > 11 => Rule90("ipv6") \in kernel'
        /\ n > 12 => Rule100("ipv6") \in kernel'
    BY <1>1, <2>1, <2>2 DEF Reached
  <2> QED
    BY <1>1, <2>4, <2>5, <2>6 DEF Reached
<1>5. CASE ~c.must
  <2>1. n \in {1, 2, 9, 10, 11}
    BY <1>1, <1>2, <1>3, <1>5
  <2>2. /\ c.verb = "del"
        /\ n \in {9, 10, 11} =>
              c.item \in {TunnelRoute("ipv6"), Rule100("ipv6"), Rule90("ipv6")}
    BY <1>2, <1>3, <1>5, <2>1
  <2>3. kernel' = kernel \/ kernel' = kernel \ {c.item}
    BY <2>2
  <2>4. CASE n \in {1, 2}
    BY <2>4 DEF Reached
  <2>5. CASE n \in {9, 10, 11}
    <3>1. /\ c.item \notin {Rule90("ipv4"), Rule100("ipv4"), TunnelRoute("ipv4")}
          /\ c.item \notin {Unreachable("ipv4"), Unreachable("ipv6")}
      BY <2>2, <2>5 DEF Rule90, Rule100, Unreachable, TunnelRoute
    <3>2. /\ {Rule90("ipv4"), Rule100("ipv4"), Unreachable("ipv4")} \subseteq kernel
          /\ iface => TunnelRoute("ipv4") \in kernel
          /\ n > 8 => Unreachable("ipv6") \in kernel
      BY <2>5 DEF Reached
    <3>3. /\ {Rule90("ipv4"), Rule100("ipv4"), Unreachable("ipv4")} \subseteq kernel'
          /\ iface' => TunnelRoute("ipv4") \in kernel'
      BY <2>3, <3>1, <3>2
    <3>4. n > 8 => Unreachable("ipv6") \in kernel'
      BY <2>3, <3>1, <3>2
    <3> QED
      BY <2>5, <3>3, <3>4 DEF Reached
  <2> QED
    BY <2>1, <2>4, <2>5
<1> QED
  BY <1>4, <1>5

\* Losing the interface loses the routes through it and nothing else.
LEMMA ReachedStays ==
    ASSUME \/ (iface' => iface) /\ kernel' = kernel
           \/ ~iface' /\ kernel' = kernel \ ThroughTunnel
    PROVE  \A n \in Nat : Reached(n) => Reached(n)'
BY ItemsDiffer DEF Reached

\* A step of anything but a script
LEMMA Carried ==
    ASSUME ScriptInv, UNCHANGED <<pos, outcome>>, ScriptShape',
           \A n \in Nat : Reached(n) => Reached(n)'
    PROVE  ScriptInv'
<1>1. ScriptLen \in Nat
  BY DEF ScriptLen
<1> QED
  BY <1>1 DEF ScriptInv

\* A script that ends before its last command, or an installer that was in none
LEMMA Ended ==
    ASSUME ScriptInv, NEW p \in Installer, pos' = [pos EXCEPT ![p] = 0], ScriptShape',
           UNCHANGED <<iface, kernel>>, NEW how \in {"failed", "dropped"},
           outcome' = IF pos[p] # 0 THEN Ran(how) ELSE outcome
    PROVE  ScriptInv'
<1>1. pos \in [Installer -> 0 .. ScriptLen]
  BY DEF ScriptInv, ScriptShape
<1>2. CASE pos[p] = 0
  <2>1. UNCHANGED <<pos, outcome>>
    BY <1>1, <1>2
  <2> QED
    BY <2>1, Carried, ReachedStays
<1>3. CASE pos[p] # 0
  <2>1. outcome \in {"running", "mixed"} /\ pos[p] \in 1 .. ScriptLen
    BY <1>1, <1>3 DEF ScriptInv, ScriptLen
  <2>2. CASE outcome = "mixed"
    BY <1>3, <2>2 DEF ScriptInv, Ran
  <2>3. CASE outcome = "running"
    <3>1. outcome' = how /\ how # "ok" /\ how # "running"
      BY <1>3, <2>3 DEF Ran
    <3>2. \A q \in Installer : pos'[q] = 0
      BY <1>1, <2>1, <2>3 DEF ScriptInv
    <3> QED
      BY <3>1, <3>2 DEF ScriptInv
  <2> QED
    BY <2>1, <2>2, <2>3
<1> QED
  BY <1>2, <1>3

\* A script that begins
LEMMA Begun ==
    ASSUME ScriptInv, NEW p \in Installer, BeginScript(p), ScriptShape'
    PROVE  ScriptInv'
<1>1. pos \in [Installer -> 0 .. ScriptLen] /\ pos' = [pos EXCEPT ![p] = 1]
  BY DEF ScriptInv, ScriptShape, BeginScript
<1>2. CASE OtherInScript(p)
  BY <1>2 DEF ScriptInv, BeginScript
<1>3. CASE ~OtherInScript(p)
  <2>1. outcome' = "running" /\ \A q \in Installer \ {p} : pos'[q] = 0
    BY <1>1, <1>3 DEF BeginScript, OtherInScript
  <2>2. pos'[p] = 1 /\ Reached(1)'
    BY <1>1 DEF Reached
  <2> QED
    BY <2>1, <2>2 DEF ScriptInv
<1> QED
  BY <1>2, <1>3

\* An installer that is done, and one that has failed, is in no script.
LEMMA RestShape ==
    ASSUME ScriptInv, NEW p \in Installer, Rest(p) \/ Fails(p),
           phase' \in {"base", "load"} => FALSE
    PROVE  ScriptShape' /\ pos' = [pos EXCEPT ![p] = 0]
<1>1. pos' = [pos EXCEPT ![p] = 0] /\ (p = "start" => kind' = kind)
  BY DEF Rest, Fails
<1>2. PICK x, y : todo' = [todo EXCEPT ![p] = x] /\ prof' = [prof EXCEPT ![p] = y]
  BY DEF Rest, Fails
<1>3. /\ pos \in [Installer -> 0 .. ScriptLen]
      /\ todo = [q \in Installer |-> todo[q]] /\ prof = [q \in Installer |-> prof[q]]
      /\ \A q \in Installer : pos[q] # 0 => todo[q] # <<>>
      /\ kind = "none" => pos["op"] = 0
  BY DEF ScriptInv, ScriptShape
<1>4. pos' \in [Installer -> 0 .. ScriptLen] /\ pos'[p] = 0
      /\ \A q \in Installer \ {p} : pos'[q] = pos[q]
  BY <1>1, <1>3 DEF ScriptLen
<1>5. /\ todo' = [q \in Installer |-> todo'[q]] /\ prof' = [q \in Installer |-> prof'[q]]
      /\ \A q \in Installer \ {p} : todo'[q] = todo[q]
  BY <1>2, <1>3, Zenon
<1>6. kind' = "none" => pos'["op"] = 0
  BY <1>1, <1>3, <1>4 DEF Installer
<1> QED
  BY <1>1, <1>3, <1>4, <1>5, <1>6 DEF ScriptShape

\* What an installer that goes on to its next stage, or takes up new ones, leaves
LEMMA StageShape ==
    ASSUME ScriptInv, NEW p \in Installer, pos[p] = 0, UNCHANGED pos,
           NEW x, NEW y, todo' = [todo EXCEPT ![p] = x], prof' = [prof EXCEPT ![p] = y],
           kind' = "none" => kind = "none", phase' \in {"base", "load"} => FALSE
    PROVE  ScriptShape'
<1>1. /\ pos \in [Installer -> 0 .. ScriptLen]
      /\ todo = [q \in Installer |-> todo[q]] /\ prof = [q \in Installer |-> prof[q]]
      /\ \A q \in Installer : pos[q] # 0 => todo[q] # <<>>
      /\ kind = "none" => pos["op"] = 0
  BY DEF ScriptInv, ScriptShape
<1>2. /\ todo' = [q \in Installer |-> todo'[q]] /\ prof' = [q \in Installer |-> prof'[q]]
      /\ \A q \in Installer \ {p} : todo'[q] = todo[q]
  BY <1>1, Zenon
<1> QED
  BY <1>1, <1>2 DEF ScriptShape

\* An installer at work belongs to a process that has started.
LEMMA WorkingServes ==
    ASSUME ScriptInv, NEW p \in Installer, Working(p)
    PROVE  /\ phase \notin {"base", "load"} /\ (p = "op" => kind # "none")
           /\ pos[p] \in 0 .. ScriptLen
BY DEF ScriptInv, ScriptShape, Working, Installer

\* One command of a script
LEMMA CommandFollows ==
    ASSUME ScriptInv, NEW p \in Installer, NEW ok \in BOOLEAN, Step(p, ok)
    PROVE  ScriptInv'
<1>1. PICK k : k = pos[p]
  OBVIOUS
<1>2. PICK c : c = configure_gateway_routes(prof[p])[pos[p]]
  OBVIOUS
<1>3. /\ Working(p) /\ pos[p] # 0 /\ iface' = iface
      /\ kernel' = IF ~ok THEN kernel
                   ELSE IF c.verb = "del" THEN kernel \ {c.item} ELSE kernel \cup {c.item}
  BY <1>2 DEF Step, CommandOf
<1>4. k \in 1 .. ScriptLen /\ phase \notin {"base", "load"} /\ pos \in [Installer -> 0 .. ScriptLen]
      /\ (p = "op" => kind # "none")
  BY <1>1, <1>3, WorkingServes DEF ScriptInv, ScriptShape, ScriptLen
<1>5. outcome \in {"running", "mixed"}
  BY <1>3 DEF ScriptInv
<1>6. ASSUME ok \/ ~c.must, outcome = "running"
      PROVE  Reached(k + 1)' /\ \A q \in Installer \ {p} : pos[q] = 0
  <2>1. Reached(k) /\ \A q \in Installer \ {p} : pos[q] = 0
    BY <1>1, <1>4, <1>6 DEF ScriptInv
  <2> QED
    BY <1>1, <1>2, <1>3, <1>4, <1>6, <2>1, StepReaches, Zenon
<1>7. Len(configure_gateway_routes(prof[p])) = ScriptLen
  BY ScriptCommands
<1>8. CASE /\ ok \/ ~c.must
           /\ k # ScriptLen /\ pos' = [pos EXCEPT ![p] = @ + 1]
           /\ UNCHANGED <<todo, prof, kind, phase, outcome>>
  <2>1. pos'[p] = k + 1 /\ k + 1 \in 1 .. ScriptLen /\ \A q \in Installer \ {p} : pos'[q] = pos[q]
    BY <1>1, <1>4, <1>8 DEF ScriptLen
  <2>2. pos' \in [Installer -> 0 .. ScriptLen]
    BY <1>1, <1>4, <1>8, <2>1 DEF ScriptLen
  <2>3. ScriptShape'
    BY <1>3, <1>4, <1>8, <2>1, <2>2 DEF ScriptInv, ScriptShape
  <2> QED
    BY <1>5, <1>6, <1>8, <2>1, <2>3 DEF ScriptInv
<1>9. CASE /\ ok \/ ~c.must
           /\ k = ScriptLen /\ pos' = [pos EXCEPT ![p] = 0]
           /\ outcome' = Ran("ok") /\ NextStage(p)
  <2>1. pos'[p] = 0 /\ (\A q \in Installer \ {p} : pos'[q] = pos[q])
        /\ pos' \in [Installer -> 0 .. ScriptLen]
    BY <1>4, <1>9 DEF ScriptLen
  <2>2. /\ todo = [q \in Installer |-> todo[q]] /\ todo' = [todo EXCEPT ![p] = Tail(@)]
        /\ UNCHANGED <<prof, kind, phase>>
    BY <1>9 DEF ScriptInv, ScriptShape, NextStage
  <2>3. todo' = [q \in Installer |-> todo'[q]] /\ \A q \in Installer \ {p} : todo'[q] = todo[q]
    BY <2>2, Zenon
  <2>4. ScriptShape'
    <3>1. \A q \in Installer : pos'[q] # 0 => q # p /\ todo'[q] # <<>>
      BY <2>1, <2>3 DEF ScriptInv, ScriptShape
    <3>2. kind' = "none" => pos'["op"] = 0
      BY <1>4, <2>1, <2>2 DEF ScriptInv, ScriptShape, Installer
    <3> QED
      BY <1>4, <2>1, <2>2, <2>3, <3>1, <3>2 DEF ScriptInv, ScriptShape
  <2>5. CASE outcome = "running"
    <3>1. outcome' = "ok" /\ Reached(ScriptLen + 1)' /\ \A q \in Installer : pos'[q] = 0
      BY <1>6, <1>9, <2>1, <2>5 DEF Ran
    <3> QED
      BY <2>4, <3>1 DEF ScriptInv
  <2>6. CASE outcome = "mixed"
    BY <1>9, <2>4, <2>6 DEF ScriptInv, Ran
  <2> QED
    BY <1>5, <2>5, <2>6
<1>10. CASE ~ok /\ outcome' = Ran("failed") /\ Fails(p)
  <2>1. phase' \notin {"base", "load"}
    BY <1>4, <1>10 DEF Fails, Rest
  <2>2. ScriptShape' /\ pos' = [pos EXCEPT ![p] = 0]
    BY <1>10, <2>1, RestShape
  <2>3. UNCHANGED <<iface, kernel>>
    BY <1>3, <1>10
  <2> QED
    BY <1>3, <1>10, <2>2, <2>3, Ended, Zenon
<1> QED
  BY <1>1, <1>2, <1>7, <1>8, <1>9, <1>10 DEF Step, CommandOf

\* The other steps of the installers, and requests that begin or are dropped
LEMMA InstallersFollow ==
    ASSUME ScriptInv,
           \/ InstallerStep \/ DropHandler
           \/ \E c \in Profile, stages \in Stages : BeginApply(c, stages)
    PROVE  ScriptInv'
<1>1. ASSUME NEW p \in Installer, Fails(p), Working(p), UNCHANGED <<iface, kernel, outcome>>,
             pos[p] = 0
      PROVE  ScriptInv'
  <2>1. phase' \notin {"base", "load"}
    BY <1>1, WorkingServes DEF Fails, Rest
  <2>2. ScriptShape' /\ pos' = [pos EXCEPT ![p] = 0]
    BY <1>1, <2>1, RestShape
  <2> QED
    BY <1>1, <2>2, Ended, Zenon
<1>2. ASSUME NEW p \in Installer, Rest(p), Working(p), UNCHANGED <<iface, kernel>>,
             phase' \notin {"base", "load"},
             outcome' = IF pos[p] # 0 THEN Ran("dropped") ELSE outcome
      PROVE  ScriptInv'
  <2>1. ScriptShape' /\ pos' = [pos EXCEPT ![p] = 0]
    BY <1>2, RestShape
  <2> QED
    BY <1>2, <2>1, Ended, Zenon
<1>3. ASSUME NEW p \in Installer, NEW ok \in BOOLEAN, WireguardUp(p, ok) PROVE ScriptInv'
  <2>1. Working(p) /\ pos[p] = 0 /\ todo[p] # <<>>
    BY <1>3 DEF WireguardUp, Stage
  <2>2. CASE ok
    <3>1. BeginScript(p) /\ UNCHANGED <<todo, prof, kind, phase>>
      BY <1>3, <2>2 DEF WireguardUp
    <3>2. ScriptShape'
      BY <2>1, <3>1, WorkingServes DEF BeginScript, ScriptInv, ScriptShape, ScriptLen
    <3> QED
      BY <3>1, <3>2, Begun
  <2>3. CASE ~ok
    BY <1>1, <1>3, <2>1, <2>3 DEF WireguardUp
  <2> QED
    BY <2>2, <2>3
<1>4. ASSUME NEW p \in Installer, NEW ok \in BOOLEAN, Finish(p, ok) PROVE ScriptInv'
  <2>1. Working(p) /\ todo[p] = <<>> /\ UNCHANGED <<iface, kernel, outcome>>
    BY <1>4 DEF Finish
  <2>2. pos[p] = 0 /\ phase \notin {"base", "load"}
    BY <2>1, WorkingServes DEF ScriptInv, ScriptShape
  <2>3. CASE ~ok
    BY <1>1, <1>4, <2>1, <2>2, <2>3 DEF Finish
  <2>4. CASE ok
    BY <1>2, <1>4, <2>1, <2>2, <2>4 DEF Finish
  <2> QED
    BY <2>3, <2>4
<1>5. ASSUME NEW ok \in BOOLEAN, ReconcileBase(ok) PROVE ScriptInv'
  <2>1. Working("op") /\ pos["op"] = 0 /\ UNCHANGED <<iface, kernel, outcome>>
    BY <1>5 DEF ReconcileBase, Stage
  <2>2. phase \notin {"base", "load"} /\ UNCHANGED phase
    BY <1>5, <2>1, WorkingServes DEF ReconcileBase, NextStage, Installer
  <2>3. CASE ok
    <3>1. /\ UNCHANGED <<pos, kind, prof>> /\ todo' = [todo EXCEPT !["op"] = Tail(@)]
      BY <1>5, <2>3 DEF ReconcileBase, NextStage
    <3>2. prof' = [prof EXCEPT !["op"] = prof["op"]]
      BY <3>1, Zenon DEF ScriptInv, ScriptShape, Installer
    <3>3. ScriptShape'
      BY <2>1, <2>2, <3>1, <3>2, StageShape, Zenon DEF Installer
    <3> QED
      BY <2>1, <3>1, <3>3, Carried, ReachedStays
  <2>4. CASE ~ok
    BY <1>2, <1>5, <2>1, <2>2, <2>4 DEF ReconcileBase, Installer
  <2> QED
    BY <2>3, <2>4
<1>6. ASSUME NEW ok \in BOOLEAN, WireguardDown(ok) PROVE ScriptInv'
  <2>1. /\ Working("op") /\ pos["op"] = 0 /\ UNCHANGED <<pos, outcome, kind, prof, phase>>
        /\ todo' = [todo EXCEPT !["op"] = Tail(@)]
    BY <1>6 DEF WireguardDown, Stage, NextStage
  <2>2. phase \notin {"base", "load"}
    BY <2>1, WorkingServes DEF Installer
  <2>3. prof' = [prof EXCEPT !["op"] = prof["op"]]
    BY <2>1, Zenon DEF ScriptInv, ScriptShape, Installer
  <2>4. ScriptShape'
    BY <2>1, <2>2, <2>3, StageShape, Zenon DEF Installer
  <2>5. \/ (iface' => iface) /\ kernel' = kernel
        \/ ~iface' /\ kernel' = kernel \ ThroughTunnel
    BY <1>6, Zenon DEF WireguardDown
  <2> QED
    BY <2>1, <2>4, <2>5, Carried, ReachedStays
<1>7. ASSUME BeginRoutes PROVE ScriptInv'
  <2>1. /\ Working("op") /\ pos["op"] = 0 /\ todo["op"] # <<>> /\ BeginScript("op")
        /\ UNCHANGED <<todo, prof, kind, phase>>
    BY <1>7 DEF BeginRoutes, Stage
  <2>2. ScriptShape'
    BY <2>1, WorkingServes DEF BeginScript, ScriptInv, ScriptShape, ScriptLen, Installer
  <2> QED
    BY <2>1, <2>2, Begun DEF Installer
<1>8. ASSUME DropHandler PROVE ScriptInv'
  <2>1. /\ Working("op") /\ Rest("op") /\ UNCHANGED <<phase, iface, kernel>>
        /\ outcome' = IF pos["op"] # 0 THEN Ran("dropped") ELSE outcome
    BY <1>8 DEF DropHandler
  <2> QED
    BY <1>2, <2>1, WorkingServes DEF Installer
<1>9. ASSUME NEW c \in Profile, NEW stages \in Stages, BeginApply(c, stages) PROVE ScriptInv'
  <2>1. /\ kind = "none" /\ UNCHANGED <<pos, phase, iface, kernel, outcome>>
        /\ phase \notin {"base", "load"} /\ kind' = "apply"
        /\ todo' = [todo EXCEPT !["op"] = <<"base">> \o stages]
        /\ prof' = [prof EXCEPT !["op"] = c]
    BY <1>9 DEF BeginApply, Serving
  <2>2. pos["op"] = 0
    BY <2>1 DEF ScriptInv, ScriptShape
  <2>3. ScriptShape'
    BY <2>1, <2>2, StageShape, Zenon DEF Installer
  <2> QED
    BY <2>1, <2>3, Carried, ReachedStays
<1> QED
  BY <1>3, <1>4, <1>5, <1>6, <1>7, <1>8, <1>9, CommandFollows DEF InstallerStep

\* The monitor, the process and what happens around them
LEMMA OthersFollow ==
    ASSUME ScriptInv,
           \/ MonitorStep \/ ProcessStep \/ StopRequested \/ Exit \/ LoseInterface \/ GoCalm
           \/ UNCHANGED vars
    PROVE  ScriptInv'
<1>1. ASSUME UNCHANGED <<installers, iface, kernel, outcome>>,
             phase' \in {"base", "load"} => phase \in {"base", "load"}
      PROVE  ScriptInv'
  <2>1. ScriptShape'
    BY <1>1 DEF ScriptInv, ScriptShape, installers
  <2> QED
    BY <1>1, <2>1, Carried, ReachedStays DEF installers
<1>2. ASSUME MonitorStep PROVE ScriptInv'
  <2>1. CASE Recover
    <3>1. /\ kind = "none" /\ UNCHANGED <<pos, phase, iface, kernel, outcome>>
          /\ phase \notin {"base", "load"} /\ kind' = "recover"
          /\ todo' = [todo EXCEPT !["op"] = <<"down", "up">>]
          /\ prof' = [prof EXCEPT !["op"] = active]
      BY <2>1 DEF Recover, Monitoring
    <3>2. pos["op"] = 0
      BY <3>1 DEF ScriptInv, ScriptShape
    <3>3. ScriptShape'
      BY <3>1, <3>2, StageShape, Zenon DEF Installer
    <3> QED
      BY <3>1, <3>3, Carried, ReachedStays
  <2>2. CASE ~Recover
    <3>1. UNCHANGED <<installers, iface, kernel, outcome>> /\ phase' \in {phase, "stopping"}
      BY <1>2, <2>2 DEF MonitorStep, ReadHandshake, Alive, Silent, StartRecovery, EndTask
    <3> QED
      BY <1>1, <3>1
  <2> QED
    BY <2>1, <2>2
<1>3. ASSUME NEW ok \in BOOLEAN, RunBase(ok) PROVE ScriptInv'
  BY <1>1, <1>3 DEF RunBase
<1>4. ASSUME NEW ok \in BOOLEAN, TearDown(ok) PROVE ScriptInv'
  <2>1. /\ UNCHANGED <<installers, outcome>> /\ phase' = "exited"
        /\ \/ (iface' => iface) /\ kernel' = kernel
           \/ ~iface' /\ kernel' = kernel \ ThroughTunnel
    BY <1>4, Zenon DEF TearDown
  <2>2. ScriptShape'
    BY <2>1 DEF ScriptInv, ScriptShape, installers
  <2> QED
    BY <2>1, <2>2, Carried, ReachedStays DEF installers
<1>5. ASSUME NEW p \in Profile \cup {NoProfile}, RunLoad(p) PROVE ScriptInv'
  <2>1. /\ phase = "load" /\ UNCHANGED <<pos, kind, iface, kernel, outcome>>
        /\ phase' \notin {"base", "load"} /\ prof' = [prof EXCEPT !["start"] = p]
    BY <1>5 DEF RunLoad
  <2>2. PICK x : todo' = [todo EXCEPT !["start"] = x]
    BY <1>5, Zenon DEF RunLoad
  <2>3. pos["start"] = 0
    BY <2>1 DEF ScriptInv, ScriptShape
  <2>4. ScriptShape'
    BY <2>1, <2>2, <2>3, StageShape, Zenon DEF Installer
  <2> QED
    BY <2>1, <2>4, Carried, ReachedStays
<1>6. ASSUME StopTasks PROVE ScriptInv'
  <2>1. phase' = "teardown" /\ UNCHANGED <<iface, kernel>>
    BY <1>6 DEF StopTasks
  <2>2. CASE kind = "recover"
    <3>1. Rest("op") /\ outcome' = IF pos["op"] # 0 THEN Ran("dropped") ELSE outcome
      BY <1>6, <2>2 DEF StopTasks
    <3>2. ScriptShape' /\ pos' = [pos EXCEPT !["op"] = 0]
      BY <2>1, <3>1, RestShape DEF Installer
    <3> QED
      BY <2>1, <3>1, <3>2, Ended DEF Installer
  <2>3. CASE kind # "recover"
    BY <1>1, <1>6, <2>1, <2>3 DEF StopTasks
  <2> QED
    BY <2>2, <2>3
<1>7. ASSUME Exit PROVE ScriptInv'
  <2>1. /\ pos' = [p \in Installer |-> 0] /\ kind' = "none" /\ outcome' = "none"
        /\ todo' = [p \in Installer |-> <<>>] /\ prof' = [p \in Installer |-> NoProfile]
    BY <1>7 DEF Exit
  <2>2. ScriptShape'
    BY <2>1 DEF ScriptShape, ScriptLen, Installer
  <2> QED
    BY <2>1, <2>2 DEF ScriptInv
<1>8. ASSUME LoseInterface PROVE ScriptInv'
  <2>1. /\ UNCHANGED <<installers, outcome, phase>>
        /\ ~iface' /\ kernel' = kernel \ ThroughTunnel
    BY <1>8 DEF LoseInterface
  <2>2. ScriptShape'
    BY <2>1 DEF ScriptInv, ScriptShape, installers
  <2> QED
    BY <2>1, <2>2, Carried, ReachedStays DEF installers
<1>9. ASSUME StopRequested \/ GoCalm \/ UNCHANGED vars PROVE ScriptInv'
  BY <1>1, <1>9 DEF StopRequested, GoCalm, vars
<1> QED
  BY <1>2, <1>3, <1>4, <1>5, <1>6, <1>7, <1>8, <1>9 DEF ProcessStep

\* Once configure_gateway_routes has returned Ok with no other script beside it, no
\* lookup from the enrolled subnet reaches the uplink and, with the interface up,
\* IPv4 goes through the tunnel, until the commands are run again: whatever becomes
\* of the interface, of requests, of recoveries and of the process.
THEOREM RoutesAlwaysHold == Spec => []RoutesHold
<1>1. Init => ScriptInv
  BY DEF Init, ScriptInv, ScriptShape, ScriptLen, Installer
<1>2. ScriptInv /\ [Next]_vars => ScriptInv'
  BY InstallersFollow, OthersFollow DEF Next
<1>3. ScriptInv => RoutesHold
  <2> SUFFICES ASSUME ScriptInv, outcome = "ok" PROVE RoutesHold
    BY DEF RoutesHold
  <2>1. /\ Rule90("ipv4") \in kernel /\ Rule100("ipv4") \in kernel
        /\ Unreachable("ipv4") \in kernel /\ (iface => TunnelRoute("ipv4") \in kernel)
        /\ Ipv6Routing => /\ Rule90("ipv6") \in kernel /\ Rule100("ipv6") \in kernel
                          /\ Unreachable("ipv6") \in kernel
    BY DEF ScriptInv, Reached, ScriptLen
  <2>2. \A f \in Family : /\ Rule90(f) \in kernel /\ Rule100(f) \in kernel
                          /\ Unreachable(f) \in kernel
    BY <2>1 DEF Family
  <2> QED
    BY <2>1, <2>2 DEF RoutesHold, Lookup
<1> QED
  BY <1>1, <1>2, <1>3, PTL DEF Spec
==============================================================================
