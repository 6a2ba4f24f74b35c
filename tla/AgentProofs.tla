----------------------------- MODULE AgentProofs -----------------------------
(***************************************************************************)
(* The two halves of the host agent and the inventory behind them.         *)
(*                                                                         *)
(* The inventory loop and the bridge half, for every set of workloads,     *)
(* every lease limit and every age: what the two passes of the             *)
(* port-forward constraints guarantee, what the rules of the bridge table  *)
(* let through, and that every table the agent ever installs and every     *)
(* set of targets the controller ever publishes is such a one.             *)
(*                                                                         *)
(* The routing half, for every set of policies, subnets and bridges: no    *)
(* command of a pass opens a path that was closed, and a pass that reports *)
(* success leaves the policy installed.                                    *)
(***************************************************************************)
EXTENDS BridgeAgent, HostPolicyAgent, FiniteSetTheorems, TLAPS


----------------------------------------------------------------------------
(* Port-forward targets *)

\* No two of the workloads share the field.
Distinct(ws, field) == \A w, v \in ws : w[field] = v[field] => w = v

\* Among containers alone every collision is lost by all that take part.
LEMMA ContainersDistinct ==
    ASSUME NEW es, \A w \in es : ~is_pod(w), NEW field
    PROVE  Distinct(es \ losing_collision(es, field), field)
BY DEF Distinct, losing_collision, Colliding

\* With pods beside them, containers that are distinct lose nothing, and no pod
\* that collides is left.
LEMMA PodsYield ==
    ASSUME NEW ds, NEW ps, NEW field, Distinct(ds, field),
           \A w \in ds : ~is_pod(w), \A w \in ps : is_pod(w)
    PROVE  /\ ds \cap losing_collision(ds \cup ps, field) = {}
           /\ Distinct((ds \cup ps) \ losing_collision(ds \cup ps, field), field)
<1> DEFINE lost == losing_collision(ds \cup ps, field)
<1>1. ASSUME NEW w \in ds PROVE w \notin lost
  <2> SUFFICES ASSUME w \in lost PROVE FALSE
    OBVIOUS
  <2>1. PICK v \in (ds \cup ps) \ {w} : v[field] = w[field]
    BY DEF losing_collision, Colliding
  <2>2. ~is_pod(v)
    BY <2>1 DEF losing_collision
  <2> QED
    BY <2>1, <2>2 DEF Distinct
<1>2. ASSUME NEW w \in (ds \cup ps) \ lost, NEW v \in (ds \cup ps) \ lost,
             w[field] = v[field], w # v
      PROVE  FALSE
  <2>1. w \in Colliding(ds \cup ps, field) /\ v \in Colliding(ds \cup ps, field)
    BY <1>2 DEF Colliding
  <2>2. ~is_pod(w) /\ ~is_pod(v)
    BY <2>1 DEF losing_collision
  <2> QED
    BY <1>2, <2>2 DEF Distinct
<1> QED
  BY <1>1, <1>2, Zenon DEF Distinct

\* Lease slots are given to containers first, so more candidates behind a container
\* cost it nothing.
LEMMA ContainersFirst ==
    ASSUME NEW es, IsFiniteSet(es), MaxLeases \in Nat, NEW w \in WithinLeases(es), ~is_pod(w),
           NEW more, w \in more, \A v \in more : ~is_pod(v) => v \in es
    PROVE  w \in WithinLeases(more)
<1> DEFINE ahead == {v \in es : Before(v, w)}
<1> DEFINE now == {v \in more : Before(v, w)}
<1>1. now \subseteq ahead
  BY DEF Before
<1>2. IsFiniteSet(ahead) /\ Cardinality(ahead) < MaxLeases
  BY FS_Subset DEF WithinLeases
<1> HIDE DEF ahead, now
<1>3. Cardinality(now) <= Cardinality(ahead) /\ Cardinality(now) \in Nat /\ Cardinality(ahead) \in Nat
  BY <1>1, <1>2, FS_Subset, FS_CardinalityType
<1> QED
  BY <1>2, <1>3 DEF WithinLeases, now

\* The containers and the pods that may be targets, and the first pass
LEMMA Passes ==
    ASSUME NEW ws
    PROVE  /\ \A w \in discover(ws) : ~is_pod(w)
           /\ Distinct(discover(ws), "port") /\ Distinct(discover(ws), "usage")
<1> DEFINE es == Eligible({w \in ws : ~is_pod(w)})
<1>1. \A w \in es : ~is_pod(w)
  BY DEF Eligible
<1> HIDE DEF es
<1>2. discover(ws) \subseteq es \ (losing_collision(es, "port") \cup losing_collision(es, "usage"))
  BY DEF discover, apply_port_forward_constraints, WithinLeases, es
<1>3. Distinct(es \ losing_collision(es, "port"), "port")
      /\ Distinct(es \ losing_collision(es, "usage"), "usage")
  BY <1>1, ContainersDistinct
<1> QED
  BY <1>1, <1>2, <1>3 DEF Distinct

\* A pod never costs a container its lease (reconcile_docker, runtime.rs): the
\* containers that are targets with the pods that are listed are those that
\* DockerObserver::discover found without them, whatever ports and usage ids the
\* pods claim and however few leases there are.
THEOREM PodsCostNoLease ==
    ASSUME NEW ws, IsFiniteSet(ws), MaxLeases \in Nat
    PROVE  {w \in targets(ws) : ~is_pod(w)} = discover(ws)
<1> DEFINE es == Eligible({w \in ws : ~is_pod(w)})
<1> DEFINE kept == es \ (losing_collision(es, "port") \cup losing_collision(es, "usage"))
<1> DEFINE ds == discover(ws)
<1> DEFINE ps == Eligible({w \in ws : is_pod(w)})
<1> DEFINE all == ds \cup ps
<1> DEFINE rest == all \ (losing_collision(all, "port") \cup losing_collision(all, "usage"))
<1>1. targets(ws) = WithinLeases(rest)
  BY DEF targets, apply_port_forward_constraints
<1>2. ds = WithinLeases(kept)
  BY DEF discover, apply_port_forward_constraints
<1>3. \A w \in ps : is_pod(w)
  BY DEF Eligible
<1>4. IsFiniteSet(kept)
  BY FS_Subset, Zenon DEF Eligible
<1>5. ds \subseteq kept
  BY <1>2 DEF WithinLeases
<1> HIDE DEF ds, ps, kept
<1>6. ds \subseteq rest
  BY <1>3, Passes, PodsYield, Zenon DEF ds
<1>7. \A w \in rest : ~is_pod(w) => w \in ds
  BY <1>3
<1>8. ASSUME NEW w \in ds PROVE w \in WithinLeases(rest) /\ ~is_pod(w)
  <2>1. w \in WithinLeases(kept) /\ ~is_pod(w) /\ w \in rest
    BY <1>2, <1>6, Passes DEF ds
  <2>2. \A v \in rest : ~is_pod(v) => v \in kept
    BY <1>5, <1>7
  <2> HIDE DEF rest
  <2> QED
    BY <1>4, <2>1, <2>2, ContainersFirst
<1>9. WithinLeases(rest) \subseteq rest
  BY DEF WithinLeases
<1> QED
  BY <1>1, <1>7, <1>8, <1>9 DEF ds

\* No two port-forward targets share a target port or a usage id, although only the
\* losers of a collision are dropped (losing_collision, docker.rs).
THEOREM TargetsDistinct ==
    ASSUME NEW ws
    PROVE  Distinct(targets(ws), "port") /\ Distinct(targets(ws), "usage")
<1> DEFINE ds == discover(ws)
<1> DEFINE ps == Eligible({w \in ws : is_pod(w)})
<1> DEFINE all == ds \cup ps
<1>1. targets(ws) \subseteq all \ (losing_collision(all, "port") \cup losing_collision(all, "usage"))
  BY DEF targets, apply_port_forward_constraints, WithinLeases
<1>2. \A w \in ps : is_pod(w)
  BY DEF Eligible
<1> HIDE DEF ps
<1>3. Distinct(all \ losing_collision(all, "port"), "port")
      /\ Distinct(all \ losing_collision(all, "usage"), "usage")
  BY <1>2, Passes, PodsYield, Zenon
<1> QED
  BY <1>1, <1>3, Zenon DEF Distinct
------------------------------------------------------------------------------
(* The rules of the bridge table *)

\* A frame that is accepted has passed the anti-spoof rules.
LEMMA BindingsFirst ==
    ASSUME NEW rules, NEW requested \in {"Enforce", "Audit"}, NEW frame,
           render_bridge_policy(rules, requested, frame) = "accept"
    PROVE  ~render_address_bindings(rules, frame)
BY DEF render_bridge_policy, effective_mode

\* A participant with a bound MAC is a candidate that shares neither its MAC nor its
\* address with another one.
LEMMA BoundAlone ==
    ASSUME NEW cs, NEW p \in build_policy(cs).participants, p.mac # Missing
    PROVE  \E c \in screen_kubernetes_candidates(cs) :
              /\ c.mac = p.mac /\ c.address = p.address
              /\ \A d \in screen_kubernetes_candidates(cs) :
                    d.mac = c.mac \/ d.address = c.address => d = c
<1> DEFINE kept == screen_kubernetes_candidates(cs)
<1>1. PICK c \in kept : p = [id |-> c.id, address |-> c.address, mac |-> BoundMac(kept, c),
                             allowances |-> allowances(kept, c)]
  BY DEF build_policy
<1> HIDE DEF kept
<1>2. p.address = c.address /\ p.mac = BoundMac(kept, c)
  BY <1>1
<1>3. /\ c.mac = p.mac
      /\ \A d \in kept \ {c} : d.address # c.address
      /\ \A d \in kept : d.mac = c.mac => d.address = c.address
  BY <1>2 DEF BoundMac
<1> QED
  BY <1>2, <1>3 DEF kept

\* In audit and in enforce mode a frame from the pods' address range passes only with
\* the MAC and the address of one candidate, when no other candidate claims either
\* (render_address_bindings, isolation.rs): a workload that took over an address
\* since the inventory is not mistaken for the one it replaced.
THEOREM SenderAlwaysKnown ==
    ASSUME NEW cs, NEW requested \in {"Enforce", "Audit"}, NEW frame,
           frame.src \in BoundRange,
           render_bridge_policy(build_policy(cs), requested, frame) = "accept"
    PROVE  \E c \in screen_kubernetes_candidates(cs) :
              /\ c.mac = frame.mac /\ c.address = frame.src
              /\ \A d \in screen_kubernetes_candidates(cs) :
                    d.mac = c.mac \/ d.address = c.address => d = c
<1> DEFINE rules == build_policy(cs)
<1>1. ~render_address_bindings(rules, frame)
  BY BindingsFirst
<1> HIDE DEF rules
<1>2. PICK p \in rules.participants : p.mac # Missing /\ p.address = frame.src
  BY <1>1 DEF render_address_bindings
<1>3. frame.mac = p.mac
  BY <1>1, <1>2 DEF render_address_bindings
<1> QED
  BY <1>2, <1>3, BoundAlone DEF rules

\* The owner of an identity that resolves
LEMMA OwnerIsKept ==
    ASSUME NEW kept, IsFiniteSet(kept), NEW i, Unique(kept, i)
    PROVE  Owner(kept, i) \in kept /\ Owner(kept, i).identity = i
<1> DEFINE those == {c \in kept : c.identity = i}
<1>1. IsFiniteSet(those) /\ Cardinality(those) = 1
  BY FS_Subset DEF Unique
<1> HIDE DEF those
<1>2. those # {}
  BY <1>1, FS_EmptySet
<1>3. \E c \in kept : c.identity = i
  BY <1>2 DEF those
<1> QED
  BY <1>3 DEF Owner

\* While the policy is enforced, a new connection between two participants passes
\* only if their labels ask for it (allowances, isolation.rs): the source allows the
\* destination by name and, when the source is a pod, the destination accepts it by
\* name, whatever the other candidates are and claim.
THEOREM OnlyIntendedPeers ==
    ASSUME NEW cs, IsFiniteSet(cs), NEW requested,
           effective_mode(build_policy(cs), requested) = "Enforce",
           NEW c \in screen_kubernetes_candidates(cs),
           NEW d \in screen_kubernetes_candidates(cs),
           NEW frame, frame.src = c.address, frame.dst = d.address, frame.tracked = FALSE,
           render_bridge_policy(build_policy(cs), requested, frame) = "accept"
    PROVE  Wanted(c, d)
<1> DEFINE kept == screen_kubernetes_candidates(cs)
<1> DEFINE rules == build_policy(cs)
<1>1. IsFiniteSet(kept)
  <2>1. kept \in SUBSET cs
    BY DEF screen_kubernetes_candidates, Docker, Pods
  <2> QED
    BY <2>1, FS_Subset
<1>2. rules.eligible
  BY DEF effective_mode
<1>3. ~HasIssues(kept)
  BY <1>2, Zenon DEF build_policy
<1>4. \E p \in rules.participants : p.address = frame.src /\ frame.dst \in p.allowances
  BY DEF render_bridge_policy, verdict
<1>5. PICK e \in kept : e.address = c.address /\ d.address \in allowances(kept, e)
  BY <1>4 DEF build_policy
<1> HIDE DEF kept, rules
<1>6. \A x, y \in kept : x.address = y.address => x = y
  BY <1>3 DEF HasIssues
<1>7. e = c
  BY <1>5, <1>6 DEF kept
<1>8. PICK i \in parse_allow_list(c) :
          /\ Unique(kept, i) /\ d.address = Owner(kept, i).address
          /\ c.source = "Docker" \/ c.identity \in Owner(kept, i).accept
  BY <1>5, <1>7 DEF allowances
<1>9. Owner(kept, i) \in kept /\ Owner(kept, i).identity = i
  BY <1>1, <1>8, OwnerIsKept
<1>10. d = Owner(kept, i)
  BY <1>6, <1>8, <1>9 DEF kept
<1>11. Malformed \notin c.allow /\ i \in c.allow
  BY <1>8 DEF parse_allow_list
<1> QED
  BY <1>8, <1>9, <1>10, <1>11 DEF Wanted

\* The other half: while the policy is enforced, what the labels ask for passes.
\* The anti-spoof rules stand before the allowances, and take no frame that a
\* participant sends under its own MAC.
LEMMA LabelsSuffice ==
    ASSUME NEW cs, IsFiniteSet(cs), NEW requested,
           effective_mode(build_policy(cs), requested) = "Enforce",
           NEW c \in screen_kubernetes_candidates(cs),
           NEW d \in screen_kubernetes_candidates(cs),
           c.address \in BoundRange => c.mac # Missing,
           Wanted(c, d),
           NEW frame, frame.src = c.address, frame.dst = d.address, frame.mac = c.mac
    PROVE  render_bridge_policy(build_policy(cs), requested, frame) = "accept"
<1> DEFINE kept == screen_kubernetes_candidates(cs)
<1> DEFINE rules == build_policy(cs)
<1>1. IsFiniteSet(kept)
  <2>1. kept \in SUBSET cs
    BY DEF screen_kubernetes_candidates, Docker, Pods
  <2> QED
    BY <2>1, FS_Subset
<1>2. ~HasIssues(kept)
  BY Zenon DEF effective_mode, build_policy
<1>3. \A p \in rules.participants : \E e \in kept :
          p.address = e.address /\ p.mac = BoundMac(kept, e)
  BY DEF build_policy
<1>4. \A e \in kept : \E p \in rules.participants :
          /\ p.address = e.address /\ p.mac = BoundMac(kept, e)
          /\ p.allowances = allowances(kept, e)
  <2> TAKE e \in kept
  <2> DEFINE p == [id |-> e.id, address |-> e.address, mac |-> BoundMac(kept, e),
                   allowances |-> allowances(kept, e)]
  <2>1. p \in rules.participants
    BY DEF build_policy
  <2> QED
    BY <2>1
<1> HIDE DEF kept, rules
<1>5. /\ \A x, y \in kept : x.address = y.address => x = y
      /\ \A x, y \in kept : x.mac = y.mac /\ x.mac # Missing => x = y
      /\ \A x, y \in kept : x.identity = y.identity => x = y
  BY <1>2 DEF HasIssues
<1>6. d.address \in allowances(kept, c)
  <2>1. {x \in kept : x.identity = d.identity} = {d}
    BY <1>5 DEF kept
  <2>2. Unique(kept, d.identity)
    BY <2>1, FS_Singleton, Zenon DEF Unique
  <2>3. Owner(kept, d.identity) = d
    BY <1>1, <1>5, <2>2, OwnerIsKept DEF kept
  <2>4. d.identity \in parse_allow_list(c)
    BY DEF Wanted, parse_allow_list
  <2>5. c.source = "Docker" \/ c.identity \in Owner(kept, d.identity).accept
    BY <2>3 DEF Wanted
  <2> QED
    BY <2>2, <2>3, <2>4, <2>5 DEF allowances
<1>7. ~render_address_bindings(rules, frame)
  <2>1. ASSUME NEW p \in rules.participants, p.mac # Missing
        PROVE  (p.address = c.address) <=> (p.mac = c.mac)
    <3>1. PICK e \in kept : p.address = e.address /\ p.mac = BoundMac(kept, e)
      BY <1>3
    <3>2. p.mac = e.mac
      BY <2>1, <3>1 DEF BoundMac
    <3> QED
      BY <1>5, <2>1, <3>1, <3>2 DEF kept
  <2>2. ASSUME c.address \in BoundRange
        PROVE  \E p \in rules.participants : p.mac # Missing /\ p.address = c.address
    <3>1. BoundMac(kept, c) = c.mac /\ c.mac # Missing
      BY <1>5, <2>2 DEF BoundMac, kept
    <3> QED
      BY <1>4, <3>1 DEF kept
  <2> QED
    BY <2>1, <2>2 DEF render_address_bindings
<1>8. \E p \in rules.participants : p.address = frame.src /\ frame.dst \in p.allowances
  BY <1>4, <1>6 DEF kept
<1> QED
  BY <1>7, <1>8 DEF render_bridge_policy, rules
------------------------------------------------------------------------------
(* Every reachable state *)

\* What the tables look up
LEMMA LookedUp ==
    ASSUME pool \in DOMAIN Pools, NEW ids, ids \subseteq All
    PROVE  /\ Content(ids) = build_policy(Workloads(ids))
           /\ Targets[pool, ids] = Ids(targets(Workloads(ids)))
<1>1. <<pool, ids>> \in Inventories
  BY DEF Inventories, All
<1>2. Taken(<<pool, ids>>) = Workloads(ids)
  BY DEF Taken, Workloads
<1> QED
  BY <1>1, <1>2, Zenon DEF Content, Policies, Targets

\* A target is one of the workloads it is chosen from.
LEMMA TargetsChosen ==
    ASSUME NEW ws
    PROVE  targets(ws) \subseteq ws
BY DEF targets, discover, apply_port_forward_constraints, WithinLeases, Eligible

\* What is listed runs on the host.
LEMMA RunningKnown ==
    /\ snapshot_from_pods \subseteq Ids(Pods(Pools[pool]))
    /\ discover_isolation_candidates \subseteq All
    /\ Ids(Pods(Pools[pool])) \subseteq All
BY DEF snapshot_from_pods, discover_isolation_candidates, Running, All, Ids, Docker, Pods

\* Every reachable state is well typed: listings, policies and tables are built from
\* workloads that exist, and a table is never that of a disabled agent.
THEOREM BridgeTypeCorrect == Spec => []TypeOK
<1> USE LimitsAssumption
<1>1. Init => TypeOK
  <2>1. {0, MaxAge + 1} \subseteq 0..(MaxAge + 1) /\ MaxEvents \in 0..MaxEvents
    OBVIOUS
  <2> QED
    BY <2>1, Zenon DEF Init, TypeOK
<1>2. TypeOK /\ [Next]_vars => TypeOK'
  <2> SUFFICES ASSUME TypeOK, [Next]_vars PROVE TypeOK'
    OBVIOUS
  <2> USE DEF TypeOK
  <2>1. ASSUME NEW ok \in BOOLEAN, ListPods(ok) PROVE TypeOK'
    BY <2>1, RunningKnown
    DEF ListPods, May, Spend, agent, environment, All, Ids
  <2>2. ASSUME NEW ok \in BOOLEAN, DiscoverClients(ok) PROVE TypeOK'
    <3> DEFINE listed == Running(Docker(Pools[pool])) \cup pods
    <3>1. listed \subseteq All
      BY RunningKnown DEF discover_isolation_candidates
    <3>2. Ids(targets(Workloads(listed))) \subseteq All
      BY TargetsChosen, Zenon DEF Workloads, Ids, All
    <3>3. eligible' \subseteq All
      BY <2>2, <3>1, <3>2, LookedUp, Zenon DEF DiscoverClients
    <3>4. /\ pc' = "inventory" /\ May(ok)
          /\ UNCHANGED <<pods, pods_age, policy, policy_age, agent, environment, removed>>
      BY <2>2, Zenon DEF DiscoverClients
    <3> QED
      BY <3>3, <3>4 DEF May, Spend, agent, environment, All, Ids
  <2>3. ASSUME NEW ok \in BOOLEAN, Inventory(ok) PROVE TypeOK'
    BY <2>3, RunningKnown
    DEF Inventory, May, Spend, agent, environment, All, Ids
  <2>4. CASE Disable
    BY <2>4 DEF Disable, controller, environment, All, Ids
  <2>5. CASE Fetch
    BY <2>5 DEF Fetch, controller, environment, All, Ids
  <2>6. ASSUME NEW ok \in BOOLEAN, Apply(ok) PROVE TypeOK'
    BY <2>6 DEF Apply, May, Spend, controller, environment, All, Ids
  <2>7. CASE Restart
    BY <2>7 DEF Restart, Spend, controller, environment, All, Ids
  <2>8. CASE StartOrStop
    BY <2>8 DEF StartOrStop, Spend, controller, agent, All, Ids
  <2>9. CASE Age
    BY <2>9 DEF Age, Spend, agent, environment, All, Ids
  <2>10. CASE RemoveTable
    BY <2>10 DEF RemoveTable, Spend, controller, environment, All, Ids
  <2>11. CASE UNCHANGED vars
    BY <2>11 DEF vars, controller, agent, environment, All, Ids
  <2> QED
    BY <2>1, <2>2, <2>3, <2>4, <2>5, <2>6, <2>7, <2>8, <2>9, <2>10, <2>11
    DEF Next, ReconcileDocker, AgentTick
<1> QED
  BY <1>1, <1>2, PTL DEF Spec

\* What an installed table was built from
LEMMA TableBuilt ==
    ASSUME TypeOK, table # NoTable
    PROVE  /\ Content(table.policy) = build_policy(Workloads(table.policy))
           /\ IsFiniteSet(Workloads(table.policy))
           /\ Workloads(table.policy) \subseteq Pools[pool]
           /\ table.mode \in {"Audit", "Enforce"}
<1>1. pool \in DOMAIN Pools /\ table.policy \subseteq All
  BY DEF TypeOK
<1>2. Workloads(table.policy) \in SUBSET Pools[pool]
  BY DEF Workloads
<1> QED
  BY <1>1, <1>2, LookedUp, PoolsAssumption, LimitsAssumption, FS_Subset, Zenon DEF TypeOK

\* Under an enforced table a new connection between two participants passes exactly
\* when their labels ask for it, whatever workloads came, went or collided, which
\* listings failed and how the agent was restarted (build_policy, isolation.rs).
THEOREM PeersAlwaysIntended == Spec => []IntendedPeers
<1>1. TypeOK => IntendedPeers
  <2> SUFFICES ASSUME TypeOK, Enforced,
                      NEW c \in screen_kubernetes_candidates(Workloads(table.policy)),
                      NEW d \in screen_kubernetes_candidates(Workloads(table.policy)) \ {c}
               PROVE  (Decide(Frame(c, d)) = "accept") <=> Wanted(c, d)
    BY DEF IntendedPeers
  <2> DEFINE cs == Workloads(table.policy)
  <2>1. /\ Content(table.policy) = build_policy(cs) /\ IsFiniteSet(cs) /\ cs \subseteq Pools[pool]
        /\ effective_mode(build_policy(cs), table.mode) = "Enforce"
    BY TableBuilt DEF Enforced
  <2>2. Decide(Frame(c, d)) = render_bridge_policy(build_policy(cs), table.mode, Frame(c, d))
    BY <2>1 DEF Decide
  <2>3. c \in cs
    BY DEF screen_kubernetes_candidates, Docker, Pods
  <2>4. c.address \in BoundRange => c.mac # Missing
    BY <2>1, <2>3, PoolsAssumption DEF TypeOK
  <2>5. /\ Frame(c, d).src = c.address /\ Frame(c, d).dst = d.address
        /\ Frame(c, d).mac = c.mac /\ Frame(c, d).tracked = FALSE
    BY DEF Frame
  <2> HIDE DEF cs
  <2>6. c \in screen_kubernetes_candidates(cs) /\ d \in screen_kubernetes_candidates(cs)
    BY DEF cs
  <2>7. ASSUME Wanted(c, d) PROVE Decide(Frame(c, d)) = "accept"
    BY <2>1, <2>2, <2>4, <2>5, <2>6, <2>7, LabelsSuffice
  <2>8. ASSUME Decide(Frame(c, d)) = "accept" PROVE Wanted(c, d)
    BY <2>1, <2>2, <2>5, <2>6, <2>8, OnlyIntendedPeers, Zenon
  <2> QED
    BY <2>7, <2>8
<1> QED
  BY <1>1, BridgeTypeCorrect, PTL

\* No frame from the pods' address range ever passes a table in audit or enforce mode
\* unless its MAC and address are those of one admitted workload that no other
\* admitted one claims (render_address_bindings, isolation.rs).
THEOREM SendersAlwaysKnown == Spec => []SendersKnown
<1>1. TypeOK => SendersKnown
  <2> SUFFICES ASSUME TypeOK, table # NoTable,
                      NEW w \in Pools[pool], NEW src \in BoundRange, NEW tracked \in BOOLEAN,
                      Decide([mac |-> w.mac, src |-> src, dst |-> Gateway, tracked |-> tracked])
                        = "accept"
               PROVE  \E c \in screen_kubernetes_candidates(Workloads(table.policy)) :
                         /\ c.mac = w.mac /\ c.address = src
                         /\ \A d \in screen_kubernetes_candidates(Workloads(table.policy)) :
                               d.mac = c.mac \/ d.address = c.address => d = c
    BY DEF SendersKnown
  <2> DEFINE cs == Workloads(table.policy)
  <2> DEFINE frame == [mac |-> w.mac, src |-> src, dst |-> Gateway, tracked |-> tracked]
  <2>1. Content(table.policy) = build_policy(cs) /\ table.mode \in {"Enforce", "Audit"}
    BY TableBuilt
  <2>2. render_bridge_policy(build_policy(cs), table.mode, frame) = "accept"
    BY <2>1 DEF Decide
  <2>3. frame.src = src /\ frame.mac = w.mac
    OBVIOUS
  <2> HIDE DEF cs, frame
  <2>4. \E c \in screen_kubernetes_candidates(cs) :
           /\ c.mac = frame.mac /\ c.address = frame.src
           /\ \A d \in screen_kubernetes_candidates(cs) :
                 d.mac = c.mac \/ d.address = c.address => d = c
    BY <2>1, <2>2, <2>3, SenderAlwaysKnown
  <2> QED
    BY <2>3, <2>4 DEF cs
<1> QED
  BY <1>1, BridgeTypeCorrect, PTL

\* What a set of workloads looks like through its ids
LEMMA ByIds ==
    ASSUME TypeOK, NEW ws, ws \subseteq Pools[pool]
    PROVE  Workloads(Ids(ws)) = ws
BY PoolsAssumption DEF TypeOK, Workloads, Ids

\* The first pass sees the containers that run, whatever pods are listed.
LEMMA SameContainers ==
    ASSUME TypeOK
    PROVE  discover(Workloads(Running(Docker(Pools[pool])) \cup pods)) = discover(Workloads(up))
<1> DEFINE listed == Workloads(Running(Docker(Pools[pool])) \cup pods)
<1>1. ASSUME NEW w \in Pools[pool], ~is_pod(w)
      PROVE  w \in listed <=> w \in Workloads(up) /\ w.attached
  <2>1. w \in Docker(Pools[pool])
    BY <1>1, PoolsAssumption DEF TypeOK, Docker, is_pod
  <2>2. w.id \notin pods
    <3>1. \A v \in Pods(Pools[pool]) : v.id # w.id
      BY <2>1, PoolsAssumption DEF TypeOK, Pods, Docker
    <3> QED
      BY <3>1 DEF TypeOK, Ids
  <2>3. w.id \in Running(Docker(Pools[pool])) <=> w.id \in up /\ w.attached
    <3>1. \A v \in Docker(Pools[pool]) : v.id = w.id => v = w
      BY PoolsAssumption DEF TypeOK, Docker
    <3> QED
      BY <2>1, <3>1 DEF Running
  <2> QED
    BY <2>2, <2>3 DEF Workloads
<1>2. Eligible({w \in listed : ~is_pod(w)}) = Eligible({w \in Workloads(up) : ~is_pod(w)})
  <2>1. listed \subseteq Pools[pool] /\ Workloads(up) \subseteq Pools[pool]
    BY DEF Workloads
  <2> HIDE DEF listed
  <2> QED
    BY <1>1, <2>1 DEF Eligible, Compliant
<1> QED
  BY <1>2 DEF discover

\* Whenever the controller publishes other targets, the containers among them are
\* those that would be targets if no pod were listed (reconcile_docker, runtime.rs).
THEOREM DockerAlwaysKeepsLease == Spec => DockerKeepsLease
<1> DEFINE Kept == Docker(Workloads(eligible')) = discover(Workloads(up))
<1>1. TypeOK /\ [Next]_vars => (eligible' # eligible => Kept)
  <2> SUFFICES ASSUME TypeOK, [Next]_vars, eligible' # eligible PROVE Kept
    OBVIOUS
  <2>1. PICK ok \in BOOLEAN : DiscoverClients(ok)
    BY DEF Next, ReconcileDocker, AgentTick, ListPods, Inventory, Disable, Fetch, Apply, Restart,
           StartOrStop, Age, RemoveTable, vars, controller
  <2> DEFINE ids == Running(Docker(Pools[pool])) \cup pods
  <2> DEFINE ws == Workloads(ids)
  <2>2. ids \subseteq All
    BY RunningKnown DEF discover_isolation_candidates, TypeOK
  <2>3. pool \in DOMAIN Pools /\ eligible' = Targets[pool, ids]
    BY <2>1, Zenon DEF DiscoverClients, TypeOK
  <2>4. ws \in SUBSET Pools[pool]
    BY DEF Workloads
  <2>5. IsFiniteSet(ws)
    BY <2>3, <2>4, PoolsAssumption, FS_Subset, Zenon
  <2>6. discover(ws) = discover(Workloads(up))
    BY SameContainers
  <2> HIDE DEF ids, ws
  <2>7. eligible' = Ids(targets(ws))
    BY <2>2, <2>3, LookedUp, Zenon DEF ws
  <2>8. targets(ws) \subseteq Pools[pool]
    BY <2>4, TargetsChosen
  <2>9. Workloads(eligible') = targets(ws)
    BY <2>7, <2>8, ByIds
  <2>10. {w \in targets(ws) : ~is_pod(w)} = discover(ws)
    BY <2>5, LimitsAssumption, PodsCostNoLease
  <2>11. Docker(targets(ws)) = {w \in targets(ws) : ~is_pod(w)}
    BY <2>3, <2>8, PoolsAssumption, Zenon DEF Docker, is_pod
  <2> QED
    BY <2>6, <2>9, <2>10, <2>11
<1> QED
  BY <1>1, BridgeTypeCorrect, PTL DEF Spec, DockerKeepsLease

------------------------------------------------------------------------------
(* The passes of the host-policy agent *)

\* The provers get more time than by default.
USE SMTT(30), ZenonT(20)

Ipv4Command == {"nft_add", "nft_replace", "rule4", "unreachable4", "link4", "default4"}

\* A command for the IPv6 half is due only for a policy that has one, and a source
\* rule is due only while it is absent: the agent alone adds rules, so what it read
\* as absent is absent when its turn comes.
AgentInv ==
    /\ HostTypeOK
    /\ at \in {"idle", "read4"} => todo = {}
    /\ at = "read6" => host_policy.ipv6 # NoIpv6
    /\ at # "idle" /\ host_policy.ipv6 = NoIpv6 => todo \subseteq Ipv4Command
    /\ "rule4" \in todo => ~rule_present(host_policy)
    /\ "rule6" \in todo => ~ipv6_rule_present(host_policy)

\* The types of the host, of the gateway and its cache, and of the agent
HostType ==
    /\ bridges \subseteq Bridge /\ rule4 \subseteq Subnet /\ rule6 \subseteq Ipv6Subnet
    /\ table4 \in Table(Subnet) /\ table6 \in Table(Ipv6Subnet)
    /\ nft \subseteq {Render(p) : p \in HostPolicies \cup Earlier}
GatewayType ==
    /\ desired \in HostPolicies /\ reachable \in BOOLEAN
    /\ cache \in HostPolicies \cup {NoHostPolicy}
    /\ calm \in BOOLEAN
PassType ==
    /\ at \in {"idle", "read4", "read6", "apply"}
    /\ host_policy \in HostPolicies \cup {NoHostPolicy}
    /\ at # "idle" => host_policy \in HostPolicies
    /\ from_cache \in BOOLEAN /\ todo \subseteq Command
    /\ host_policy_failures \in 0..EscalateAfter
    /\ settled \in HostPolicies \cup {NoHostPolicy} /\ undisturbed \in BOOLEAN

\* HostTypeOK, in the three parts that different steps change
LEMMA TypeParts == HostTypeOK <=> HostType /\ GatewayType /\ PassType
BY DEF HostTypeOK, HostType, GatewayType, PassType

\* A policy has its four fields.
LEMMA PolicyFields ==
    \A p \in HostPolicies : /\ p.subnet \in Subnet /\ p.bridge \in Bridge
                            /\ p.gateway_ip \in GatewayIp /\ p.ipv6 \in Ipv6Subnet \cup {NoIpv6}
BY PoliciesAssumption

\* An empty table, and one that lost a device, are tables.
LEMMA TablesTyped ==
    ASSUME NEW S
    PROVE  /\ EmptyTable(S) \in Table(S)
           /\ \A tab \in Table(S) : \A b : WithoutDevice(tab, b) \in Table(S)
<1>1. EmptyTable(S) \in Table(S)
  BY DEF EmptyTable, Table
<1>2. ASSUME NEW tab \in Table(S), NEW b PROVE WithoutDevice(tab, b) \in Table(S)
  <2>1. /\ tab.link \in [S -> Bridge \cup {NoRoute}]
        /\ tab.default \in (Bridge \X GatewayIp) \cup {NoRoute}
    BY DEF Table
  <2> DEFINE link == [s \in DOMAIN tab.link |->
                        IF tab.link[s] = b THEN NoRoute ELSE tab.link[s]]
  <2> DEFINE default == IF tab.default # NoRoute /\ tab.default[1] = b
                        THEN NoRoute ELSE tab.default
  <2>2. link \in [S -> Bridge \cup {NoRoute}]
    BY <2>1
  <2>3. default \in (Bridge \X GatewayIp) \cup {NoRoute}
    BY <2>1
  <2>4. WithoutDevice(tab, b) = [tab EXCEPT !.link = link, !.default = default]
    BY DEF WithoutDevice
  <2> HIDE DEF link, default
  <2> QED
    BY <2>2, <2>3, <2>4, Zenon DEF Table
<1> QED
  BY <1>1, <1>2

\* A table with a route added is a table.
LEMMA RoutesTyped ==
    ASSUME NEW S, NEW tab \in Table(S), NEW s \in S, NEW b \in Bridge, NEW g \in GatewayIp
    PROVE  /\ [tab EXCEPT !.unreachable = TRUE] \in Table(S)
           /\ [tab EXCEPT !.link[s] = b] \in Table(S)
           /\ [tab EXCEPT !.default = <<b, g>>] \in Table(S)
<1>1. /\ tab = [unreachable |-> tab.unreachable, link |-> tab.link, default |-> tab.default]
      /\ tab.unreachable \in BOOLEAN /\ tab.link \in [S -> Bridge \cup {NoRoute}]
      /\ tab.default \in (Bridge \X GatewayIp) \cup {NoRoute}
  BY DEF Table
<1>2. [tab EXCEPT !.unreachable = TRUE] \in Table(S)
  BY <1>1, Zenon DEF Table
<1>3. [tab EXCEPT !.link[s] = b] \in Table(S)
  <2> DEFINE link == [tab.link EXCEPT ![s] = b]
  <2>1. link \in [S -> Bridge \cup {NoRoute}]
    BY <1>1
  <2>2. [tab EXCEPT !.link[s] = b] = [tab EXCEPT !.link = link]
    BY <1>1
  <2> HIDE DEF link
  <2> QED
    BY <1>1, <2>1, <2>2 DEF Table
<1>4. [tab EXCEPT !.default = <<b, g>>] \in Table(S)
  <2>1. <<b, g>> \in (Bridge \X GatewayIp) \cup {NoRoute}
    OBVIOUS
  <2> QED
    BY <1>1, <2>1 DEF Table
<1> QED
  BY <1>2, <1>3, <1>4

\* The end of a pass
LEMMA FinishTyped ==
    ASSUME AgentInv, NEW ok, Finish(ok)
    PROVE  PassType' /\ at' = "idle" /\ todo' = {}
<1>1. PassType
  BY TypeParts DEF AgentInv
<1>2. host_policy_failures' \in 0..EscalateAfter
  BY <1>1, EscalateAssumption DEF Finish, PassType
<1>3. settled' \in HostPolicies \cup {NoHostPolicy} /\ undisturbed' \in BOOLEAN
  BY <1>1, Zenon DEF Finish, PassType
<1> QED
  BY <1>2, <1>3, Zenon DEF Finish, PassType

\* A pass that has ended asks for nothing.
LEMMA FinishKeeps ==
    ASSUME AgentInv, NEW ok, Finish(ok), HostType', GatewayType'
    PROVE  AgentInv'
<1>1. PassType' /\ at' = "idle" /\ todo' = {}
  BY FinishTyped
<1>2. HostTypeOK'
  BY <1>1 DEF HostTypeOK, HostType, GatewayType, PassType
<1> QED
  BY <1>1, <1>2 DEF AgentInv

\* What a pass finds missing: commands of its own kind
LEMMA DriftCommands ==
    /\ \A p, r, t : /\ detect_drift(p, r, t) \subseteq Ipv4Command
                    /\ "rule4" \in detect_drift(p, r, t) => ~rule_present(p)
    /\ \A p, r : /\ detect_ipv6_drift(p, r) \subseteq {"unreachable6", "link6", "default6", "rule6"}
                 /\ "rule6" \in detect_ipv6_drift(p, r) => ~ipv6_rule_present(p)
    /\ Ipv4Command \subseteq Command
    /\ {"unreachable6", "link6", "default6", "rule6"} \subseteq Command
    /\ "rule6" \notin Ipv4Command
BY Zenon DEF detect_drift, detect_ipv6_drift, Ipv4Command, Command
------------------------------------------------------------------------------
\* A command leaves the host in its shape.
LEMMA CommandTyped ==
    ASSUME AgentInv, NEW c \in Command, RunCommand(c)
    PROVE  HostType'
<1>1. HostType /\ host_policy \in HostPolicies /\ c \in todo
  BY TypeParts DEF AgentInv, PassType, RunCommand, Current
<1>2. /\ host_policy.subnet \in Subnet /\ host_policy.bridge \in Bridge
      /\ host_policy.gateway_ip \in GatewayIp
      /\ host_policy.ipv6 \in Ipv6Subnet \cup {NoIpv6}
  BY <1>1, PolicyFields
<1>3. c \notin Ipv4Command => host_policy.ipv6 \in Ipv6Subnet
  BY <1>1, <1>2 DEF AgentInv, RunCommand
<1>4. CASE RunNft(c)
  <2>1. Render(host_policy) \in {Render(p) : p \in HostPolicies \cup Earlier}
    BY <1>1
  <2> QED
    BY <1>1, <1>4, <2>1 DEF RunNft, HostType
<1>5. CASE RunRule(c)
  BY <1>1, <1>2, <1>3, <1>5 DEF RunRule, HostType, Ipv4Command
<1>6. CASE RunRoute4(c)
  <2>1. table4' \in Table(Subnet)
    <3>1. table4 \in Table(Subnet)
      BY <1>1 DEF HostType
    <3>2. /\ [table4 EXCEPT !.unreachable = TRUE] \in Table(Subnet)
          /\ [table4 EXCEPT !.link[host_policy.subnet] = host_policy.bridge] \in Table(Subnet)
          /\ [table4 EXCEPT !.default = <<host_policy.bridge, host_policy.gateway_ip>>] \in Table(Subnet)
      BY <3>1, <1>2, RoutesTyped, Zenon
    <3>3. \/ table4' = [table4 EXCEPT !.unreachable = TRUE]
          \/ table4' = [table4 EXCEPT !.link[host_policy.subnet] = host_policy.bridge]
          \/ table4' = [table4 EXCEPT !.default = <<host_policy.bridge, host_policy.gateway_ip>>]
      BY <1>6, Zenon DEF RunRoute4
    <3> QED
      BY <3>2, <3>3, Zenon
  <2> QED
    BY <1>1, <1>6, <2>1 DEF RunRoute4, HostType
<1>7. CASE RunRoute6(c)
  <2>1. host_policy.ipv6 \in Ipv6Subnet
    BY <1>3, <1>7 DEF RunRoute6, Ipv4Command
  <2>2. table6' \in Table(Ipv6Subnet)
    <3>1. table6 \in Table(Ipv6Subnet)
      BY <1>1 DEF HostType
    <3>2. /\ [table6 EXCEPT !.unreachable = TRUE] \in Table(Ipv6Subnet)
          /\ [table6 EXCEPT !.link[host_policy.ipv6] = host_policy.bridge] \in Table(Ipv6Subnet)
          /\ [table6 EXCEPT !.default = <<host_policy.bridge, host_policy.gateway_ip>>] \in Table(Ipv6Subnet)
      BY <3>1, <1>2, <2>1, RoutesTyped, Zenon
    <3>3. \/ table6' = [table6 EXCEPT !.unreachable = TRUE]
          \/ table6' = [table6 EXCEPT !.link[host_policy.ipv6] = host_policy.bridge]
          \/ table6' = [table6 EXCEPT !.default = <<host_policy.bridge, host_policy.gateway_ip>>]
      BY <1>7, Zenon DEF RunRoute6
    <3> QED
      BY <3>2, <3>3, Zenon
  <2> QED
    BY <1>1, <1>7, <2>2 DEF RunRoute6, HostType
<1> QED
  BY <1>4, <1>5, <1>6, <1>7 DEF RunCommand

\* A pass of the agent
LEMMA PassKeeps ==
    ASSUME AgentInv, Pass
    PROVE  AgentInv'
<1>1. HostType /\ GatewayType /\ PassType
  BY TypeParts DEF AgentInv
<1>2. ASSUME NEW p \in HostPolicies, NEW cached \in BOOLEAN, Begin(p, cached), at = "idle",
             UNCHANGED <<desired, reachable, host, todo, host_policy_failures, calm>>,
             cache' \in HostPolicies \cup {NoHostPolicy}
      PROVE  AgentInv'
  <2>1. todo' = {} /\ host_policy' = p /\ at' = "read4"
    BY <1>2 DEF AgentInv, Begin
  <2>2. PassType'
    BY <1>1, <1>2, <2>1 DEF Begin, PassType
  <2>3. HostType' /\ GatewayType'
    BY <1>1, <1>2 DEF HostType, GatewayType, host
  <2>4. HostTypeOK'
    BY <2>2, <2>3 DEF HostTypeOK, HostType, GatewayType, PassType
  <2> QED
    BY <2>1, <2>4 DEF AgentInv
<1>3. ASSUME NEW stored \in BOOLEAN, FetchOk(stored) PROVE AgentInv'
  <2>1. desired \in HostPolicies /\ cache' \in HostPolicies \cup {NoHostPolicy}
    BY <1>1, <1>3 DEF GatewayType, FetchOk
  <2> QED
    BY <1>2, <1>3, <2>1, Zenon DEF FetchOk
<1>4. ASSUME FetchFromCache PROVE AgentInv'
  <2>1. cache \in HostPolicies /\ cache' \in HostPolicies \cup {NoHostPolicy}
    BY <1>1, <1>4 DEF GatewayType, FetchFromCache
  <2> QED
    BY <1>2, <1>4, <2>1, Zenon DEF FetchFromCache
<1>5. ASSUME UNCHANGED <<desired, reachable, cache, host, calm>> PROVE HostType' /\ GatewayType'
  BY <1>1, <1>5 DEF HostType, GatewayType, host
<1>6. ASSUME FetchFailed \/ ReadFails PROVE AgentInv'
  BY <1>5, <1>6, FinishKeeps, Zenon DEF FetchFailed, ReadFails
<1>7. ASSUME NEW r \in BOOLEAN, NEW t \in BOOLEAN, ReadIpv4(r, t) PROVE AgentInv'
  <2>1. HostType' /\ GatewayType'
    BY <1>5, <1>7 DEF ReadIpv4
  <2>2. CASE Finish(TRUE)
    BY <2>1, <2>2, FinishKeeps, Zenon
  <2>3. CASE ~Finish(TRUE)
    <3>1. /\ at' = IF host_policy.ipv6 # NoIpv6 THEN "read6" ELSE "apply"
          /\ todo' = detect_drift(host_policy, r, t) /\ at = "read4"
          /\ UNCHANGED <<host_policy, from_cache, host_policy_failures, settled, undisturbed, host>>
      BY <1>7, <2>3, Zenon DEF ReadIpv4
    <3>2. PassType'
      BY <1>1, <3>1, DriftCommands DEF PassType
    <3>3. HostTypeOK'
      BY <2>1, <3>2 DEF HostTypeOK, HostType, GatewayType, PassType
    <3>4. "rule4" \in todo' => ~rule_present(host_policy)'
      BY <3>1, DriftCommands DEF rule_present, host
    <3>5. todo' \subseteq Ipv4Command /\ "rule6" \notin todo'
      BY <3>1, DriftCommands
    <3> QED
      BY <3>1, <3>3, <3>4, <3>5 DEF AgentInv
  <2> QED
    BY <2>2, <2>3, Zenon
<1>8. ASSUME NEW r \in BOOLEAN, ReadIpv6(r) PROVE AgentInv'
  <2>1. HostType' /\ GatewayType'
    BY <1>5, <1>8 DEF ReadIpv6
  <2>2. CASE Finish(TRUE)
    BY <2>1, <2>2, FinishKeeps, Zenon
  <2>3. CASE ~Finish(TRUE)
    <3>1. /\ at' = "apply" /\ at = "read6"
          /\ todo' = todo \cup detect_ipv6_drift(host_policy, r)
          /\ UNCHANGED <<host_policy, from_cache, host_policy_failures, settled, undisturbed, host>>
      BY <1>8, <2>3, Zenon DEF ReadIpv6
    <3>2. PassType' /\ host_policy.ipv6 # NoIpv6
      BY <1>1, <3>1, DriftCommands DEF PassType, AgentInv
    <3>3. HostTypeOK'
      BY <2>1, <3>2 DEF HostTypeOK, HostType, GatewayType, PassType
    <3>4. "rule4" \in todo' => ~rule_present(host_policy)'
      BY <3>1, DriftCommands DEF rule_present, host, AgentInv
    <3>5. "rule6" \in todo' => ~ipv6_rule_present(host_policy)'
      BY <3>1, DriftCommands DEF ipv6_rule_present, host, AgentInv
    <3> QED
      BY <3>1, <3>2, <3>3, <3>4, <3>5 DEF AgentInv
  <2> QED
    BY <2>2, <2>3, Zenon
<1>9. ASSUME NEW c \in Command, RunCommand(c) PROVE AgentInv'
  <2>1. HostType' /\ GatewayType'
    BY <1>1, <1>9, CommandTyped, Zenon DEF RunCommand, GatewayType
  <2>2. CASE Finish(TRUE)
    BY <2>1, <2>2, FinishKeeps, Zenon
  <2>3. CASE ~Finish(TRUE)
    <3>1. /\ todo' = todo \ {c} /\ at = "apply"
          /\ UNCHANGED <<at, host_policy, from_cache, host_policy_failures, settled, undisturbed>>
      BY <1>9, <2>3, Zenon DEF RunCommand
    <3>2. PassType'
      BY <1>1, <3>1 DEF PassType
    <3>3. HostTypeOK'
      BY <2>1, <3>2 DEF HostTypeOK, HostType, GatewayType, PassType
    <3>4. /\ c # "rule4" => rule4' = rule4
          /\ c # "rule6" => rule6' = rule6
      BY <1>9 DEF RunCommand, RunNft, RunRule, RunRoute4, RunRoute6
    <3>5. /\ "rule4" \in todo' => ~rule_present(host_policy)'
          /\ "rule6" \in todo' => ~ipv6_rule_present(host_policy)'
      BY <3>1, <3>4 DEF rule_present, ipv6_rule_present, AgentInv
    <3> QED
      BY <3>1, <3>3, <3>5 DEF AgentInv
  <2> QED
    BY <2>2, <2>3, Zenon
<1>10. ASSUME NEW c \in Command, CommandFails(c) PROVE AgentInv'
  <2>1. HostType' /\ GatewayType'
    BY <1>1, <1>10 DEF CommandFails, HostType, GatewayType
  <2> QED
    BY <1>10, <2>1, FinishKeeps, Zenon DEF CommandFails
<1> QED
  BY <1>3, <1>4, <1>6, <1>7, <1>8, <1>9, <1>10 DEF Pass

\* What happens to the host and the gateway: rules go, never come.
LEMMA EnvironmentKeeps ==
    ASSUME AgentInv, Environment \/ UNCHANGED host_vars
    PROVE  AgentInv'
<1>1. HostType /\ GatewayType /\ PassType
  BY TypeParts DEF AgentInv
<1>2. ASSUME HostType', GatewayType', UNCHANGED agent_pass, settled' \in {settled, NoHostPolicy},
             undisturbed' \in BOOLEAN, rule4' \subseteq rule4, rule6' \subseteq rule6
      PROVE  AgentInv'
  <2>1. PassType'
    BY <1>1, <1>2 DEF PassType, agent_pass
  <2>2. HostTypeOK'
    BY <1>2, <2>1 DEF HostTypeOK, HostType, GatewayType, PassType
  <2>3. /\ "rule4" \in todo' => ~rule_present(host_policy)'
        /\ "rule6" \in todo' => ~ipv6_rule_present(host_policy)'
    BY <1>2 DEF AgentInv, rule_present, ipv6_rule_present, agent_pass
  <2> QED
    BY <1>2, <2>2, <2>3 DEF AgentInv, agent_pass
<1>3. ASSUME HostType', GatewayType', AgentRestarted, settled' \in {settled, NoHostPolicy},
             undisturbed' \in BOOLEAN
      PROVE  AgentInv'
  <2>1. PassType'
    <3>1. 0 \in 0..EscalateAfter
      BY EscalateAssumption
    <3> QED
      BY <1>1, <1>3, <3>1, Zenon DEF PassType, AgentRestarted
  <2>2. HostTypeOK'
    BY <1>3, <2>1 DEF HostTypeOK, HostType, GatewayType, PassType
  <2> QED
    BY <1>3, <2>2 DEF AgentInv, AgentRestarted
<1>4. CASE LosePart
  <2>1. HostType' /\ GatewayType' /\ rule4' \subseteq rule4 /\ rule6' \subseteq rule6
    BY <1>1, <1>4, TablesTyped DEF LosePart, HostType, GatewayType
  <2> QED
    BY <1>2, <1>4, <2>1, Zenon DEF LosePart, Disturb
<1>5. ASSUME NEW b \in Bridge, RemoveBridge(b) PROVE AgentInv'
  <2>1. HostType' /\ GatewayType' /\ rule4' = rule4 /\ rule6' = rule6
    BY <1>1, <1>5, TablesTyped DEF RemoveBridge, HostType, GatewayType
  <2> QED
    BY <1>2, <1>5, <2>1, Zenon DEF RemoveBridge, Disturb
<1>6. ASSUME NEW b \in Bridge, AddBridge(b) PROVE AgentInv'
  <2>1. HostType' /\ GatewayType' /\ rule4' = rule4 /\ rule6' = rule6
    BY <1>1, <1>6 DEF AddBridge, HostType, GatewayType
  <2> QED
    BY <1>1, <1>2, <1>6, <2>1 DEF AddBridge, PassType
<1>7. CASE RestartAgent
  BY <1>1, <1>3, <1>7, Zenon DEF RestartAgent, HostType, GatewayType, host
<1>8. CASE Reboot
  <2>1. HostType' /\ GatewayType'
    BY <1>1, <1>8, TablesTyped, Zenon DEF Reboot, HostType, GatewayType
  <2> QED
    BY <1>3, <1>8, <2>1, Zenon DEF Reboot, Disturb
<1>9. CASE GatewayUp \/ GatewayDown \/ BecomeCalm \/ UNCHANGED host_vars
  <2>1. UNCHANGED <<host, agent_pass, settled, undisturbed>> /\ GatewayType'
    BY <1>1, <1>9, Zenon DEF GatewayUp, GatewayDown, BecomeCalm, host_vars, GatewayType
  <2>2. HostType'
    BY <1>1, <2>1 DEF HostType, host
  <2> QED
    BY <1>1, <1>2, <2>1, <2>2 DEF host, PassType
<1> QED
  BY <1>4, <1>5, <1>6, <1>7, <1>8, <1>9 DEF Environment

\* The agent's invariant holds from the start.
LEMMA AgentStarts == HostInit => AgentInv
<1> SUFFICES ASSUME HostInit PROVE AgentInv
  OBVIOUS
<1>1. HostType
  BY TablesTyped DEF HostInit, HostType
<1>2. GatewayType /\ PassType
  <2>1. 0 \in 0..EscalateAfter
    BY EscalateAssumption
  <2> QED
    BY <2>1, Zenon DEF HostInit, GatewayType, PassType
<1> QED
  BY <1>1, <1>2, TypeParts DEF HostInit, AgentInv

\* Every variable of the agent and of the host keeps its type, whatever commands fail
\* and whatever the host loses (apply_host_policy).
THEOREM HostPolicyTypeCorrect == HostSpec => []HostTypeOK
<1>1. AgentInv /\ [HostNext]_host_vars => AgentInv'
  BY PassKeeps, EnvironmentKeeps DEF HostNext
<1>2. AgentInv => HostTypeOK
  BY DEF AgentInv
<1> QED
  BY AgentStarts, <1>1, <1>2, PTL DEF HostSpec
------------------------------------------------------------------------------
\* No step of a pass opens a path of the policy it works on.
LEMMA PassNeverOpens ==
    ASSUME AgentInv, Pass, NEW p \in HostPolicies, p = host_policy
    PROVE  (Closed4(p) => Closed4(p)') /\ (Closed6(p) => Closed6(p)')
<1>1. CASE UNCHANGED host
  BY <1>1 DEF host, Closed4, Closed6
<1>2. ASSUME NEW c \in Command, RunCommand(c)
      PROVE  (Closed4(p) => Closed4(p)') /\ (Closed6(p) => Closed6(p)')
  <2>1. table4 \in Table(Subnet) /\ table6 \in Table(Ipv6Subnet)
    BY DEF AgentInv, HostTypeOK
  <2>2. <<p.bridge, p.gateway_ip>> # NoRoute
    BY PolicyFields, HostNullAssumption
  <2>3. CASE RunNft(c)
    <3>1. Render(p).subnet = p.subnet /\ Render(p).bridge = p.bridge
      BY DEF Render
    <3>2. Render(p) \in nft'
      BY <2>3 DEF RunNft
    <3> QED
      BY <3>1, <3>2 DEF Closed4, Closed6
  <2>4. CASE RunRule(c)
    BY <2>4 DEF RunRule, Closed4, Closed6
  <2>5. CASE RunRoute4(c)
    <3>1. /\ table4.unreachable => table4'.unreachable
          /\ table4.default # NoRoute => table4'.default # NoRoute
      BY <2>1, <2>2, <2>5 DEF RunRoute4, Table
    <3> QED
      BY <2>5, <3>1 DEF RunRoute4, Closed4, Closed6
  <2>6. CASE RunRoute6(c)
    <3>1. /\ table6.unreachable => table6'.unreachable
          /\ table6.default # NoRoute => table6'.default # NoRoute
      BY <2>1, <2>2, <2>6 DEF RunRoute6, Table
    <3> QED
      BY <2>6, <3>1 DEF RunRoute6, Closed4, Closed6
  <2> QED
    BY <1>2, <2>3, <2>4, <2>5, <2>6 DEF RunCommand
<1>3. ASSUME NEW c \in Command, CommandFails(c)
      PROVE  (Closed4(p) => Closed4(p)') /\ (Closed6(p) => Closed6(p)')
  <2>1. /\ c = "rule4" => p.subnet \notin rule4
        /\ c = "rule6" => p.ipv6 \notin rule6
    BY <1>3 DEF CommandFails, Current, AgentInv, rule_present, ipv6_rule_present
  <2> QED
    BY <1>3, <2>1 DEF CommandFails, Closed4, Closed6
<1> QED
  BY <1>1, <1>2, <1>3, Zenon
     DEF Pass, FetchOk, FetchFromCache, FetchFailed, ReadFails, ReadIpv4, ReadIpv6

\* No command of a pass opens a path from the enrolled subnets to the uplink that
\* was closed before it, whatever was lost on the host since the pass read it
\* (apply_host_policy): a table is replaced in one transaction, a route is replaced
\* and a rule is deleted only where there was none.
THEOREM AgentNeverOpensAny == HostSpec => AgentNeverOpens
<1>1. AgentInv /\ [HostNext]_host_vars => AgentInv'
  BY PassKeeps, EnvironmentKeeps DEF HostNext
<1>2. AgentInv /\ [HostNext]_host_vars =>
        [\A p \in HostPolicies : p = host_policy /\ Pass =>
           /\ Closed4(p) => Closed4(p)'
           /\ Closed6(p) => Closed6(p)']_host_vars
  BY PassNeverOpens
<1> QED
  BY AgentStarts, <1>1, <1>2, PTL DEF HostSpec, AgentNeverOpens
------------------------------------------------------------------------------
\* The marker in the table's comment tells the tables of this host apart.  The agent
\* compares nothing else of a table, so this is what the deployment has to provide.
MarkersTell ==
    \A p \in HostPolicies, q \in HostPolicies \cup Earlier :
        ipv6_kill_switch_marker(Render(p)) = ipv6_kill_switch_marker(Render(q))
            => Render(p) = Render(q)

\* What a command is to bring about for the policy p
Effect(p, c) ==
    CASE c \in {"nft_add", "nft_replace"} -> Render(p) \in nft
      [] c = "rule4" -> p.subnet \in rule4
      [] c = "unreachable4" -> table4.unreachable
      [] c = "link4" -> table4.link[p.subnet] = p.bridge
      [] c = "default4" -> table4.default = <<p.bridge, p.gateway_ip>>
      [] c = "rule6" -> p.ipv6 \in rule6
      [] c = "unreachable6" -> table6.unreachable
      [] c = "link6" -> table6.link[p.ipv6] = p.bridge
      [] c = "default6" -> table6.default = <<p.bridge, p.gateway_ip>>

\* A command is done when it is no longer due; a table is either added or replaced.
Done(c) == IF c \in {"nft_add", "nft_replace"} THEN todo \cap {"nft_add", "nft_replace"} = {}
           ELSE c \notin todo

\* In a pass that nothing disturbed, whatever is not due is in place, for the
\* families that were read; and what an earlier pass of this policy left is still
\* there.
SettledInv ==
    /\ at # "idle" => settled \in {host_policy, NoHostPolicy}
    /\ \A p \in HostPolicies : p = host_policy /\ undisturbed /\ at \in {"read6", "apply"} =>
          \A c \in Ipv4Command : Done(c) => Effect(p, c)
    /\ \A p \in HostPolicies : p = host_policy /\ undisturbed /\ at = "apply" /\ p.ipv6 # NoIpv6 =>
          \A c \in Command \ Ipv4Command : Done(c) => Effect(p, c)
    /\ \A p \in HostPolicies : settled = p => Installed(p)

\* A policy is installed when every command has had its effect.
LEMMA InstalledIsEffects ==
    ASSUME NEW p
    PROVE  Installed(p) <=>
              /\ \A c \in Ipv4Command : Effect(p, c)
              /\ p.ipv6 # NoIpv6 => \A c \in Command \ Ipv4Command : Effect(p, c)
<1>1. (\A c \in Ipv4Command : Effect(p, c)) <=>
          /\ Effect(p, "nft_add") /\ Effect(p, "nft_replace") /\ Effect(p, "rule4")
          /\ Effect(p, "unreachable4") /\ Effect(p, "link4") /\ Effect(p, "default4")
  BY DEF Ipv4Command
<1>2. (\A c \in Command \ Ipv4Command : Effect(p, c)) <=>
          /\ Effect(p, "rule6") /\ Effect(p, "unreachable6")
          /\ Effect(p, "link6") /\ Effect(p, "default6")
  BY DEF Ipv4Command, Command
<1> QED
  BY <1>1, <1>2, Zenon DEF Installed, Effect, rule_present, ipv6_rule_present, ipv6_routes_present

\* The same of the state a step leads to
LEMMA EffectsInstall ==
    ASSUME NEW p, \A c \in Ipv4Command : Effect(p, c)',
           p.ipv6 # NoIpv6 => \A c \in Command \ Ipv4Command : Effect(p, c)'
    PROVE  Installed(p)'
<1>1. /\ Effect(p, "nft_add")' /\ Effect(p, "rule4")' /\ Effect(p, "unreachable4")'
      /\ Effect(p, "link4")' /\ Effect(p, "default4")'
  BY DEF Ipv4Command
<1>2. p.ipv6 # NoIpv6 => /\ Effect(p, "rule6")' /\ Effect(p, "unreachable6")'
                         /\ Effect(p, "link6")' /\ Effect(p, "default6")'
  BY DEF Ipv4Command, Command
<1> QED
  BY <1>1, <1>2 DEF Installed, Effect, rule_present, ipv6_rule_present, ipv6_routes_present

\* A command has its effect and undoes no other command's.
LEMMA CommandEffect ==
    ASSUME AgentInv, NEW c \in Command, RunCommand(c), NEW p, p = host_policy
    PROVE  /\ Effect(p, c)'
           /\ \A d \in Command : Effect(p, d) => Effect(p, d)'
<1>1. /\ table4 \in Table(Subnet) /\ table6 \in Table(Ipv6Subnet)
      /\ p \in HostPolicies /\ c \in todo
  BY DEF AgentInv, HostTypeOK, RunCommand, Current
<1>2. p.subnet \in Subnet /\ (c \notin Ipv4Command => p.ipv6 \in Ipv6Subnet)
  BY <1>1, PolicyFields DEF AgentInv, RunCommand
<1>3. CASE RunNft(c)
  BY <1>3, Zenon DEF RunNft, Effect, Command
<1>4. CASE RunRule(c)
  BY <1>4, Zenon DEF RunRule, Effect, Command
<1>5. CASE RunRoute4(c)
  <2>1. UNCHANGED <<nft, rule4, rule6, table6>>
    BY <1>5 DEF RunRoute4
  <2>2. /\ c = "unreachable4" => table4'.unreachable
        /\ c = "link4" => table4'.link[p.subnet] = p.bridge
        /\ c = "default4" => table4'.default = <<p.bridge, p.gateway_ip>>
        /\ table4.unreachable => table4'.unreachable
        /\ table4.link[p.subnet] = p.bridge => table4'.link[p.subnet] = p.bridge
        /\ table4.default = <<p.bridge, p.gateway_ip>> =>
              table4'.default = <<p.bridge, p.gateway_ip>>
    BY <1>1, <1>2, <1>5 DEF RunRoute4, Table
  <2> QED
    BY <1>5, <2>1, <2>2, Zenon DEF RunRoute4, Effect, Command
<1>6. CASE RunRoute6(c)
  <2>1. UNCHANGED <<nft, rule4, rule6, table4>> /\ p.ipv6 \in Ipv6Subnet
    BY <1>2, <1>6 DEF RunRoute6, Ipv4Command
  <2>2. /\ c = "unreachable6" => table6'.unreachable
        /\ c = "link6" => table6'.link[p.ipv6] = p.bridge
        /\ c = "default6" => table6'.default = <<p.bridge, p.gateway_ip>>
        /\ table6.unreachable => table6'.unreachable
        /\ table6.link[p.ipv6] = p.bridge => table6'.link[p.ipv6] = p.bridge
        /\ table6.default = <<p.bridge, p.gateway_ip>> =>
              table6'.default = <<p.bridge, p.gateway_ip>>
    BY <1>1, <1>6, <2>1 DEF RunRoute6, Table
  <2> QED
    BY <1>6, <2>1, <2>2, Zenon DEF RunRoute6, Effect, Command
<1> QED
  BY <1>3, <1>4, <1>5, <1>6 DEF RunCommand

\* What is not found missing is there.
LEMMA NoDriftEffect ==
    ASSUME AgentInv, MarkersTell, NEW p \in HostPolicies, NEW r, NEW t
    PROVE  /\ \A c \in Ipv4Command \ {"nft_add", "nft_replace"} :
                  c \notin detect_drift(p, r, t) => Effect(p, c)
           /\ detect_drift(p, r, t) \cap {"nft_add", "nft_replace"} = {} => Render(p) \in nft
           /\ \A c \in Command \ Ipv4Command : c \notin detect_ipv6_drift(p, r) => Effect(p, c)
<1>1. \A c \in Ipv4Command \ {"nft_add", "nft_replace"} :
          c \notin detect_drift(p, r, t) => Effect(p, c)
  BY Zenon DEF detect_drift, Effect, Ipv4Command, rule_present, routes_present
<1>2. ASSUME detect_drift(p, r, t) \cap {"nft_add", "nft_replace"} = {}
      PROVE  Render(p) \in nft
  <2>1. nft_table_is_current(p)
    BY <1>2, Zenon DEF detect_drift
  <2>2. PICK block \in nft :
          ipv6_kill_switch_marker(block) = ipv6_kill_switch_marker(Render(p))
    BY <2>1 DEF nft_table_is_current
  <2>3. PICK q \in HostPolicies \cup Earlier : block = Render(q)
    BY DEF AgentInv, HostTypeOK
  <2>4. Render(p) = Render(q)
    BY <2>2, <2>3 DEF MarkersTell
  <2> QED
    BY <2>2, <2>3, <2>4
<1>3. \A c \in Command \ Ipv4Command : c \notin detect_ipv6_drift(p, r) => Effect(p, c)
  BY Zenon
     DEF detect_ipv6_drift, Effect, Command, Ipv4Command, ipv6_rule_present, ipv6_routes_present
<1> QED
  BY <1>1, <1>2, <1>3

\* Steps that leave rules, routes and table alone change no effect.
LEMMA SameEffects ==
    ASSUME UNCHANGED <<rule4, rule6, table4, table6, nft>>
    PROVE  \A p : (Installed(p)' <=> Installed(p)) /\ \A c : Effect(p, c)' <=> Effect(p, c)
BY DEF Installed, Effect, rule_present, ipv6_rule_present, ipv6_routes_present

\* The last command of a pass leaves nothing undone, any other leaves what is due.
LEMMA DoneAfter ==
    ASSUME AgentInv, NEW c \in Command, RunCommand(c), NEW d \in Command, NEW p, p = host_policy,
           Done(d) => Effect(p, d),
           todo = {c} \/ (todo' = todo \ {c} /\ Done(d)')
    PROVE  Effect(p, d)'
<1>1. Effect(p, c)' /\ (Effect(p, d) => Effect(p, d)')
  BY CommandEffect
<1>2. CASE d \in {"nft_add", "nft_replace"} /\ c \in {"nft_add", "nft_replace"}
  <2>1. Effect(p, d)' = Effect(p, c)'
    BY <1>2 DEF Effect
  <2> QED
    BY <1>1, <2>1
<1>3. CASE d \notin {"nft_add", "nft_replace"} /\ d = c
  BY <1>1, <1>3
<1>4. CASE /\ d \in {"nft_add", "nft_replace"} => c \notin {"nft_add", "nft_replace"}
           /\ d # c
  <2>1. Done(d)
    BY <1>4 DEF Done
  <2> QED
    BY <1>1, <2>1
<1> QED
  BY <1>2, <1>3, <1>4

\* A pass keeps the invariant.
LEMMA PassSettles ==
    ASSUME MarkersTell, AgentInv, SettledInv, Pass
    PROVE  SettledInv'
<1>0. PICK p : p = host_policy
  OBVIOUS
<1>1. ASSUME UNCHANGED host
      PROVE  \A q : (Installed(q)' <=> Installed(q)) /\ \A c : Effect(q, c)' <=> Effect(q, c)
  BY <1>1, SameEffects DEF host
<1>2. ASSUME NEW q, NEW cached, Begin(q, cached), UNCHANGED host PROVE SettledInv'
  <2>1. /\ at' = "read4" /\ host_policy' = q
        /\ settled' \in {q, NoHostPolicy} /\ settled' \in {settled, NoHostPolicy}
    BY <1>2 DEF Begin
  <2> QED
    BY <1>1, <1>2, <2>1, HostNullAssumption DEF SettledInv
<1>3. ASSUME Finish(FALSE), \A q \in HostPolicies : settled = q /\ Installed(q) => Installed(q)'
      PROVE  SettledInv'
  <2>1. at' = "idle" /\ settled' = settled
    BY <1>3 DEF Finish
  <2> QED
    BY <1>3, <2>1 DEF SettledInv
<1>4. ASSUME Finish(TRUE), undisturbed => Installed(p)',
             \A q \in HostPolicies : settled = q /\ Installed(q) => Installed(q)'
      PROVE  SettledInv'
  <2>1. at' = "idle" /\ settled' = IF undisturbed THEN p ELSE settled
    BY <1>0, <1>4 DEF Finish
  <2> QED
    BY <1>4, <2>1 DEF SettledInv
<1>5. at # "idle" => p \in HostPolicies
  BY <1>0 DEF AgentInv, HostTypeOK
<1>6. \A c \in Ipv4Command : c \in Command
  BY DEF Ipv4Command, Command
<1>7. ASSUME NEW r \in BOOLEAN, NEW t \in BOOLEAN, ReadIpv4(r, t) PROVE SettledInv'
  <2> DEFINE drift == detect_drift(p, r, t)
  <2>1. at = "read4" /\ UNCHANGED host
    BY <1>7 DEF ReadIpv4
  <2>2. ASSUME NEW c \in Ipv4Command,
               IF c \in {"nft_add", "nft_replace"} THEN drift \cap {"nft_add", "nft_replace"} = {}
               ELSE c \notin drift
        PROVE  Effect(p, c)
    <3>1. CASE c \in {"nft_add", "nft_replace"}
      <4>1. Render(p) \in nft
        BY <1>5, <2>1, <2>2, <3>1, NoDriftEffect
      <4> QED
        BY <3>1, <4>1, Zenon DEF Effect
    <3>2. CASE c \notin {"nft_add", "nft_replace"}
      BY <1>5, <2>1, <2>2, <3>2, NoDriftEffect
    <3> QED
      BY <3>1, <3>2
  <2>3. CASE host_policy.ipv6 = NoIpv6 /\ detect_drift(host_policy, r, t) = {}
    <3>1. Installed(p)
      BY <1>0, <2>2, <2>3, InstalledIsEffects
    <3>2. Finish(TRUE)
      BY <1>7, <2>3, Zenon DEF ReadIpv4
    <3> QED
      BY <1>1, <1>4, <2>1, <3>1, <3>2
  <2>4. CASE ~(host_policy.ipv6 = NoIpv6 /\ detect_drift(host_policy, r, t) = {})
    <3>1. /\ at' = IF p.ipv6 # NoIpv6 THEN "read6" ELSE "apply"
          /\ todo' = drift /\ host_policy' = p /\ settled' = settled
      BY <1>0, <1>7, <2>4, Zenon DEF ReadIpv4
    <3> HIDE DEF drift
    <3>2. \A c \in Ipv4Command : Done(c)' => Effect(p, c)'
      BY <1>1, <2>1, <2>2, <3>1, Zenon DEF Done
    <3>3. settled' \in {p, NoHostPolicy} /\ \A q \in HostPolicies : settled' = q => Installed(q)'
      BY <1>0, <1>1, <2>1, <3>1 DEF SettledInv
    <3> QED
      BY <3>1, <3>2, <3>3 DEF SettledInv
  <2> QED
    BY <2>3, <2>4
<1>8. ASSUME NEW r \in BOOLEAN, ReadIpv6(r) PROVE SettledInv'
  <2> DEFINE drift == todo \cup detect_ipv6_drift(p, r)
  <2>1. at = "read6" /\ UNCHANGED host /\ p.ipv6 # NoIpv6 /\ p \in HostPolicies
    BY <1>0, <1>5, <1>8 DEF ReadIpv6, AgentInv
  <2>2. ASSUME NEW c \in Ipv4Command, undisturbed, drift \cap {c, "nft_add", "nft_replace"} = {}
               \/ (c \notin {"nft_add", "nft_replace"} /\ c \notin drift)
        PROVE  Effect(p, c)
    BY <1>0, <2>1, <2>2 DEF SettledInv, Done
  <2>3. ASSUME NEW c \in Command \ Ipv4Command, c \notin drift PROVE Effect(p, c)
    BY <2>1, <2>3, NoDriftEffect
  <2>4. CASE drift = {}
    <3>1. undisturbed => Installed(p)
      BY <2>2, <2>3, <2>4, InstalledIsEffects
    <3>2. Finish(TRUE)
      BY <1>0, <1>8, <2>4, Zenon DEF ReadIpv6
    <3> QED
      BY <1>1, <1>4, <2>1, <3>1, <3>2
  <2>5. CASE drift # {}
    <3>1. /\ at' = "apply" /\ todo' = drift /\ host_policy' = p /\ settled' = settled
          /\ undisturbed' = undisturbed
      BY <1>0, <1>8, <2>5, Zenon DEF ReadIpv6
    <3> HIDE DEF drift
    <3>2. undisturbed => \A c \in Ipv4Command : Done(c)' => Effect(p, c)'
      BY <1>1, <2>1, <2>2, <3>1 DEF Done
    <3>3. \A c \in Command \ Ipv4Command : Done(c)' => Effect(p, c)'
      BY <1>1, <2>1, <2>3, <3>1, Zenon DEF Done, Ipv4Command
    <3>4. settled' \in {p, NoHostPolicy} /\ \A q \in HostPolicies : settled' = q => Installed(q)'
      BY <1>0, <1>1, <2>1, <3>1 DEF SettledInv
    <3> QED
      BY <3>1, <3>2, <3>3, <3>4 DEF SettledInv
  <2> QED
    BY <2>4, <2>5
<1>9. ASSUME NEW c \in Command, RunCommand(c) PROVE SettledInv'
  <2>1. at = "apply" /\ p \in HostPolicies /\ settled \in {p, NoHostPolicy}
    BY <1>0, <1>5, <1>9 DEF RunCommand, SettledInv
  <2>2. \A d \in Command : Effect(p, d) => Effect(p, d)'
    BY <1>0, <1>9, CommandEffect
  <2>3. ASSUME NEW q \in HostPolicies, settled = q, Installed(q) PROVE Installed(q)'
    <3>1. q = p
      BY <2>1, <2>3, HostNullAssumption
    <3>2. /\ \A d \in Ipv4Command : Effect(p, d)'
          /\ p.ipv6 # NoIpv6 => \A d \in Command \ Ipv4Command : Effect(p, d)'
      BY <1>6, <2>2, <2>3, <3>1, InstalledIsEffects
    <3> QED
      BY <3>1, <3>2, EffectsInstall
  <2>4. ASSUME undisturbed, NEW d \in Command, d \in Ipv4Command \/ p.ipv6 # NoIpv6,
               todo = {c} \/ (todo' = todo \ {c} /\ Done(d)')
        PROVE  Effect(p, d)'
    <3>1. Done(d) => Effect(p, d)
      BY <1>0, <2>1, <2>4 DEF SettledInv
    <3> QED
      BY <1>0, <1>9, <2>4, <3>1, DoneAfter
  <2>5. CASE todo = {c}
    <3>1. ASSUME undisturbed PROVE Installed(p)'
      BY <1>6, <2>4, <2>5, <3>1, EffectsInstall
    <3>2. Finish(TRUE)
      BY <1>9, <2>5, Zenon DEF RunCommand
    <3> QED
      BY <1>4, <2>3, <3>1, <3>2
  <2>6. CASE todo # {c}
    <3>1. /\ todo' = todo \ {c} /\ at' = "apply" /\ host_policy' = p /\ settled' = settled
          /\ undisturbed' = undisturbed
      BY <1>0, <1>9, <2>1, <2>6 DEF RunCommand
    <3>2. undisturbed => \A d \in Ipv4Command : Done(d)' => Effect(p, d)'
      BY <1>6, <2>4, <3>1
    <3>3. undisturbed /\ p.ipv6 # NoIpv6 =>
            \A d \in Command \ Ipv4Command : Done(d)' => Effect(p, d)'
      BY <2>4, <3>1
    <3>4. \A q \in HostPolicies : settled' = q => Installed(q)'
      BY <2>3, <3>1 DEF SettledInv
    <3> QED
      BY <2>1, <3>1, <3>2, <3>3, <3>4 DEF SettledInv
  <2> QED
    BY <2>5, <2>6
<1>10. ASSUME NEW c \in Command, CommandFails(c) PROVE SettledInv'
  <2>1. c \in todo /\ settled \in {p, NoHostPolicy} /\ Finish(FALSE)
    BY <1>0, <1>10, Zenon DEF CommandFails, Current, SettledInv
  <2>2. ASSUME NEW q \in HostPolicies, settled = q, Installed(q) PROVE Installed(q)'
    <3>1. q = p
      BY <2>1, <2>2, HostNullAssumption
    <3>2. p.subnet \in rule4 /\ (p.ipv6 # NoIpv6 => p.ipv6 \in rule6)
      BY <2>2, <3>1 DEF Installed, rule_present, ipv6_rule_present
    <3>3. c # "rule4" /\ (p.ipv6 # NoIpv6 => c # "rule6")
      BY <1>0, <2>1, <3>2 DEF AgentInv, rule_present, ipv6_rule_present
    <3>4. UNCHANGED <<rule4, table4, table6, nft>> /\ (p.ipv6 # NoIpv6 => rule6' = rule6)
      BY <1>10, <3>3 DEF CommandFails
    <3> QED
      BY <2>2, <3>1, <3>4 DEF Installed, rule_present, ipv6_rule_present, ipv6_routes_present
  <2> QED
    BY <1>3, <2>1, <2>2
<1>11. ASSUME (\E stored \in BOOLEAN : FetchOk(stored)) \/ FetchFromCache PROVE SettledInv'
  BY <1>2, <1>11, Zenon DEF FetchOk, FetchFromCache
<1>12. ASSUME FetchFailed \/ ReadFails PROVE SettledInv'
  BY <1>1, <1>3, <1>12, Zenon DEF FetchFailed, ReadFails
<1> QED
  BY <1>7, <1>8, <1>9, <1>10, <1>11, <1>12 DEF Pass

\* Whatever takes a part of the policy away ends what was settled.
LEMMA EnvironmentUnsettles ==
    ASSUME AgentInv, SettledInv, Environment \/ UNCHANGED host_vars
    PROVE  SettledInv'
<1>1. ASSUME Disturb, UNCHANGED <<at, host_policy>> \/ AgentRestarted PROVE SettledInv'
  BY <1>1, HostNullAssumption DEF Disturb, AgentRestarted, SettledInv
<1>2. ASSUME UNCHANGED <<rule4, rule6, table4, table6, nft, agent_pass, settled, undisturbed>>
      PROVE  SettledInv'
  <2>1. \A p : (Installed(p)' <=> Installed(p)) /\ \A c : Effect(p, c)' <=> Effect(p, c)
    BY <1>2, SameEffects
  <2>2. \A c : Done(c)' <=> Done(c)
    BY <1>2 DEF Done, agent_pass
  <2>3. UNCHANGED <<at, host_policy, settled, undisturbed>>
    BY <1>2 DEF agent_pass
  <2> QED
    BY <2>1, <2>2, <2>3 DEF SettledInv
<1>3. CASE LosePart \/ Reboot \/ \E b \in Bridge : RemoveBridge(b)
  BY <1>1, <1>3 DEF LosePart, Reboot, RemoveBridge, agent_pass
<1>4. CASE RestartAgent
  <2>1. at' = "idle" /\ settled' = settled /\ UNCHANGED <<rule4, rule6, table4, table6, nft>>
    BY <1>4 DEF RestartAgent, AgentRestarted, host
  <2> QED
    BY <2>1, SameEffects DEF SettledInv
<1>5. CASE \/ GatewayUp \/ GatewayDown \/ BecomeCalm \/ UNCHANGED host_vars
           \/ \E b \in Bridge : AddBridge(b)
  <2>1. UNCHANGED <<rule4, rule6, table4, table6, nft, agent_pass, settled, undisturbed>>
    BY <1>5 DEF GatewayUp, GatewayDown, BecomeCalm, AddBridge, host_vars, host
  <2> QED
    BY <1>2, <2>1
<1> QED
  BY <1>3, <1>4, <1>5 DEF Environment

\* Where the marker tells the host's tables apart, a pass that reports success and
\* that nothing interfered with leaves every part of its policy installed, and it
\* stays so until something takes a part away: failed commands, readings that fail,
\* restarts of the agent and passes from the cache do not undo it.
THEOREM SettledAlwaysInstalled ==
    ASSUME MarkersTell
    PROVE  HostSpec => []SettledInstalled
<1>1. HostInit => SettledInv
  BY HostNullAssumption DEF HostInit, SettledInv
<1>2. AgentInv /\ [HostNext]_host_vars => AgentInv'
  BY PassKeeps, EnvironmentKeeps DEF HostNext
<1>3. AgentInv /\ SettledInv /\ [HostNext]_host_vars => SettledInv'
  BY PassSettles, EnvironmentUnsettles DEF HostNext
<1>4. AgentInv /\ SettledInv => SettledInstalled
  BY DEF SettledInv, SettledInstalled, AgentInv, HostTypeOK
<1> QED
  BY AgentStarts, <1>1, <1>2, <1>3, <1>4, PTL DEF HostSpec
==============================================================================
