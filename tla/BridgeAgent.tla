----------------------------- MODULE BridgeAgent -----------------------------
(***************************************************************************)
(* The controller's inventory loop (reconcile_docker in src/src/runtime.rs)*)
(* and the bridge half of the host agent                                   *)
(* (src/src/bin/egressy-isolation-agent.rs), composed through the policy   *)
(* the agent fetches over HTTP.  A policy and a table are kept as the ids  *)
(* of the candidates they were built from; Policies says what they mean.   *)
(* Time is counted in steps of Age: a pod listing is dropped, and a policy *)
(* is refused by the agent, once it is older than MaxAge.                  *)
(***************************************************************************)
EXTENDS IsolationPolicy, Discovery, TLC

CONSTANTS Pools,             \* the sets of workloads to consider, a sequence
          Modes,             \* --mode of the agent
          MaxAge,
          MaxEvents,
          NoTable, NoPolicy

\* What a listing gives: finitely many workloads, told apart by their ids, each a
\* container or a pod.  The address of a pod is one whose MAC the listing gave too
\* (attachment, kubernetes.rs 235), and so is that of a container in their range.
ASSUME PoolsAssumption ==
    \A p \in DOMAIN Pools :
        /\ IsFiniteSet(Pools[p])
        /\ \A w, v \in Pools[p] : w.id = v.id => w = v
        /\ \A w \in Pools[p] : /\ w.source \in {"Docker", "Kubernetes"}
                               /\ w.attached \in BOOLEAN
                               /\ w.address \in BoundRange => w.mac # Missing

ASSUME LimitsAssumption ==
    /\ MaxLeases \in Nat /\ MaxAge \in Nat /\ MaxEvents \in Nat
    /\ Modes \subseteq {"Disabled", "Audit", "Enforce"}

VARIABLES pool,              \* which of the Pools
          up,                \* the ids of its workloads that run
          pc,                \* where the loop of reconcile_docker stands
          pods, pods_age,    \* its last good pod listing
          eligible,          \* the port-forward targets in snapshot.clients
          policy, policy_age,
          mode,              \* the agent's requested mode
          fetched,           \* the policy the agent is applying
          fingerprint,
          table,             \* table bridge egressy_isolation
          removed,           \* somebody else deleted that table
          budget             \* how many more events and failures there are

controller == <<pc, pods, pods_age, eligible, policy, policy_age>>
agent == <<mode, fetched, fingerprint, table>>
environment == <<pool, up>>
vars == <<controller, agent, environment, removed, budget>>

Workloads(ids) == {w \in Pools[pool] : w.id \in ids}
Ids(ws) == {w.id : w \in ws}
All == Ids(Pools[pool])

\* What build_policy and the port-forward constraints make of every inventory:
\* tables, for they are looked up in every state
Inventories == UNION {{<<p, ids>> : ids \in SUBSET Ids(Pools[p])} : p \in DOMAIN Pools}
Taken(i) == {w \in Pools[i[1]] : w.id \in i[2]}
Policies == [i \in Inventories |-> build_policy(Taken(i))]
Targets == [i \in Inventories |-> Ids(targets(Taken(i)))]
Content(ids) == Policies[pool, ids]

Init == /\ pool \in DOMAIN Pools /\ up \in SUBSET All
        /\ pc = "pods" /\ pods = {} /\ pods_age = MaxAge + 1
        /\ eligible = {} /\ policy = NoPolicy /\ policy_age = 0
        /\ mode \in Modes /\ fetched = NoPolicy /\ fingerprint = NoPolicy
        /\ table = NoTable /\ removed = FALSE /\ budget = MaxEvents

\* Events and failures are finitely many.
Spend == budget > 0 /\ budget' = budget - 1
May(ok) == IF ok THEN UNCHANGED budget ELSE Spend
----------------------------------------------------------------------------
\* reconcile_docker

Running(ws) == {w.id : w \in {v \in ws : v.id \in up /\ v.attached}}
snapshot_from_pods == Running(Pods(Pools[pool]))
discover_isolation_candidates == Running(Docker(Pools[pool]))

\* A failed listing keeps the last one until it has expired.
ListPods(ok) ==
    /\ pc = "pods" /\ pc' = "clients"
    /\ May(ok)
    /\ pods' = IF ok THEN snapshot_from_pods ELSE IF pods_age > MaxAge THEN {} ELSE pods
    /\ pods_age' = IF ok THEN 0 ELSE pods_age
    /\ UNCHANGED <<eligible, policy, policy_age, agent, environment, removed>>

\* A failed inventory keeps the clients that were known.
DiscoverClients(ok) ==
    /\ pc = "clients" /\ pc' = "inventory"
    /\ May(ok)
    /\ eligible' = IF ok THEN Targets[pool, Running(Docker(Pools[pool])) \cup pods] ELSE eligible
    /\ UNCHANGED <<pods, pods_age, policy, policy_age, agent, environment, removed>>

\* discover_isolation_candidates and build_policy; a failure keeps the policy,
\* which then ages.
Inventory(ok) ==
    /\ pc = "inventory" /\ pc' = "pods"
    /\ May(ok)
    /\ policy' = IF ok THEN discover_isolation_candidates \cup pods ELSE policy
    /\ policy_age' = IF ok THEN 0 ELSE policy_age
    /\ UNCHANGED <<pods, pods_age, eligible, agent, environment, removed>>
----------------------------------------------------------------------------
\* The agent's tick.

\* apply_policy(Disabled): on every tick
Disable == /\ mode = "Disabled" /\ fetched = NoPolicy
           /\ table' = NoTable
           /\ fingerprint' = NoPolicy
           /\ UNCHANGED <<mode, fetched, controller, environment, removed, budget>>

policy_is_stale == policy_age > MaxAge

\* The policy without its time; the effective mode follows from it, because an
\* agent keeps its requested mode
policy_fingerprint(p) == IF p = NoPolicy THEN NoPolicy ELSE Content(p)

\* fetch_policy succeeds and its fingerprint is new.  When it fails, or the
\* fingerprint is the last one, the tick changes nothing.
Fetch ==
    /\ mode # "Disabled" /\ fetched = NoPolicy
    /\ policy # NoPolicy /\ ~policy_is_stale
    /\ policy_fingerprint(fingerprint) # policy_fingerprint(policy)
    /\ fetched' = policy
    /\ UNCHANGED <<mode, fingerprint, table, controller, environment, removed, budget>>

\* Planted fault: a failed transaction is remembered as applied.
FaultyApply(ok) ==
    /\ fetched # NoPolicy
    /\ May(ok)
    /\ table' = IF ok THEN [policy |-> fetched, mode |-> mode] ELSE table
    /\ fingerprint' = fetched
    /\ fetched' = NoPolicy
    /\ removed' = (removed /\ ~ok)
    /\ UNCHANGED <<mode, controller, environment>>

\* apply_policy: one nft transaction replaces the table; a failure ends the
\* agent, and its restart has no fingerprint.
Apply(ok) ==
    /\ fetched # NoPolicy
    /\ May(ok)
    /\ table' = IF ok THEN [policy |-> fetched, mode |-> mode] ELSE table
    /\ fingerprint' = IF ok THEN fetched ELSE NoPolicy
    /\ fetched' = NoPolicy
    /\ removed' = (removed /\ ~ok)
    /\ UNCHANGED <<mode, controller, environment>>

\* The agent stops (the table stays) and is started again, in any mode.
Restart == /\ Spend
           /\ mode' \in Modes
           /\ fingerprint' = NoPolicy /\ fetched' = NoPolicy
           /\ UNCHANGED <<table, controller, environment, removed>>
----------------------------------------------------------------------------
\* The environment: a workload starts or stops, time passes without the loop
\* getting on, the table is deleted by another program.

StartOrStop == /\ Spend
               /\ \E w \in All : up' = IF w \in up THEN up \ {w} ELSE up \cup {w}
               /\ UNCHANGED <<pool, controller, agent, removed>>

Age == /\ Spend
       /\ pods_age' = IF pods_age > MaxAge THEN pods_age ELSE pods_age + 1
       /\ policy_age' = IF policy_age > MaxAge THEN policy_age ELSE policy_age + 1
       /\ UNCHANGED <<pc, pods, eligible, policy, agent, environment, removed>>

RemoveTable == /\ Spend /\ table # NoTable
               /\ table' = NoTable /\ removed' = TRUE
               /\ UNCHANGED <<mode, fetched, fingerprint, controller, environment>>

ReconcileDocker == \E ok \in BOOLEAN : ListPods(ok) \/ DiscoverClients(ok) \/ Inventory(ok)
AgentTick == Disable \/ Fetch \/ \E ok \in BOOLEAN : Apply(ok)

Next == \/ ReconcileDocker \/ AgentTick \/ Restart
        \/ StartOrStop \/ Age \/ RemoveTable

Spec == Init /\ [][Next]_vars

\* Both loops are driven by an interval that never stops.  The next step of
\* reconcile_docker is always enabled, so its fairness is that it goes on.
FairSpec == Spec /\ []<><<ReconcileDocker>>_pc /\ WF_vars(AgentTick)
----------------------------------------------------------------------------
\* Listings, policies and tables are built from workloads that exist, and an agent
\* that is disabled neither applies a policy nor leaves a disabled table.
TypeOK == /\ pool \in DOMAIN Pools /\ up \subseteq All
          /\ pods \subseteq Ids(Pods(Pools[pool]))
          /\ pc \in {"pods", "clients", "inventory"}
          /\ pods_age \in 0..(MaxAge + 1) /\ policy_age \in 0..(MaxAge + 1)
          /\ eligible \subseteq All
          /\ policy = NoPolicy \/ policy \subseteq All
          /\ fetched = NoPolicy \/ fetched \subseteq All
          /\ fingerprint = NoPolicy \/ fingerprint \subseteq All
          /\ mode \in Modes
          /\ fetched # NoPolicy => mode # "Disabled"
          /\ table = NoTable \/ (table.mode \in Modes \ {"Disabled"} /\ table.policy \subseteq All)
          /\ removed \in BOOLEAN /\ budget \in 0..MaxEvents

Decide(frame) == render_bridge_policy(Content(table.policy), table.mode, frame)
Enforced == /\ table # NoTable
            /\ effective_mode(Content(table.policy), table.mode) = "Enforce"
Frame(c, d) == [mac |-> c.mac, src |-> c.address, dst |-> d.address, tracked |-> FALSE]

\* Under an enforced table a new connection between two participants is let
\* through exactly when their labels ask for it, and a participant never
\* reaches one that another participant's conflict left out.
IntendedPeers ==
    Enforced =>
      LET kept == screen_kubernetes_candidates(Workloads(table.policy))
      IN \A c \in kept : \A d \in kept \ {c} :
            (Decide(Frame(c, d)) = "accept") <=> Wanted(c, d)

\* No frame whose source lies in the pods' address range passes the bridge, in
\* audit or enforce mode, unless its MAC and address are those of one workload
\* that was admitted to the inventory the table was built from, and no other
\* that was admitted claims either: a replacement pod that took over an address
\* is dropped, not mistaken for the pod it replaced.
SendersKnown ==
    table # NoTable =>
      \A w \in Pools[pool], src \in BoundRange, tracked \in BOOLEAN :
        LET frame == [mac |-> w.mac, src |-> src, dst |-> Gateway, tracked |-> tracked]
            kept == screen_kubernetes_candidates(Workloads(table.policy))
        IN Decide(frame) = "accept" =>
             \E c \in kept :
                /\ c.mac = frame.mac /\ c.address = frame.src
                /\ \A d \in kept : d.mac = c.mac \/ d.address = c.address => d = c

\* A pod never costs a container its lease: with the pods that are listed the
\* same containers are targets as without them.
DockerKeepsLease ==
    [][eligible' # eligible =>
         Docker(Workloads(eligible')) = discover(Workloads(up))]_vars

\* Once workloads, hosts and commands are quiet the table is that of the
\* workloads that run, in the mode the agent was started with; only a table
\* deleted behind the agent's back with an unchanged policy stays away.
TableFollows ==
    <>[](\/ removed
         \/ mode = "Disabled" /\ table = NoTable
         \/ /\ table # NoTable /\ table.mode = mode
            /\ Content(table.policy) = Content(discover_isolation_candidates \cup snapshot_from_pods))
==============================================================================
