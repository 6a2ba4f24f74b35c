-------------------------- MODULE PortForwardProofs --------------------------
(***************************************************************************)
(* The three tasks that share the coordinator, for every set of usage      *)
(* identities, containers, addresses and ports and every inventory.        *)
(***************************************************************************)
EXTENDS PortForward, TLAPS

\* The provers get more time than by default.
USE SMTT(30), ZenonT(20)

\* The step of the lease task names a usage it holds a slot for, the DNAT rule it
\* installs or publishes is the one of that slot's target, and only slots are
\* published as installed.
LeaseInv ==
    /\ p_todo \subseteq Leased
    /\ p_pc \in {"unpublish", "install", "publish"} => p_usage \in p_todo
    /\ p_pc \in {"install", "publish"} =>
          p_dnat \in E!Dnat /\ p_dnat = E!tunnel_dnat(p_dnat.lease, leases[p_usage].target)
    /\ p_pc = "drop" => p_usage \in Usage
    /\ p_pc \in {"deactivate", "drop"} => p_cause \in {"down", "target", "address"}
    /\ p_pc = "unpublish" => p_cause # "none"
    /\ \A u \in Usage : Installed(u) => u \in Leased

----------------------------------------------------------------------------
(* Targets *)

\* select_dnat_targets gives every usage identity a target or none.
LEMMA SelectType ==
    ASSUME NEW inv \in Inventories
    PROVE  E!select_dnat_targets(inv) \in [Usage -> E!Target \cup {NoTarget}]
<1> SUFFICES ASSUME NEW u \in Usage
             PROVE E!select_dnat_targets(inv)[u] \in E!Target \cup {NoTarget}
  BY DEF E!select_dnat_targets
<1>1. CASE \E c \in Container : E!Eligible(inv, c) /\ inv[c].usage_id = u
  <2> DEFINE e == CHOOSE c \in Container : E!Eligible(inv, c) /\ inv[c].usage_id = u
  <2>1. e \in Container /\ E!Eligible(inv, e)
    BY <1>1
  <2>2. inv[e] \in E!Client
    BY <2>1, DiscoveryAssumption DEF E!Eligible
  <2>3. E!DnatTarget(inv, e) \in E!Target
    BY <2>1, <2>2 DEF E!DnatTarget, E!Target, E!Client, E!Eligible
  <2> QED
    BY <1>1, <2>3 DEF E!select_dnat_targets
<1>2. CASE ~\E c \in Container : E!Eligible(inv, c) /\ inv[c].usage_id = u
  BY <1>2 DEF E!select_dnat_targets
<1> QED
  BY <1>1, <1>2

\* Clients that the shared state would not report as changed have the same targets:
\* the lease task misses no change of a target by not being told.
LEMMA SameInputs ==
    ASSUME NEW inv \in Inventories, NEW other \in Inventories,
           port_forward_target_inputs(inv) = port_forward_target_inputs(other)
    PROVE  E!select_dnat_targets(inv) = E!select_dnat_targets(other)
<1>1. ASSUME NEW i \in Inventories, NEW j \in Inventories, NEW c \in Container,
             port_forward_target_inputs(i) = port_forward_target_inputs(j), E!Eligible(i, c)
      PROVE  E!Eligible(j, c) /\ j[c] = i[c]
  <2>1. <<c, i[c]>> \in port_forward_target_inputs(i)
    BY <1>1 DEF port_forward_target_inputs, E!Eligible
  <2>2. <<c, i[c]>> \in port_forward_target_inputs(j)
    BY <1>1, <2>1
  <2>3. PICK k \in Container : <<c, i[c]>> = <<k, j[k]>>
    BY <2>2 DEF port_forward_target_inputs
  <2>4. j[c] = i[c]
    BY <2>3
  <2> QED
    BY <1>1, <2>4 DEF E!Eligible
<1> SUFFICES ASSUME NEW u \in Usage
             PROVE  E!select_dnat_targets(inv)[u] = E!select_dnat_targets(other)[u]
  BY Zenon DEF E!select_dnat_targets
<1> DEFINE P(i, c) == E!Eligible(i, c) /\ i[c].usage_id = u
           e(i) == CHOOSE c \in Container : P(i, c)
<1>2. \A c \in Container : P(inv, c) => P(other, c) /\ other[c] = inv[c]
  BY <1>1
<1>3. \A c \in Container : P(other, c) => P(inv, c)
  BY <1>1
<1>4. CASE \E c \in Container : P(inv, c)
  <2>1. \E c \in Container : P(other, c)
    BY <1>2, <1>4
  <2>2. e(inv) \in Container /\ P(inv, e(inv)) /\ e(other) \in Container /\ P(other, e(other))
    BY <1>4, <2>1
  <2>3. /\ E!select_dnat_targets(inv)[u] = E!DnatTarget(inv, e(inv))
        /\ E!select_dnat_targets(other)[u] = E!DnatTarget(other, e(other))
    BY <1>4, <2>1 DEF E!select_dnat_targets
  <2> HIDE DEF e
  <2>4. e(inv) = e(other) /\ inv[e(inv)] = other[e(inv)]
    BY <1>2, <2>2, DiscoveryAssumption
  <2> QED
    BY <2>3, <2>4 DEF E!DnatTarget
<1>5. CASE ~\E c \in Container : P(inv, c)
  BY <1>3, <1>5 DEF E!select_dnat_targets
<1> QED
  BY <1>4, <1>5

----------------------------------------------------------------------------
(* The coordinator as the tasks use it *)

\* The steps that do not touch the coordinator
Aside ==
    \/ Discover \/ CounterReadFails \/ WriteClients
    \/ MarkUp \/ Invalidate \/ MarkDown \/ BeginRecovery \/ RecoveryInvalidate \/ RecoveryNotify
    \/ Top \/ SelectTargets \/ Unpublish \/ DropStatus \/ Deactivated \/ ExternalAddress
    \/ MappingGranted \/ InstallRefused \/ Publish \/ PassDone \/ Wake
    \/ BecomeCalm \/ UNCHANGED vars

\* They leave its policy and the kernel as they are.
LEMMA AsideKeeps == Aside => UNCHANGED evars
BY Zenon DEF Aside, Discover, CounterReadFails, WriteClients, MarkUp, Invalidate, MarkDown, BeginRecovery,
       RecoveryInvalidate, RecoveryNotify, Top, SelectTargets, Unpublish, DropStatus, Deactivated,
       ExternalAddress, MappingGranted, InstallRefused, Publish, PassDone, Wake, BecomeCalm, vars

\* A step is one of those or one of the nine that call the coordinator.
LEMMA StepKinds ==
    [Next]_vars =>
        \/ Aside
        \/ /\ running
           /\ \/ ReconcileClients \/ HandshakeRecent \/ HandshakeLost \/ RecoveryDisable
              \/ Deactivate \/ MappingLost \/ Install \/ ProfileReconcile \/ Flush
BY DEF Next, Docker, Tunnel, Lease, Stopped, Aside

\* What a call may return is a Boolean.
LEMMA OutcomeType == Outcome \subseteq BOOLEAN
BY Zenon DEF Outcome

\* Every call of the lease task is one the coordinator expects: the usage exists
\* and the rule belongs to the target it names.
LEMMA LeaseCalls ==
    ASSUME TypeOK, LeaseInv
    PROVE  /\ \A u \in p_todo : u \in Usage /\ leases[u] \in Slot /\ leases[u].target \in E!Target
           /\ p_pc \in {"unpublish", "install", "publish"} => p_usage \in p_todo
BY DEF TypeOK, LeaseInv, Leased, Slot

\* Each step is an operation of the coordinator or leaves it alone.
LEMMA RefineStep == TypeOK /\ LeaseInv /\ [Next]_vars => [E!Next]_(E!vars)
<1> SUFFICES ASSUME TypeOK, LeaseInv, [Next]_vars PROVE [E!Next]_(E!vars)
  OBVIOUS
<1>1. CASE Aside
  BY <1>1, AsideKeeps DEF evars, E!vars
<1>2. CASE ReconcileClients
  BY <1>2, OutcomeType DEF ReconcileClients, E!Next, TypeOK
<1>3. CASE HandshakeRecent
  BY <1>3 DEF HandshakeRecent, E!Next
<1>4. CASE HandshakeLost \/ RecoveryDisable
  BY <1>4, OutcomeType DEF HandshakeLost, RecoveryDisable, E!Next
<1>5. CASE Deactivate \/ MappingLost
  <2>1. \E u \in p_todo : \E ok \in BOOLEAN : E!clear_dnat_for_usage(u, ok)
    BY <1>5, OutcomeType DEF Deactivate, MappingLost, ClearForward
  <2> QED
    BY <2>1, LeaseCalls DEF E!Next
<1>6. CASE Install
  <2>1. /\ p_usage \in Usage /\ leases[p_usage].target \in E!Target /\ p_dnat \in E!Dnat
        /\ p_dnat = E!tunnel_dnat(p_dnat.lease, leases[p_usage].target)
    BY <1>6, LeaseCalls DEF Install, LeaseInv
  <2>2. \E ok \in BOOLEAN : E!set_dnat_for_target(p_usage, p_dnat, leases[p_usage].target, ok)
    BY <1>6, OutcomeType DEF Install
  <2> QED
    BY <2>1, <2>2 DEF E!Next
<1>7. CASE ProfileReconcile
  BY <1>7, OutcomeType DEF ProfileReconcile, E!Next
<1>8. CASE Flush
  BY <1>8 DEF Flush, E!Next
<1> QED
  BY <1>1, <1>2, <1>3, <1>4, <1>5, <1>6, <1>7, <1>8, StepKinds

\* A commit keeps the shape of what the kernel and the coordinator hold.
LEMMA ApplyTyped ==
    ASSUME E!TypeOK, NEW d \in E!ForwardMap, NEW ok \in BOOLEAN, E!apply_locked(d, ok)
    PROVE  /\ applied_dnat' \in E!ForwardMap /\ kernel_dnat' \in E!ForwardMap
           /\ table_present' \in BOOLEAN /\ settled' \in BOOLEAN
BY DEF E!TypeOK, E!apply_locked

\* Every operation keeps the shape of the coordinator's state.
LEMMA CoordinatorTyped == E!TypeOK /\ [E!Next]_(E!vars) => E!TypeOK'
<1> SUFFICES ASSUME E!TypeOK, [E!Next]_(E!vars) PROVE E!TypeOK'
  OBVIOUS
<1>0. E!NoForwards \in E!ForwardMap /\ desired_dnat \in E!ForwardMap
  BY DEF E!TypeOK, E!NoForwards, E!ForwardMap
<1>1. ASSUME NEW ok \in BOOLEAN, E!reconcile_base(ok) PROVE E!TypeOK'
  BY <1>0, <1>1, ApplyTyped DEF E!reconcile_base, E!TypeOK
<1>2. CASE E!reconcile_base_cancelled \/ E!enable_dnat \/ E!ExternalFlush
  BY <1>0, <1>2, Zenon DEF E!reconcile_base_cancelled, E!enable_dnat, E!ExternalFlush, E!TypeOK
<1>3. ASSUME NEW ok \in BOOLEAN, E!disable_dnat(ok) PROVE E!TypeOK'
  BY <1>0, <1>3, ApplyTyped, Zenon DEF E!disable_dnat, E!TypeOK
<1>4. ASSUME NEW u \in Usage, NEW target \in E!Target, NEW dnat \in E!Dnat, NEW ok \in BOOLEAN,
             E!set_dnat_for_target(u, dnat, target, ok)
      PROVE  E!TypeOK'
  <2>1. desired_dnat' \in E!ForwardMap
    BY <1>0, <1>4 DEF E!set_dnat_for_target, E!ForwardMap
  <2> QED
    BY <1>4, <2>1, ApplyTyped DEF E!set_dnat_for_target, E!TypeOK
<1>5. ASSUME NEW u \in Usage, NEW ok \in BOOLEAN, E!clear_dnat_for_usage(u, ok) PROVE E!TypeOK'
  <2>1. desired_dnat' \in E!ForwardMap
    BY <1>0, <1>5 DEF E!clear_dnat_for_usage, E!ForwardMap
  <2> QED
    BY <1>5, <2>1, ApplyTyped DEF E!clear_dnat_for_usage, E!TypeOK
<1>6. ASSUME NEW inv \in Inventories, NEW ok \in BOOLEAN, E!reconcile_clients(inv, ok)
      PROVE  E!TypeOK'
  <2>1. desired_dnat' \in E!ForwardMap
    BY <1>0, <1>6 DEF E!reconcile_clients, E!ForwardMap
  <2>2. dnat_targets' \in [Usage -> E!Target \cup {NoTarget}]
    BY <1>6, SelectType DEF E!reconcile_clients
  <2> QED
    BY <1>6, <2>1, <2>2, ApplyTyped DEF E!reconcile_clients, E!TypeOK
<1>7. CASE UNCHANGED E!vars
  BY <1>7 DEF E!vars, E!TypeOK
<1> QED
  BY <1>1, <1>2, <1>3, <1>4, <1>5, <1>6, <1>7 DEF E!Next

----------------------------------------------------------------------------
(* The lease task *)

\* The deactivated phases are phases.
LEMMA PhaseType == TypeOK /\ p_pc = "unpublish" /\ p_cause # "none" => DeactivatedPhase \in Phase
BY DEF TypeOK, DeactivatedPhase, Phase

\* Every step keeps the shape of the tasks' state.
LEMMA TypeStep == TypeOK /\ LeaseInv /\ [Next]_vars => TypeOK'
<1> SUFFICES ASSUME TypeOK, LeaseInv, [Next]_vars PROVE TypeOK'
  OBVIOUS
<1>0. E!TypeOK'
  BY RefineStep, CoordinatorTyped DEF TypeOK
<1> USE DEF dvars, pvars
<1>1. CASE Discover \/ CounterReadFails \/ WriteClients
  <2>1. (port_forward_target_inputs(clients) # port_forward_target_inputs(d_clients)) \in BOOLEAN
    OBVIOUS
  <2>2. pending' \in BOOLEAN
    BY <1>1, <2>1, Zenon DEF Discover, CounterReadFails, WriteClients, TypeOK
  <2>3. clients' \in Inventories /\ d_clients' \in Inventories
    BY <1>1, Zenon DEF Discover, CounterReadFails, WriteClients, TypeOK
  <2>4. /\ d_pc' \in {"reconcile", "failed", "idle"} /\ UNCHANGED <<tunnel_up, status, t_pc, pvars, calm>>
    BY <1>1, Zenon DEF Discover, CounterReadFails, WriteClients
  <2>5. running' \in BOOLEAN
    BY <1>1, Zenon DEF Discover, CounterReadFails, WriteClients, TypeOK
  <2> QED
    BY <1>0, <2>2, <2>3, <2>4, <2>5 DEF TypeOK
<1>2. CASE ReconcileClients
  BY <1>0, <1>2, OutcomeType DEF ReconcileClients, TypeOK
<1>3. CASE HandshakeRecent \/ MarkUp \/ MarkDown \/ BeginRecovery \/ RecoveryNotify
  <2>1. /\ t_pc' \in {"came_up", "idle", "recover", "recover_disable"}
        /\ UNCHANGED <<clients, status, dvars, pvars, running, calm>>
    BY <1>3 DEF HandshakeRecent, MarkUp, MarkDown, BeginRecovery, RecoveryNotify
  <2>2. pending' \in BOOLEAN /\ tunnel_up' \in BOOLEAN
    BY <1>3, Zenon DEF HandshakeRecent, MarkUp, MarkDown, BeginRecovery, RecoveryNotify, TypeOK
  <2> QED
    BY <1>0, <2>1, <2>2 DEF TypeOK
<1>4. CASE HandshakeLost \/ RecoveryDisable
  BY <1>0, <1>4, OutcomeType DEF HandshakeLost, RecoveryDisable, TypeOK
<1>5. CASE Invalidate \/ RecoveryInvalidate
  <2>1. status' \in [Usage -> Status \cup {NoStatus}]
    <3>1. [phase |-> "Unavailable", dnat_installed |-> FALSE] \in Status
      BY DEF Status, Phase
    <3> QED
      BY <1>5, <3>1, Zenon DEF Invalidate, RecoveryInvalidate, invalidate_published_forward
  <2> QED
    BY <1>0, <1>5, <2>1 DEF Invalidate, RecoveryInvalidate, TypeOK
<1>6. CASE Top
  BY <1>0, <1>6 DEF Top, StartDeactivation, Leased, TypeOK
<1>7. CASE SelectTargets
  <2>1. p_targets' \in [Usage -> E!Target \cup {NoTarget}]
    BY <1>7, SelectType DEF SelectTargets, TypeOK
  <2>2. p_todo' \subseteq Usage
    BY <1>7 DEF SelectTargets, Leased
  <2> QED
    BY <1>0, <1>7, <2>1, <2>2 DEF SelectTargets, TypeOK
<1>8. CASE Deactivate \/ MappingLost
  <2>1. /\ p_usage' \in Usage /\ p_pc' \in {"unpublish", "failed"} /\ running' \in BOOLEAN
        /\ p_cause' \in {p_cause, "lost"}
    BY <1>8, LeaseCalls, OutcomeType DEF Deactivate, MappingLost, ClearForward
  <2>2. UNCHANGED <<clients, tunnel_up, pending, status, dvars, t_pc, p_targets, p_todo, p_dnat,
                    leases, calm>>
    BY <1>8 DEF Deactivate, MappingLost
  <2> QED
    BY <1>0, <2>1, <2>2 DEF TypeOK
<1>9. CASE Unpublish
  <2>1. p_usage \in Usage /\ leases[p_usage] \in Slot
    BY <1>9, LeaseCalls DEF Unpublish
  <2>2. status' \in [Usage -> Status \cup {NoStatus}]
    <3>1. [phase |-> DeactivatedPhase, dnat_installed |-> FALSE] \in Status
      BY <1>9, PhaseType DEF Status, Unpublish, LeaseInv
    <3> QED
      BY <1>9, <2>1, <3>1 DEF Unpublish, TypeOK
  <2>3. leases' \in [Usage -> Slot \cup {NoSlot}]
    <3>1. [leases[p_usage] EXCEPT !.active_forward = NoDnat] \in Slot
      BY <2>1 DEF Slot
    <3> QED
      BY <1>9, <2>1, <3>1 DEF Unpublish, TypeOK
  <2>4. /\ p_pc' \in {"answers", "drop", "deactivate"} /\ p_usage' \in Usage \cup {NoUsage}
        /\ p_cause' \in {"none", p_cause} /\ p_todo' \subseteq Usage
    BY <1>9, <2>1 DEF Unpublish, TypeOK
  <2> QED
    BY <1>0, <1>9, <2>2, <2>3, <2>4 DEF Unpublish, TypeOK
<1>10. CASE DropStatus
  <2>1. status' \in [Usage -> Status \cup {NoStatus}]
    BY <1>10, Zenon DEF DropStatus, TypeOK
  <2>2. /\ p_usage' = NoUsage /\ p_pc' = "deactivate"
        /\ UNCHANGED <<clients, tunnel_up, pending, dvars, t_pc, p_targets, p_todo, p_dnat, p_cause,
                       leases, running, calm>>
    BY <1>10 DEF DropStatus
  <2> QED
    BY <1>0, <2>1, <2>2 DEF TypeOK
<1>11. CASE Deactivated
  <2>1. leases' \in [Usage -> Slot \cup {NoSlot}]
    <3>1. ASSUME NEW u \in Usage, p_targets[u] # NoTarget
          PROVE  [target |-> p_targets[u], active_forward |-> NoDnat] \in Slot
      BY <3>1 DEF Slot, TypeOK
    <3> QED
      BY <1>11, <3>1 DEF Deactivated, TypeOK
  <2>2. /\ p_pc' \in {"address", "wait"} /\ p_targets' \in [Usage -> E!Target \cup {NoTarget}]
        /\ p_cause' = "none"
        /\ UNCHANGED <<clients, tunnel_up, pending, status, dvars, t_pc, p_todo, p_usage, p_dnat,
                       running, calm>>
    BY <1>11 DEF Deactivated
  <2> QED
    BY <1>0, <2>1, <2>2 DEF TypeOK
<1>12. CASE ExternalAddress
  BY <1>0, <1>12 DEF ExternalAddress, StartDeactivation, Leased, TypeOK
<1>13. CASE MappingGranted
  <2>1. /\ p_usage' \in Usage /\ p_dnat' \in E!Dnat /\ p_pc' \in {"install", "publish"}
    <3>1. PICK u \in p_todo, lease \in Port :
            /\ p_usage' = u /\ p_dnat' = E!tunnel_dnat(lease, leases[u].target)
            /\ p_pc' \in {"install", "publish"}
      BY <1>13 DEF MappingGranted
    <3>2. u \in Usage /\ leases[u].target \in E!Target
      BY LeaseCalls
    <3>3. E!tunnel_dnat(lease, leases[u].target) \in E!Dnat
      BY <3>2 DEF E!tunnel_dnat, E!Dnat, E!Target
    <3> QED
      BY <3>1, <3>2, <3>3
  <2> QED
    BY <1>0, <1>13, <2>1 DEF MappingGranted, TypeOK
<1>14. CASE Install
  <2>1. p_usage \in Usage /\ leases[p_usage] \in Slot /\ p_dnat \in E!Dnat
    BY <1>14, LeaseCalls DEF Install, LeaseInv
  <2>2. PICK ok \in BOOLEAN :
          /\ p_pc' = IF ok THEN "publish" ELSE "failed"
          /\ running' = ok
          /\ leases' = IF ok THEN [leases EXCEPT ![p_usage].active_forward = p_dnat] ELSE leases
    BY <1>14, OutcomeType DEF Install
  <2>3. leases' \in [Usage -> Slot \cup {NoSlot}]
    BY <2>1, <2>2 DEF TypeOK, Slot
  <2> QED
    BY <1>0, <1>14, <2>2, <2>3 DEF Install, TypeOK
<1>15. CASE InstallRefused \/ PassDone \/ Wake
  <2>1. /\ p_pc' \in {"answers", "wait", "top"} /\ p_todo' \subseteq p_todo
        /\ p_usage' \in {p_usage, NoUsage} /\ p_dnat' \in {p_dnat, NoDnat}
        /\ UNCHANGED <<clients, tunnel_up, status, dvars, t_pc, p_targets, p_cause, leases, running,
                       calm>>
    BY <1>15, Zenon DEF InstallRefused, PassDone, Wake
  <2>2. pending' \in BOOLEAN
    BY <1>15, Zenon DEF InstallRefused, PassDone, Wake, TypeOK
  <2> QED
    BY <1>0, <2>1, <2>2 DEF TypeOK
<1>16. CASE Publish
  <2>1. [phase |-> "Installed", dnat_installed |-> TRUE] \in Status
    BY DEF Status, Phase
  <2> QED
    BY <1>0, <1>16, <2>1, Zenon DEF Publish, TypeOK
<1>17. CASE ProfileReconcile \/ Flush \/ BecomeCalm
  <2>1. calm' \in BOOLEAN /\ UNCHANGED <<shared, running>>
    BY <1>17, Zenon DEF ProfileReconcile, Flush, BecomeCalm, TypeOK
  <2> QED
    BY <1>0, <2>1 DEF shared, TypeOK
<1>18. CASE UNCHANGED vars
  BY <1>0, <1>18 DEF vars, TypeOK
<1> QED
  BY <1>1, <1>2, <1>3, <1>4, <1>5, <1>6, <1>7, <1>8, <1>9, <1>10, <1>11, <1>12, <1>13, <1>14,
     <1>15, <1>16, <1>17, <1>18 DEF Next, Docker, Tunnel, Lease, Stopped

\* The steps that neither belong to the lease task nor publish
Elsewhere ==
    \/ Discover \/ ReconcileClients \/ CounterReadFails \/ WriteClients
    \/ HandshakeRecent \/ MarkUp \/ HandshakeLost \/ MarkDown
    \/ BeginRecovery \/ RecoveryDisable \/ RecoveryNotify
    \/ ProfileReconcile \/ Flush \/ BecomeCalm \/ UNCHANGED vars

\* They leave the lease task and what is published as they are.
LEMMA ElsewhereKeeps == Elsewhere => UNCHANGED <<pvars, status>>
BY Zenon DEF Elsewhere, Discover, ReconcileClients, CounterReadFails, WriteClients, HandshakeRecent,
       MarkUp, HandshakeLost, MarkDown, BeginRecovery, RecoveryDisable, RecoveryNotify,
       ProfileReconcile, Flush, BecomeCalm, shared, vars

\* Every step keeps the lease task consistent with its slots.
LEMMA LeaseStep == TypeOK /\ LeaseInv /\ [Next]_vars => LeaseInv'
<1> SUFFICES ASSUME TypeOK, LeaseInv, [Next]_vars PROVE LeaseInv'
  OBVIOUS
<1> USE DEF pvars, Leased, Installed
<1>1. CASE Elsewhere
  BY <1>1, ElsewhereKeeps DEF LeaseInv
<1>2. CASE Invalidate \/ RecoveryInvalidate
  <2>1. \A u \in Usage : ~Installed(u)'
    BY <1>2 DEF Invalidate, RecoveryInvalidate, invalidate_published_forward
  <2>2. UNCHANGED pvars
    BY <1>2 DEF Invalidate, RecoveryInvalidate
  <2> QED
    BY <2>1, <2>2 DEF LeaseInv
<1>3. CASE Top
  BY <1>3 DEF Top, StartDeactivation, LeaseInv
<1>4. CASE SelectTargets
  <2>1. /\ p_todo' \subseteq Leased /\ p_pc' = "deactivate" /\ p_cause' = "target"
        /\ UNCHANGED <<leases, status>>
    BY <1>4 DEF SelectTargets
  <2> QED
    BY <2>1 DEF LeaseInv
<1>5. CASE Deactivate
  <2>1. /\ p_usage' \in p_todo /\ p_pc' \in {"unpublish", "failed"}
        /\ UNCHANGED <<p_todo, p_cause, leases, status>>
    BY <1>5 DEF Deactivate, ClearForward
  <2>2. p_cause # "none"
    BY <1>5 DEF Deactivate, LeaseInv
  <2> QED
    BY <2>1, <2>2 DEF LeaseInv
<1>6. CASE MappingLost
  <2>1. /\ p_usage' \in p_todo /\ p_pc' \in {"unpublish", "failed"} /\ p_cause' = "lost"
        /\ UNCHANGED <<p_todo, leases, status>>
    BY <1>6 DEF MappingLost, ClearForward
  <2> QED
    BY <2>1 DEF LeaseInv
<1>7. CASE Unpublish
  <2>1. p_usage \in Usage /\ leases[p_usage] \in Slot /\ p_usage \in p_todo
    BY <1>7, LeaseCalls DEF Unpublish
  <2>2. /\ \A u \in Usage : u # p_usage => leases'[u] = leases[u] /\ status'[u] = status[u]
        /\ status'[p_usage] = [phase |-> DeactivatedPhase, dnat_installed |-> FALSE]
        /\ p_todo' = p_todo \ {p_usage}
    BY <1>7, <2>1 DEF Unpublish, TypeOK
  <2>3. /\ p_pc' \in {"answers", "drop", "deactivate"}
        /\ p_pc' = "drop" => p_usage' = p_usage
        /\ p_pc' \in {"drop", "deactivate"} => p_cause # "lost" /\ p_cause' = p_cause
    BY <1>7 DEF Unpublish, TypeOK
  <2>4. p_cause \in {"down", "target", "address", "lost"}
    BY <1>7 DEF Unpublish, LeaseInv, TypeOK
  <2>5. p_todo' \subseteq Leased' /\ \A u \in Usage : Installed(u)' => u \in Leased'
    BY <2>1, <2>2 DEF LeaseInv
  <2> QED
    BY <2>1, <2>3, <2>4, <2>5 DEF LeaseInv
<1>8. CASE DropStatus
  <2>1. /\ \A u \in Usage : status'[u] \in {status[u], NoStatus}
        /\ p_pc' = "deactivate" /\ UNCHANGED <<p_todo, p_cause, leases>>
    BY <1>8 DEF DropStatus, TypeOK
  <2>2. p_cause \in {"down", "target", "address"}
    BY <1>8 DEF DropStatus, LeaseInv
  <2> QED
    BY <2>1, <2>2 DEF LeaseInv
<1>9. CASE Deactivated
  <2>1. \A u \in Usage : leases[u] # NoSlot => leases'[u] = leases[u]
    BY <1>9 DEF Deactivated, TypeOK
  <2>2. p_pc' \in {"address", "wait"} /\ UNCHANGED <<p_todo, status>>
    BY <1>9 DEF Deactivated
  <2> QED
    BY <2>1, <2>2 DEF LeaseInv
<1>10. CASE ExternalAddress
  BY <1>10 DEF ExternalAddress, StartDeactivation, LeaseInv
<1>11. CASE MappingGranted
  <2>1. PICK u \in p_todo, lease \in Port :
          /\ p_usage' = u /\ p_dnat' = E!tunnel_dnat(lease, leases[u].target)
          /\ p_pc' \in {"install", "publish"} /\ UNCHANGED <<p_todo, leases, status>>
    BY <1>11 DEF MappingGranted
  <2>2. leases[u].target \in E!Target
    BY LeaseCalls
  <2>3. p_dnat' \in E!Dnat /\ p_dnat' = E!tunnel_dnat(p_dnat'.lease, leases'[p_usage'].target)
    BY <2>1, <2>2 DEF E!tunnel_dnat, E!Dnat, E!Target
  <2> QED
    BY <2>1, <2>3 DEF LeaseInv
<1>12. CASE InstallRefused \/ PassDone \/ Wake
  <2>1. /\ p_pc' \in {"answers", "wait", "top"} /\ p_todo' \subseteq p_todo
        /\ UNCHANGED <<leases, status>>
    BY <1>12, Zenon DEF InstallRefused, PassDone, Wake
  <2> QED
    BY <2>1 DEF LeaseInv
<1>13. CASE Install
  <2>1. p_usage \in p_todo /\ p_usage \in Usage /\ leases[p_usage] \in Slot
    BY <1>13, LeaseCalls DEF Install
  <2>2. PICK ok \in BOOLEAN :
          /\ p_pc' = IF ok THEN "publish" ELSE "failed"
          /\ leases' = IF ok THEN [leases EXCEPT ![p_usage].active_forward = p_dnat] ELSE leases
    BY <1>13, OutcomeType DEF Install
  <2>3. UNCHANGED <<p_todo, p_usage, p_dnat, p_cause, status>>
    BY <1>13 DEF Install
  <2>4. /\ \A u \in Usage : u # p_usage => leases'[u] = leases[u]
        /\ leases'[p_usage] # NoSlot /\ leases'[p_usage].target = leases[p_usage].target
    BY <2>1, <2>2, NullAssumption DEF TypeOK, Slot
  <2>5. p_dnat \in E!Dnat /\ p_dnat = E!tunnel_dnat(p_dnat.lease, leases[p_usage].target)
    BY <1>13 DEF Install, LeaseInv
  <2>6. p_todo' \subseteq Leased' /\ \A u \in Usage : Installed(u)' => u \in Leased'
    BY <2>1, <2>3, <2>4 DEF LeaseInv
  <2> QED
    BY <2>1, <2>2, <2>3, <2>4, <2>5, <2>6 DEF LeaseInv
<1>14. CASE Publish
  <2>1. p_usage \in p_todo
    BY <1>14, LeaseCalls DEF Publish
  <2>2. /\ \A u \in Usage : u # p_usage => status'[u] = status[u]
        /\ p_pc' = "answers" /\ p_todo' \subseteq p_todo /\ UNCHANGED leases
    BY <1>14 DEF Publish, TypeOK
  <2> QED
    BY <2>1, <2>2 DEF LeaseInv
<1> QED
  BY <1>1, <1>2, <1>3, <1>4, <1>5, <1>6, <1>7, <1>8, <1>9, <1>10, <1>11, <1>12, <1>13, <1>14
  DEF Next, Docker, Tunnel, Lease, Stopped, Elsewhere

\* The tasks start consistent.
LEMMA LeaseInit == Init => TypeOK /\ LeaseInv
<1> SUFFICES ASSUME Init PROVE TypeOK /\ LeaseInv
  OBVIOUS
<1>1. E!TypeOK
  BY Zenon DEF Init, E!Init, E!TypeOK, E!NoForwards, E!ForwardMap
<1> QED
  BY <1>1, DiscoveryAssumption, Zenon DEF Init, TypeOK, LeaseInv, Leased, Installed

\* The types and the lease invariant hold in every state.
LEMMA LeaseAlways == Spec => [](TypeOK /\ LeaseInv)
BY LeaseInit, TypeStep, LeaseStep, PTL DEF Spec

\* The three tasks use the enforcement coordinator only as it expects (reconcile_docker,
\* monitor_tunnel, maintain_port_forward): what they do to it is a behaviour of
\* module Enforcement, so everything proved of the coordinator holds under them.
THEOREM CoordinatorRefined == Spec => CoordinatorSpec
<1>1. Init => E!Init
  BY DEF Init
<1>2. TypeOK /\ LeaseInv /\ [Next]_vars => [E!Next]_(E!vars)
  BY RefineStep
<1> QED
  BY <1>1, <1>2, LeaseAlways, PTL DEF Spec, CoordinatorSpec, E!Spec

----------------------------------------------------------------------------
(* A lost tunnel *)

\* Nothing is desired, and while the process runs nothing is in the kernel, as long
\* as DNAT is not allowed.  While it runs what was applied is what is desired (a
\* failed commit that edited the policy ends it), and after a commit the kernel has
\* that too.
PolicyInv ==
    /\ ~dnat_allowed => desired_dnat = E!NoForwards
    /\ running /\ ~dnat_allowed => kernel_dnat = E!NoForwards
    /\ running /\ ApplyGatewayFirewall => applied_dnat = desired_dnat
    /\ ~ApplyGatewayFirewall => ~table_present /\ kernel_dnat = E!NoForwards
    /\ settled /\ table_present => kernel_dnat = desired_dnat

\* The monitor disallows DNAT before it announces the loss and allows it before it
\* announces the tunnel.
TunnelInv ==
    /\ t_pc \in {"invalidate", "went_down", "recover", "recover_disable", "recover_invalidate",
                 "recover_notify"} => ~dnat_allowed
    /\ t_pc = "came_up" => dnat_allowed
    /\ running /\ tunnel_up /\ ~dnat_allowed => t_pc \in {"invalidate", "went_down"}
    /\ dnat_allowed /\ ~tunnel_up => t_pc = "came_up"

\* What a call does to the policy when it is not one that changes dnat_allowed: a
\* failure is either tolerated, with nothing edited, or ends the process.
LEMMA CommitPolicy ==
    ASSUME PolicyInv, TypeOK, running, NEW ok \in BOOLEAN, E!apply_locked(desired_dnat', ok),
           dnat_allowed' = dnat_allowed, running' => ok \/ desired_dnat' = desired_dnat,
           ~dnat_allowed => desired_dnat' = E!NoForwards
    PROVE  PolicyInv'
<1>1. CASE ApplyGatewayFirewall
  BY <1>1 DEF PolicyInv, E!apply_locked
<1>2. CASE ~ApplyGatewayFirewall
  BY <1>2 DEF PolicyInv, E!apply_locked
<1> QED
  BY <1>1, <1>2

\* Every step keeps the policy and the kernel together.
LEMMA PolicyStep ==
    PolicyInv /\ TunnelInv /\ TypeOK /\ LeaseInv /\ [Next]_vars => PolicyInv'
<1> SUFFICES ASSUME PolicyInv, TunnelInv, TypeOK, LeaseInv, [Next]_vars PROVE PolicyInv'
  OBVIOUS
<1>0. desired_dnat \in [Usage -> E!Dnat \cup {NoDnat}]
  BY DEF TypeOK, E!TypeOK, E!ForwardMap
<1>1. CASE Aside
  <2>1. UNCHANGED evars
    BY <1>1, AsideKeeps
  <2>2. CASE CounterReadFails
    BY <2>1, <2>2 DEF CounterReadFails, PolicyInv, evars
  <2>3. CASE ~CounterReadFails
    <3>1. UNCHANGED running
      BY <1>1, <2>3, Zenon
      DEF Aside, Discover, WriteClients, MarkUp, Invalidate, MarkDown, BeginRecovery,
          RecoveryInvalidate, RecoveryNotify, Top, SelectTargets, Unpublish, DropStatus, Deactivated,
          ExternalAddress, MappingGranted, InstallRefused, Publish, PassDone, Wake, BecomeCalm, vars
    <3> QED
      BY <2>1, <3>1 DEF PolicyInv, evars
  <2> QED
    BY <2>2, <2>3
<1>2. CASE running /\ ReconcileClients
  <2>1. PICK ok \in BOOLEAN : E!reconcile_clients(d_clients, ok) /\ running' = ok
    BY <1>2, OutcomeType DEF ReconcileClients
  <2>2. ~dnat_allowed => desired_dnat' = E!NoForwards
    BY <1>0, <2>1 DEF E!reconcile_clients, E!NoForwards, PolicyInv
  <2> QED
    BY <1>2, <2>1, <2>2, CommitPolicy DEF E!reconcile_clients
<1>3. CASE running /\ HandshakeRecent
  BY <1>3 DEF HandshakeRecent, E!enable_dnat, PolicyInv
<1>4. CASE running /\ (HandshakeLost \/ RecoveryDisable)
  <2>1. PICK ok \in BOOLEAN : E!disable_dnat(ok) /\ (running' => ok \/ ~dnat_allowed)
    BY <1>4, OutcomeType, Zenon DEF HandshakeLost, RecoveryDisable, TunnelInv
  <2> QED
    BY <1>4, <2>1 DEF E!disable_dnat, E!apply_locked, PolicyInv
<1>5. CASE running /\ (Deactivate \/ MappingLost)
  <2>1. PICK u \in p_todo, ok \in BOOLEAN : E!clear_dnat_for_usage(u, ok) /\ running' = ok
    BY <1>5, OutcomeType DEF Deactivate, MappingLost, ClearForward
  <2>2. ~dnat_allowed => desired_dnat' = E!NoForwards
    BY <1>0, <2>1, Zenon DEF E!clear_dnat_for_usage, E!NoForwards, PolicyInv
  <2> QED
    BY <1>5, <2>1, <2>2, CommitPolicy, Zenon DEF E!clear_dnat_for_usage
<1>6. CASE running /\ Install
  <2>1. PICK ok \in BOOLEAN :
          /\ E!set_dnat_for_target(p_usage, p_dnat, leases[p_usage].target, ok)
          /\ running' = ok
    BY <1>6, OutcomeType DEF Install
  <2>2. dnat_allowed
    BY <2>1 DEF E!set_dnat_for_target, E!SetRefused
  <2> QED
    BY <1>6, <2>1, <2>2, CommitPolicy, Zenon DEF E!set_dnat_for_target
<1>7. CASE running /\ ProfileReconcile
  <2>1. ASSUME NEW ok \in BOOLEAN, E!reconcile_base(ok) PROVE PolicyInv'
    <3>1. UNCHANGED <<dnat_allowed, desired_dnat>> /\ E!apply_locked(desired_dnat', ok)
      BY <2>1 DEF E!reconcile_base
    <3> QED
      BY <1>7, <3>1, CommitPolicy DEF PolicyInv
  <2>2. ASSUME E!reconcile_base_cancelled PROVE PolicyInv'
    BY <1>7, <2>2 DEF ProfileReconcile, E!reconcile_base_cancelled, PolicyInv
  <2> QED
    BY <1>7, <2>1, <2>2, OutcomeType DEF ProfileReconcile
<1>8. CASE running /\ Flush
  BY <1>8 DEF Flush, E!ExternalFlush, PolicyInv
<1> QED
  BY <1>1, <1>2, <1>3, <1>4, <1>5, <1>6, <1>7, <1>8, StepKinds

\* Every step keeps the monitor's announcements in order.
LEMMA TunnelStep == TunnelInv /\ TypeOK /\ [Next]_vars => TunnelInv'
<1> SUFFICES ASSUME TunnelInv, TypeOK, [Next]_vars PROVE TunnelInv'
  OBVIOUS
<1>1. CASE running /\ Tunnel
  <2>1. CASE HandshakeRecent
    BY <2>1 DEF HandshakeRecent, E!enable_dnat, TunnelInv
  <2>2. CASE MarkUp
    BY <2>2 DEF MarkUp, evars, TunnelInv
  <2>3. CASE HandshakeLost
    BY <2>3 DEF HandshakeLost, E!disable_dnat, TunnelInv
  <2>4. CASE Invalidate
    BY <2>4 DEF Invalidate, evars, TunnelInv
  <2>5. CASE MarkDown
    BY <2>5 DEF MarkDown, evars, TunnelInv
  <2>6. CASE BeginRecovery
    BY <2>6 DEF BeginRecovery, evars, TunnelInv
  <2>7. CASE RecoveryDisable
    BY <1>1, <2>7 DEF RecoveryDisable, E!disable_dnat, TunnelInv
  <2>8. CASE RecoveryInvalidate \/ RecoveryNotify
    <3>1. /\ UNCHANGED <<dnat_allowed, tunnel_up>>
          /\ t_pc \in {"recover_invalidate", "recover_notify"}
          /\ t_pc' \in {"recover_notify", "idle"}
      BY <2>8 DEF RecoveryInvalidate, RecoveryNotify, evars
    <3> QED
      BY <1>1, <3>1 DEF TunnelInv
  <2> QED
    BY <1>1, <2>1, <2>2, <2>3, <2>4, <2>5, <2>6, <2>7, <2>8 DEF Tunnel
<1>2. CASE running /\ Docker
  <2>1. UNCHANGED <<dnat_allowed, t_pc, tunnel_up>>
    BY <1>2, Zenon DEF Docker, Discover, ReconcileClients, CounterReadFails, WriteClients,
                E!reconcile_clients, evars
  <2> QED
    BY <1>2, <2>1 DEF TunnelInv
<1>3. CASE running /\ Lease
  <2>1. UNCHANGED <<t_pc, tunnel_up>>
    BY <1>3, Zenon DEF Lease, Top, SelectTargets, Deactivate, Unpublish, DropStatus, Deactivated,
                ExternalAddress, MappingGranted, MappingLost, InstallRefused, Install, Publish,
                PassDone, Wake
  <2>2. UNCHANGED dnat_allowed
    BY <1>3, Zenon DEF Lease, Top, SelectTargets, Deactivate, Unpublish, DropStatus, Deactivated,
                ExternalAddress, MappingGranted, MappingLost, InstallRefused, Install, Publish,
                PassDone, Wake, ClearForward, E!clear_dnat_for_usage, E!set_dnat_for_target, evars
  <2> QED
    BY <1>3, <2>1, <2>2 DEF TunnelInv
<1>4. CASE running /\ (ProfileReconcile \/ Flush \/ BecomeCalm)
  <2>1. UNCHANGED <<dnat_allowed, t_pc, tunnel_up>>
    BY <1>4, Zenon DEF ProfileReconcile, Flush, BecomeCalm, shared, evars, E!reconcile_base,
                E!reconcile_base_cancelled, E!ExternalFlush
  <2> QED
    BY <1>4, <2>1 DEF TunnelInv
<1>5. CASE UNCHANGED vars
  BY <1>5 DEF vars, evars, TunnelInv
<1> QED
  BY <1>1, <1>2, <1>3, <1>4, <1>5 DEF Next, Stopped

\* The tasks start without a tunnel and without forwards.
LEMMA PolicyInit == Init => PolicyInv /\ TunnelInv
BY DEF Init, E!Init, PolicyInv, TunnelInv

\* Both hold in every state.
LEMMA PolicyAlways == Spec => [](PolicyInv /\ TunnelInv)
BY PolicyInit, PolicyStep, TunnelStep, LeaseAlways, PTL DEF Spec

\* While the process runs, a lost tunnel means no forward in the kernel (disable_dnat
\* and its callers), whatever the other tasks are in the middle of and whichever of
\* their commits fail.
THEOREM DownAlwaysRemoved == Spec => []DownMeansRemoved
<1>1. PolicyInv => DownMeansRemoved
  BY DEF PolicyInv, DownMeansRemoved
<1> QED
  BY <1>1, PolicyAlways, PTL

----------------------------------------------------------------------------
(* What is published *)

\* The coordinator has the targets of the last client map the reconciler gave it.
TargetsInv ==
    running => dnat_targets = E!select_dnat_targets(IF d_pc = "write" THEN d_clients ELSE clients)

\* The monitor has disallowed DNAT and not yet announced the loss.
Window == t_pc \in {"invalidate", "went_down"} /\ tunnel_up

\* The lease task has an unseen notification, or a task is about to notify it.
Notified ==
    \/ pending
    \/ Window
    \/ d_pc = "write" /\ port_forward_target_inputs(clients) # port_forward_target_inputs(d_clients)

\* The lease task gives up slots whose target changed; it has compared the targets of
\* all slots; it is in a pass that began with the tunnel up.
Selecting == p_pc \in {"deactivate", "unpublish", "drop"} /\ p_cause = "target"
Checked ==
    \/ p_pc \in {"address", "answers", "install", "publish"}
    \/ p_pc = "unpublish" /\ p_cause = "lost"
Passing == p_pc = "select" \/ Selecting \/ Checked

\* A pass works with the current targets, or it is going to be repeated; and so for
\* the tunnel.
PassInv ==
    /\ Selecting => /\ pending \/ p_targets = E!select_dnat_targets(clients)
                    /\ \A u \in Leased \ p_todo : leases[u].target = p_targets[u]
    /\ Checked => \/ pending
                  \/ \A u \in Leased : leases[u].target = E!select_dnat_targets(clients)[u]
    /\ running /\ Passing /\ ~dnat_allowed => pending \/ Window

Desired(u) == desired_dnat[u] # NoDnat

\* The pass under way has yet to come to the usage u.
Coming(u) ==
    \/ p_pc \in {"top", "select", "address"}
    \/ Selecting
    \/ p_pc \in {"deactivate", "unpublish", "answers", "install", "publish"} /\ u \in p_todo

\* A desired forward is published or about to be; a forward that is published, or
\* about to be, and no longer desired, will be noticed; one that is being taken back
\* is not desired.
PublishedRight(u) ==
    /\ Desired(u) => Installed(u) \/ (p_pc = "publish" /\ p_usage = u)
    /\ Installed(u) /\ ~Desired(u) => Notified \/ Coming(u)
    /\ p_pc = "publish" /\ p_usage = u /\ ~Desired(u) => Notified
    /\ p_pc \in {"unpublish", "drop"} /\ p_usage = u => ~Desired(u)

PublishInv == running /\ ApplyGatewayFirewall => \A u \in Usage : PublishedRight(u)

\* Every step keeps the coordinator's targets those of the reconciler.
LEMMA TargetsStep == TargetsInv /\ TypeOK /\ [Next]_vars => TargetsInv'
<1> SUFFICES ASSUME TargetsInv, TypeOK, [Next]_vars PROVE TargetsInv'
  OBVIOUS
<1> USE DEF dvars
<1>1. CASE running /\ Docker
  <2>1. CASE Discover
    BY <1>1, <2>1 DEF Discover, evars, TargetsInv
  <2>2. CASE ReconcileClients
    BY <1>1, <2>2 DEF ReconcileClients, E!reconcile_clients, TargetsInv
  <2>3. CASE CounterReadFails
    BY <1>1, <2>3 DEF CounterReadFails, TargetsInv
  <2>4. CASE WriteClients
    BY <1>1, <2>4 DEF WriteClients, evars, TargetsInv
  <2> QED
    BY <1>1, <2>1, <2>2, <2>3, <2>4 DEF Docker
<1>2. CASE running /\ Tunnel
  <2>1. UNCHANGED <<dnat_targets, clients, d_pc, d_clients>>
    BY <1>2, Zenon DEF Tunnel, HandshakeRecent, MarkUp, HandshakeLost, Invalidate, MarkDown, BeginRecovery,
                RecoveryDisable, RecoveryInvalidate, RecoveryNotify, E!enable_dnat, E!disable_dnat, evars
  <2> QED
    BY <1>2, <2>1 DEF TargetsInv
<1>3. CASE running /\ Lease
  <2>1. UNCHANGED <<clients, d_pc, d_clients>>
    BY <1>3, Zenon DEF Lease, Top, SelectTargets, Deactivate, Unpublish, DropStatus, Deactivated,
                ExternalAddress, MappingGranted, MappingLost, InstallRefused, Install, Publish,
                PassDone, Wake
  <2>2. UNCHANGED dnat_targets
    BY <1>3, Zenon DEF Lease, Top, SelectTargets, Deactivate, Unpublish, DropStatus, Deactivated,
                ExternalAddress, MappingGranted, MappingLost, InstallRefused, Install, Publish,
                PassDone, Wake, ClearForward, E!clear_dnat_for_usage, E!set_dnat_for_target, evars
  <2> QED
    BY <1>3, <2>1, <2>2 DEF TargetsInv
<1>4. CASE running /\ (ProfileReconcile \/ Flush \/ BecomeCalm)
  <2>1. UNCHANGED <<dnat_targets, clients, d_pc, d_clients>>
    BY <1>4, Zenon DEF ProfileReconcile, Flush, BecomeCalm, shared, evars, E!reconcile_base,
                E!reconcile_base_cancelled, E!ExternalFlush
  <2> QED
    BY <1>4, <2>1 DEF TargetsInv
<1>5. CASE UNCHANGED vars
  BY <1>5 DEF vars, evars, TargetsInv
<1> QED
  BY <1>1, <1>2, <1>3, <1>4, <1>5 DEF Next, Stopped

\* A notification, once due, stays due until the lease task looks.
LEMMA NotifiedStays ==
    ASSUME TypeOK, [Next]_vars, running', ~Wake, Notified
    PROVE  Notified'
<1> USE DEF dvars
<1>1. CASE Discover
  BY <1>1 DEF Discover, Notified, Window
<1>2. CASE ReconcileClients
  BY <1>2 DEF ReconcileClients, Notified, Window
<1>3. CASE CounterReadFails
  BY <1>3 DEF CounterReadFails
<1>4. CASE WriteClients
  BY <1>4 DEF WriteClients, Notified, Window, TypeOK
<1>5. CASE HandshakeRecent \/ HandshakeLost \/ Invalidate
  <2>1. /\ UNCHANGED <<pending, tunnel_up, clients, d_pc, d_clients>>
        /\ Window => t_pc' = "went_down"
    BY <1>5, Zenon DEF HandshakeRecent, HandshakeLost, Invalidate, Window
  <2> QED
    BY <2>1 DEF Notified, Window
<1>6. CASE RecoveryDisable \/ RecoveryInvalidate
  <2>1. UNCHANGED <<pending, clients, d_pc, d_clients>> /\ ~Window
    BY <1>6, Zenon DEF RecoveryDisable, RecoveryInvalidate, Window
  <2> QED
    BY <2>1 DEF Notified
<1>7. CASE MarkUp \/ MarkDown
  <2>1. UNCHANGED <<clients, d_pc, d_clients>> /\ (pending \/ Window => pending')
    BY <1>7, Zenon DEF MarkUp, MarkDown, Window, TypeOK
  <2> QED
    BY <2>1 DEF Notified
<1>8. CASE BeginRecovery \/ RecoveryNotify
  BY <1>8, Zenon DEF BeginRecovery, RecoveryNotify, Notified
<1>9. CASE Lease
  <2>1. UNCHANGED <<pending, tunnel_up, t_pc, clients, d_pc, d_clients>>
    BY <1>9, Zenon DEF Lease, Top, SelectTargets, Deactivate, Unpublish, DropStatus, Deactivated,
                ExternalAddress, MappingGranted, MappingLost, InstallRefused, Install, Publish,
                PassDone
  <2> QED
    BY <2>1 DEF Notified, Window
<1>10. CASE ProfileReconcile \/ Flush \/ BecomeCalm \/ UNCHANGED vars
  <2>1. UNCHANGED <<pending, tunnel_up, t_pc, clients, d_pc, d_clients>>
    BY <1>10, Zenon DEF ProfileReconcile, Flush, BecomeCalm, shared, vars
  <2> QED
    BY <2>1 DEF Notified, Window
<1> QED
  BY <1>1, <1>2, <1>3, <1>4, <1>5, <1>6, <1>7, <1>8, <1>9, <1>10
  DEF Next, Docker, Tunnel, Stopped

\* The steps of the other tasks, of the environment and of nobody leave the lease
\* task alone and take no notification back.
Beside == Elsewhere \/ Invalidate \/ RecoveryInvalidate

\* They keep the lease task's variables and an unseen notification.
LEMMA BesideKeeps == TypeOK /\ Beside => UNCHANGED pvars /\ (pending => pending')
<1> SUFFICES ASSUME TypeOK, Beside PROVE UNCHANGED pvars /\ (pending => pending')
  OBVIOUS
<1>1. UNCHANGED pvars
  BY ElsewhereKeeps DEF Beside, Invalidate, RecoveryInvalidate
<1>2. CASE WriteClients \/ MarkUp \/ MarkDown \/ BeginRecovery \/ RecoveryNotify
  BY <1>1, <1>2, Zenon DEF WriteClients, MarkUp, MarkDown, BeginRecovery, RecoveryNotify, TypeOK
<1>3. CASE ~(WriteClients \/ MarkUp \/ MarkDown \/ BeginRecovery \/ RecoveryNotify)
  <2>1. UNCHANGED pending
    BY <1>3 DEF Beside, Elsewhere, Discover, ReconcileClients, CounterReadFails, HandshakeRecent,
                HandshakeLost, RecoveryDisable, Invalidate, RecoveryInvalidate,
                ProfileReconcile, Flush, BecomeCalm, shared, vars
  <2> QED
    BY <1>1, <2>1
<1> QED
  BY <1>2, <1>3

\* Only WriteClients changes the shared clients.
LEMMA ClientsKept == [Next]_vars /\ ~WriteClients => UNCHANGED clients
BY Zenon DEF Next, Docker, Tunnel, Lease, Stopped, Discover, ReconcileClients, CounterReadFails,
       HandshakeRecent, MarkUp, HandshakeLost, Invalidate, MarkDown, BeginRecovery, RecoveryDisable,
       RecoveryInvalidate, RecoveryNotify, Top, SelectTargets, Deactivate, Unpublish, DropStatus,
       Deactivated, ExternalAddress, MappingGranted, MappingLost, InstallRefused, Install, Publish,
       PassDone, Wake, ProfileReconcile, Flush, BecomeCalm, shared, vars

\* The shared clients have the same targets after a step, or the lease task is told.
LEMMA TargetsKept ==
    ASSUME TypeOK, [Next]_vars
    PROVE  pending' \/ E!select_dnat_targets(clients') = E!select_dnat_targets(clients)
<1>1. CASE WriteClients
  BY <1>1, SameInputs DEF WriteClients, TypeOK
<1>2. CASE ~WriteClients
  BY <1>2, ClientsKept
<1> QED
  BY <1>1, <1>2

\* The steps of the lease task within a pass leave the other tasks' variables alone.
LEMMA LeaseKeeps ==
    Lease /\ ~Wake => UNCHANGED <<pending, tunnel_up, t_pc, clients, d_pc, d_clients>>
BY DEF Lease, Top, SelectTargets, Deactivate, Unpublish, DropStatus, Deactivated, dvars,
       ExternalAddress, MappingGranted, MappingLost, InstallRefused, Install, Publish, PassDone

\* No step of the lease task allows or disallows DNAT.
LEMMA LeaseAllowed == Lease => UNCHANGED <<dnat_allowed, dnat_targets>>
BY Zenon DEF Lease, Top, SelectTargets, Deactivate, Unpublish, DropStatus, Deactivated,
       ExternalAddress, MappingGranted, MappingLost, InstallRefused, Install, Publish,
       PassDone, Wake, ClearForward, E!clear_dnat_for_usage, E!set_dnat_for_target, evars

\* A pass that goes on while DNAT is disallowed is going to be told.
LEMMA LossSeen ==
    ASSUME PassInv, TypeOK, LeaseInv, TunnelInv, [Next]_vars, running', Passing', ~dnat_allowed'
    PROVE  pending' \/ Window'
<1>1. CASE Beside
  <2>1. Passing /\ (pending => pending')
    BY <1>1, BesideKeeps DEF Passing, Selecting, Checked, pvars
  <2>2. CASE HandshakeLost
    <3>1. t_pc = "idle" /\ t_pc' = "invalidate" /\ UNCHANGED tunnel_up /\ running
      BY <2>2 DEF HandshakeLost, Next, Stopped, vars
    <3>2. CASE dnat_allowed
      BY <3>1, <3>2 DEF TunnelInv, Window
    <3>3. CASE ~dnat_allowed
      BY <2>1, <3>1, <3>3 DEF PassInv, Window
    <3> QED
      BY <3>2, <3>3
  <2>3. CASE HandshakeRecent
    BY <2>3 DEF HandshakeRecent, E!enable_dnat
  <2>4. CASE MarkUp \/ BeginRecovery \/ RecoveryNotify
    BY <2>4, Zenon DEF MarkUp, BeginRecovery, RecoveryNotify, TunnelInv, evars
  <2>5. CASE MarkDown \/ Invalidate
    BY <2>1, <2>5, Zenon DEF MarkDown, Invalidate, PassInv, Window, evars, TypeOK
  <2>6. CASE RecoveryDisable \/ RecoveryInvalidate
    <3>1. ~Window /\ ~dnat_allowed /\ running /\ UNCHANGED pending
      BY <2>6, Zenon DEF RecoveryDisable, RecoveryInvalidate, TunnelInv, Window
    <3> QED
      BY <2>1, <3>1, Zenon DEF PassInv
  <2>7. CASE Discover \/ ReconcileClients \/ CounterReadFails \/ WriteClients
    <3>1. UNCHANGED <<tunnel_up, t_pc, dnat_allowed>>
      BY <2>7, Zenon DEF Discover, ReconcileClients, CounterReadFails, WriteClients, E!reconcile_clients, evars
    <3>2. running
      BY Zenon DEF Next, Stopped, vars
    <3> QED
      BY <2>1, <3>1, <3>2 DEF PassInv, Window
  <2>8. CASE ProfileReconcile \/ Flush \/ BecomeCalm \/ UNCHANGED vars
    <3>1. UNCHANGED <<tunnel_up, t_pc, dnat_allowed, running>>
      BY <2>8, Zenon DEF ProfileReconcile, Flush, BecomeCalm, shared, evars, vars, E!reconcile_base,
                  E!reconcile_base_cancelled, E!ExternalFlush
    <3> QED
      BY <2>1, <3>1, Zenon DEF PassInv, Window
  <2> QED
    BY <1>1, <2>2, <2>3, <2>4, <2>5, <2>6, <2>7, <2>8 DEF Beside, Elsewhere
<1>2. CASE Lease
  <2>0. running
    BY Zenon DEF Next, Stopped, vars
  <2>1. ~Wake
    BY Zenon DEF Wake, Passing, Selecting, Checked
  <2>2. UNCHANGED <<pending, tunnel_up, t_pc, dnat_allowed>>
    BY <1>2, <2>1, LeaseKeeps, LeaseAllowed
  <2>3. CASE Top
    BY <2>0, <2>2, <2>3 DEF Top, StartDeactivation, Passing, Selecting, Checked, TunnelInv, Window
  <2>4. CASE ~Top
    <3>1. Passing
      <4>1. CASE SelectTargets \/ ExternalAddress \/ MappingGranted \/ MappingLost \/ InstallRefused
                 \/ Install \/ Publish \/ PassDone
        BY <4>1, Zenon DEF SelectTargets, ExternalAddress, MappingGranted, MappingLost, InstallRefused, Install,
                    Publish, PassDone, Passing, Checked
      <4>2. CASE Deactivate \/ DropStatus
        <5>1. /\ p_pc \in {"deactivate", "drop"} /\ p_cause' = p_cause
              /\ p_pc' \in {"unpublish", "failed", "deactivate"}
          BY <4>2, Zenon DEF Deactivate, DropStatus, ClearForward
        <5>2. p_cause # "lost"
          BY <5>1 DEF LeaseInv
        <5> QED
          BY <5>1, <5>2 DEF Passing, Checked, Selecting
      <4>3. CASE Unpublish
        <5>1. /\ p_pc = "unpublish" /\ p_pc' \in {"answers", "drop", "deactivate"}
              /\ p_pc' = "answers" => p_cause = "lost"
              /\ p_pc' # "answers" => p_cause' = p_cause
          BY <4>3 DEF Unpublish
        <5> QED
          BY <5>1 DEF Passing, Checked, Selecting
      <4>4. CASE Deactivated
        BY <4>4 DEF Deactivated, Passing, Checked, Selecting
      <4> QED
        BY <1>2, <2>1, <2>4, <4>1, <4>2, <4>3, <4>4 DEF Lease
    <3> QED
      BY <2>0, <2>2, <3>1 DEF PassInv, Window
  <2> QED
    BY <2>3, <2>4
<1> QED
  BY <1>1, <1>2 DEF Next, Docker, Tunnel, Stopped, Beside, Elsewhere

\* Every step keeps a pass with the current targets, or has it repeated.
LEMMA PassStep == PassInv /\ TypeOK /\ LeaseInv /\ TunnelInv /\ [Next]_vars => PassInv'
<1> SUFFICES ASSUME PassInv, TypeOK, LeaseInv, TunnelInv, [Next]_vars PROVE PassInv'
  OBVIOUS
<1> DEFINE now == E!select_dnat_targets(clients)
           Picked == /\ pending \/ p_targets = now
                     /\ \A u \in Leased \ p_todo : leases[u].target = p_targets[u]
           Compared == pending \/ \A u \in Leased : leases[u].target = now[u]
<1>0. (Selecting => Picked) /\ (Checked => Compared)
  BY DEF PassInv
<1> SUFFICES (Selecting' => Picked') /\ (Checked' => Compared')
  BY LossSeen DEF PassInv
<1> USE DEF Leased
<1>1. CASE Beside
  <2>1. UNCHANGED pvars /\ (pending => pending') /\ (pending' \/ now' = now)
    BY <1>1, BesideKeeps, TargetsKept
  <2>2. (Selecting' <=> Selecting) /\ (Checked' <=> Checked)
    BY <2>1 DEF pvars, Selecting, Checked
  <2> HIDE DEF now
  <2> QED
    BY <1>0, <2>1, <2>2 DEF pvars
<1>2. CASE Lease /\ ~Wake
  <2>0. UNCHANGED <<pending, clients>>
    BY <1>2, LeaseKeeps
  <2>1. now' = now
    BY <2>0
  <2> HIDE DEF now
  <2>2. CASE Top \/ PassDone
    BY <2>2 DEF Top, PassDone, StartDeactivation, Selecting, Checked
  <2>3. CASE SelectTargets
    <3>1. /\ p_targets' = now /\ p_todo' = {u \in Leased : leases[u].target # p_targets'[u]}
          /\ p_pc' = "deactivate" /\ UNCHANGED leases
      BY <2>3 DEF SelectTargets, now
    <3> QED
      BY <2>1, <3>1 DEF Checked
  <2>4. CASE Deactivate \/ DropStatus
    <3>1. /\ p_pc \in {"deactivate", "drop"} /\ p_pc' \in {"unpublish", "failed", "deactivate"}
          /\ UNCHANGED <<p_cause, p_targets, p_todo, leases>>
      BY <2>4 DEF Deactivate, DropStatus, ClearForward
    <3>2. p_cause # "lost"
      BY <3>1 DEF LeaseInv
    <3> QED
      BY <1>0, <2>0, <2>1, <3>1, <3>2 DEF Selecting, Checked
  <2>5. CASE Unpublish
    <3>1. p_usage \in Usage /\ leases[p_usage] \in Slot /\ p_pc = "unpublish"
      BY <2>5, LeaseCalls DEF Unpublish
    <3>2. /\ p_pc' \in {"answers", "drop", "deactivate"} /\ p_todo' = p_todo \ {p_usage}
          /\ p_pc' = "answers" <=> p_cause = "lost"
          /\ p_pc' # "answers" => p_cause' = p_cause
          /\ UNCHANGED p_targets
      BY <2>5 DEF Unpublish
    <3>3. /\ \A u \in Usage : u # p_usage => leases'[u] = leases[u]
          /\ p_cause = "target" => leases'[p_usage] = NoSlot
      BY <2>5, <3>1 DEF Unpublish, TypeOK
    <3>4. p_cause # "target" => leases'[p_usage].target = leases[p_usage].target
      BY <2>5, <3>1 DEF Unpublish, TypeOK, Slot
    <3>5. CASE p_cause = "target"
      BY <1>0, <2>0, <2>1, <3>1, <3>2, <3>3, <3>5 DEF Selecting, Checked
    <3>6. CASE p_cause = "lost"
      BY <1>0, <2>0, <2>1, <3>1, <3>2, <3>3, <3>4, <3>6, NullAssumption DEF Selecting, Checked
    <3>7. CASE p_cause \notin {"target", "lost"}
      BY <3>2, <3>7 DEF Selecting, Checked
    <3> QED
      BY <3>5, <3>6, <3>7
  <2>6. CASE Deactivated
    <3>1. /\ p_pc = "deactivate" /\ p_todo = {} /\ p_pc' \in {"address", "wait"}
          /\ p_pc' = "address" => p_cause = "target"
      BY <2>6 DEF Deactivated
    <3>2. CASE p_cause = "target"
      <4>1. \A u \in Usage :
               /\ leases[u] # NoSlot => leases'[u] = leases[u]
               /\ leases[u] = NoSlot /\ leases'[u] # NoSlot => leases'[u].target = p_targets[u]
        BY <2>6, <3>2 DEF Deactivated
      <4> QED
        BY <1>0, <2>0, <2>1, <3>1, <3>2, <4>1 DEF Selecting, Checked
    <3>3. CASE p_cause # "target"
      BY <3>1, <3>3 DEF Selecting, Checked
    <3> QED
      BY <3>2, <3>3
  <2>7. CASE ExternalAddress
    BY <1>0, <2>0, <2>1, <2>7 DEF ExternalAddress, StartDeactivation, Selecting, Checked
  <2>8. CASE MappingGranted \/ InstallRefused \/ Publish \/ MappingLost
    <3>1. /\ p_pc \in {"answers", "install", "publish"} /\ UNCHANGED leases
          /\ p_pc' \in {"install", "publish", "answers", "unpublish", "failed"}
          /\ p_pc' = "unpublish" => p_cause' = "lost"
      BY <2>8 DEF MappingGranted, InstallRefused, Publish, MappingLost, ClearForward
    <3> QED
      BY <1>0, <2>0, <2>1, <3>1 DEF Selecting, Checked
  <2>9. CASE Install
    <3>1. p_usage \in Usage /\ leases[p_usage] \in Slot /\ p_pc = "install"
      BY <2>9, LeaseCalls DEF Install
    <3>2. p_pc' \in {"publish", "failed"}
      BY <2>9 DEF Install
    <3>3. /\ \A u \in Usage : u # p_usage => leases'[u] = leases[u]
          /\ leases'[p_usage].target = leases[p_usage].target
      BY <2>9, <3>1 DEF Install, TypeOK, Slot
    <3> QED
      BY <1>0, <2>0, <2>1, <3>1, <3>2, <3>3, NullAssumption, Zenon DEF Selecting, Checked
  <2> QED
    BY <1>2, <2>2, <2>3, <2>4, <2>5, <2>6, <2>7, <2>8, <2>9, Zenon DEF Lease
<1>3. CASE Wake
  BY <1>3, Zenon DEF Wake, Selecting, Checked
<1> QED
  BY <1>1, <1>2, <1>3 DEF Next, Docker, Tunnel, Stopped, Beside, Elsewhere

\* A refusal of set_dnat_for_target, within a pass, is one the lease task is going to
\* be told of: the tunnel was lost, or the target changed under it.
LEMMA RefusalSeen ==
    ASSUME PassInv, TargetsInv, TypeOK, LeaseInv, running, p_pc = "install",
           E!SetRefused(p_usage, leases[p_usage].target)
    PROVE  Notified
<1>1. p_usage \in Usage /\ p_usage \in Leased
  BY LeaseCalls DEF LeaseInv, Leased
<1>2. CASE ~dnat_allowed
  BY <1>2 DEF PassInv, Passing, Checked, Notified
<1>3. CASE dnat_targets[p_usage] # leases[p_usage].target
  <2>1. pending \/ leases[p_usage].target = E!select_dnat_targets(clients)[p_usage]
    BY <1>1 DEF PassInv, Checked
  <2>2. CASE d_pc = "write"
    <3>1. dnat_targets = E!select_dnat_targets(d_clients)
      BY <2>2 DEF TargetsInv
    <3>2. port_forward_target_inputs(clients) = port_forward_target_inputs(d_clients)
             => E!select_dnat_targets(clients) = E!select_dnat_targets(d_clients)
      BY SameInputs DEF TypeOK
    <3> QED
      BY <1>3, <2>1, <2>2, <3>1, <3>2 DEF Notified
  <2>3. CASE d_pc # "write"
    BY <1>3, <2>1, <2>3 DEF TargetsInv, Notified
  <2> QED
    BY <2>2, <2>3
<1> QED
  BY <1>2, <1>3 DEF E!SetRefused

\* The steps of the other tasks keep what is published right.
LEMMA PublishBeside ==
    ASSUME PublishInv, PolicyInv, TargetsInv, TunnelInv, TypeOK, [Next]_vars, Beside, running',
           ApplyGatewayFirewall, NEW u \in Usage
    PROVE  PublishedRight(u)'
<1>0. running
  BY Zenon DEF Next, Stopped, vars
<1>1. PublishedRight(u)
  BY <1>0 DEF PublishInv
<1>2. UNCHANGED pvars /\ (Coming(u)' <=> Coming(u))
  BY BesideKeeps DEF pvars, Coming, Selecting
<1>3. Notified => Notified'
  <2>1. ~Wake \/ p_pc' = p_pc
    BY <1>2 DEF pvars
  <2>2. ~Wake
    BY <2>1, Zenon DEF Wake
  <2> QED
    BY <2>2, NotifiedStays
<1>4. CASE Invalidate \/ RecoveryInvalidate
  <2>0. status'[u] = NoStatus \/ status'[u] = [phase |-> "Unavailable", dnat_installed |-> FALSE]
    BY <1>4, Zenon DEF Invalidate, RecoveryInvalidate, invalidate_published_forward
  <2>1. ~Installed(u)'
    BY <2>0 DEF Installed
  <2>2. ~dnat_allowed /\ UNCHANGED desired_dnat
    BY <1>4, Zenon DEF Invalidate, RecoveryInvalidate, TunnelInv, evars
  <2>3. ~Desired(u) /\ ~Desired(u)'
    BY <2>2 DEF PolicyInv, Desired, E!NoForwards
  <2> QED
    BY <1>1, <1>2, <1>3, <2>1, <2>3 DEF PublishedRight, pvars
<1>5. CASE Elsewhere
  <2>1. Installed(u)' <=> Installed(u)
    BY <1>5, ElsewhereKeeps DEF Installed
  <2>2. CASE ReconcileClients
    <3>1. /\ dnat_targets = E!select_dnat_targets(clients)
          /\ dnat_targets' = E!select_dnat_targets(d_clients)
          /\ desired_dnat'[u] = IF dnat_targets[u] = dnat_targets'[u] THEN desired_dnat[u] ELSE NoDnat
          /\ d_pc' = "write" /\ UNCHANGED <<clients, d_clients>>
      BY <1>0, <2>2 DEF ReconcileClients, E!reconcile_clients, TargetsInv
    <3>2. Desired(u)' => Desired(u)
      BY <3>1 DEF Desired
    <3>3. Desired(u) /\ ~Desired(u)' => Notified'
      <4>1. port_forward_target_inputs(clients) = port_forward_target_inputs(d_clients)
              => E!select_dnat_targets(clients) = E!select_dnat_targets(d_clients)
        BY SameInputs DEF TypeOK
      <4> QED
        BY <3>1, <4>1 DEF Desired, Notified
    <3> QED
      BY <1>1, <1>2, <1>3, <2>1, <3>2, <3>3 DEF PublishedRight, pvars
  <2>3. CASE HandshakeLost
    <3>1. ~Desired(u)'
      BY <2>3 DEF HandshakeLost, E!disable_dnat, E!NoForwards, Desired
    <3>2. Desired(u) => Notified'
      <4>1. t_pc = "idle" /\ t_pc' = "invalidate" /\ UNCHANGED tunnel_up
        BY <2>3 DEF HandshakeLost
      <4>2. Desired(u) => dnat_allowed
        BY DEF PolicyInv, Desired, E!NoForwards
      <4> QED
        BY <4>1, <4>2 DEF TunnelInv, Notified, Window
    <3> QED
      BY <1>1, <1>2, <1>3, <2>1, <3>1, <3>2 DEF PublishedRight, pvars
  <2>4. CASE RecoveryDisable
    <3>1. ~Desired(u)
      BY <2>4 DEF RecoveryDisable, TunnelInv, PolicyInv, Desired, E!NoForwards
    <3>2. ~Desired(u)'
      BY <2>4 DEF RecoveryDisable, E!disable_dnat, E!NoForwards, Desired
    <3> QED
      BY <1>1, <1>2, <1>3, <2>1, <3>1, <3>2 DEF PublishedRight, pvars
  <2>5. CASE ~(ReconcileClients \/ HandshakeLost \/ RecoveryDisable)
    <3>1. UNCHANGED desired_dnat
      BY <1>5, <2>5, Zenon DEF Elsewhere, Discover, CounterReadFails, WriteClients, HandshakeRecent, MarkUp,
           MarkDown, BeginRecovery, RecoveryNotify, ProfileReconcile, Flush, BecomeCalm, vars, evars,
           E!enable_dnat, E!reconcile_base, E!reconcile_base_cancelled, E!ExternalFlush
    <3>2. Desired(u)' <=> Desired(u)
      BY <3>1 DEF Desired
    <3> QED
      BY <1>1, <1>2, <1>3, <2>1, <3>2 DEF PublishedRight, pvars
  <2> QED
    BY <2>2, <2>3, <2>4, <2>5
<1> QED
  BY <1>4, <1>5 DEF Beside

\* The steps of the lease task keep what is published right.
LEMMA PublishLease ==
    ASSUME PublishInv, PolicyInv, PassInv, TargetsInv, TypeOK, LeaseInv, [Next]_vars, Lease,
           running, running', ApplyGatewayFirewall, NEW u \in Usage
    PROVE  PublishedRight(u)'
<1>1. PublishedRight(u) /\ (Installed(u) => u \in Leased)
  BY DEF PublishInv, LeaseInv
<1>2. ~Wake /\ Notified => Notified'
  BY NotifiedStays
<1>3. desired_dnat \in [Usage -> E!Dnat \cup {NoDnat}] /\ applied_dnat = desired_dnat
  BY DEF TypeOK, E!TypeOK, E!ForwardMap, PolicyInv
<1>4. CASE ~(Deactivate \/ MappingLost \/ Install)
  <2>0. Desired(u)' <=> Desired(u)
    BY <1>4, AsideKeeps DEF Lease, Aside, evars, Desired
  <2>1. CASE Top
    <3>1. /\ p_pc = "top" /\ UNCHANGED status
          /\ p_pc' = "select" \/ (p_pc' = "deactivate" /\ p_todo' = Leased)
      BY <2>1 DEF Top, StartDeactivation
    <3> QED
      BY <1>1, <2>0, <3>1 DEF PublishedRight, Installed, Coming
  <2>2. CASE SelectTargets
    <3>1. p_pc = "select" /\ p_pc' = "deactivate" /\ p_cause' = "target" /\ UNCHANGED status
      BY <2>2, Zenon DEF SelectTargets
    <3> QED
      BY <1>1, <2>0, <3>1 DEF PublishedRight, Installed, Coming, Selecting
  <2>3. CASE Unpublish
    <3>1. p_usage \in p_todo /\ p_pc = "unpublish"
      BY <2>3, LeaseCalls DEF Unpublish
    <3>2. /\ p_pc' \in {"answers", "drop", "deactivate"} /\ p_todo' = p_todo \ {p_usage}
          /\ p_pc' = "answers" <=> p_cause = "lost"
          /\ p_pc' # "answers" => p_cause' = p_cause
          /\ p_pc' = "drop" => p_usage' = p_usage /\ p_cause = "target"
      BY <2>3 DEF Unpublish
    <3>3. CASE u = p_usage
      <4>1. status'[u] = [phase |-> DeactivatedPhase, dnat_installed |-> FALSE]
        BY <2>3, <3>3 DEF Unpublish, TypeOK
      <4>2. ~Installed(u)' /\ ~Desired(u)
        BY <1>1, <3>1, <3>3, <4>1 DEF Installed, PublishedRight
      <4> QED
        BY <2>0, <3>2, <4>2 DEF PublishedRight
    <3>4. CASE u # p_usage
      <4>1. status'[u] = status[u]
        BY <2>3, <3>4 DEF Unpublish, TypeOK
      <4>2. Coming(u) => Coming(u)'
        BY <3>1, <3>2, <3>4 DEF Coming, Selecting
      <4>3. ~Wake
        BY <3>1 DEF Wake
      <4> QED
        BY <1>1, <1>2, <2>0, <3>1, <3>2, <3>4, <4>1, <4>2, <4>3, Zenon DEF PublishedRight, Installed
    <3> QED
      BY <3>3, <3>4
  <2>4. CASE DropStatus
    <3>1. /\ p_pc = "drop" /\ p_pc' = "deactivate" /\ UNCHANGED <<p_todo, p_cause>> /\ ~Wake
      BY <2>4 DEF DropStatus, Wake
    <3>2. CASE u = p_usage
      <4>1. status'[u] = NoStatus
        BY <2>4, <3>2 DEF DropStatus, TypeOK
      <4> QED
        BY <1>1, <2>0, <3>1, <3>2, <4>1 DEF PublishedRight, Installed
    <3>3. CASE u # p_usage
      <4>1. status'[u] = status[u]
        BY <2>4, <3>3 DEF DropStatus, TypeOK
      <4>2. Coming(u) => Coming(u)'
        BY <3>1 DEF Coming, Selecting
      <4> QED
        BY <1>1, <1>2, <2>0, <3>1, <4>1, <4>2 DEF PublishedRight, Installed
    <3> QED
      BY <3>2, <3>3
  <2>5. CASE Deactivated
    <3>1. /\ p_pc = "deactivate" /\ p_todo = {} /\ p_pc' \in {"address", "wait"} /\ UNCHANGED status
          /\ ~Wake
      BY <2>5 DEF Deactivated, Wake
    <3>2. p_pc' = "wait" /\ p_cause = "target" => leases[u] = NoSlot
      BY <2>5 DEF Deactivated
    <3>3. Installed(u) /\ Coming(u) => Coming(u)'
      BY <1>1, <3>1, <3>2 DEF Coming, Selecting, Leased
    <3> QED
      BY <1>1, <1>2, <2>0, <3>1, <3>3 DEF PublishedRight, Installed
  <2>6. CASE ExternalAddress
    <3>1. /\ p_pc = "address" /\ p_pc' \in {"answers", "deactivate"} /\ p_todo' = Leased
          /\ UNCHANGED status
      BY <2>6 DEF ExternalAddress, StartDeactivation
    <3> QED
      BY <1>1, <2>0, <3>1 DEF PublishedRight, Installed, Coming
  <2>7. CASE MappingGranted
    <3>1. PICK w \in p_todo, lease \in Port :
            /\ p_usage' = w
            /\ p_pc' = IF \/ leases[w].active_forward # E!tunnel_dnat(lease, leases[w].target)
                          \/ ~E!dnat_is_applied(w, E!tunnel_dnat(lease, leases[w].target))
                       THEN "install" ELSE "publish"
      BY <2>7 DEF MappingGranted
    <3>2. p_pc = "answers" /\ UNCHANGED <<p_todo, status>> /\ ~Wake
      BY <2>7 DEF MappingGranted, Wake
    <3>3. E!tunnel_dnat(lease, leases[w].target) # NoDnat
      <4>1. leases[w].target \in E!Target
        BY LeaseCalls
      <4>2. E!tunnel_dnat(lease, leases[w].target) \in E!Dnat
        BY <4>1, Zenon DEF E!tunnel_dnat, E!Dnat, E!Target
      <4> QED
        BY <4>2, NullAssumption
    <3>4. p_pc' = "publish" /\ p_usage' = u => Desired(u)
      BY <1>3, <3>1, <3>3, Zenon DEF E!dnat_is_applied, Desired
    <3>5. p_pc' \in {"install", "publish"}
      BY <3>1
    <3>6. Coming(u) => Coming(u)'
      BY <3>2, <3>5 DEF Coming, Selecting
    <3> QED
      BY <1>1, <1>2, <2>0, <3>2, <3>4, <3>5, <3>6 DEF PublishedRight, Installed
  <2>8. CASE InstallRefused
    <3>1. /\ p_pc = "install" /\ p_pc' = "answers" /\ p_todo' = p_todo \ {p_usage}
          /\ UNCHANGED status /\ ~Wake
      BY <2>8 DEF InstallRefused, Wake
    <3>2. Notified'
      BY <1>2, <2>8, <3>1, RefusalSeen DEF InstallRefused
    <3> QED
      BY <1>1, <2>0, <3>1, <3>2 DEF PublishedRight, Installed
  <2>9. CASE Publish
    <3>1. /\ p_pc = "publish" /\ p_pc' = "answers" /\ p_todo' = p_todo \ {p_usage} /\ ~Wake
          /\ status' = [status EXCEPT ![p_usage] = [phase |-> "Installed", dnat_installed |-> TRUE]]
      BY <2>9 DEF Publish, Wake
    <3>2. CASE u = p_usage
      <4>1. status'[u] = [phase |-> "Installed", dnat_installed |-> TRUE]
        BY <3>1, <3>2 DEF TypeOK
      <4>2. status'[u] \in Status
        BY <4>1 DEF Status, Phase
      <4>3. status'[u] # NoStatus /\ status'[u].dnat_installed
        <5>1. NoStatus \notin Status
          BY NullAssumption
        <5>2. status'[u] # NoStatus
          BY <4>2, <5>1
        <5>3. status'[u].dnat_installed
          BY <4>1
        <5> QED
          BY <5>2, <5>3
      <4>4. Installed(u)'
        BY <4>3 DEF Installed
      <4> QED
        BY <1>1, <1>2, <2>0, <3>1, <3>2, <4>4 DEF PublishedRight
    <3>3. CASE u # p_usage
      <4>1. status'[u] = status[u]
        BY <3>1, <3>3 DEF TypeOK
      <4>2. Coming(u) => Coming(u)'
        BY <3>1, <3>3 DEF Coming, Selecting
      <4> QED
        BY <1>1, <1>2, <2>0, <3>1, <3>3, <4>1, <4>2 DEF PublishedRight, Installed
    <3> QED
      BY <3>2, <3>3
  <2>10. CASE PassDone
    <3>1. p_pc = "answers" /\ p_todo = {} /\ p_pc' = "wait" /\ UNCHANGED status /\ ~Wake
      BY <2>10 DEF PassDone, Wake
    <3>2. ~Coming(u)
      BY <3>1 DEF Coming, Selecting
    <3> QED
      BY <1>1, <1>2, <2>0, <3>1, <3>2 DEF PublishedRight, Installed
  <2>11. CASE Wake
    <3>1. p_pc = "wait" /\ p_pc' = "top" /\ UNCHANGED status
      BY <2>11 DEF Wake
    <3> QED
      BY <1>1, <2>0, <3>1 DEF PublishedRight, Installed, Coming
  <2> QED
    BY <1>4, <2>1, <2>2, <2>3, <2>4, <2>5, <2>6, <2>7, <2>8, <2>9, <2>10, <2>11
    DEF Lease
<1>5. CASE Deactivate \/ MappingLost
  <2>1. PICK w \in p_todo, ok \in BOOLEAN :
          /\ E!clear_dnat_for_usage(w, ok) /\ p_usage' = w
          /\ p_pc' = IF ok THEN "unpublish" ELSE "failed"
          /\ running' = ok
    BY <1>5, OutcomeType, Zenon DEF Deactivate, MappingLost, ClearForward
  <2>2. /\ p_pc \in {"deactivate", "answers"} /\ UNCHANGED <<status, p_todo>> /\ ~Wake
        /\ p_pc = "deactivate" => p_cause' = p_cause
    BY <1>5, Zenon DEF Deactivate, MappingLost, Wake
  <2>3. /\ u = w => ~Desired(u)'
        /\ u # w => (Desired(u)' <=> Desired(u))
    BY <1>3, <2>1 DEF E!clear_dnat_for_usage, Desired
  <2>4. p_pc' = "unpublish" /\ (Coming(u) => Coming(u)') /\ (u = w => Coming(u)')
    BY <2>1, <2>2 DEF Coming, Selecting
  <2> QED
    BY <1>1, <1>2, <2>1, <2>2, <2>3, <2>4 DEF PublishedRight, Installed
<1>6. CASE Install
  <2>1. PICK ok \in BOOLEAN :
          /\ E!set_dnat_for_target(p_usage, p_dnat, leases[p_usage].target, ok)
          /\ p_pc' = IF ok THEN "publish" ELSE "failed"
          /\ running' = ok
    BY <1>6, OutcomeType, Zenon DEF Install
  <2>2. p_pc = "install" /\ UNCHANGED <<status, p_todo, p_usage>> /\ ~Wake /\ p_dnat # NoDnat
    BY <1>6, NullAssumption DEF Install, Wake, LeaseInv
  <2>3. /\ u = p_usage => Desired(u)'
        /\ u # p_usage => (Desired(u)' <=> Desired(u))
    BY <1>3, <2>1, <2>2 DEF E!set_dnat_for_target, Desired
  <2>4. p_pc' = "publish" /\ (Coming(u) => Coming(u)')
    BY <2>1, <2>2 DEF Coming, Selecting
  <2> QED
    BY <1>1, <1>2, <2>1, <2>2, <2>3, <2>4, Zenon DEF PublishedRight, Installed
<1> QED
  BY <1>4, <1>5, <1>6

\* Every step keeps what is published right.
LEMMA PublishStep ==
    PublishInv /\ PolicyInv /\ PassInv /\ TargetsInv /\ TunnelInv /\ TypeOK /\ LeaseInv /\ [Next]_vars
       => PublishInv'
<1> SUFFICES ASSUME PublishInv, PolicyInv, PassInv, TargetsInv, TunnelInv, TypeOK, LeaseInv, [Next]_vars,
                    running', ApplyGatewayFirewall, NEW u \in Usage
             PROVE  PublishedRight(u)'
  BY DEF PublishInv
<1>1. running
  BY Zenon DEF Next, Stopped, vars
<1>2. CASE Beside
  BY <1>2, PublishBeside
<1>3. CASE Lease
  BY <1>1, <1>3, PublishLease
<1> QED
  BY <1>2, <1>3 DEF Next, Docker, Tunnel, Stopped, Beside, Elsewhere

\* Nothing is published at the start.
LEMMA PublishInit == Init => TargetsInv /\ PassInv /\ PublishInv
<1> SUFFICES ASSUME Init PROVE TargetsInv /\ PassInv /\ PublishInv
  OBVIOUS
<1>1. PassInv
  BY DEF Init, PassInv, Selecting, Checked, Passing
<1>2. PublishInv
  BY Zenon DEF Init, E!Init, E!NoForwards, PublishInv, PublishedRight, Desired, Installed, Coming
<1>3. E!select_dnat_targets(clients) = [u \in Usage |-> NoTarget]
  <2>1. \A c \in Container : ~E!Eligible(clients, c)
    BY DEF Init, E!Eligible
  <2> QED
    BY <2>1 DEF E!select_dnat_targets
<1>4. TargetsInv
  BY <1>3 DEF Init, E!Init, TargetsInv
<1> QED
  BY <1>1, <1>2, <1>4

\* The whole invariant holds in every state.
LEMMA PublishAlways == Spec => [](TypeOK /\ PolicyInv /\ TargetsInv /\ PassInv /\ PublishInv)
BY PublishInit, PublishStep, PassStep, TargetsStep, PolicyAlways, LeaseAlways, PTL DEF Spec

\* A published "Installed" is the truth whenever the three tasks have come to rest
\* (reconcile_docker, monitor_tunnel, maintain_port_forward), for any number of
\* forwards, clients and ports: every race that leaves a forward advertised and gone
\* also leaves a notification that makes the lease task look again.
THEOREM PublishedAlwaysMatches == Spec => []PublishedMatchesKernel
<1>1. TypeOK /\ PolicyInv /\ TargetsInv /\ PassInv /\ PublishInv => PublishedMatchesKernel
  <2> SUFFICES ASSUME TypeOK, PolicyInv, PublishInv, Quiet, settled, table_present, NEW u \in Usage
               PROVE  Installed(u) <=> kernel_dnat[u] # NoDnat
    BY Zenon DEF PublishedMatchesKernel
  <2>1. ApplyGatewayFirewall /\ kernel_dnat = desired_dnat
    BY DEF PolicyInv
  <2>2. PublishedRight(u)
    BY <2>1 DEF PublishInv, Quiet
  <2>3. ~Notified /\ ~Coming(u) /\ p_pc = "wait"
    BY DEF Quiet, Notified, Window, Coming, Selecting
  <2> QED
    BY <2>1, <2>2, <2>3 DEF PublishedRight, Desired
<1> QED
  BY <1>1, PublishAlways, PTL
==============================================================================
