----------------------------- MODULE PortForward -----------------------------
(***************************************************************************)
(* The tasks of src/src/runtime.rs that share the enforcement coordinator: *)
(* the Docker reconciler (reconcile_docker), the tunnel monitor            *)
(* (monitor_tunnel) and the lease task (maintain_port_forward).  A step is *)
(* the code between two awaits that another task can run at: one           *)
(* coordinator operation, one critical section of the shared state, one    *)
(* mutation of the published snapshot.  The coordinator is module          *)
(* Enforcement.                                                            *)
(*                                                                         *)
(* Abstracted: public port numbers and lease times, the first-generation   *)
(* copy of the forwarding status, the copy of the primary lease, how many  *)
(* failures start a recovery, and the order in which one pass visits the   *)
(* leases (any order instead of key order).                                *)
(***************************************************************************)
CONSTANTS Usage, Container, Address, Port, Inventories, ApplyGatewayFirewall,
          NoClient, NoTarget, NoPort, NoDnat,
          NoSlot, NoStatus, NoUsage,
          EventuallyCalm    \* whether the environment may settle (liveness only)

VARIABLES dnat_allowed, dnat_targets, desired_dnat, applied_dnat,
          table_present, kernel_dnat, settled,   \* the coordinator
          clients,        \* state.clients
          tunnel_up,      \* state.tunnel.up
          pending,        \* a port-change notification the lease task has not seen
          status,         \* snapshot.port_forwards
          d_pc, d_clients,                       \* Docker reconciler
          t_pc,                                  \* tunnel monitor
          p_pc, p_targets, p_todo, p_usage, p_dnat, p_cause, leases,  \* lease task
          running,        \* no task has ended: run() stops them all when one does
          calm            \* the environment has settled

evars == <<dnat_allowed, dnat_targets, desired_dnat, applied_dnat,
           table_present, kernel_dnat, settled>>
dvars == <<d_pc, d_clients>>
pvars == <<p_pc, p_targets, p_todo, p_usage, p_dnat, p_cause, leases>>
vars == <<evars, clients, tunnel_up, pending, status, dvars, t_pc, pvars,
          running, calm>>

E == INSTANCE Enforcement

Slot == [target : E!Target, active_forward : E!Dnat \cup {NoDnat}]
Phase == {"Installed", "Unavailable", "LeaseLost", "WaitingForTarget"}
Status == [phase : Phase, dnat_installed : BOOLEAN]

\* What discovery may report, as for the coordinator; at the start it has reported
\* nothing.  The null values are no values.
ASSUME DiscoveryAssumption ==
    /\ Inventories \subseteq [Container -> E!Client \cup {NoClient}]
    /\ [c \in Container |-> NoClient] \in Inventories
    /\ \A inv \in Inventories : \A c, d \in Container :
          E!Eligible(inv, c) /\ E!Eligible(inv, d) /\ inv[c].usage_id = inv[d].usage_id => c = d
ASSUME SettingsAssumption == ApplyGatewayFirewall \in BOOLEAN
ASSUME NullAssumption ==
    /\ NoClient \notin E!Client /\ NoTarget \notin E!Target /\ NoPort \notin Port
    /\ NoDnat \notin E!Dnat /\ NoSlot \notin Slot /\ NoStatus \notin Status
    /\ NoUsage \notin Usage

Leased == {u \in Usage : leases[u] # NoSlot}

\* The result a call may have: a calm environment lets every call succeed.
Outcome == IF calm THEN {TRUE} ELSE BOOLEAN

Init ==
    /\ E!Init
    /\ clients = [c \in Container |-> NoClient]
    /\ tunnel_up = FALSE
    /\ pending = FALSE
    /\ status = [u \in Usage |-> NoStatus]
    /\ d_pc = "idle" /\ d_clients = clients
    /\ t_pc = "idle"
    /\ p_pc = "top"
    /\ p_targets = [u \in Usage |-> NoTarget]
    /\ p_todo = {}
    /\ p_usage = NoUsage
    /\ p_dnat = NoDnat
    /\ p_cause = "none"
    /\ leases = [u \in Usage |-> NoSlot]
    /\ running = TRUE
    /\ calm = FALSE
------------------------------------------------------------------------------
(* The Docker reconciler. *)

\* runtime::port_forward_target_inputs
port_forward_target_inputs(inv) ==
    {<<c, inv[c]>> : c \in {k \in Container : inv[k] # NoClient /\ inv[k].port_forward_target}}

\* observer.discover(), the Kubernetes merge and the lease constraints.
Discover ==
    /\ d_pc = "idle"
    /\ \E inv \in Inventories :
          /\ calm => inv = clients
          /\ d_clients' = inv
    /\ d_pc' = "reconcile"
    /\ UNCHANGED <<evars, clients, tunnel_up, pending, status, t_pc, pvars, running, calm>>

ReconcileClients ==
    /\ d_pc = "reconcile"
    /\ \E ok \in Outcome :
          /\ E!reconcile_clients(d_clients, ok)
          /\ d_pc' = IF ok THEN "write" ELSE "failed"
          /\ running' = ok
    /\ UNCHANGED <<clients, tunnel_up, pending, status, d_clients, t_pc, pvars, calm>>

\* The first counter read of reconcile_clients fails: the task ends with nothing
\* edited.
CounterReadFails ==
    /\ d_pc = "reconcile"
    /\ ~calm
    /\ d_pc' = "failed"
    /\ running' = FALSE
    /\ UNCHANGED <<evars, clients, tunnel_up, pending, status, d_clients, t_pc, pvars, calm>>

WriteClients ==
    /\ d_pc = "write"
    /\ clients' = d_clients
    /\ pending' = (\/ pending
                   \/ port_forward_target_inputs(clients) # port_forward_target_inputs(d_clients))
    /\ d_pc' = "idle"
    /\ UNCHANGED <<evars, tunnel_up, status, d_clients, t_pc, pvars, running, calm>>
------------------------------------------------------------------------------
(* The tunnel monitor. *)

\* runtime::invalidate_published_forward(Unavailable)
invalidate_published_forward ==
    status' = [u \in Usage |->
                  IF status[u] = NoStatus THEN NoStatus
                  ELSE [phase |-> "Unavailable", dnat_installed |-> FALSE]]

HandshakeRecent ==
    /\ t_pc = "idle"
    /\ E!enable_dnat
    /\ t_pc' = "came_up"
    /\ UNCHANGED <<clients, tunnel_up, pending, status, dvars, pvars, running, calm>>

MarkUp ==
    /\ t_pc = "came_up"
    /\ tunnel_up' = TRUE
    /\ pending' = (pending \/ ~tunnel_up)
    /\ t_pc' = "idle"
    /\ UNCHANGED <<evars, clients, status, dvars, pvars, running, calm>>

\* Planted fault: DNAT is disallowed, the commit is left to somebody else.
FaultyHandshakeLost ==
    /\ t_pc = "idle"
    /\ dnat_allowed' = FALSE
    /\ t_pc' = "invalidate"
    /\ UNCHANGED <<dnat_targets, desired_dnat, applied_dnat, table_present, kernel_dnat,
                   settled, clients, tunnel_up, pending, status, dvars, pvars, running, calm>>

\* A stale handshake, and a failed inspection of the interface.
HandshakeLost ==
    /\ t_pc = "idle"
    /\ ~calm
    /\ \E ok \in BOOLEAN :
          /\ E!disable_dnat(ok)
          /\ t_pc' = IF ok THEN "invalidate" ELSE "failed"
          /\ running' = ok
    /\ UNCHANGED <<clients, tunnel_up, pending, status, dvars, pvars, calm>>

Invalidate ==
    /\ t_pc = "invalidate"
    /\ invalidate_published_forward
    /\ t_pc' = "went_down"
    /\ UNCHANGED <<evars, clients, tunnel_up, pending, dvars, pvars, running, calm>>

\* Planted fault: the lease task is not told.
FaultyMarkDown ==
    /\ t_pc = "went_down"
    /\ tunnel_up' = FALSE
    /\ t_pc' \in {"idle", "recover"}
    /\ UNCHANGED <<evars, clients, pending, status, dvars, pvars, running, calm>>

MarkDown ==
    /\ t_pc = "went_down"
    /\ tunnel_up' = FALSE
    /\ pending' = (pending \/ tunnel_up)
    /\ t_pc' \in {"idle", "recover"}
    /\ UNCHANGED <<evars, clients, status, dvars, pvars, running, calm>>

BeginRecovery ==
    /\ t_pc = "recover"
    /\ tunnel_up' = FALSE
    /\ pending' = TRUE
    /\ t_pc' = "recover_disable"
    /\ UNCHANGED <<evars, clients, status, dvars, pvars, running, calm>>

\* The one call of disable_dnat whose failure does not end the task.
RecoveryDisable ==
    /\ t_pc = "recover_disable"
    /\ \E ok \in Outcome :
          /\ E!disable_dnat(ok)
          /\ t_pc' = IF ok THEN "recover_invalidate" ELSE "idle"
    /\ UNCHANGED <<clients, tunnel_up, pending, status, dvars, pvars, running, calm>>

RecoveryInvalidate ==
    /\ t_pc = "recover_invalidate"
    /\ invalidate_published_forward
    /\ t_pc' = "recover_notify"
    /\ UNCHANGED <<evars, clients, tunnel_up, pending, dvars, pvars, running, calm>>

\* The second notification, the backoff and profiles.recover().
RecoveryNotify ==
    /\ t_pc = "recover_notify"
    /\ pending' = TRUE
    /\ t_pc' = "idle"
    /\ UNCHANGED <<evars, clients, tunnel_up, status, dvars, pvars, running, calm>>
------------------------------------------------------------------------------
(* The lease task. *)

\* Begin to deactivate the forwards of the usages us, one after the other.
StartDeactivation(us, cause) ==
    /\ p_todo' = us
    /\ p_cause' = cause
    /\ p_pc' = "deactivate"
    /\ UNCHANGED <<p_targets, p_usage, p_dnat, leases>>

Top ==
    /\ p_pc = "top"
    /\ \/ /\ ~tunnel_up
          /\ StartDeactivation(Leased, "down")
       \/ /\ tunnel_up
          /\ p_pc' = "select"
          /\ UNCHANGED <<p_targets, p_todo, p_usage, p_dnat, p_cause, leases>>
    /\ UNCHANGED <<evars, clients, tunnel_up, pending, status, dvars, t_pc, running, calm>>

\* runtime::select_port_targets keeps the clients select_dnat_targets keeps.
\* Slots without a target, and slots whose target differs, are given up.
SelectTargets ==
    /\ p_pc = "select"
    /\ p_targets' = E!select_dnat_targets(clients)
    /\ p_todo' = {u \in Leased : leases[u].target # p_targets'[u]}
    /\ p_cause' = "target"
    /\ p_pc' = "deactivate"
    /\ UNCHANGED <<evars, clients, tunnel_up, pending, status, dvars, t_pc,
                   p_usage, p_dnat, leases, running, calm>>

\* deactivate_forward_for_usage, up to its early return.
ClearForward(u) ==
    \E ok \in Outcome :
       /\ E!clear_dnat_for_usage(u, ok)
       /\ p_usage' = u
       /\ p_pc' = IF ok THEN "unpublish" ELSE "failed"
       /\ running' = ok

Deactivate ==
    /\ p_pc = "deactivate"
    /\ \E u \in p_todo : ClearForward(u)
    /\ UNCHANGED <<clients, tunnel_up, pending, status, dvars, t_pc, p_targets,
                   p_todo, p_dnat, p_cause, leases, calm>>

DeactivatedPhase ==
    CASE p_cause = "down" -> "Unavailable"
      [] p_cause = "target" -> "WaitingForTarget"
      [] p_cause \in {"address", "lost"} -> "LeaseLost"

\* The rest of deactivate_forward_for_usage, and what each caller does with the
\* slot: forget the forward, or give the slot up.
Unpublish ==
    /\ p_pc = "unpublish"
    /\ status' = [status EXCEPT ![p_usage] = [phase |-> DeactivatedPhase,
                                             dnat_installed |-> FALSE]]
    /\ leases' = [leases EXCEPT ![p_usage] =
                     IF p_cause = "target" THEN NoSlot
                     ELSE [@ EXCEPT !.active_forward = NoDnat]]
    /\ p_pc' = CASE p_cause = "lost" -> "answers"
                 [] p_cause = "target" /\ p_targets[p_usage] = NoTarget -> "drop"
                 [] OTHER -> "deactivate"
    /\ p_todo' = p_todo \ {p_usage}
    /\ p_usage' = IF p_pc' = "drop" THEN p_usage ELSE NoUsage
    /\ p_cause' = IF p_cause = "lost" THEN "none" ELSE p_cause
    /\ UNCHANGED <<evars, clients, tunnel_up, pending, dvars, t_pc, p_targets,
                   p_dnat, running, calm>>

\* reconcile_lease_targets removes the status of a usage that lost its target.
DropStatus ==
    /\ p_pc = "drop"
    /\ status' = [status EXCEPT ![p_usage] = NoStatus]
    /\ p_usage' = NoUsage
    /\ p_pc' = "deactivate"
    /\ UNCHANGED <<evars, clients, tunnel_up, pending, dvars, t_pc, p_targets,
                   p_todo, p_dnat, p_cause, leases, running, calm>>

\* All slots given up; after a target check new targets get an empty slot.
Deactivated ==
    /\ p_pc = "deactivate"
    /\ p_todo = {}
    /\ leases' = IF p_cause # "target" THEN leases
                 ELSE [u \in Usage |->
                         IF leases[u] = NoSlot /\ p_targets[u] # NoTarget
                         THEN [target |-> p_targets[u], active_forward |-> NoDnat]
                         ELSE leases[u]]
    /\ p_pc' = IF p_cause = "target" /\ \E u \in Usage : leases'[u] # NoSlot
               THEN "address" ELSE "wait"
    /\ p_targets' = [u \in Usage |-> NoTarget]
    /\ p_cause' = "none"
    /\ UNCHANGED <<evars, clients, tunnel_up, pending, status, dvars, t_pc,
                   p_todo, p_usage, p_dnat, running, calm>>

\* client.external_address() and the joined mapping requests.
ExternalAddress ==
    /\ p_pc = "address"
    /\ \E ok \in Outcome :
          IF ok
          THEN /\ p_pc' = "answers"
               /\ p_todo' = Leased
               /\ UNCHANGED <<p_targets, p_usage, p_dnat, p_cause, leases>>
          ELSE StartDeactivation(Leased, "address")
    /\ UNCHANGED <<evars, clients, tunnel_up, pending, status, dvars, t_pc, running, calm>>

\* Planted fault: a mapping the task remembers is taken for installed.
FaultyMappingGranted ==
    /\ p_pc = "answers"
    /\ \E u \in p_todo, lease \in Port :
          LET desired == E!tunnel_dnat(lease, leases[u].target)
          IN /\ p_usage' = u
             /\ p_dnat' = desired
             /\ p_pc' = IF leases[u].active_forward # desired THEN "install" ELSE "publish"
    /\ UNCHANGED <<evars, clients, tunnel_up, pending, status, dvars, t_pc,
                   p_targets, p_todo, p_cause, leases, running, calm>>

\* A mapping was granted for u: is it installed already?  The answer's internal
\* port is not compared with the requested one.
MappingGranted ==
    /\ p_pc = "answers"
    /\ \E u \in p_todo, lease \in Port :
          LET desired == E!tunnel_dnat(lease, leases[u].target)
              install_required == \/ leases[u].active_forward # desired
                                  \/ ~E!dnat_is_applied(u, desired)
          IN /\ p_usage' = u
             /\ p_dnat' = desired
             /\ p_pc' = IF install_required THEN "install" ELSE "publish"
    /\ UNCHANGED <<evars, clients, tunnel_up, pending, status, dvars, t_pc,
                   p_targets, p_todo, p_cause, leases, running, calm>>

\* The request for u failed, or its TCP and UDP answers differ.
MappingLost ==
    /\ p_pc = "answers"
    /\ ~calm
    /\ p_cause' = "lost"
    /\ \E u \in p_todo : ClearForward(u)
    /\ UNCHANGED <<clients, tunnel_up, pending, status, dvars, t_pc, p_targets,
                   p_todo, p_dnat, leases, calm>>

\* set_dnat_for_target declined: this pass leaves the usage as it is.
InstallRefused ==
    /\ p_pc = "install"
    /\ E!SetRefused(p_usage, leases[p_usage].target)
    /\ p_pc' = "answers"
    /\ p_todo' = p_todo \ {p_usage}
    /\ p_usage' = NoUsage
    /\ p_dnat' = NoDnat
    /\ UNCHANGED <<evars, clients, tunnel_up, pending, status, dvars, t_pc,
                   p_targets, p_cause, leases, running, calm>>

Install ==
    /\ p_pc = "install"
    /\ \E ok \in Outcome :
          /\ E!set_dnat_for_target(p_usage, p_dnat, leases[p_usage].target, ok)
          /\ p_pc' = IF ok THEN "publish" ELSE "failed"
          /\ running' = ok
          /\ leases' = IF ok THEN [leases EXCEPT ![p_usage].active_forward = p_dnat]
                       ELSE leases
    /\ UNCHANGED <<clients, tunnel_up, pending, status, dvars, t_pc, p_targets,
                   p_todo, p_usage, p_dnat, p_cause, calm>>

Publish ==
    /\ p_pc = "publish"
    /\ status' = [status EXCEPT ![p_usage] = [phase |-> "Installed",
                                             dnat_installed |-> TRUE]]
    /\ p_pc' = "answers"
    /\ p_todo' = p_todo \ {p_usage}
    /\ p_usage' = NoUsage
    /\ p_dnat' = NoDnat
    /\ UNCHANGED <<evars, clients, tunnel_up, pending, dvars, t_pc, p_targets,
                   p_cause, leases, running, calm>>

PassDone ==
    /\ p_pc = "answers"
    /\ p_todo = {}
    /\ p_pc' = "wait"
    /\ UNCHANGED <<evars, clients, tunnel_up, pending, status, dvars, t_pc,
                   p_targets, p_todo, p_usage, p_dnat, p_cause, leases, running, calm>>

\* wait_for_port_change: the watch channel changed, or the sleep is over.
Wake ==
    /\ p_pc = "wait"
    /\ pending' \in {FALSE, pending}
    /\ p_pc' = "top"
    /\ UNCHANGED <<evars, clients, tunnel_up, status, dvars, t_pc, p_targets,
                   p_todo, p_usage, p_dnat, p_cause, leases, running, calm>>
------------------------------------------------------------------------------
(* The rest of the process and its environment. *)

shared == <<clients, tunnel_up, pending, status, dvars, t_pc, pvars>>

\* A profile apply or recovery re-commits the policy; its failure and its
\* cancellation end neither the process nor a task.
ProfileReconcile ==
    /\ \/ \E ok \in Outcome : E!reconcile_base(ok)
       \/ ~calm /\ E!reconcile_base_cancelled
    /\ UNCHANGED <<shared, running, calm>>

Flush ==
    /\ ~calm
    /\ E!ExternalFlush
    /\ UNCHANGED <<shared, running, calm>>

\* From here on discovery repeats its last report, the handshake is recent, the
\* NAT-PMP gateway answers and nft succeeds.
BecomeCalm ==
    /\ EventuallyCalm
    /\ ~calm
    /\ d_pc = "idle"
    /\ calm' = TRUE
    /\ UNCHANGED <<evars, shared, running>>

Docker == Discover \/ ReconcileClients \/ CounterReadFails \/ WriteClients

Tunnel ==
    \/ HandshakeRecent \/ MarkUp
    \/ HandshakeLost \/ Invalidate \/ MarkDown
    \/ BeginRecovery \/ RecoveryDisable \/ RecoveryInvalidate \/ RecoveryNotify

Lease ==
    \/ Top \/ SelectTargets \/ Deactivate \/ Unpublish \/ DropStatus \/ Deactivated
    \/ ExternalAddress \/ MappingGranted \/ MappingLost
    \/ InstallRefused \/ Install \/ Publish \/ PassDone \/ Wake

Stopped == ~running /\ UNCHANGED vars

Next ==
    \/ /\ running
       /\ \/ Docker \/ Tunnel \/ Lease
          \/ ProfileReconcile \/ Flush
          \/ BecomeCalm
    \/ Stopped

Spec == Init /\ [][Next]_vars

\* The runtime keeps polling each task: a timer or a ready lock is always served.
Fairness ==
    /\ WF_vars(running /\ Docker)
    /\ WF_vars(running /\ Tunnel)
    /\ WF_vars(running /\ Lease)

FairSpec == Spec /\ Fairness
------------------------------------------------------------------------------
\* Every variable has the shape of the fields and task locals it stands for.
TypeOK ==
    /\ E!TypeOK
    /\ clients \in Inventories
    /\ d_clients \in Inventories
    /\ d_pc \in {"idle", "reconcile", "write", "failed"}
    /\ t_pc \in {"idle", "came_up", "invalidate", "went_down", "recover",
                 "recover_disable", "recover_invalidate", "recover_notify", "failed"}
    /\ p_pc \in {"top", "select", "deactivate", "unpublish", "drop", "address",
                 "answers", "install", "publish", "wait", "failed"}
    /\ p_targets \in [Usage -> E!Target \cup {NoTarget}]
    /\ p_todo \subseteq Usage
    /\ p_usage \in Usage \cup {NoUsage}
    /\ p_dnat \in E!Dnat \cup {NoDnat}
    /\ p_cause \in {"none", "down", "target", "address", "lost"}
    /\ leases \in [Usage -> Slot \cup {NoSlot}]
    /\ status \in [Usage -> Status \cup {NoStatus}]
    /\ tunnel_up \in BOOLEAN /\ pending \in BOOLEAN
    /\ running \in BOOLEAN /\ calm \in BOOLEAN

Installed(u) == status[u] # NoStatus /\ status[u].dnat_installed

\* No task is in the middle of a step and the lease task has seen every change.
Quiet ==
    /\ running
    /\ d_pc = "idle" /\ t_pc = "idle" /\ p_pc = "wait"
    /\ ~pending

\* A published "Installed" is the truth whenever the tasks have come to rest:
\* whatever tunnel loss, target change or failed commit raced with a pass of the
\* lease task, no forward stays advertised that the kernel does not have, and
\* none is in the kernel that is not advertised.
PublishedMatchesKernel ==
    Quiet /\ settled /\ table_present =>
       \A u \in Usage : Installed(u) <=> kernel_dnat[u] # NoDnat

\* While the process runs, a lost tunnel means no forward in the kernel: no
\* install, profile apply, target change or half-finished pass of another task
\* brings one back before the monitor allows DNAT again.
DownMeansRemoved == running /\ ~dnat_allowed => kernel_dnat = E!NoForwards

\* The tasks use the coordinator only through its operations.
CoordinatorSpec == E!Spec

\* When the environment stays calm, every eligible target ends up with an
\* installed and advertised forward, for good.
CalmInstalls ==
    (calm /\ running) ~>
       [](\A u \in Usage : E!select_dnat_targets(clients)[u] # NoTarget =>
             Installed(u) /\ kernel_dnat[u] # NoDnat)
==============================================================================
