---------------------------- MODULE ProfileManager ----------------------------
(***************************************************************************)
(* Applying WireGuard profiles: src/src/profile_manager.rs, the revision   *)
(* store src/src/profiles.rs, the tunnel commands of src/src/runtime.rs    *)
(* and the bring-up at process start, which runs beside the HTTP API       *)
(* without the transaction lock.  At most one of apply, activate_source    *)
(* and recover holds that lock; its steps are the commands it runs, each   *)
(* of which may fail.  validate, mark_active and mark_degraded write the   *)
(* lifecycle without the lock.                                             *)
(*                                                                         *)
(* A profile is what its semantic diff tells apart: the transport (keys,   *)
(* addresses, MTU, port), the peers, the resolver.  Abstracted: parsing,   *)
(* encryption, the revision list in the status, the route commands behind  *)
(* configure_gateway_routes other than the resolver routes.                *)
(***************************************************************************)
EXTENDS Naturals, FiniteSets

CONSTANTS Revision, Transport, Peers, Dns,
          Profiles,       \* the profiles an operator may supply
          MountedProfile, \* the mounted file, NoProfile when absent
          ConfigSources,  \* values config.wireguard.source may have at a start
          MaxEvents,      \* bound on the exceptional events of one process life
          NoProfile, NoRevision, NoActive, NoIface, NoDns

VARIABLES rows, db_active,            \* table wireguard_profiles
          iface, dns_routes,          \* the interface and its resolver routes
          dns_upstream,               \* the resolver the DNS forwarder uses
          active, lifecycle, selected_source,
          blocked,                    \* the last result says traffic remains blocked
          pc, kind, candidate,        \* the operation holding the lock
          s_pc, s_profile,            \* the bring-up at process start
          exposed                     \* exceptional events since the start, see Event

db == <<rows, db_active>>
tunnel == <<iface, dns_routes>>
op == <<pc, kind, candidate>>
start == <<s_pc, s_profile>>
vars == <<db, tunnel, dns_upstream, active, lifecycle, blocked, selected_source,
          op, start, exposed>>

\* "cancel": the HTTP client goes away and its handler is dropped.
\* "reopen": the database cannot be reopened after activate has committed.
\* "overlap": a request is served before the bring-up at start is over.
\* "unusable": the selected profile could not be read, decrypted or supported at
\* the start, which goes on without one.
Event == {"cancel", "reopen", "overlap", "unusable"}

\* An exceptional event is recorded, up to the bound.
Expose(e) ==
    /\ exposed' = exposed \cup {e}
    /\ Cardinality(exposed') <= MaxEvents

ASSUME ProfilesAssumption ==
    /\ Profiles \subseteq [transport : Transport, peers : Peers, dns : Dns]
    /\ MountedProfile \in Profiles \cup {NoProfile}
    /\ NoProfile \notin Profiles /\ NoRevision \notin Revision
    /\ NoDns \notin Dns /\ ConfigSources \subseteq {"mounted", "gui"}
    /\ MaxEvents \in Nat

Active == [revision : Revision \cup {NoRevision}, profile : Profiles]
Iface == [transport : Transport, peers : Peers]
ASSUME ProfilesNullAssumption == NoActive \notin Active /\ NoIface \notin Iface

Running(p) == [transport |-> p.transport, peers |-> p.peers]
DnsOf(a) == IF a = NoActive THEN NoDns ELSE a.profile.dns

\* The profile that the configured source selects.
Selected(source) ==
    IF source = "mounted"
    THEN IF MountedProfile = NoProfile THEN NoActive
         ELSE [revision |-> NoRevision, profile |-> MountedProfile]
    ELSE IF db_active = NoRevision THEN NoActive
         ELSE [revision |-> db_active, profile |-> rows[db_active]]

\* What run() and initialize() load.
Loaded(source, usable) == IF usable THEN Selected(source) ELSE NoActive

StartEvents(usable) == IF usable THEN {} ELSE {"unusable"}

\* A process that has loaded the profile a: its status, and the state of the
\* bring-up it starts with.
FreshLifecycle(a) == IF a = NoActive THEN "Unconfigured" ELSE "Active"
FreshStart(a) == IF a = NoActive THEN "done" ELSE "up"
ProfileOf(a) == IF a = NoActive THEN NoProfile ELSE a.profile

Init ==
    /\ rows = [r \in Revision |-> NoProfile] /\ db_active = NoRevision
    /\ iface = NoIface /\ dns_routes = {}
    /\ selected_source \in ConfigSources
    /\ \E usable \in BOOLEAN :
          /\ active = Loaded(selected_source, usable)
          /\ exposed = StartEvents(usable)
    /\ dns_upstream = DnsOf(active)
    /\ lifecycle = FreshLifecycle(active) /\ blocked = FALSE
    /\ pc = "idle" /\ kind = "none" /\ candidate = NoActive
    /\ s_pc = FreshStart(active) /\ s_profile = ProfileOf(active)
------------------------------------------------------------------------------
(* The store, under the transaction lock. *)

stage(r, p) ==
    /\ pc = "idle" /\ rows[r] = NoProfile
    /\ rows' = [rows EXCEPT ![r] = p]
    /\ UNCHANGED <<db_active, tunnel, dns_upstream, active, lifecycle, blocked,
                   selected_source, op, start, exposed>>

\* Planted fault: the active revision can be deleted.
FaultyDelete(r) ==
    /\ pc = "idle" /\ rows[r] # NoProfile
    /\ rows' = [rows EXCEPT ![r] = NoProfile]
    /\ UNCHANGED <<db_active, tunnel, dns_upstream, active, lifecycle, blocked,
                   selected_source, op, start, exposed>>

delete_inactive(r) ==
    /\ pc = "idle" /\ rows[r] # NoProfile /\ db_active # r
    /\ rows' = [rows EXCEPT ![r] = NoProfile]
    /\ UNCHANGED <<db_active, tunnel, dns_upstream, active, lifecycle, blocked,
                   selected_source, op, start, exposed>>
------------------------------------------------------------------------------
(* apply and activate_source. *)

Begin(k, c) ==
    /\ IF s_pc = "done" THEN UNCHANGED exposed ELSE Expose("overlap")
    /\ pc' = "base" /\ kind' = k /\ candidate' = c
    /\ lifecycle' = "Applying"
    /\ UNCHANGED <<db, tunnel, dns_upstream, active, blocked, selected_source, start>>

BeginApply(r) ==
    /\ pc = "idle" /\ selected_source = "gui" /\ rows[r] # NoProfile
    /\ Begin("apply", [revision |-> r, profile |-> rows[r]])

BeginSource(source) ==
    /\ pc = "idle"
    /\ \/ /\ source = "mounted" /\ MountedProfile # NoProfile
          /\ Begin("mounted", [revision |-> NoRevision, profile |-> MountedProfile])
       \/ /\ source = "gui" /\ db_active # NoRevision
          /\ Begin("gui", [revision |-> db_active, profile |-> rows[db_active]])

\* WireGuardProfile::diff, with the two syncconf classes as one.
diff(p, c) ==
    IF p = c THEN "NoChange"
    ELSE IF Running(p) = Running(c) THEN "DnsReload"
    ELSE IF p.transport # c.transport THEN "TunnelRecycle"
    ELSE "SyncConf"

Classification ==
    IF active = NoActive THEN "TunnelRecycle" ELSE diff(active.profile, candidate.profile)

\* The operation goes on with step next, or gives the lock up.
Goto(next) ==
    IF next = "idle"
    THEN pc' = "idle" /\ kind' = "none" /\ candidate' = NoActive
    ELSE pc' = next /\ UNCHANGED <<kind, candidate>>

\* reconcile_base: on failure the operation returns at once.
ReconcileBase(ok) ==
    /\ pc = "base"
    /\ Goto(IF ~ok THEN "idle"
            ELSE CASE Classification = "NoChange" -> "verify"
                   [] Classification = "DnsReload" -> "routes"
                   [] Classification = "SyncConf" -> "sync"
                   [] Classification = "TunnelRecycle" -> "down")
    /\ UNCHANGED <<db, tunnel, dns_upstream, active, lifecycle, blocked,
                   selected_source, start, exposed>>

\* The profile a step of the operation installs, and the one it replaces.
RollingBack == pc \in {"r_down", "r_up", "r_routes"}
Installing == IF RollingBack \/ kind = "recover" THEN active.profile ELSE candidate.profile
Replaced == IF RollingBack THEN DnsOf(candidate) ELSE DnsOf(active)

Syncconf(ok) ==
    /\ pc = "sync"
    /\ ok => iface # NoIface
    /\ iface' = IF ok THEN [iface EXCEPT !.peers = candidate.profile.peers] ELSE iface
    /\ Goto(IF ok THEN "routes" ELSE "r_down")
    /\ UNCHANGED <<db, dns_routes, dns_upstream, active, lifecycle, blocked,
                   selected_source, start, exposed>>

\* wireguard_down: the routes through the interface go with it.
WireguardDown ==
    /\ pc \in {"down", "r_down"}
    /\ iface' = NoIface /\ dns_routes' = {}
    /\ IF pc = "r_down" /\ active = NoActive
       THEN /\ Goto("idle") /\ lifecycle' = "ApplyFailed" /\ blocked' = TRUE
       ELSE /\ Goto(IF pc = "down" THEN "up" ELSE "r_up")
            /\ UNCHANGED <<lifecycle, blocked>>
    /\ UNCHANGED <<db, dns_upstream, active, selected_source, start, exposed>>

\* The operation failed after the rollback was tried.
RolledBack(restored) ==
    /\ Goto("idle")
    /\ lifecycle' = "ApplyFailed"
    /\ blocked' = ~restored

\* Outcomes of wireguard_up: wg-quick fails, the routes fail before or after the
\* resolver route is in, all is well.
UpResult == {"failed", "no_routes", "late", "ok"}

\* wireguard_up: wg-quick, which refuses an interface that exists, then the
\* routes, whose failure leaves the interface up.
WireguardUp(result) ==
    /\ pc \in {"up", "r_up"}
    /\ result # "failed" => iface = NoIface
    /\ iface' = IF result = "failed" THEN iface ELSE Running(Installing)
    /\ dns_routes' = IF result \in {"ok", "late"} THEN dns_routes \cup {Installing.dns}
                     ELSE dns_routes
    /\ CASE kind = "recover" ->
              /\ Goto("idle")
              /\ lifecycle' = IF result = "ok" THEN "Active" ELSE "Degraded"
              /\ UNCHANGED blocked
         [] kind # "recover" /\ pc = "up" ->
              /\ Goto(IF result = "ok" THEN "routes" ELSE "r_down")
              /\ UNCHANGED <<lifecycle, blocked>>
         [] kind # "recover" /\ pc = "r_up" ->
              IF result = "ok" THEN Goto("r_routes") /\ UNCHANGED <<lifecycle, blocked>>
              ELSE RolledBack(FALSE)
    /\ UNCHANGED <<db, dns_upstream, active, selected_source, start, exposed>>

\* reconcile_gateway_routes: add the routes of the installed profile, then
\* remove those of the other; either half may fail.
ReconcileRoutes(added, ok) ==
    /\ pc \in {"routes", "r_routes"}
    /\ added => iface # NoIface
    /\ ok => added
    /\ dns_routes' = LET with == dns_routes \cup (IF added THEN {Installing.dns} ELSE {})
                     IN  IF ok THEN with \ ({Replaced} \ {Installing.dns}) ELSE with
    /\ IF pc = "routes" THEN /\ Goto(IF ok THEN "verify" ELSE "r_down")
                             /\ UNCHANGED <<lifecycle, blocked>>
                        ELSE RolledBack(ok)
    /\ UNCHANGED <<db, iface, dns_upstream, active, selected_source, start, exposed>>

\* verify_tunnel_evidence: the interface is present and inspectable in time.
Verify(ok) ==
    /\ pc = "verify"
    /\ ok => iface # NoIface
    /\ Goto(IF ~ok THEN "r_down" ELSE IF kind = "apply" THEN "commit" ELSE "finish")
    /\ UNCHANGED <<db, tunnel, dns_upstream, active, lifecycle, blocked,
                   selected_source, start, exposed>>

\* Planted fault: the tunnel is left as it is when the revision is not committed.
FaultyActivate(result) ==
    /\ pc = "commit" /\ result # "reopen_failed"
    /\ db_active' = IF result = "failed" THEN db_active ELSE candidate.revision
    /\ Goto(IF result = "ok" THEN "finish" ELSE "idle")
    /\ UNCHANGED <<rows, tunnel, dns_upstream, active, lifecycle, blocked,
                   selected_source, start, exposed>>

\* ProfileStore::activate: one transaction, then a second connection reads the
\* revision back.
activate(result) ==
    /\ pc = "commit"
    /\ IF result = "reopen_failed" THEN Expose("reopen") ELSE UNCHANGED exposed
    /\ db_active' = IF result = "failed" THEN db_active ELSE candidate.revision
    /\ Goto(IF result = "ok" THEN "finish" ELSE "r_down")
    /\ UNCHANGED <<rows, tunnel, dns_upstream, active, lifecycle, blocked,
                   selected_source, start>>

\* The tail of a successful operation.  When the revision list cannot be read
\* apply reports an error and leaves the previous result in the status.
Finish(listed) ==
    /\ pc = "finish"
    /\ ~listed => kind = "apply"
    /\ active' = candidate
    /\ dns_upstream' = candidate.profile.dns
    /\ selected_source' = IF kind = "apply" THEN selected_source ELSE kind
    /\ lifecycle' = "Active"
    /\ blocked' = (blocked /\ ~listed)
    /\ Goto("idle")
    /\ UNCHANGED <<db, tunnel, start, exposed>>

\* The handler is dropped between two of its commands.
Cancel ==
    /\ pc # "idle" /\ kind # "recover"
    /\ Goto("idle")
    /\ Expose("cancel")
    /\ UNCHANGED <<db, tunnel, dns_upstream, active, lifecycle, blocked,
                   selected_source, start>>
------------------------------------------------------------------------------
(* recover, under the lock; called by the tunnel monitor, which is spawned     *)
(* after the bring-up at start.                                                *)

Recover ==
    /\ pc = "idle" /\ s_pc = "done" /\ active # NoActive
    /\ pc' = "down" /\ kind' = "recover" /\ candidate' = NoActive
    /\ lifecycle' = "Recovering"
    /\ UNCHANGED <<db, tunnel, dns_upstream, active, blocked, selected_source, start, exposed>>
------------------------------------------------------------------------------
(* Without the lock. *)

\* The bring-up at process start: wireguard_up of the loaded profile in two steps.
StartUp(ok) ==
    /\ s_pc = "up"
    /\ ok => iface = NoIface
    /\ iface' = IF ok THEN Running(s_profile) ELSE iface
    /\ s_pc' = IF ok THEN "routes" ELSE "done"
    /\ lifecycle' = IF ok THEN lifecycle ELSE "Degraded"
    /\ UNCHANGED <<db, dns_routes, dns_upstream, active, blocked, selected_source,
                   op, s_profile, exposed>>

StartRoutes(added, ok) ==
    /\ s_pc = "routes"
    /\ added => iface # NoIface
    /\ ok => added
    /\ dns_routes' = dns_routes \cup (IF added THEN {s_profile.dns} ELSE {})
    /\ s_pc' = "done"
    /\ lifecycle' = IF ok THEN lifecycle ELSE "Degraded"
    /\ UNCHANGED <<db, iface, dns_upstream, active, blocked, selected_source,
                   op, s_profile, exposed>>

\* One poll of the tunnel monitor: mark_active or mark_degraded.
MarkTunnel(up) ==
    /\ s_pc = "done" /\ active # NoActive
    /\ up => iface # NoIface
    /\ lifecycle' = IF up THEN "Active" ELSE "Degraded"
    /\ UNCHANGED <<db, tunnel, dns_upstream, active, blocked, selected_source,
                   op, start, exposed>>

\* A validate request shows Validating, then writes the lifecycle it derives from
\* the active profile; any number of requests run at any time.
ValidateBegin ==
    /\ lifecycle' = "Validating"
    /\ UNCHANGED <<db, tunnel, dns_upstream, active, blocked, selected_source, op, start, exposed>>

ValidateEnd ==
    /\ lifecycle' = IF active = NoActive THEN "Unconfigured" ELSE "Active"
    /\ UNCHANGED <<db, tunnel, dns_upstream, active, blocked, selected_source, op, start, exposed>>

\* The gateway container restarts; only the database survives.
Restart ==
    /\ iface' = NoIface /\ dns_routes' = {}
    /\ selected_source' \in ConfigSources
    /\ \E usable \in BOOLEAN :
          /\ active' = Loaded(selected_source', usable)
          /\ exposed' = StartEvents(usable)
    /\ dns_upstream' = DnsOf(active')
    /\ lifecycle' = FreshLifecycle(active') /\ blocked' = FALSE
    /\ pc' = "idle" /\ kind' = "none" /\ candidate' = NoActive
    /\ s_pc' = FreshStart(active') /\ s_profile' = ProfileOf(active')
    /\ UNCHANGED db

OperationStep ==
    \/ \E ok \in BOOLEAN : ReconcileBase(ok) \/ Syncconf(ok) \/ Verify(ok)
    \/ WireguardDown
    \/ \E result \in UpResult : WireguardUp(result)
    \/ \E added, ok \in BOOLEAN : ReconcileRoutes(added, ok)
    \/ \E result \in {"ok", "failed", "reopen_failed"} : activate(result)
    \/ \E listed \in BOOLEAN : Finish(listed)

Next ==
    \/ \E r \in Revision, p \in Profiles : stage(r, p)
    \/ \E r \in Revision : delete_inactive(r) \/ BeginApply(r)
    \/ \E source \in {"mounted", "gui"} : BeginSource(source)
    \/ Recover \/ OperationStep \/ Cancel
    \/ \E ok \in BOOLEAN : StartUp(ok) \/ MarkTunnel(ok)
    \/ \E added, ok \in BOOLEAN : StartRoutes(added, ok)
    \/ ValidateBegin \/ ValidateEnd \/ Restart

Spec == Init /\ [][Next]_vars
------------------------------------------------------------------------------
Lifecycle == {"Unconfigured", "Validating", "Applying", "Active", "Degraded",
              "Recovering", "ApplyFailed"}

\* Every variable has the shape the store, the kernel and the manager give it.
TypeOK ==
    /\ rows \in [Revision -> Profiles \cup {NoProfile}]
    /\ db_active \in Revision \cup {NoRevision}
    /\ iface \in Iface \cup {NoIface}
    /\ dns_routes \subseteq Dns
    /\ dns_upstream \in Dns \cup {NoDns}
    /\ active \in Active \cup {NoActive}
    /\ lifecycle \in Lifecycle
    /\ blocked \in BOOLEAN
    /\ selected_source \in {"mounted", "gui"}
    /\ pc \in {"idle", "base", "sync", "down", "up", "routes", "verify", "commit",
               "finish", "r_down", "r_up", "r_routes"}
    /\ kind \in {"none", "apply", "mounted", "gui", "recover"}
    /\ candidate \in Active \cup {NoActive}
    /\ s_pc \in {"up", "routes", "done"}
    /\ s_profile \in Profiles \cup {NoProfile}
    /\ exposed \subseteq Event

\* The forwarder asks the resolver of the active profile throughout.  Whenever no
\* operation holds the lock, an interface that is up runs that profile and the
\* only resolver routes are its own: whatever command of an apply failed, the
\* tunnel and its routes were either moved to the candidate with the status or
\* taken back.  Requests dropped half-way and requests beside the bring-up at
\* start are excepted.
RunningIsActive ==
    /\ dns_upstream = DnsOf(active)
    /\ pc = "idle" /\ exposed \subseteq {"reopen", "unusable"} =>
          /\ dns_routes \subseteq {DnsOf(active)}
          /\ iface # NoIface => active # NoActive /\ iface = Running(active.profile)

\* At rest the database's active revision is the one the manager runs, so that a
\* restart resumes it; its row is always there.  Dropped requests, commits that
\* cannot be read back and profiles unusable at the start are excepted.
StoredIsActive ==
    /\ db_active # NoRevision => rows[db_active] # NoProfile
    /\ pc = "idle" /\ selected_source = "gui" /\ exposed \subseteq {"overlap"} =>
          /\ db_active = IF active = NoActive THEN NoRevision ELSE active.revision
          /\ active # NoActive => rows[active.revision] = active.profile
==============================================================================
