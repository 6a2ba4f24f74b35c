-------------------------- MODULE PersistenceProofs --------------------------
(***************************************************************************)
(* The profile manager, for every set of profiles, revisions and           *)
(* resolvers: whatever command of an apply, a source change or a recovery  *)
(* fails, tunnel, routes, resolver, status and database agree at rest.     *)
(* The settings of the alerts, for every set of requests and inputs:       *)
(* memory and database agree at rest unless something named parted them.   *)
(***************************************************************************)
EXTENDS ProfileManager, Notifications, TLAPS

------------------------------------------------------------------------------
(* The profile manager *)

\* What the place of an operation says of it: recover has no candidate and an active
\* profile, the others have a candidate, a rollback to a profile has that profile,
\* and only apply commits the revision it applies, whose row stays while it runs.
OperationInv ==
    /\ pc = "idle" => kind = "none" /\ candidate = NoActive
    /\ pc # "idle" => kind # "none"
    /\ kind = "recover" => pc \in {"down", "up"} /\ active # NoActive
    /\ pc # "idle" /\ kind # "recover" => candidate \in Active
    /\ pc \in {"r_up", "r_routes"} => active # NoActive
    /\ kind = "apply" => /\ selected_source = "gui" /\ candidate.revision \in Revision
                         /\ rows[candidate.revision] = candidate.profile
    /\ pc = "commit" => kind = "apply"
    /\ s_pc # "done" => s_profile \in Profiles

\* The types of the store, whose active revision has its row, of the tunnel, of the
\* status, and of what is under way
StoreType ==
    /\ rows \in [Revision -> Profiles \cup {NoProfile}]
    /\ db_active \in Revision \cup {NoRevision}
    /\ db_active # NoRevision => rows[db_active] # NoProfile
TunnelType ==
    /\ iface \in Iface \cup {NoIface} /\ dns_routes \subseteq Dns
StatusType ==
    /\ dns_upstream \in Dns \cup {NoDns} /\ active \in Active \cup {NoActive}
    /\ lifecycle \in Lifecycle /\ blocked \in BOOLEAN
    /\ selected_source \in {"mounted", "gui"}
Place == {"idle", "base", "sync", "down", "up", "routes", "verify", "commit",
          "finish", "r_down", "r_up", "r_routes"}
TaskType ==
    /\ pc \in Place
    /\ kind \in {"none", "apply", "mounted", "gui", "recover"}
    /\ candidate \in Active \cup {NoActive}
    /\ s_pc \in {"up", "routes", "done"} /\ s_profile \in Profiles \cup {NoProfile}
    /\ exposed \subseteq Event

ManagerInv == StoreType /\ TunnelType /\ StatusType /\ TaskType /\ OperationInv

\* A profile has the three parts its diff tells apart.
LEMMA ProfileParts ==
    ASSUME NEW p \in Profiles
    PROVE  /\ p = [transport |-> p.transport, peers |-> p.peers, dns |-> p.dns]
           /\ p.transport \in Transport /\ p.peers \in Peers /\ p.dns \in Dns /\ p.dns # NoDns
           /\ Running(p) \in Iface /\ Running(p) # NoIface
           /\ Running(p).transport = p.transport /\ Running(p).peers = p.peers
<1>1. p \in [transport : Transport, peers : Peers, dns : Dns]
  BY ProfilesAssumption
<1>2. /\ p = [transport |-> p.transport, peers |-> p.peers, dns |-> p.dns]
      /\ p.transport \in Transport /\ p.peers \in Peers /\ p.dns \in Dns
  BY <1>1
<1>3. Running(p) \in Iface
  BY <1>2 DEF Running, Iface
<1> QED
  BY <1>2, <1>3, ProfilesAssumption, ProfilesNullAssumption DEF Running

\* An active profile is a profile; its resolver is the one its routes lead to.
LEMMA ActiveParts ==
    ASSUME NEW a \in Active
    PROVE  /\ a # NoActive /\ a.profile \in Profiles /\ DnsOf(a) = a.profile.dns
           /\ a.revision \in Revision \cup {NoRevision}
BY ProfilesAssumption, ProfilesNullAssumption DEF Active, DnsOf

\* What the configured source selects, and what is loaded of it
LEMMA SelectedTyped ==
    ASSUME StoreType, NEW source
    PROVE  /\ Selected(source) \in Active \cup {NoActive}
           /\ source # "mounted" /\ Selected(source) # NoActive =>
                 /\ Selected(source).revision = db_active /\ db_active \in Revision
                 /\ Selected(source).profile = rows[db_active]
           /\ source # "mounted" /\ Selected(source) = NoActive => db_active = NoRevision
<1>1. CASE source = "mounted"
  BY <1>1, ProfilesAssumption, ProfilesNullAssumption DEF Selected, Active
<1>2. CASE source # "mounted" /\ db_active = NoRevision
  BY <1>2 DEF Selected
<1>3. CASE source # "mounted" /\ db_active # NoRevision
  <2>1. db_active \in Revision /\ rows[db_active] \in Profiles
    BY <1>3 DEF StoreType
  <2>2. Selected(source) = [revision |-> db_active, profile |-> rows[db_active]]
    BY <1>3 DEF Selected
  <2>3. Selected(source) \in Active
    BY <2>1, <2>2 DEF Active
  <2> QED
    BY <1>3, <2>1, <2>2, <2>3, ActiveParts
<1> QED
  BY <1>1, <1>2, <1>3
------------------------------------------------------------------------------
\* The operation goes on, or gives the lock up.
LEMMA GotoPlaces ==
    ASSUME TaskType, NEW next \in Place, Goto(next)
    PROVE  /\ pc' = next
           /\ next = "idle" => kind' = "none" /\ candidate' = NoActive
           /\ next # "idle" => kind' = kind /\ candidate' = candidate
           /\ kind' \in {"none", "apply", "mounted", "gui", "recover"}
           /\ candidate' \in Active \cup {NoActive}
<1>1. CASE next = "idle"
  BY <1>1, Zenon DEF Goto
<1>2. CASE next # "idle"
  BY <1>2, Zenon DEF Goto, TaskType
<1> QED
  BY <1>1, <1>2

\* A step that goes on with what it holds keeps what the places say, if the new
\* place says nothing that was not true before.
LEMMA GoingOn ==
    ASSUME TaskType, OperationInv, pc # "idle", NEW next \in Place, Goto(next),
           UNCHANGED <<rows, active, selected_source, start>>, exposed' \subseteq Event,
           kind = "recover" => next \in {"idle", "down", "up"},
           next \in {"r_up", "r_routes"} => active # NoActive,
           next = "commit" => kind = "apply"
    PROVE  TaskType' /\ OperationInv'
<1>1. /\ pc' = next
      /\ next = "idle" => kind' = "none" /\ candidate' = NoActive
      /\ next # "idle" => kind' = kind /\ candidate' = candidate
      /\ kind' \in {"none", "apply", "mounted", "gui", "recover"}
      /\ candidate' \in Active \cup {NoActive}
  BY GotoPlaces
<1>2. s_pc' = s_pc /\ s_profile' = s_profile
  BY DEF start
<1>3. TaskType'
  BY <1>1, <1>2 DEF TaskType
<1> QED
  BY <1>1, <1>2, <1>3 DEF OperationInv

\* What a step of wireguard_up or of the routes installs is a profile.
LEMMA InstallingTyped ==
    ASSUME StatusType, OperationInv, pc \in {"up", "r_up", "routes", "r_routes"}
    PROVE  Installing \in Profiles
<1>1. CASE RollingBack \/ kind = "recover"
  <2>1. active # NoActive
    BY <1>1 DEF RollingBack, OperationInv
  <2> QED
    BY <1>1, <2>1, ActiveParts DEF Installing, StatusType
<1>2. CASE ~(RollingBack \/ kind = "recover")
  <2>1. candidate \in Active
    BY <1>2 DEF OperationInv
  <2> QED
    BY <1>2, <2>1, ActiveParts DEF Installing
<1> QED
  BY <1>1, <1>2

\* A step of an operation
LEMMA OperationKeeps ==
    ASSUME ManagerInv, OperationStep
    PROVE  ManagerInv'
<1>1. StoreType /\ TunnelType /\ StatusType /\ TaskType /\ OperationInv
  BY DEF ManagerInv
<1>2. ASSUME NEW ok \in BOOLEAN, ReconcileBase(ok) PROVE ManagerInv'
  <2>1. PICK next \in Place : Goto(next) /\ next \notin {"r_up", "r_routes", "commit"}
    BY <1>2 DEF ReconcileBase, Classification, diff, Place
  <2>2. /\ UNCHANGED <<db, tunnel, dns_upstream, active, lifecycle, blocked,
                       selected_source, start, exposed>> /\ pc = "base"
    BY <1>2, Zenon DEF ReconcileBase
  <2>3. kind # "recover"
    BY <1>1, <2>2 DEF OperationInv
  <2>4. TaskType' /\ OperationInv'
    BY <1>1, <2>1, <2>2, <2>3, GoingOn DEF db, TaskType
  <2> QED
    BY <1>1, <2>2, <2>4 DEF ManagerInv, StoreType, TunnelType, StatusType, db, tunnel
<1>3. ASSUME NEW ok \in BOOLEAN, Syncconf(ok) PROVE ManagerInv'
  <2>1. /\ pc = "sync" /\ Goto(IF ok THEN "routes" ELSE "r_down") /\ (ok => iface # NoIface)
        /\ iface' = IF ok THEN [iface EXCEPT !.peers = candidate.profile.peers] ELSE iface
        /\ UNCHANGED <<db, dns_routes, dns_upstream, active, lifecycle, blocked,
                       selected_source, start, exposed>>
    BY <1>3 DEF Syncconf
  <2>2. kind # "recover" /\ candidate \in Active
    BY <1>1, <2>1 DEF OperationInv
  <2>3. TaskType' /\ OperationInv'
    BY <1>1, <2>1, <2>2, GoingOn DEF db, TaskType, Place
  <2>4. candidate.profile.peers \in Peers
    BY <2>2, ActiveParts, ProfileParts
  <2>5. iface' \in Iface \cup {NoIface}
    BY <1>1, <2>1, <2>4 DEF TunnelType, Iface
  <2> QED
    BY <1>1, <2>1, <2>3, <2>5 DEF ManagerInv, StoreType, TunnelType, StatusType, db
<1>4. ASSUME NEW ok \in BOOLEAN, Verify(ok) PROVE ManagerInv'
  <2>1. /\ pc = "verify"
        /\ Goto(IF ~ok THEN "r_down" ELSE IF kind = "apply" THEN "commit" ELSE "finish")
        /\ UNCHANGED <<db, tunnel, dns_upstream, active, lifecycle, blocked,
                       selected_source, start, exposed>>
    BY <1>4 DEF Verify
  <2>2. kind # "recover"
    BY <1>1, <2>1 DEF OperationInv
  <2>3. TaskType' /\ OperationInv'
    BY <1>1, <2>1, <2>2, GoingOn DEF db, TaskType, Place
  <2> QED
    BY <1>1, <2>1, <2>3 DEF ManagerInv, StoreType, TunnelType, StatusType, db, tunnel
<1>5. ASSUME WireguardDown PROVE ManagerInv'
  <2>1. /\ pc \in {"down", "r_down"} /\ iface' = NoIface /\ dns_routes' = {}
        /\ UNCHANGED <<db, dns_upstream, active, selected_source, start, exposed>>
    BY <1>5, Zenon DEF WireguardDown
  <2>2. PICK next \in {"idle", "up", "r_up"} :
          /\ Goto(next)
          /\ next = "r_up" => active # NoActive /\ pc = "r_down"
          /\ next = "idle" \/ pc = "down" \/ next = "r_up"
    BY <1>5 DEF WireguardDown
  <2>3. lifecycle' \in Lifecycle /\ blocked' \in BOOLEAN
    BY <1>1, <1>5, Zenon DEF WireguardDown, StatusType, Lifecycle
  <2>4. TaskType' /\ OperationInv'
    <3>1. kind = "recover" => next \in {"idle", "up"}
      BY <1>1, <2>2 DEF OperationInv
    <3> QED
      BY <1>1, <2>1, <2>2, <3>1, GoingOn DEF db, TaskType, Place
  <2> QED
    BY <1>1, <2>1, <2>3, <2>4 DEF ManagerInv, StoreType, TunnelType, StatusType, db
<1>6. ASSUME NEW result \in UpResult, WireguardUp(result) PROVE ManagerInv'
  <2>1. /\ pc \in {"up", "r_up"}
        /\ iface' = IF result = "failed" THEN iface ELSE Running(Installing)
        /\ dns_routes' = IF result \in {"ok", "late"} THEN dns_routes \cup {Installing.dns}
                         ELSE dns_routes
        /\ UNCHANGED <<db, dns_upstream, active, selected_source, start, exposed>>
    BY <1>6 DEF WireguardUp
  <2>2. PICK next \in {"idle", "routes", "r_down", "r_routes"} :
          /\ Goto(next)
          /\ kind = "recover" => next = "idle"
          /\ next = "r_routes" => pc = "r_up"
    BY <1>6, Zenon DEF WireguardUp, RolledBack
  <2>3. lifecycle' \in Lifecycle /\ blocked' \in BOOLEAN
    BY <1>1, <1>6, Zenon DEF WireguardUp, RolledBack, StatusType, Lifecycle
  <2>4. Installing \in Profiles
    BY <1>1, <2>1, InstallingTyped
  <2>5. TaskType' /\ OperationInv'
    <3>1. next = "r_routes" => active # NoActive
      BY <1>1, <2>2 DEF OperationInv
    <3> QED
      BY <1>1, <2>1, <2>2, <3>1, GoingOn DEF db, TaskType, Place
  <2>6. TunnelType'
    BY <1>1, <2>1, <2>4, ProfileParts DEF TunnelType
  <2> QED
    BY <1>1, <2>1, <2>3, <2>5, <2>6 DEF ManagerInv, StoreType, StatusType, db
<1>7. ASSUME NEW added \in BOOLEAN, NEW ok \in BOOLEAN, ReconcileRoutes(added, ok) PROVE ManagerInv'
  <2>1. /\ pc \in {"routes", "r_routes"} /\ iface' = iface
        /\ dns_routes' = LET with == dns_routes \cup (IF added THEN {Installing.dns} ELSE {})
                         IN  IF ok THEN with \ ({Replaced} \ {Installing.dns}) ELSE with
        /\ UNCHANGED <<db, iface, dns_upstream, active, selected_source, start, exposed>>
    BY <1>7 DEF ReconcileRoutes
  <2>2. PICK next \in {"idle", "verify", "r_down"} : Goto(next)
    BY <1>7 DEF ReconcileRoutes, RolledBack
  <2>3. lifecycle' \in Lifecycle /\ blocked' \in BOOLEAN
    BY <1>1, <1>7, Zenon DEF ReconcileRoutes, RolledBack, StatusType, Lifecycle
  <2>4. Installing.dns \in Dns
    BY <1>1, <2>1, InstallingTyped, ProfileParts
  <2>5. kind # "recover"
    BY <1>1, <2>1 DEF OperationInv
  <2>6. TaskType' /\ OperationInv'
    BY <1>1, <2>1, <2>2, <2>5, GoingOn DEF db, TaskType, Place
  <2>7. TunnelType'
    BY <1>1, <2>1, <2>4 DEF TunnelType
  <2> QED
    BY <1>1, <2>1, <2>3, <2>6, <2>7 DEF ManagerInv, StoreType, StatusType, db
<1>8. ASSUME NEW result \in {"ok", "failed", "reopen_failed"}, activate(result) PROVE ManagerInv'
  <2>1. /\ pc = "commit" /\ Goto(IF result = "ok" THEN "finish" ELSE "r_down")
        /\ db_active' = IF result = "failed" THEN db_active ELSE candidate.revision
        /\ UNCHANGED <<rows, tunnel, dns_upstream, active, lifecycle, blocked,
                       selected_source, start>>
    BY <1>8 DEF activate
  <2>2. exposed' \subseteq Event
    BY <1>1, <1>8, Zenon DEF activate, Expose, Event, TaskType
  <2>3. /\ kind = "apply" /\ candidate \in Active /\ candidate.revision \in Revision
        /\ rows[candidate.revision] = candidate.profile
    BY <1>1, <2>1 DEF OperationInv
  <2>4. candidate.profile # NoProfile
    BY <2>3, ActiveParts, ProfilesAssumption
  <2>5. StoreType'
    BY <1>1, <2>1, <2>3, <2>4 DEF StoreType
  <2>6. TaskType' /\ OperationInv'
    BY <1>1, <2>1, <2>2, <2>3, GoingOn DEF Place
  <2> QED
    BY <1>1, <2>1, <2>5, <2>6 DEF ManagerInv, TunnelType, StatusType, tunnel
<1>9. ASSUME NEW listed \in BOOLEAN, Finish(listed) PROVE ManagerInv'
  <2>1. /\ pc = "finish" /\ active' = candidate /\ dns_upstream' = candidate.profile.dns
        /\ selected_source' = IF kind = "apply" THEN selected_source ELSE kind
        /\ lifecycle' = "Active" /\ Goto("idle") /\ UNCHANGED <<db, tunnel, start, exposed>>
    BY <1>9, Zenon DEF Finish
  <2>2. blocked' \in BOOLEAN
    BY <1>9, Zenon DEF Finish
  <2>3. candidate \in Active /\ kind \in {"apply", "mounted", "gui"}
    BY <1>1, <2>1 DEF OperationInv, TaskType
  <2>4. candidate.profile.dns \in Dns
    BY <2>3, ActiveParts, ProfileParts
  <2>5. StatusType'
    BY <1>1, <2>1, <2>2, <2>3, <2>4 DEF StatusType, Lifecycle
  <2>6. pc' = "idle" /\ kind' = "none" /\ candidate' = NoActive
    BY <2>1, Zenon DEF Goto
  <2>7. TaskType' /\ OperationInv'
    BY <1>1, <2>1, <2>6 DEF TaskType, OperationInv, Place, start
  <2> QED
    BY <1>1, <2>1, <2>5, <2>7 DEF ManagerInv, StoreType, TunnelType, db, tunnel
<1> QED
  BY <1>2, <1>3, <1>4, <1>5, <1>6, <1>7, <1>8, <1>9 DEF OperationStep

\* An operation begins.
LEMMA BeginKeeps ==
    ASSUME ManagerInv, pc = "idle", NEW k \in {"apply", "mounted", "gui"}, NEW c \in Active,
           Begin(k, c),
           k = "apply" => /\ selected_source = "gui" /\ c.revision \in Revision
                          /\ rows[c.revision] = c.profile
    PROVE  ManagerInv'
<1>1. StoreType /\ TunnelType /\ StatusType /\ TaskType /\ OperationInv
  BY DEF ManagerInv
<1>2. /\ pc' = "base" /\ kind' = k /\ candidate' = c /\ lifecycle' = "Applying"
      /\ UNCHANGED <<db, tunnel, dns_upstream, active, blocked, selected_source, start>>
  BY DEF Begin
<1>3. exposed' \subseteq Event
  BY <1>1, Zenon DEF Begin, Expose, Event, TaskType
<1>4. StoreType' /\ TunnelType' /\ StatusType'
  BY <1>1, <1>2 DEF StoreType, TunnelType, StatusType, Lifecycle, db, tunnel
<1>5. TaskType' /\ OperationInv'
  BY <1>1, <1>2, <1>3 DEF TaskType, OperationInv, Place, start, db
<1> QED
  BY <1>4, <1>5 DEF ManagerInv

\* What the requests and the recovery begin, and a request that is dropped
LEMMA RequestKeeps ==
    ASSUME ManagerInv,
           \/ \E r \in Revision : BeginApply(r)
           \/ \E source \in {"mounted", "gui"} : BeginSource(source)
           \/ Recover \/ Cancel
    PROVE  ManagerInv'
<1>1. StoreType /\ TunnelType /\ StatusType /\ TaskType /\ OperationInv
  BY DEF ManagerInv
<1>2. ASSUME NEW r \in Revision, BeginApply(r) PROVE ManagerInv'
  <2> DEFINE c == [revision |-> r, profile |-> rows[r]]
  <2>1. pc = "idle" /\ selected_source = "gui" /\ rows[r] # NoProfile /\ Begin("apply", c)
    BY <1>2 DEF BeginApply
  <2>2. c \in Active /\ c.revision = r /\ c.profile = rows[r]
    BY <1>1, <2>1 DEF StoreType, Active
  <2> HIDE DEF c
  <2> QED
    BY <2>1, <2>2, BeginKeeps
<1>3. ASSUME NEW source \in {"mounted", "gui"}, BeginSource(source) PROVE ManagerInv'
  <2>1. PICK k \in {"mounted", "gui"}, c \in Active : pc = "idle" /\ Begin(k, c)
    <3>1. CASE source = "mounted"
      <4> DEFINE c == [revision |-> NoRevision, profile |-> MountedProfile]
      <4>1. pc = "idle" /\ MountedProfile # NoProfile /\ Begin("mounted", c)
        BY <1>3, <3>1 DEF BeginSource
      <4>2. c \in Active
        BY <4>1, ProfilesAssumption DEF Active
      <4> HIDE DEF c
      <4> QED
        BY <4>1, <4>2
    <3>2. CASE source = "gui"
      <4> DEFINE c == [revision |-> db_active, profile |-> rows[db_active]]
      <4>1. pc = "idle" /\ db_active # NoRevision /\ Begin("gui", c)
        BY <1>3, <3>2 DEF BeginSource
      <4>2. c \in Active
        BY <1>1, <4>1 DEF Active, StoreType
      <4> HIDE DEF c
      <4> QED
        BY <4>1, <4>2
    <3> QED
      BY <3>1, <3>2
  <2> QED
    BY <2>1, BeginKeeps
<1>4. ASSUME Recover PROVE ManagerInv'
  <2>1. /\ pc = "idle" /\ active # NoActive /\ pc' = "down" /\ kind' = "recover"
        /\ candidate' = NoActive /\ lifecycle' = "Recovering"
        /\ UNCHANGED <<db, tunnel, dns_upstream, active, blocked, selected_source, start, exposed>>
    BY <1>4, Zenon DEF Recover
  <2>2. StoreType' /\ TunnelType' /\ StatusType'
    BY <1>1, <2>1 DEF StoreType, TunnelType, StatusType, Lifecycle, db, tunnel
  <2>3. TaskType' /\ OperationInv'
    BY <1>1, <2>1 DEF TaskType, OperationInv, Place, start, db
  <2> QED
    BY <2>2, <2>3 DEF ManagerInv
<1>5. ASSUME Cancel PROVE ManagerInv'
  <2>1. /\ pc # "idle" /\ Goto("idle") /\ exposed' = exposed \cup {"cancel"}
        /\ UNCHANGED <<db, tunnel, dns_upstream, active, lifecycle, blocked,
                       selected_source, start>>
    BY <1>5, Zenon DEF Cancel, Expose
  <2>2. exposed' \subseteq Event
    BY <1>1, <2>1 DEF TaskType, Event
  <2>3. TaskType' /\ OperationInv'
    BY <1>1, <2>1, <2>2, GoingOn DEF Place, db
  <2> QED
    BY <1>1, <2>1, <2>3 DEF ManagerInv, StoreType, TunnelType, StatusType, db, tunnel
<1> QED
  BY <1>2, <1>3, <1>4, <1>5

\* The store's own operations, and what runs without the lock
LEMMA UnlockedKeeps ==
    ASSUME ManagerInv,
           \/ \E r \in Revision, p \in Profiles : stage(r, p)
           \/ \E r \in Revision : delete_inactive(r)
           \/ \E ok \in BOOLEAN : StartUp(ok) \/ MarkTunnel(ok)
           \/ \E added, ok \in BOOLEAN : StartRoutes(added, ok)
           \/ ValidateBegin \/ ValidateEnd
    PROVE  ManagerInv'
<1>1. StoreType /\ TunnelType /\ StatusType /\ TaskType /\ OperationInv
  BY DEF ManagerInv
<1>2. ASSUME NEW r \in Revision, NEW p \in Profiles \cup {NoProfile},
             pc = "idle", rows' = [rows EXCEPT ![r] = p],
             db_active # r \/ p # NoProfile,
             UNCHANGED <<db_active, tunnel, dns_upstream, active, lifecycle, blocked,
                         selected_source, op, start, exposed>>
      PROVE  ManagerInv'
  <2>1. StoreType'
    BY <1>1, <1>2 DEF StoreType
  <2>2. TunnelType' /\ StatusType'
    BY <1>1, <1>2 DEF TunnelType, StatusType, tunnel
  <2>3. TaskType' /\ OperationInv'
    BY <1>1, <1>2 DEF TaskType, OperationInv, start, op
  <2> QED
    BY <2>1, <2>2, <2>3 DEF ManagerInv
<1>3. ASSUME NEW r \in Revision, NEW p \in Profiles, stage(r, p) PROVE ManagerInv'
  BY <1>2, <1>3, ProfilesAssumption, Zenon DEF stage
<1>4. ASSUME NEW r \in Revision, delete_inactive(r) PROVE ManagerInv'
  BY <1>2, <1>4, Zenon DEF delete_inactive
<1>5. ASSUME UNCHANGED <<db, dns_upstream, active, blocked, selected_source, op, s_profile,
                        exposed>>,
             lifecycle' \in Lifecycle, s_pc' \in {"done", "routes", s_pc},
             s_pc = "done" => s_pc' = "done",
             iface' \in Iface \cup {NoIface}, dns_routes' \subseteq Dns
      PROVE  ManagerInv'
  <2>1. StoreType' /\ TunnelType' /\ StatusType'
    BY <1>1, <1>5 DEF StoreType, TunnelType, StatusType, db
  <2>2. TaskType' /\ OperationInv'
    BY <1>1, <1>5 DEF TaskType, OperationInv, op, db
  <2> QED
    BY <2>1, <2>2 DEF ManagerInv
<1>6. ASSUME NEW ok \in BOOLEAN, StartUp(ok) PROVE ManagerInv'
  <2>1. s_profile \in Profiles
    BY <1>1, <1>6 DEF StartUp, OperationInv
  <2>2. iface' \in Iface \cup {NoIface} /\ dns_routes' \subseteq Dns
    BY <1>1, <1>6, <2>1, ProfileParts DEF StartUp, TunnelType
  <2>3. lifecycle' \in Lifecycle
    BY <1>1, <1>6 DEF StartUp, StatusType, Lifecycle
  <2> QED
    BY <1>5, <1>6, <2>2, <2>3 DEF StartUp
<1>7. ASSUME NEW added \in BOOLEAN, NEW ok \in BOOLEAN, StartRoutes(added, ok) PROVE ManagerInv'
  <2>1. s_profile.dns \in Dns
    BY <1>1, <1>7, ProfileParts DEF StartRoutes, OperationInv
  <2>2. iface' \in Iface \cup {NoIface} /\ dns_routes' \subseteq Dns
    BY <1>1, <1>7, <2>1 DEF StartRoutes, TunnelType
  <2>3. lifecycle' \in Lifecycle
    BY <1>1, <1>7 DEF StartRoutes, StatusType, Lifecycle
  <2> QED
    BY <1>5, <1>7, <2>2, <2>3 DEF StartRoutes
<1>8. ASSUME (\E up \in BOOLEAN : MarkTunnel(up)) \/ ValidateBegin \/ ValidateEnd
      PROVE  ManagerInv'
  <2>1. /\ UNCHANGED <<db, tunnel, dns_upstream, active, blocked, selected_source, op, start,
                       exposed>>
        /\ lifecycle' \in {"Active", "Degraded", "Validating", "Unconfigured"}
    BY <1>8 DEF MarkTunnel, ValidateBegin, ValidateEnd
  <2> QED
    BY <1>1, <1>5, <2>1 DEF tunnel, start, Lifecycle, TunnelType
<1> QED
  BY <1>3, <1>4, <1>6, <1>7, <1>8

\* The state a process starts in, at first and after a restart
LEMMA FreshKeeps ==
    ASSUME NEW a \in Active \cup {NoActive}
    PROVE  /\ DnsOf(a) \in Dns \cup {NoDns} /\ FreshLifecycle(a) \in Lifecycle
           /\ FreshStart(a) \in {"up", "done"} /\ ProfileOf(a) \in Profiles \cup {NoProfile}
           /\ FreshStart(a) = "up" => a \in Active /\ ProfileOf(a) = a.profile
           /\ a \in Active => ProfileOf(a) = a.profile /\ a.profile \in Profiles
           /\ a = NoActive => DnsOf(a) = NoDns /\ FreshStart(a) = "done"
<1>1. CASE a = NoActive
  BY <1>1, ProfilesAssumption, ProfilesNullAssumption
     DEF DnsOf, FreshLifecycle, FreshStart, ProfileOf, Lifecycle
<1>2. CASE a \in Active
  <2>1. a # NoActive /\ a.profile \in Profiles /\ a.profile.dns \in Dns
    BY <1>2, ActiveParts, ProfileParts
  <2> QED
    BY <1>2, <2>1 DEF DnsOf, FreshLifecycle, FreshStart, ProfileOf, Lifecycle
<1> QED
  BY <1>1, <1>2

\* A restart
LEMMA RestartKeeps ==
    ASSUME ManagerInv, Restart
    PROVE  ManagerInv'
<1>1. StoreType /\ StoreType'
  BY DEF ManagerInv, Restart, StoreType, db
<1>2. /\ iface' = NoIface /\ dns_routes' = {} /\ selected_source' \in ConfigSources
      /\ dns_upstream' = DnsOf(active') /\ lifecycle' = FreshLifecycle(active') /\ blocked' = FALSE
      /\ pc' = "idle" /\ kind' = "none" /\ candidate' = NoActive
      /\ s_pc' = FreshStart(active') /\ s_profile' = ProfileOf(active')
  BY DEF Restart
<1>3. PICK usable \in BOOLEAN :
        active' = Loaded(selected_source', usable) /\ exposed' = StartEvents(usable)
  BY DEF Restart
<1>4. active' \in Active \cup {NoActive}
  BY <1>1, <1>3, SelectedTyped DEF Loaded
<1>5. exposed' \subseteq Event
  BY <1>3 DEF StartEvents, Event
<1>6. PICK a \in Active \cup {NoActive} : a = active'
  BY <1>4
<1>7. StatusType' /\ TunnelType'
  BY <1>2, <1>6, FreshKeeps, ProfilesAssumption, Zenon DEF StatusType, TunnelType
<1>8. TaskType' /\ OperationInv'
  BY <1>2, <1>5, <1>6, FreshKeeps DEF TaskType, OperationInv, Place
<1> QED
  BY <1>1, <1>7, <1>8 DEF ManagerInv

\* The first start
LEMMA ManagerStarts == Init => ManagerInv
<1> SUFFICES ASSUME Init PROVE ManagerInv
  OBVIOUS
<1>1. StoreType
  BY DEF Init, StoreType
<1>2. PICK usable \in BOOLEAN :
        active = Loaded(selected_source, usable) /\ exposed = StartEvents(usable)
  BY DEF Init
<1>3. active \in Active \cup {NoActive}
  BY <1>1, <1>2, SelectedTyped DEF Loaded
<1>4. exposed \subseteq Event
  BY <1>2 DEF StartEvents, Event
<1>5. StatusType /\ TunnelType
  BY <1>3, FreshKeeps, ProfilesAssumption, Zenon DEF Init, StatusType, TunnelType
<1>6. TaskType /\ OperationInv
  BY <1>3, <1>4, FreshKeeps DEF Init, TaskType, OperationInv, Place
<1> QED
  BY <1>1, <1>5, <1>6 DEF ManagerInv

\* Every step
LEMMA ManagerStep == ManagerInv /\ [Next]_vars => ManagerInv'
<1> SUFFICES ASSUME ManagerInv, [Next]_vars PROVE ManagerInv'
  OBVIOUS
<1>1. CASE UNCHANGED vars
  <2>1. UNCHANGED <<db, tunnel, dns_upstream, active, lifecycle, blocked, selected_source,
                    op, start, exposed>>
    BY <1>1, Zenon DEF vars
  <2>2. StoreType' /\ TunnelType' /\ StatusType'
    BY <2>1 DEF ManagerInv, StoreType, TunnelType, StatusType, db, tunnel
  <2>3. TaskType' /\ OperationInv'
    BY <2>1 DEF ManagerInv, TaskType, OperationInv, op, start, db
  <2> QED
    BY <2>2, <2>3 DEF ManagerInv
<1> QED
  BY <1>1, OperationKeeps, RequestKeeps, UnlockedKeeps, RestartKeeps DEF Next

\* Every variable keeps the shape the store, the kernel and the manager give it,
\* and the step of an operation always has the profile it works on.
THEOREM ProfilesTypeCorrect == Spec => []TypeOK
<1>1. ManagerInv => TypeOK
  BY DEF ManagerInv, TypeOK, StoreType, TunnelType, StatusType, TaskType, Place
<1> QED
  BY ManagerStarts, ManagerStep, <1>1, PTL DEF Spec
------------------------------------------------------------------------------
(* The tunnel runs the active profile. *)

\* The tunnel runs the active profile, or the candidate; it is down; or its peers and
\* transport are the candidate's and its routes not yet.
AtActive ==
    /\ dns_routes \subseteq {DnsOf(active)}
    /\ iface # NoIface => active # NoActive /\ iface = Running(active.profile)
AtCandidate ==
    /\ dns_routes \subseteq {candidate.profile.dns}
    /\ iface # NoIface => iface = Running(candidate.profile)
Down == iface = NoIface /\ dns_routes = {}
Midway ==
    /\ dns_routes \subseteq {DnsOf(active), candidate.profile.dns}
    /\ iface # NoIface => iface = Running(candidate.profile)

\* What each step of an operation finds, when no request was dropped and none ran
\* beside the bring-up at start
FoundBy ==
    /\ pc \in {"idle", "base", "sync", "r_routes"} => AtActive
    /\ pc = "sync" => /\ active # NoActive
                      /\ active.profile.transport = candidate.profile.transport
    /\ pc \in {"up", "r_up"} => Down
    /\ pc = "routes" => Midway
    /\ pc \in {"verify", "commit", "finish"} => AtCandidate

\* The bring-up at start works on the active profile, and alone.
StartsActive ==
    /\ s_pc # "done" => pc = "idle" /\ active # NoActive /\ s_profile = active.profile
    /\ s_pc = "up" => Down

Orderly == exposed \subseteq {"reopen", "unusable"}

RunInv ==
    /\ dns_upstream = DnsOf(active)
    /\ Orderly => FoundBy /\ StartsActive

\* The database names the profile a: none for none, its row otherwise.
Stored(a) ==
    /\ db_active = IF a = NoActive THEN NoRevision ELSE a.revision
    /\ a # NoActive => a.revision \in Revision /\ rows[a.revision] = a.profile

\* The database follows the status, except for the last step of an apply, when it is
\* already with the candidate; a change to the stored profile installs what is stored.
StoredInv ==
    exposed \subseteq {"overlap"} =>
        /\ selected_source = "gui" /\ ~(pc = "finish" /\ kind = "apply") => Stored(active)
        /\ pc = "finish" /\ kind = "apply" => Stored(candidate)
        /\ kind = "gui" => Stored(candidate)

\* A step of an operation keeps the invariant if the next one finds what it needs.
LEMMA RunGoesOn ==
    ASSUME ManagerInv, RunInv, pc # "idle",
           UNCHANGED <<active, dns_upstream, start>>, Orderly' => Orderly,
           Orderly => FoundBy'
    PROVE  RunInv'
<1>1. dns_upstream' = DnsOf(active')
  BY DEF RunInv, DnsOf
<1>2. ASSUME Orderly PROVE StartsActive'
  <2>1. s_pc = "done" /\ s_pc' = "done"
    BY <1>2 DEF RunInv, StartsActive, start
  <2> QED
    BY <2>1 DEF StartsActive
<1> QED
  BY <1>1, <1>2 DEF RunInv

\* A step of an operation
LEMMA OperationRuns ==
    ASSUME ManagerInv, RunInv, OperationStep
    PROVE  RunInv'
<1>1. StoreType /\ TunnelType /\ StatusType /\ TaskType /\ OperationInv
  BY DEF ManagerInv
<1>0. Orderly => FoundBy
  BY DEF RunInv
<1>2. ASSUME NEW ok \in BOOLEAN, ReconcileBase(ok) PROVE RunInv'
  <2>1. /\ pc = "base" /\ iface' = iface /\ dns_routes' = dns_routes /\ exposed' = exposed
        /\ UNCHANGED <<active, dns_upstream, start>>
    BY <1>2, Zenon DEF ReconcileBase, tunnel
  <2>2. candidate \in Active
    BY <1>1, <2>1 DEF OperationInv
  <2>3. PICK next \in {"idle", "verify", "routes", "sync", "down"} :
          /\ Goto(next)
          /\ next = "verify" => Classification = "NoChange"
          /\ next = "routes" => Classification = "DnsReload"
          /\ next = "sync" => Classification = "SyncConf"
    BY <1>2 DEF ReconcileBase, Classification, diff
  <2>4. pc' = next /\ (next # "idle" => candidate' = candidate)
    BY <2>3, Zenon DEF Goto
  <2>5. /\ next \in {"verify", "routes", "sync"} => active # NoActive
        /\ next = "verify" => active.profile = candidate.profile
        /\ next = "routes" => Running(active.profile) = Running(candidate.profile)
        /\ next = "sync" => active.profile.transport = candidate.profile.transport
    BY <2>3 DEF Classification, diff
  <2>6. ASSUME Orderly PROVE FoundBy'
    <3>1. AtActive
      BY <1>0, <2>1, <2>6 DEF FoundBy
    <3>2. AtActive'
      BY <2>1, <3>1 DEF AtActive, DnsOf
    <3>3. next = "verify" => AtCandidate'
      BY <2>1, <2>4, <2>5, <3>1 DEF AtActive, AtCandidate, DnsOf
    <3>4. next = "routes" => Midway'
      BY <2>1, <2>4, <2>5, <3>1 DEF AtActive, Midway, DnsOf
    <3> QED
      BY <2>1, <2>4, <2>5, <3>2, <3>3, <3>4 DEF FoundBy
  <2> QED
    BY <2>1, <2>6, RunGoesOn DEF Orderly
<1>3. ASSUME NEW ok \in BOOLEAN, Syncconf(ok) PROVE RunInv'
  <2>1. /\ pc = "sync" /\ dns_routes' = dns_routes /\ exposed' = exposed /\ (ok => iface # NoIface)
        /\ iface' = IF ok THEN [iface EXCEPT !.peers = candidate.profile.peers] ELSE iface
        /\ Goto(IF ok THEN "routes" ELSE "r_down") /\ UNCHANGED <<active, dns_upstream, start>>
    BY <1>3, Zenon DEF Syncconf
  <2>2. /\ pc' = IF ok THEN "routes" ELSE "r_down"
        /\ candidate' = candidate
    BY <2>1 DEF Goto
  <2>3. candidate \in Active
    BY <1>1, <2>1 DEF OperationInv
  <2>4. ASSUME Orderly PROVE FoundBy'
    <3>1. /\ AtActive /\ active # NoActive
          /\ active.profile.transport = candidate.profile.transport
      BY <1>0, <2>1, <2>4 DEF FoundBy
    <3>2. ASSUME ok PROVE iface' = Running(candidate.profile)
      <4>1. iface = Running(active.profile)
        BY <2>1, <3>1, <3>2 DEF AtActive
      <4> QED
        BY <2>1, <3>1, <3>2, <4>1 DEF Running
    <3>3. ok => Midway'
      BY <2>1, <2>2, <3>1, <3>2 DEF AtActive, Midway, DnsOf
    <3> QED
      BY <2>2, <3>3 DEF FoundBy
  <2> QED
    BY <2>1, <2>4, RunGoesOn DEF Orderly
<1>4. ASSUME NEW ok \in BOOLEAN, Verify(ok) PROVE RunInv'
  <2>1. /\ pc = "verify" /\ iface' = iface /\ dns_routes' = dns_routes /\ exposed' = exposed
        /\ UNCHANGED <<active, dns_upstream, start>>
    BY <1>4, Zenon DEF Verify, tunnel
  <2>2. pc' \in {"r_down", "commit", "finish"} /\ candidate' = candidate
    BY <1>4 DEF Verify, Goto
  <2>3. ASSUME Orderly PROVE FoundBy'
    <3>1. AtCandidate
      BY <1>0, <2>1, <2>3 DEF FoundBy
    <3>2. AtCandidate'
      BY <2>1, <2>2, <3>1 DEF AtCandidate
    <3> QED
      BY <2>2, <3>2 DEF FoundBy
  <2> QED
    BY <2>1, <2>3, RunGoesOn DEF Orderly
<1>5. ASSUME WireguardDown PROVE RunInv'
  <2>1. /\ pc \in {"down", "r_down"} /\ iface' = NoIface /\ dns_routes' = {}
        /\ exposed' = exposed /\ UNCHANGED <<active, dns_upstream, start>>
    BY <1>5, Zenon DEF WireguardDown
  <2>2. pc' \in {"idle", "up", "r_up"}
    BY <1>5 DEF WireguardDown, Goto
  <2>3. FoundBy'
    BY <2>1, <2>2 DEF FoundBy, AtActive, Down
  <2> QED
    BY <2>1, <2>3, RunGoesOn DEF Orderly
<1>6. ASSUME NEW result \in UpResult, WireguardUp(result) PROVE RunInv'
  <2>1. /\ pc \in {"up", "r_up"} /\ exposed' = exposed
        /\ iface' = IF result = "failed" THEN iface ELSE Running(Installing)
        /\ dns_routes' = IF result \in {"ok", "late"} THEN dns_routes \cup {Installing.dns}
                         ELSE dns_routes
        /\ UNCHANGED <<active, dns_upstream, start>>
    BY <1>6 DEF WireguardUp
  <2>2. PICK next \in {"idle", "routes", "r_down", "r_routes"} :
          /\ Goto(next)
          /\ next \in {"idle", "r_routes"} => kind = "recover" \/ pc = "r_up"
          /\ next = "routes" => kind # "recover" /\ pc = "up"
    BY <1>6, Zenon DEF WireguardUp, RolledBack
  <2>3. pc' = next /\ (next # "idle" => candidate' = candidate)
    BY <2>2, Zenon DEF Goto
  <2>4. /\ next \in {"idle", "r_routes"} => Installing = active.profile /\ active # NoActive
        /\ next = "routes" => Installing = candidate.profile
    BY <1>1, <2>1, <2>2 DEF Installing, RollingBack, OperationInv
  <2>5. ASSUME Orderly PROVE FoundBy'
    <3>1. iface = NoIface /\ dns_routes = {}
      BY <1>0, <2>1, <2>5 DEF FoundBy, Down
    <3>2. next \in {"idle", "r_routes"} => AtActive'
      BY <2>1, <2>4, <3>1 DEF AtActive, DnsOf
    <3>3. next = "routes" => Midway'
      BY <2>1, <2>3, <2>4, <3>1 DEF Midway
    <3> QED
      BY <2>3, <3>2, <3>3 DEF FoundBy
  <2> QED
    BY <2>1, <2>5, RunGoesOn DEF Orderly
<1>7. ASSUME NEW added \in BOOLEAN, NEW ok \in BOOLEAN, ReconcileRoutes(added, ok) PROVE RunInv'
  <2>1. /\ pc \in {"routes", "r_routes"} /\ iface' = iface /\ exposed' = exposed
        /\ dns_routes' = LET with == dns_routes \cup (IF added THEN {Installing.dns} ELSE {})
                         IN  IF ok THEN with \ ({Replaced} \ {Installing.dns}) ELSE with
        /\ UNCHANGED <<active, dns_upstream, start>>
    BY <1>7 DEF ReconcileRoutes
  <2>2. PICK next \in {"idle", "verify", "r_down"} :
          /\ Goto(next)
          /\ next = "idle" => pc = "r_routes"
          /\ next = "verify" => ok /\ pc = "routes"
    BY <1>7 DEF ReconcileRoutes, RolledBack
  <2>3. pc' = next /\ (next # "idle" => candidate' = candidate)
    BY <2>2, Zenon DEF Goto
  <2>4. kind # "recover"
    BY <1>1, <2>1 DEF OperationInv
  <2>5. /\ next = "idle" => Installing = active.profile /\ active # NoActive
        /\ next = "verify" => Installing = candidate.profile /\ Replaced = DnsOf(active)
    BY <1>1, <2>2, <2>4 DEF Installing, Replaced, RollingBack, OperationInv
  <2>6. ASSUME Orderly PROVE FoundBy'
    <3>1. ASSUME next = "idle" PROVE AtActive'
      <4>1. AtActive
        BY <1>0, <2>2, <2>6, <3>1 DEF FoundBy
      <4>2. dns_routes' \subseteq {active.profile.dns}
        BY <2>1, <2>5, <3>1, <4>1 DEF AtActive, DnsOf
      <4> QED
        BY <2>1, <2>5, <3>1, <4>1, <4>2 DEF AtActive, DnsOf
    <3>2. ASSUME next = "verify" PROVE AtCandidate'
      <4>1. Midway
        BY <1>0, <2>2, <2>6, <3>2 DEF FoundBy
      <4>2. dns_routes' \subseteq {candidate.profile.dns}
        BY <2>1, <2>2, <2>5, <3>2, <4>1 DEF Midway
      <4> QED
        BY <2>1, <2>3, <3>2, <4>1, <4>2 DEF Midway, AtCandidate
    <3> QED
      BY <2>3, <3>1, <3>2 DEF FoundBy
  <2> QED
    BY <2>1, <2>6, RunGoesOn DEF Orderly
<1>8. ASSUME NEW result \in {"ok", "failed", "reopen_failed"}, activate(result) PROVE RunInv'
  <2>1. /\ pc = "commit" /\ iface' = iface /\ dns_routes' = dns_routes
        /\ exposed \subseteq exposed' /\ UNCHANGED <<active, dns_upstream, start>>
    BY <1>8 DEF activate, tunnel, Expose
  <2>2. pc' \in {"finish", "r_down"} /\ candidate' = candidate
    BY <1>8 DEF activate, Goto
  <2>3. ASSUME Orderly PROVE FoundBy'
    <3>1. AtCandidate
      BY <1>0, <2>1, <2>3 DEF FoundBy
    <3>2. AtCandidate'
      BY <2>1, <2>2, <3>1 DEF AtCandidate
    <3> QED
      BY <2>2, <3>2 DEF FoundBy
  <2> QED
    BY <2>1, <2>3, RunGoesOn DEF Orderly
<1>9. ASSUME NEW listed \in BOOLEAN, Finish(listed) PROVE RunInv'
  <2>1. /\ pc = "finish" /\ active' = candidate /\ dns_upstream' = candidate.profile.dns
        /\ iface' = iface /\ dns_routes' = dns_routes /\ exposed' = exposed /\ s_pc' = s_pc
        /\ Goto("idle")
    BY <1>9, Zenon DEF Finish, tunnel, start
  <2>2. candidate \in Active /\ candidate # NoActive /\ DnsOf(candidate) = candidate.profile.dns
    BY <1>1, <2>1, ActiveParts DEF OperationInv
  <2>3. dns_upstream' = DnsOf(active')
    BY <2>1, <2>2 DEF DnsOf
  <2>4. pc' = "idle"
    BY <2>1, Zenon DEF Goto
  <2>5. ASSUME Orderly PROVE FoundBy' /\ StartsActive'
    <3>1. AtCandidate /\ s_pc = "done"
      BY <1>0, <2>1, <2>5 DEF FoundBy, RunInv, StartsActive
    <3>2. AtActive'
      BY <2>1, <2>2, <3>1 DEF AtCandidate, AtActive, DnsOf
    <3> QED
      BY <2>1, <2>4, <3>1, <3>2 DEF FoundBy, StartsActive
  <2> QED
    BY <2>1, <2>3, <2>5 DEF RunInv, Orderly
<1> QED
  BY <1>2, <1>3, <1>4, <1>5, <1>6, <1>7, <1>8, <1>9 DEF OperationStep

\* A step that leaves tunnel, status and operation alone
LEMMA RunStays ==
    ASSUME RunInv, UNCHANGED <<iface, dns_routes, dns_upstream, active, pc, candidate,
                               s_pc, s_profile, exposed>>
    PROVE  RunInv'
<1>1. dns_upstream' = DnsOf(active')
  BY DEF RunInv, DnsOf
<1>2. Orderly' => Orderly
  BY DEF Orderly
<1>3. FoundBy => FoundBy'
  BY DEF FoundBy, AtActive, AtCandidate, Down, Midway, DnsOf
<1>4. StartsActive => StartsActive'
  BY DEF StartsActive, Down
<1> QED
  BY <1>1, <1>2, <1>3, <1>4 DEF RunInv

\* The lock is taken.  A request beside the bring-up at start is an exception, and
\* recover waits for it.
LEMMA BeginRuns ==
    ASSUME ManagerInv, RunInv, pc = "idle", pc' \in {"base", "down"},
           UNCHANGED <<iface, dns_routes, dns_upstream, active, s_pc, s_profile>>,
           s_pc = "done" => exposed' = exposed,
           s_pc # "done" => "overlap" \in exposed'
    PROVE  RunInv'
<1>1. dns_upstream' = DnsOf(active')
  BY DEF RunInv, DnsOf
<1>2. ASSUME Orderly' PROVE FoundBy' /\ StartsActive'
  <2>1. s_pc = "done" /\ exposed' = exposed
    BY <1>2 DEF Orderly
  <2>2. AtActive
    BY <1>2, <2>1 DEF RunInv, FoundBy, Orderly
  <2>3. AtActive'
    BY <2>2 DEF AtActive, DnsOf
  <2> QED
    BY <2>1, <2>3 DEF FoundBy, StartsActive
<1> QED
  BY <1>1, <1>2 DEF RunInv

\* What the requests and the recovery begin, and a request that is dropped
LEMMA RequestRuns ==
    ASSUME ManagerInv, RunInv,
           \/ \E r \in Revision : BeginApply(r)
           \/ \E source \in {"mounted", "gui"} : BeginSource(source)
           \/ Recover \/ Cancel
    PROVE  RunInv'
<1>1. ASSUME NEW k, NEW c, pc = "idle", Begin(k, c) PROVE RunInv'
  <2>1. /\ pc' = "base"
        /\ UNCHANGED <<iface, dns_routes, dns_upstream, active, s_pc, s_profile>>
    BY <1>1, Zenon DEF Begin, tunnel, start
  <2>2. s_pc = "done" => exposed' = exposed
    BY <1>1, Zenon DEF Begin
  <2>3. s_pc # "done" => "overlap" \in exposed'
    BY <1>1 DEF Begin, Expose
  <2> QED
    BY <1>1, <2>1, <2>2, <2>3, BeginRuns
<1>2. ASSUME NEW r \in Revision, BeginApply(r) PROVE RunInv'
  BY <1>1, <1>2, Zenon DEF BeginApply
<1>3. ASSUME NEW source \in {"mounted", "gui"}, BeginSource(source) PROVE RunInv'
  BY <1>1, <1>3, Zenon DEF BeginSource
<1>4. ASSUME Recover PROVE RunInv'
  <2>1. /\ pc = "idle" /\ pc' = "down" /\ s_pc = "done" /\ exposed' = exposed
        /\ UNCHANGED <<iface, dns_routes, dns_upstream, active, s_pc, s_profile>>
    BY <1>4, Zenon DEF Recover, tunnel, start
  <2> QED
    BY <2>1, BeginRuns
<1>5. ASSUME Cancel PROVE RunInv'
  <2>1. "cancel" \in exposed' /\ UNCHANGED <<dns_upstream, active>>
    BY <1>5 DEF Cancel, Expose
  <2>2. ~Orderly'
    BY <2>1 DEF Orderly
  <2> QED
    BY <2>1, <2>2 DEF RunInv, DnsOf
<1> QED
  BY <1>2, <1>3, <1>4, <1>5

\* The bring-up at start
LEMMA StartRuns ==
    ASSUME ManagerInv, RunInv,
           \/ \E ok \in BOOLEAN : StartUp(ok)
           \/ \E added, ok \in BOOLEAN : StartRoutes(added, ok)
    PROVE  RunInv'
<1>1. ASSUME s_pc # "done", s_pc' \in {"routes", "done"},
             UNCHANGED <<dns_upstream, active, pc, candidate, s_profile, exposed>>,
             s_pc = "up" => dns_routes' = dns_routes /\ iface' \in {iface, Running(s_profile)},
             s_pc # "up" => iface' = iface /\ dns_routes' \subseteq dns_routes \cup {s_profile.dns}
      PROVE  RunInv'
  <2>1. dns_upstream' = DnsOf(active')
    BY <1>1 DEF RunInv, DnsOf
  <2>2. ASSUME Orderly PROVE FoundBy' /\ StartsActive'
    <3>1. /\ pc = "idle" /\ active # NoActive /\ s_profile = active.profile /\ AtActive
          /\ s_pc = "up" => Down
      BY <1>1, <2>2 DEF RunInv, FoundBy, StartsActive
    <3>2. dns_routes' \subseteq {DnsOf(active)}
      BY <1>1, <3>1 DEF AtActive, DnsOf, Down
    <3>3. iface' # NoIface => iface' = Running(active.profile)
      BY <1>1, <3>1 DEF AtActive, Down
    <3>4. AtActive'
      BY <1>1, <3>1, <3>2, <3>3 DEF AtActive, DnsOf
    <3> QED
      BY <1>1, <3>1, <3>4 DEF FoundBy, StartsActive
  <2> QED
    BY <1>1, <2>1, <2>2 DEF RunInv, Orderly
<1>2. ASSUME NEW ok \in BOOLEAN, StartUp(ok) PROVE RunInv'
  <2>1. /\ s_pc = "up" /\ dns_routes' = dns_routes
        /\ UNCHANGED <<dns_upstream, active, pc, candidate, s_profile, exposed>>
    BY <1>2, Zenon DEF StartUp, op
  <2>2. iface' \in {iface, Running(s_profile)} /\ s_pc' \in {"routes", "done"}
    BY <1>2 DEF StartUp
  <2> QED
    BY <1>1, <2>1, <2>2
<1>3. ASSUME NEW added \in BOOLEAN, NEW ok \in BOOLEAN, StartRoutes(added, ok) PROVE RunInv'
  <2>1. /\ s_pc = "routes" /\ s_pc' = "done" /\ iface' = iface
        /\ UNCHANGED <<dns_upstream, active, pc, candidate, s_profile, exposed>>
    BY <1>3, Zenon DEF StartRoutes, op
  <2>2. dns_routes' \subseteq dns_routes \cup {s_profile.dns}
    BY <1>3 DEF StartRoutes
  <2> QED
    BY <1>1, <2>1, <2>2
<1> QED
  BY <1>2, <1>3

\* The tunnel is down when a process starts.
LEMMA FreshRuns ==
    ASSUME iface = NoIface, dns_routes = {}, dns_upstream = DnsOf(active), pc = "idle",
           s_pc = FreshStart(active), s_profile = ProfileOf(active)
    PROVE  RunInv
<1>1. AtActive /\ Down
  BY DEF AtActive, Down
<1>2. StartsActive
  BY <1>1 DEF StartsActive, FreshStart, ProfileOf
<1> QED
  BY <1>1, <1>2 DEF RunInv, FoundBy

\* The same after a restart
LEMMA RestartRuns ==
    ASSUME ManagerInv', Restart
    PROVE  RunInv'
<1>1. /\ iface' = NoIface /\ dns_routes' = {} /\ dns_upstream' = DnsOf(active') /\ pc' = "idle"
      /\ s_pc' = FreshStart(active') /\ s_profile' = ProfileOf(active')
  BY DEF Restart
<1>2. AtActive' /\ Down'
  BY <1>1 DEF AtActive, Down
<1>3. StartsActive'
  BY <1>1, <1>2 DEF StartsActive, FreshStart, ProfileOf
<1> QED
  BY <1>1, <1>2, <1>3 DEF RunInv, FoundBy

\* Every step
LEMMA RunStep == ManagerInv /\ ManagerInv' /\ RunInv /\ [Next]_vars => RunInv'
<1> SUFFICES ASSUME ManagerInv, ManagerInv', RunInv, [Next]_vars PROVE RunInv'
  OBVIOUS
<1>1. CASE \/ UNCHANGED vars
           \/ \E r \in Revision, p \in Profiles : stage(r, p)
           \/ \E r \in Revision : delete_inactive(r)
           \/ \E ok \in BOOLEAN : MarkTunnel(ok)
           \/ ValidateBegin \/ ValidateEnd
  <2>1. UNCHANGED <<tunnel, dns_upstream, active, op, start, exposed>>
    BY <1>1, Zenon DEF vars, stage, delete_inactive, MarkTunnel, ValidateBegin, ValidateEnd
  <2>2. UNCHANGED <<iface, dns_routes, dns_upstream, active, pc, candidate, s_pc, s_profile,
                    exposed>>
    BY <2>1, Zenon DEF tunnel, op, start
  <2> QED
    BY <2>2, RunStays
<1> QED
  BY <1>1, OperationRuns, RequestRuns, StartRuns, RestartRuns DEF Next

\* RunningIsActive holds in every state: an operation that fails at any command
\* leaves at rest a tunnel that runs the active profile, or none.
THEOREM RunningAlwaysActive == Spec => []RunningIsActive
<1>1. Init => RunInv
  BY FreshRuns DEF Init
<1>2. RunInv => RunningIsActive
  BY DEF RunInv, FoundBy, AtActive, Orderly, RunningIsActive
<1> QED
  BY ManagerStarts, ManagerStep, RunStep, <1>1, <1>2, PTL DEF Spec
------------------------------------------------------------------------------
(* The database names the active profile. *)

\* A step that leaves the database alone and goes on, other than to the last step of
\* an apply, or gives the lock up
LEMMA StoredGoesOn ==
    ASSUME StoredInv, UNCHANGED <<db, active, selected_source>>, exposed \subseteq exposed',
           pc = "finish" /\ kind = "apply" => pc' = pc /\ kind' = kind,
           pc' = "finish" /\ kind' = "apply" => pc = "finish" /\ kind = "apply",
           kind' = "gui" \/ pc' = "finish" => candidate' = candidate /\ kind' = kind
    PROVE  StoredInv'
<1> SUFFICES ASSUME exposed' \subseteq {"overlap"}
             PROVE  /\ selected_source' = "gui" /\ ~(pc' = "finish" /\ kind' = "apply") =>
                          Stored(active)'
                    /\ pc' = "finish" /\ kind' = "apply" => Stored(candidate)'
                    /\ kind' = "gui" => Stored(candidate)'
  BY DEF StoredInv
<1>1. /\ selected_source = "gui" /\ ~(pc = "finish" /\ kind = "apply") => Stored(active)
      /\ pc = "finish" /\ kind = "apply" => Stored(candidate)
      /\ kind = "gui" => Stored(candidate)
  BY DEF StoredInv
<1>2. Stored(active) => Stored(active)'
  BY DEF Stored, db
<1>3. candidate' = candidate /\ Stored(candidate) => Stored(candidate)'
  BY DEF Stored, db
<1> QED
  BY <1>1, <1>2, <1>3

\* A step of an operation
LEMMA OperationStores ==
    ASSUME ManagerInv, StoredInv, OperationStep
    PROVE  StoredInv'
<1>1. StoreType /\ StatusType /\ TaskType /\ OperationInv
  BY DEF ManagerInv
<1>2. ASSUME pc \notin {"idle", "finish", "commit"}, NEW next \in Place, Goto(next),
             next = "finish" => kind # "apply",
             UNCHANGED <<db, active, selected_source, exposed>>
      PROVE  StoredInv'
  <2>1. /\ pc' = next
        /\ next = "idle" => kind' = "none"
        /\ next # "idle" => kind' = kind /\ candidate' = candidate
    BY <1>1, <1>2, GotoPlaces
  <2> QED
    BY <1>2, <2>1, StoredGoesOn
<1>3. ASSUME NEW ok \in BOOLEAN, ReconcileBase(ok) \/ Syncconf(ok) \/ Verify(ok) PROVE StoredInv'
  <2>1. PICK next \in Place : Goto(next) /\ (next = "finish" => kind # "apply")
    BY <1>3 DEF ReconcileBase, Syncconf, Verify, Classification, diff, Place
  <2>2. pc \in {"base", "sync", "verify"} /\ UNCHANGED <<db, active, selected_source, exposed>>
    BY <1>3, Zenon DEF ReconcileBase, Syncconf, Verify
  <2> QED
    BY <1>2, <2>1, <2>2
<1>4. ASSUME WireguardDown PROVE StoredInv'
  <2>1. PICK next \in {"idle", "up", "r_up"} : Goto(next)
    BY <1>4 DEF WireguardDown
  <2>2. pc \in {"down", "r_down"} /\ UNCHANGED <<db, active, selected_source, exposed>>
    BY <1>4, Zenon DEF WireguardDown
  <2> QED
    BY <1>2, <2>1, <2>2 DEF Place
<1>5. ASSUME NEW result \in UpResult, WireguardUp(result) PROVE StoredInv'
  <2>1. PICK next \in {"idle", "routes", "r_down", "r_routes"} : Goto(next)
    BY <1>5, Zenon DEF WireguardUp, RolledBack
  <2>2. pc \in {"up", "r_up"} /\ UNCHANGED <<db, active, selected_source, exposed>>
    BY <1>5, Zenon DEF WireguardUp
  <2> QED
    BY <1>2, <2>1, <2>2 DEF Place
<1>6. ASSUME NEW added \in BOOLEAN, NEW ok \in BOOLEAN, ReconcileRoutes(added, ok) PROVE StoredInv'
  <2>1. PICK next \in {"idle", "verify", "r_down"} : Goto(next)
    BY <1>6 DEF ReconcileRoutes, RolledBack
  <2>2. pc \in {"routes", "r_routes"} /\ UNCHANGED <<db, active, selected_source, exposed>>
    BY <1>6, Zenon DEF ReconcileRoutes
  <2> QED
    BY <1>2, <2>1, <2>2 DEF Place
<1>7. ASSUME NEW result \in {"ok", "failed", "reopen_failed"}, activate(result) PROVE StoredInv'
  <2>1. /\ pc = "commit" /\ rows' = rows /\ UNCHANGED <<active, selected_source>>
        /\ Goto(IF result = "ok" THEN "finish" ELSE "r_down")
        /\ db_active' = IF result = "failed" THEN db_active ELSE candidate.revision
        /\ result = "reopen_failed" => "reopen" \in exposed'
        /\ exposed \subseteq exposed'
    BY <1>7 DEF activate, Expose
  <2>2. /\ pc' = IF result = "ok" THEN "finish" ELSE "r_down"
        /\ kind' = kind /\ candidate' = candidate
    BY <2>1 DEF Goto
  <2>3. /\ kind = "apply" /\ candidate \in Active /\ candidate.revision \in Revision
        /\ rows[candidate.revision] = candidate.profile
    BY <1>1, <2>1 DEF OperationInv
  <2>4. candidate # NoActive
    BY <2>3, ActiveParts
  <2>5. CASE result = "ok"
    <3>1. Stored(candidate)'
      BY <2>1, <2>2, <2>3, <2>4, <2>5 DEF Stored
    <3> QED
      BY <2>2, <2>3, <2>5, <3>1 DEF StoredInv
  <2>6. CASE result = "failed"
    BY <2>1, <2>2, <2>6, StoredGoesOn DEF db
  <2>7. CASE result = "reopen_failed"
    BY <2>1, <2>7 DEF StoredInv
  <2> QED
    BY <2>5, <2>6, <2>7
<1>8. ASSUME NEW listed \in BOOLEAN, Finish(listed) PROVE StoredInv'
  <2>1. /\ pc = "finish" /\ active' = candidate /\ exposed' = exposed /\ UNCHANGED db
        /\ selected_source' = IF kind = "apply" THEN selected_source ELSE kind
        /\ Goto("idle")
    BY <1>8, Zenon DEF Finish
  <2>2. pc' = "idle" /\ kind' = "none"
    BY <2>1, Zenon DEF Goto
  <2>3. ASSUME exposed \subseteq {"overlap"}, selected_source' = "gui" PROVE Stored(active)'
    <3>1. kind \in {"apply", "gui"}
      BY <1>1, <2>1, <2>3 DEF TaskType, OperationInv
    <3>2. Stored(candidate)
      BY <2>1, <2>3, <3>1 DEF StoredInv
    <3> QED
      BY <2>1, <3>2 DEF Stored, db
  <2> QED
    BY <2>1, <2>2, <2>3 DEF StoredInv
<1> QED
  BY <1>3, <1>4, <1>5, <1>6, <1>7, <1>8 DEF OperationStep

\* What the requests and the recovery begin, and a request that is dropped
LEMMA RequestStores ==
    ASSUME ManagerInv, StoredInv,
           \/ \E r \in Revision : BeginApply(r)
           \/ \E source \in {"mounted", "gui"} : BeginSource(source)
           \/ Recover \/ Cancel
    PROVE  StoredInv'
<1>1. StoreType /\ TaskType /\ OperationInv
  BY DEF ManagerInv
<1>2. ASSUME NEW k, NEW c, pc = "idle", Begin(k, c), k = "gui" => Stored(c) PROVE StoredInv'
  <2>1. /\ pc' = "base" /\ kind' = k /\ candidate' = c
        /\ UNCHANGED <<db, active, selected_source>> /\ exposed \subseteq exposed'
    BY <1>2 DEF Begin, Expose
  <2>2. kind = "none"
    BY <1>1, <1>2 DEF OperationInv
  <2>3. CASE k = "gui"
    <3>1. Stored(candidate)'
      BY <1>2, <2>1, <2>3 DEF Stored, db
    <3>2. Stored(active) => Stored(active)'
      BY <2>1 DEF Stored, db
    <3> QED
      BY <1>2, <2>1, <2>2, <2>3, <3>1, <3>2 DEF StoredInv
  <2>4. CASE k # "gui"
    BY <1>2, <2>1, <2>2, <2>4, StoredGoesOn
  <2> QED
    BY <2>3, <2>4
<1>3. ASSUME NEW r \in Revision, BeginApply(r) PROVE StoredInv'
  BY <1>2, <1>3, Zenon DEF BeginApply
<1>4. ASSUME NEW source \in {"mounted", "gui"}, BeginSource(source) PROVE StoredInv'
  <2>1. CASE source = "mounted"
    BY <1>2, <1>4, <2>1, Zenon DEF BeginSource
  <2>2. CASE source = "gui"
    <3> DEFINE c == [revision |-> db_active, profile |-> rows[db_active]]
    <3>1. pc = "idle" /\ db_active # NoRevision /\ Begin("gui", c)
      BY <1>4, <2>2 DEF BeginSource
    <3>2. c \in Active /\ db_active \in Revision
      BY <1>1, <3>1 DEF Active, StoreType
    <3>3. c # NoActive
      BY <3>2, ProfilesNullAssumption
    <3>4. Stored(c)
      BY <3>2, <3>3 DEF Stored
    <3> HIDE DEF c
    <3> QED
      BY <1>2, <3>1, <3>4
  <2> QED
    BY <2>1, <2>2
<1>5. ASSUME Recover PROVE StoredInv'
  <2>1. /\ pc = "idle" /\ pc' = "down" /\ kind' = "recover" /\ exposed' = exposed
        /\ UNCHANGED <<db, active, selected_source>>
    BY <1>5, Zenon DEF Recover
  <2> QED
    BY <2>1, StoredGoesOn
<1>6. ASSUME Cancel PROVE StoredInv'
  <2>1. "cancel" \in exposed'
    BY <1>6 DEF Cancel, Expose
  <2> QED
    BY <2>1 DEF StoredInv
<1> QED
  BY <1>3, <1>4, <1>5, <1>6

\* The rows are written only while nothing holds the lock, and not the active one's.
LEMMA StoreStores ==
    ASSUME ManagerInv, StoredInv,
           \/ \E r \in Revision, p \in Profiles : stage(r, p)
           \/ \E r \in Revision : delete_inactive(r)
    PROVE  StoredInv'
<1>1. StoreType /\ StatusType /\ TaskType /\ OperationInv
  BY DEF ManagerInv
<1>2. PICK r \in Revision, p \in Profiles \cup {NoProfile} :
        /\ rows' = [rows EXCEPT ![r] = p]
        /\ rows[r] = NoProfile \/ db_active # r
  BY DEF stage, delete_inactive
<1>3. /\ pc = "idle" /\ UNCHANGED <<db_active, active, selected_source, op, exposed>>
  BY Zenon DEF stage, delete_inactive
<1>4. pc' = "idle" /\ kind' = "none"
  BY <1>1, <1>3 DEF op, OperationInv
<1>5. ASSUME Stored(active) PROVE Stored(active)'
  <2>1. CASE active = NoActive
    BY <1>3, <1>5, <2>1 DEF Stored
  <2>2. CASE active # NoActive
    <3>1. /\ active.revision \in Revision /\ rows[active.revision] = active.profile
          /\ db_active = active.revision
      BY <1>5, <2>2 DEF Stored
    <3>2. active.profile # NoProfile
      BY <1>1, <2>2, ActiveParts, ProfilesAssumption DEF StatusType
    <3>3. active.revision # r
      BY <1>2, <3>1, <3>2
    <3>4. rows'[active.revision] = active.profile
      BY <1>1, <1>2, <3>1, <3>3 DEF StoreType
    <3> QED
      BY <1>3, <2>2, <3>1, <3>4 DEF Stored
  <2> QED
    BY <2>1, <2>2
<1> QED
  BY <1>3, <1>4, <1>5 DEF StoredInv

\* A restart loads what is stored.
LEMMA RestartStores ==
    ASSUME ManagerInv, Restart
    PROVE  StoredInv'
<1>1. StoreType
  BY DEF ManagerInv
<1>2. /\ selected_source' \in ConfigSources /\ pc' = "idle" /\ kind' = "none" /\ UNCHANGED db
  BY DEF Restart
<1>3. PICK usable \in BOOLEAN :
        active' = Loaded(selected_source', usable) /\ exposed' = StartEvents(usable)
  BY DEF Restart
<1>4. ASSUME exposed' \subseteq {"overlap"}, selected_source' = "gui" PROVE Stored(active)'
  <2>1. active' = Selected("gui")
    BY <1>3, <1>4 DEF StartEvents, Loaded
  <2> QED
    BY <1>1, <1>2, <2>1, SelectedTyped DEF Stored, db
<1> QED
  BY <1>2, <1>4 DEF StoredInv

\* Every step
LEMMA StoredStep == ManagerInv /\ StoredInv /\ [Next]_vars => StoredInv'
<1> SUFFICES ASSUME ManagerInv, StoredInv, [Next]_vars PROVE StoredInv'
  OBVIOUS
<1>1. CASE \/ UNCHANGED vars
           \/ \E ok \in BOOLEAN : StartUp(ok) \/ MarkTunnel(ok)
           \/ \E added, ok \in BOOLEAN : StartRoutes(added, ok)
           \/ ValidateBegin \/ ValidateEnd
  <2>1. UNCHANGED <<db, active, selected_source, op, exposed>>
    BY <1>1, Zenon DEF vars, StartUp, MarkTunnel, StartRoutes, ValidateBegin, ValidateEnd
  <2>2. UNCHANGED <<pc, kind, candidate>>
    BY <2>1, Zenon DEF op
  <2> QED
    BY <2>1, <2>2, StoredGoesOn
<1> QED
  BY <1>1, OperationStores, RequestStores, StoreStores, RestartStores DEF Next

\* StoredIsActive holds in every state: after whatever sequence of stages, deletions,
\* applies, source changes and failures, a restart resumes what was running.
THEOREM StoredAlwaysActive == Spec => []StoredIsActive
<1>1. Init => StoredInv
  <2> SUFFICES ASSUME Init PROVE StoredInv
    OBVIOUS
  <2>1. /\ pc = "idle" /\ kind = "none" /\ db_active = NoRevision
        /\ \E usable \in BOOLEAN :
              active = Loaded(selected_source, usable) /\ exposed = StartEvents(usable)
    BY DEF Init
  <2>2. selected_source = "gui" => active = NoActive
    BY <2>1 DEF Loaded, Selected
  <2> QED
    BY <2>1, <2>2 DEF StoredInv, Stored
<1>2. ManagerInv /\ StoredInv => StoredIsActive
  BY DEF ManagerInv, StoreType, StoredInv, Stored, StoredIsActive
<1> QED
  BY ManagerStarts, ManagerStep, StoredStep, <1>1, <1>2, PTL DEF Spec
------------------------------------------------------------------------------
(* The settings of the alerts *)

\* SettingsAgree speaks of the moments with no request.  In between, a request that is
\* alone has no other beside it, and until it applies what it saved is in the database;
\* and memory and database differ only while a request has saved and not applied.
AlertsInv ==
    /\ settings \in Settings /\ saved \in Settings /\ alerts \in 0 .. AlertCapacity
    /\ updates \in [Request -> [at : {"idle", "save", "apply"}, settings : Settings,
                                alone : BOOLEAN]]
    /\ \A u \in InProgress : updates[u].alone => InProgress = {u}
    /\ \A u \in InProgress : updates[u].alone /\ updates[u].at = "apply"
                                => saved = updates[u].settings
    /\ (/\ diverged \subseteq {"overlapped"}
        /\ \A u \in Request : updates[u].at # "apply") => settings = saved

\* What a request merges from an input and the settings in memory are settings.
LEMMA MergeSettings ==
    ASSUME NEW s \in Settings, NEW t \in Settings
    PROVE  merge(s, t) \in Settings
BY Zenon DEF merge, Settings

\* A step of the monitors and of the delivery worker keeps the bound of the queue.
LEMMA QueueBound ==
    ASSUME alerts \in 0 .. AlertCapacity, NEW raised, Alert(raised)
    PROVE  alerts' \in 0 .. AlertCapacity
BY AlertsAssumption DEF Alert, enqueue

LEMMA AlertsInitially == AlertsInit => AlertsInv
<1> SUFFICES ASSUME AlertsInit PROVE AlertsInv
  OBVIOUS
<1>1. Default \in Settings
  BY DEF Default, Settings
<1>2. settings \in Settings /\ saved \in Settings
  BY <1>1, AlertsAssumption DEF AlertsInit
<1>3. alerts \in 0 .. AlertCapacity
  BY AlertsAssumption DEF AlertsInit
<1>4. updates = [u \in Request |-> NoRequest]
  BY DEF AlertsInit
<1>5. InProgress = {}
  BY <1>4 DEF InProgress, NoRequest
<1>6. diverged \subseteq {"overlapped"} => settings = saved
  BY DEF AlertsInit
<1> QED
  BY <1>1, <1>2, <1>3, <1>4, <1>5, <1>6 DEF AlertsInv, NoRequest

\* One request, its update saved, applied or dropped, keeps the invariant.
LEMMA RequestSteps ==
    ASSUME AlertsInv, NEW u \in Request,
           BeginUpdate(u) \/ ApplySettings(u) \/ DropUpdate(u)
              \/ \E ok \in BOOLEAN : SaveSettings(u, ok)
    PROVE  AlertsInv'
<1> DEFINE Requests == [at : {"idle", "save", "apply"}, settings : Settings, alone : BOOLEAN]
<1>1. NoRequest \in Requests /\ NoRequest.at = "idle"
  BY DEF NoRequest, Default, Settings
<1>2. /\ updates \in [Request -> Requests]
      /\ \A v \in Request : /\ updates[v].at \in {"idle", "save", "apply"}
                            /\ updates[v].settings \in Settings
                            /\ updates[v].alone \in BOOLEAN
  BY DEF AlertsInv
<1> HIDE DEF Requests
<1>a. ASSUME BeginUpdate(u) PROVE AlertsInv'
  <2>1. PICK input \in Inputs :
          LET wanted == merge(input, settings)
          IN updates' = IF ~validate(wanted) THEN updates
                        ELSE [v \in Request |->
                                IF v = u THEN [at |-> "save", settings |-> wanted,
                                               alone |-> InProgress = {}]
                                ELSE [updates[v] EXCEPT !.alone = FALSE]]
    BY <1>a, Zenon DEF BeginUpdate
  <2>2. merge(input, settings) \in Settings
    BY MergeSettings, AlertsAssumption DEF AlertsInv
  <2>3. UNCHANGED <<settings, saved, diverged, alerts>> /\ u \notin InProgress
    BY <1>a DEF BeginUpdate, Others
  <2>4. CASE ~validate(merge(input, settings))
    <3>1. updates' = updates
      BY <2>1, <2>4
    <3> QED
      BY <2>3, <3>1 DEF AlertsInv, InProgress
  <2>5. CASE validate(merge(input, settings))
    <3>1. updates' = [v \in Request |->
                         IF v = u THEN [at |-> "save", settings |-> merge(input, settings),
                                        alone |-> InProgress = {}]
                         ELSE [updates[v] EXCEPT !.alone = FALSE]]
      BY <2>1, <2>5
    <3>2. /\ updates'[u].at = "save" /\ updates'[u].alone = (InProgress = {})
          /\ updates'[u] \in Requests
      BY <2>2, <3>1 DEF Requests
    <3>3. \A v \in Request \ {u} : /\ updates'[v].at = updates[v].at
                                   /\ updates'[v].alone = FALSE
                                   /\ updates'[v] \in Requests
      BY <1>2, <3>1, Zenon DEF Requests
    <3>4. updates' \in [Request -> Requests]
      BY <3>1, <3>2, <3>3
    <3>5. InProgress' = InProgress \cup {u}
      BY <3>2, <3>3 DEF InProgress
    <3>6. \A v \in InProgress' : updates'[v].alone => v = u /\ InProgress' = {u}
      BY <3>2, <3>3, <3>5, Zenon DEF InProgress
    <3>7. (\A v \in Request : updates'[v].at # "apply")
             => \A v \in Request : updates[v].at # "apply"
      BY <2>3, <3>3 DEF InProgress
    <3> QED
      BY <2>3, <3>2, <3>4, <3>6, <3>7 DEF AlertsInv, Requests
  <2> QED
    BY <2>4, <2>5
<1>b. ASSUME ApplySettings(u) PROVE AlertsInv'
  <2>1. /\ updates[u].at = "apply" /\ settings' = updates[u].settings
        /\ updates' = [updates EXCEPT ![u] = NoRequest]
        /\ UNCHANGED <<saved, alerts>> /\ diverged' = Settled(u)
    BY <1>b DEF ApplySettings, Others
  <2>2. /\ updates' \in [Request -> Requests] /\ updates'[u].at = "idle"
        /\ \A v \in Request \ {u} : updates'[v] = updates[v]
    BY <1>1, <1>2, <2>1
  <2>3. u \in InProgress /\ InProgress' = InProgress \ {u}
    BY <2>1, <2>2 DEF InProgress
  <2>4. \A v \in InProgress' : ~updates'[v].alone
    BY <2>2, <2>3 DEF AlertsInv, InProgress
  <2>5. diverged' \subseteq {"overlapped"} => settings' = saved'
    <3>1. CASE updates[u].alone
      BY <2>1, <2>3, <3>1 DEF AlertsInv
    <3>2. CASE ~updates[u].alone
      BY <2>1, <3>2 DEF Settled
    <3> QED
      BY <3>1, <3>2
  <2> QED
    BY <1>2, <2>1, <2>2, <2>4, <2>5 DEF AlertsInv, Requests
<1>c. ASSUME DropUpdate(u) PROVE AlertsInv'
  <2>1. /\ u \in InProgress /\ updates' = [updates EXCEPT ![u] = NoRequest]
        /\ UNCHANGED <<settings, saved, alerts>>
        /\ diverged' = IF updates[u].at = "apply" THEN diverged \cup {"dropped"} ELSE diverged
    BY <1>c DEF DropUpdate, Others
  <2>2. /\ updates' \in [Request -> Requests] /\ updates'[u].at = "idle"
        /\ \A v \in Request \ {u} : updates'[v] = updates[v]
    BY <1>1, <1>2, <2>1
  <2>3. InProgress' = InProgress \ {u}
    BY <2>2 DEF InProgress
  <2>4. \A v \in InProgress' : ~updates'[v].alone
    BY <2>1, <2>2, <2>3 DEF AlertsInv, InProgress
  <2>5. diverged' \subseteq {"overlapped"}
           => diverged \subseteq {"overlapped"} /\ updates[u].at # "apply"
    BY <2>1
  <2>6. (/\ diverged' \subseteq {"overlapped"}
         /\ \A v \in Request : updates'[v].at # "apply") => settings' = saved'
    BY <2>1, <2>2, <2>5 DEF AlertsInv
  <2> QED
    BY <2>1, <2>2, <2>4, <2>6 DEF AlertsInv, Requests
<1>d. ASSUME NEW ok \in BOOLEAN, SaveSettings(u, ok) PROVE AlertsInv'
  <2>1. /\ updates[u].at = "save" /\ saved' = IF ok THEN updates[u].settings ELSE saved
        /\ updates' = [updates EXCEPT ![u] = IF ok THEN [@ EXCEPT !.at = "apply"]
                                             ELSE NoRequest]
        /\ UNCHANGED <<settings, diverged, alerts>>
    BY <1>d DEF SaveSettings, Others
  <2>2. \A v \in Request \ {u} : updates'[v] = updates[v]
    BY <1>2, <2>1
  <2>3. u \in InProgress
    BY <2>1 DEF InProgress
  <2>4. CASE ok
    <3>1. /\ updates'[u] \in Requests /\ updates'[u].at = "apply"
          /\ updates'[u].settings = updates[u].settings
          /\ updates'[u].alone = updates[u].alone
      BY <1>2, <2>1, <2>4 DEF Requests
    <3>2. updates' \in [Request -> Requests] /\ InProgress' = InProgress
      BY <1>2, <2>1, <2>2, <2>3, <3>1 DEF InProgress
    <3>3. \A v \in InProgress' : updates'[v].alone => v = u /\ InProgress' = {u}
      BY <2>2, <2>3, <3>1, <3>2 DEF AlertsInv, InProgress
    <3> QED
      BY <1>2, <2>1, <2>4, <3>1, <3>2, <3>3 DEF AlertsInv, Requests
  <2>5. CASE ~ok
    <3>1. updates' \in [Request -> Requests] /\ updates'[u].at = "idle" /\ saved' = saved
      BY <1>1, <1>2, <2>1, <2>5
    <3>2. InProgress' = InProgress \ {u}
      BY <2>2, <3>1 DEF InProgress
    <3>3. \A v \in InProgress' : ~updates'[v].alone
      BY <2>2, <2>3, <3>2 DEF AlertsInv, InProgress
    <3>4. (\A v \in Request : updates'[v].at # "apply")
             => \A v \in Request : updates[v].at # "apply"
      BY <2>1, <2>2
    <3> QED
      BY <2>1, <3>1, <3>3, <3>4 DEF AlertsInv, Requests
  <2> QED
    BY <2>4, <2>5
<1> QED
  BY <1>a, <1>b, <1>c, <1>d

\* Every step of the notifications keeps the invariant.
LEMMA AlertsSteps == AlertsInv /\ [AlertsNext]_alert_vars => AlertsInv'
<1> SUFFICES ASSUME AlertsInv, [AlertsNext]_alert_vars PROVE AlertsInv'
  OBVIOUS
<1>1. ASSUME UNCHANGED <<settings, saved, updates, diverged>>, alerts' \in 0 .. AlertCapacity
      PROVE  AlertsInv'
  BY <1>1 DEF AlertsInv, InProgress
<1>2. alerts \in 0 .. AlertCapacity
  BY DEF AlertsInv
<1>3. CASE HistoryChanges \/ Lagged \/ UNCHANGED alert_vars
  BY <1>1, <1>2, <1>3 DEF HistoryChanges, Lagged, alert_vars
<1>4. CASE transition \/ diagnostic_failed \/ rtt_sample
  <2>1. PICK raised : Alert(raised)
    BY <1>4, Zenon DEF transition, diagnostic_failed, rtt_sample
  <2>2. UNCHANGED <<settings, saved, updates, diverged>>
    BY <1>4, Zenon DEF transition, diagnostic_failed, rtt_sample
  <2> QED
    BY <1>1, <1>2, <2>1, <2>2, QueueBound
<1>5. CASE delivery_worker
  <2>1. alerts' \in 0 .. AlertCapacity
    BY <1>2, <1>5, AlertsAssumption DEF delivery_worker
  <2> QED
    BY <1>1, <1>5, <2>1 DEF delivery_worker
<1> QED
  BY <1>3, <1>4, <1>5, RequestSteps DEF AlertsNext

\* update of notifications.rs, for every set of requests and inputs and every order of
\* their awaits: with no request in progress the settings in memory are the stored
\* ones, unless requests overlapped, one was dropped after its save, or the stored
\* settings were not read at the start.
THEOREM SettingsAlwaysAgree == AlertsSpec => []SettingsAgree
<1>1. AlertsInv => SettingsAgree
  BY DEF AlertsInv, SettingsAgree, InProgress
<1> QED
  BY <1>1, AlertsInitially, AlertsSteps, PTL DEF AlertsSpec

\* The settings in memory, in the database and of every request are well formed, and no
\* more alerts wait than the channel of the delivery worker holds.
THEOREM AlertsTypeCorrect == AlertsSpec => []AlertsTypeOK
<1>1. AlertsInv => AlertsTypeOK
  BY DEF AlertsInv, AlertsTypeOK
<1> QED
  BY <1>1, AlertsInitially, AlertsSteps, PTL DEF AlertsSpec
==============================================================================
