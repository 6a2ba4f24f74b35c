------------------------------- MODULE Gateway -------------------------------
(***************************************************************************)
(* The gateway process around its tunnel: the start-up order of run(), the *)
(* policy routes (configure_gateway_routes), the tunnel monitor with its   *)
(* recovery loop and the shutdown, in src/src/runtime.rs.  The routes are  *)
(* installed command by command, from three places: the bring-up at start, *)
(* which runs beside the HTTP API without a lock, and the profile          *)
(* manager's apply and recover, which exclude each other.                  *)
(*                                                                         *)
(* The profiles themselves are in ProfileManager; here a profile only says *)
(* whether it carries IPv6.  The DNAT rules are in Enforcement and         *)
(* PortForward; here is the gate they depend on.  Counters and rates, log  *)
(* lines and the backoff's length are abstracted.                          *)
(***************************************************************************)
EXTENDS Naturals, Sequences, FiniteSets, Functions

CONSTANTS Ipv6Routing,                         \* config.network.ipv6_routing
          Profile,                             \* the profiles in use
          FailureThreshold, SuccessThreshold,  \* config.recovery
          EventuallyCalm                       \* faults may stop for good

ASSUME ThresholdsAssumption ==
    /\ FailureThreshold \in Nat \ {0} /\ SuccessThreshold \in Nat \ {0}
    /\ Profile \subseteq {"v4", "dual"}
    /\ Ipv6Routing \in BOOLEAN /\ EventuallyCalm \in BOOLEAN

VARIABLES phase,      \* where run() is
          fw,         \* the owned base table is in nftables
          iface,      \* the WireGuard interface exists
          kernel,     \* policy rules and routes that exist
          todo, pos, prof,   \* per installer: stages left, place in the script, profile
          kind, candidate,   \* the operation that holds the transaction lock
          active,            \* the manager's active profile
          mon, seen, failures, successes,      \* monitor_tunnel
          up, recovering,                      \* what it publishes
          outcome,           \* history: how the latest script went
          calm

installers == <<todo, pos, prof, kind, candidate>>
monitor == <<mon, seen, failures, successes>>
decided == <<up, recovering>>
vars == <<phase, fw, iface, kernel, installers, active, monitor, decided, outcome, calm>>

NoProfile == "none"
Family == IF Ipv6Routing THEN {"ipv4", "ipv6"} ELSE {"ipv4"}
Installer == {"start", "op"}
------------------------------------------------------------------------------
(* The commands of configure_gateway_routes. *)

Rule90(f) == <<"rule", "90", f>>       \* from the gateway's address, lookup main
Rule100(f) == <<"rule", "100", f>>     \* from the enrolled subnet, lookup the table
Unreachable(f) == <<"route", "unreachable", f>>
TunnelRoute(f) == <<"route", "tunnel", f>>
ServiceRoute == <<"route", "service", "ipv4">>
Item == UNION {{Rule90(f), Rule100(f), Unreachable(f), TunnelRoute(f)} : f \in Family}
            \cup {ServiceRoute}
ThroughTunnel == {TunnelRoute(f) : f \in Family} \cup {ServiceRoute}

\* The result of a "try" command is ignored; any other failure ends the script.
Try(item) == [verb |-> "del", item |-> item, must |-> FALSE]
Add(item) == [verb |-> "add", item |-> item, must |-> TRUE]
Replace(item) == [verb |-> "replace", item |-> item, must |-> TRUE]

\* Planted fault: the refusing route is left out of the table.
faulty_gateway_table_route_args(f) == <<Replace(TunnelRoute(f))>>

gateway_table_route_args(f) == <<Replace(Unreachable(f)), Replace(TunnelRoute(f))>>

configure_gateway_ipv6_routes(profile) ==
    IF ~Ipv6Routing THEN <<>> ELSE
    <<Replace(Unreachable("ipv6")),
      IF profile = "dual" THEN Replace(TunnelRoute("ipv6")) ELSE Try(TunnelRoute("ipv6")),
      Try(Rule100("ipv6")), Try(Rule90("ipv6")),
      Add(Rule90("ipv6")), Add(Rule100("ipv6"))>>

configure_gateway_routes(profile) ==
    <<Try(Rule100("ipv4")), Try(Rule90("ipv4")),
      Add(Rule90("ipv4")), Add(Rule100("ipv4"))>>
    \o gateway_table_route_args("ipv4")
    \o <<Replace(ServiceRoute)>>
    \o configure_gateway_ipv6_routes(profile)

\* What the kernel lets a command do: a rule is not added twice, nothing absent
\* is deleted, a route needs its interface.
Possible(c) ==
    CASE c.verb = "add" -> c.item \notin kernel
      [] c.verb = "del" -> c.item \in kernel
      [] c.verb = "replace" -> c.item \in ThroughTunnel => iface

\* Where a packet of the enrolled subnet goes when no firewall looks at it.
Lookup(f) ==
    IF Rule100(f) \notin kernel THEN "uplink"
    ELSE IF TunnelRoute(f) \in kernel THEN "tunnel"
    ELSE IF Unreachable(f) \in kernel THEN "refused"
    ELSE "uplink"
------------------------------------------------------------------------------
(* Start-up. *)

\* A container that has just been started: a new network namespace
Init ==
    /\ phase = "base" /\ fw = FALSE /\ iface = FALSE /\ kernel = {}
    /\ todo = [p \in Installer |-> <<>>] /\ pos = [p \in Installer |-> 0]
    /\ prof = [p \in Installer |-> NoProfile]
    /\ kind = "none" /\ candidate = NoProfile /\ active = NoProfile
    /\ mon = "none" /\ seen = "none" /\ failures = 0 /\ successes = 0
    /\ up = FALSE /\ recovering = FALSE /\ outcome = "none"
    /\ calm = FALSE

\* An outcome that a quiet environment does not produce
Fault == ~calm

\* Planted fault: a base policy that is refused does not stop the start.
FaultyRunBase(ok) ==
    /\ phase = "base" /\ (ok \/ Fault)
    /\ fw' = ok
    /\ phase' = "load"
    /\ UNCHANGED <<iface, kernel, installers, active, monitor, decided, outcome, calm>>

\* run: the base policy first, and nothing else when it cannot be installed.
RunBase(ok) ==
    /\ phase = "base" /\ (ok \/ Fault)
    /\ fw' = ok
    /\ phase' = IF ok THEN "load" ELSE "base"
    /\ UNCHANGED <<iface, kernel, installers, active, monitor, decided, outcome, calm>>

\* run: the profile the source selects, if it is usable; then the sockets and
\* the API clients (a failure there ends the process, see Exit).
RunLoad(p) ==
    /\ phase = "load"
    /\ active' = p
    /\ phase' = IF p = NoProfile THEN "running" ELSE "serving"
    /\ mon' = IF p = NoProfile THEN "tick" ELSE "none"
    /\ todo' = [todo EXCEPT !["start"] = IF p # NoProfile THEN <<"up">> ELSE <<>>]
    /\ prof' = [prof EXCEPT !["start"] = p]
    /\ UNCHANGED <<fw, iface, kernel, pos, kind, candidate, seen, failures, successes,
                   decided, outcome, calm>>
------------------------------------------------------------------------------
(* Operations of the profile manager, from the HTTP API. *)

Serving == phase \in {"serving", "running"}

\* apply and activate_source, by classification: nothing to change, new routes
\* only, or a recycled tunnel.
BeginApply(c, stages) ==
    /\ Serving /\ ~calm /\ kind = "none"
    /\ active = NoProfile => "down" \in Range(stages)
    /\ kind' = "apply" /\ candidate' = c
    /\ todo' = [todo EXCEPT !["op"] = <<"base">> \o stages]
    /\ prof' = [prof EXCEPT !["op"] = c]
    /\ UNCHANGED <<phase, fw, iface, kernel, pos, active, monitor, decided, outcome, calm>>

Stages == {<<>>, <<"conf">>, <<"down", "up", "conf">>}

\* The installer p is done.
Rest(p) ==
    /\ todo' = [todo EXCEPT ![p] = <<>>]
    /\ pos' = [pos EXCEPT ![p] = 0]
    /\ prof' = [prof EXCEPT ![p] = NoProfile]
    /\ IF p = "op" THEN kind' = "none" /\ candidate' = NoProfile ELSE UNCHANGED <<kind, candidate>>

\* A command that must succeed has failed: what the caller does.
Fails(p) ==
    \/ /\ p = "start" /\ Rest(p)
       /\ phase' = IF phase = "serving" THEN "running" ELSE phase
       /\ mon' = IF phase = "serving" THEN "tick" ELSE mon
       /\ UNCHANGED failures
    \/ /\ p = "op" /\ kind = "apply"
       /\ kind' = "rollback"
       /\ todo' = [todo EXCEPT ![p] = IF active = NoProfile THEN <<"down">>
                                      ELSE <<"down", "up", "conf">>]
       /\ prof' = [prof EXCEPT ![p] = active] /\ pos' = [pos EXCEPT ![p] = 0]
       /\ UNCHANGED <<phase, candidate, mon, failures>>
    \/ /\ p = "op" /\ kind = "rollback" /\ Rest(p) /\ UNCHANGED <<phase, mon, failures>>
    \/ /\ p = "op" /\ kind = "recover" /\ Rest(p)
       /\ failures' = FailureThreshold
       /\ mon' = "tick" /\ UNCHANGED phase

\* No stage is left: verify_tunnel_evidence and commit, or report.
Working(p) ==
    /\ phase # "exited"
    /\ IF p = "op" THEN kind # "none" ELSE prof[p] # NoProfile

Finish(p, ok) ==
    /\ Working(p) /\ todo[p] = <<>>
    /\ ~ok => kind = "apply" /\ p = "op" /\ (Fault \/ ~iface)
    /\ ok /\ p = "op" /\ kind = "apply" => iface
    /\ IF ~ok THEN Fails(p) /\ UNCHANGED active
       ELSE /\ Rest(p)
            /\ active' = IF p = "op" /\ kind = "apply" THEN candidate ELSE active
            /\ phase' = IF p = "start" /\ phase = "serving" THEN "running" ELSE phase
            /\ mon' = IF phase' # phase \/ (p = "op" /\ kind = "recover") THEN "tick" ELSE mon
            /\ failures' = IF p = "op" /\ kind = "recover" THEN 0 ELSE failures
    /\ UNCHANGED <<fw, iface, kernel, seen, successes, up, recovering,
                   outcome, calm>>
------------------------------------------------------------------------------
(* The stages of an installer. *)

Stage(p, s) == Working(p) /\ todo[p] # <<>> /\ Head(todo[p]) = s /\ pos[p] = 0

NextStage(p) ==
    /\ todo' = [todo EXCEPT ![p] = Tail(@)]
    /\ UNCHANGED <<prof, kind, candidate, phase, mon, failures>>

\* reconcile_base: an apply that cannot do it returns without a rollback.
ReconcileBase(ok) ==
    /\ Stage("op", "base") /\ (ok \/ Fault)
    /\ IF ok THEN NextStage("op") /\ UNCHANGED pos
       ELSE Rest("op") /\ UNCHANGED <<phase, mon, failures>>
    /\ UNCHANGED <<fw, iface, kernel, active, seen, successes, up, recovering,
                   outcome, calm>>

\* wireguard_down: a failure is only logged.  Routes go with the interface.
WireguardDown(ok) ==
    /\ Stage("op", "down") /\ (ok \/ Fault \/ ~iface)
    /\ iface' = (iface /\ ~ok)
    /\ kernel' = IF ok THEN kernel \ ThroughTunnel ELSE kernel
    /\ NextStage("op")
    /\ UNCHANGED <<pos, fw, active, seen, successes, up, recovering,
                   outcome, calm>>

\* The script of p begins; another one under way spoils both.
OtherInScript(p) == \E q \in Installer \ {p} : pos[q] # 0
BeginScript(p) ==
    /\ pos' = [pos EXCEPT ![p] = 1]
    /\ outcome' = IF OtherInScript(p) THEN "mixed" ELSE "running"

\* wireguard_up: wg-quick, which refuses an interface that exists, then the routes.
WireguardUp(p, ok) ==
    /\ Stage(p, "up") /\ (ok => ~iface) /\ (ok \/ Fault \/ iface)
    /\ IF ok
       THEN /\ iface' = TRUE /\ BeginScript(p)
            /\ UNCHANGED <<todo, prof, kind, candidate, phase, mon, failures>>
       ELSE Fails(p) /\ UNCHANGED <<iface, outcome>>
    /\ UNCHANGED <<kernel, fw, active, seen, successes, up, recovering, calm>>

\* reconcile_gateway_routes
BeginRoutes ==
    /\ Stage("op", "conf") /\ BeginScript("op")
    /\ UNCHANGED <<phase, fw, iface, kernel, todo, prof, kind, candidate, active, monitor,
                   decided, calm>>

\* One command of the script of p.
CommandOf(p) == configure_gateway_routes(prof[p])[pos[p]]
Ran(o) == IF outcome = "mixed" THEN "mixed" ELSE o
Step(p, ok) ==
    LET c == CommandOf(p)
        last == pos[p] = Len(configure_gateway_routes(prof[p]))
    IN /\ Working(p) /\ pos[p] # 0
       /\ ok => Possible(c)
       /\ ok \/ Fault \/ ~Possible(c)
       /\ kernel' = IF ~ok THEN kernel
                    ELSE IF c.verb = "del" THEN kernel \ {c.item} ELSE kernel \cup {c.item}
       /\ \/ /\ (ok \/ ~c.must) /\ ~last
             /\ pos' = [pos EXCEPT ![p] = @ + 1]
             /\ UNCHANGED <<todo, prof, kind, candidate, phase, mon, failures, outcome>>
          \/ /\ (ok \/ ~c.must) /\ last
             /\ pos' = [pos EXCEPT ![p] = 0]
             /\ outcome' = Ran("ok")
             /\ NextStage(p)
          \/ /\ ~ok /\ c.must
             /\ outcome' = Ran("failed")
             /\ Fails(p)
       /\ UNCHANGED <<iface, fw, active, seen, successes, up, recovering, calm>>

\* The handler of an apply is dropped with its connection.
DropHandler ==
    /\ Working("op") /\ kind \in {"apply", "rollback"} /\ Fault
    /\ Rest("op")
    /\ outcome' = IF pos["op"] # 0 THEN Ran("dropped") ELSE outcome
    /\ UNCHANGED <<phase, fw, iface, kernel, active, monitor, decided, calm>>
------------------------------------------------------------------------------
(* monitor_tunnel. *)

\* Until it is aborted, the monitor goes on while run() is stopping.
Monitoring == phase \in {"running", "stopping"}

\* One tick in ten: sample the counters, then ask wg for the handshake.
ReadHandshake(result) ==
    /\ Monitoring /\ mon = "tick" /\ active # NoProfile
    /\ result = "error" => (Fault \/ ~iface)
    /\ result = "stale" => (Fault /\ iface)
    /\ result = "fresh" => iface
    /\ seen' = result /\ mon' = "seen"
    /\ UNCHANGED <<phase, fw, iface, kernel, installers, active, failures, successes, up,
                   recovering, outcome, calm>>

\* A task of the data plane ends with an error: run() stops.
EndTask == phase' = "stopping" /\ mon' = "none"

Alive ==
    /\ Monitoring /\ mon = "seen" /\ seen = "fresh"
    /\ up' = TRUE
    /\ failures' = 0
    /\ successes' = IF successes < SuccessThreshold THEN successes + 1 ELSE successes
    /\ recovering' = (recovering /\ successes' < SuccessThreshold)
    /\ mon' = "tick" /\ seen' = "none"
    /\ UNCHANGED <<phase, fw, iface, kernel, installers, active, outcome, calm>>

Counted(n) == IF n < FailureThreshold THEN n + 1 ELSE n
Due(n) == IF n >= FailureThreshold THEN "recover" ELSE "tick"

\* Planted fault: an interface that cannot be inspected is no failure.
FaultySilent(ok) ==
    /\ Monitoring /\ mon = "seen" /\ seen # "fresh" /\ (ok \/ Fault)
    /\ IF ok
       THEN /\ up' = FALSE /\ successes' = 0
            /\ failures' = IF seen = "error" THEN failures ELSE Counted(failures)
            /\ mon' = Due(failures') /\ UNCHANGED phase
       ELSE EndTask /\ UNCHANGED <<up, failures, successes>>
    /\ seen' = "none"
    /\ UNCHANGED <<fw, iface, kernel, installers, active, recovering, outcome, calm>>

\* The handshake is stale, or wg failed: DNAT goes first, and must.
Silent(ok) ==
    /\ Monitoring /\ mon = "seen" /\ seen # "fresh" /\ (ok \/ Fault)
    /\ IF ok
       THEN /\ up' = FALSE /\ successes' = 0 /\ failures' = Counted(failures)
            /\ mon' = Due(failures') /\ UNCHANGED phase
       ELSE EndTask /\ UNCHANGED <<up, failures, successes>>
    /\ seen' = "none"
    /\ UNCHANGED <<fw, iface, kernel, installers, active, recovering, outcome, calm>>

\* Recovery is due: announced, DNAT off, then the backoff.
StartRecovery(ok) ==
    /\ Monitoring /\ mon = "recover" /\ (ok \/ Fault)
    /\ up' = FALSE /\ recovering' = TRUE
    /\ mon' = IF ok THEN "sleep" ELSE "tick"
    /\ UNCHANGED <<phase, fw, iface, kernel, installers, active, seen, failures, successes,
                   outcome, calm>>

\* ProfileManager::recover, once the lock is free
Recover ==
    /\ Monitoring /\ mon = "sleep" /\ kind = "none"
    /\ mon' = "recycle" /\ kind' = "recover"
    /\ todo' = [todo EXCEPT !["op"] = <<"down", "up">>]
    /\ prof' = [prof EXCEPT !["op"] = active]
    /\ UNCHANGED <<phase, fw, iface, kernel, pos, candidate, active, seen, failures, successes,
                   decided, outcome, calm>>
------------------------------------------------------------------------------
(* The end of a process, and its environment. *)

\* ctrl-c, or another task of run() that has ended
StopRequested ==
    /\ phase = "running" /\ Fault
    /\ phase' = "stopping"
    /\ UNCHANGED <<fw, iface, kernel, installers, active, monitor, decided, outcome, calm>>

\* stop_task: the monitor is aborted, with the recovery it may be waiting for;
\* then the server.  Requests already accepted run in tasks of their own.
StopTasks ==
    /\ phase = "stopping"
    /\ phase' = "teardown" /\ mon' = "none"
    /\ IF kind = "recover"
       THEN Rest("op") /\ outcome' = IF pos["op"] # 0 THEN Ran("dropped") ELSE outcome
       ELSE UNCHANGED <<installers, outcome>>
    /\ UNCHANGED <<fw, iface, kernel, active, seen, failures, successes, decided, calm>>

\* wireguard_down, the last thing run() does
TearDown(ok) ==
    /\ phase = "teardown" /\ (ok \/ Fault \/ ~iface)
    /\ iface' = (iface /\ ~ok)
    /\ kernel' = IF ok THEN kernel \ ThroughTunnel ELSE kernel
    /\ phase' = "exited"
    /\ UNCHANGED <<fw, installers, active, monitor, decided, outcome, calm>>

\* The process is over, or is killed, or ends while it starts; the container is
\* started again (restart: unless-stopped) in a new network namespace.
Exit ==
    /\ phase = "exited" \/ (Fault /\ phase # "base")
    /\ phase' = "base" /\ fw' = FALSE /\ iface' = FALSE /\ kernel' = {}
    /\ todo' = [p \in Installer |-> <<>>] /\ pos' = [p \in Installer |-> 0]
    /\ prof' = [p \in Installer |-> NoProfile]
    /\ kind' = "none" /\ candidate' = NoProfile /\ active' = NoProfile
    /\ mon' = "none" /\ seen' = "none" /\ failures' = 0 /\ successes' = 0
    /\ up' = FALSE /\ recovering' = FALSE /\ outcome' = "none"
    /\ UNCHANGED calm

\* The interface disappears under the gateway.
LoseInterface ==
    /\ iface /\ phase # "exited" /\ Fault
    /\ iface' = FALSE /\ kernel' = kernel \ ThroughTunnel
    /\ UNCHANGED <<phase, fw, installers, active, monitor, decided, outcome, calm>>

GoCalm ==
    /\ EventuallyCalm /\ ~calm /\ calm' = TRUE
    /\ UNCHANGED <<phase, fw, iface, kernel, installers, active, monitor, decided, outcome>>

InstallerStep ==
    \/ \E p \in Installer, ok \in BOOLEAN : WireguardUp(p, ok) \/ Step(p, ok) \/ Finish(p, ok)
    \/ \E ok \in BOOLEAN : ReconcileBase(ok) \/ WireguardDown(ok)
    \/ BeginRoutes

MonitorStep ==
    \/ \E result \in {"fresh", "stale", "error"} : ReadHandshake(result)
    \/ Alive \/ Recover
    \/ \E ok \in BOOLEAN : Silent(ok) \/ StartRecovery(ok)

ProcessStep ==
    \/ \E ok \in BOOLEAN : RunBase(ok) \/ TearDown(ok)
    \/ \E p \in Profile \cup {NoProfile} : RunLoad(p)
    \/ StopTasks \/ (phase = "exited" /\ Exit)

Next ==
    \/ InstallerStep \/ MonitorStep \/ ProcessStep
    \/ \E c \in Profile, stages \in Stages : BeginApply(c, stages)
    \/ DropHandler \/ StopRequested \/ Exit \/ LoseInterface \/ GoCalm

Spec == Init /\ [][Next]_vars

\* Tasks are polled, commands return, the backoff ends, Docker restarts the container.
FairSpec == /\ Spec
            /\ WF_vars(InstallerStep) /\ WF_vars(MonitorStep) /\ WF_vars(ProcessStep)
------------------------------------------------------------------------------
\* Every variable has the shape the process, the kernel and the monitor give it.
TypeOK ==
    /\ phase \in {"base", "load", "serving", "running", "stopping", "teardown", "exited"}
    /\ fw \in BOOLEAN /\ iface \in BOOLEAN /\ kernel \subseteq Item
    /\ \A p \in Installer :
          /\ pos[p] \in 0 .. Len(configure_gateway_routes("dual"))
          /\ pos[p] # 0 => todo[p] # <<>> /\ prof[p] \in Profile
    /\ kind \in {"none", "apply", "rollback", "recover"}
    /\ candidate \in Profile \cup {NoProfile} /\ active \in Profile \cup {NoProfile}
    /\ mon \in {"none", "tick", "seen", "recover", "sleep", "recycle"}
    /\ kind = "recover" => mon = "recycle" \/ phase = "exited"
    /\ failures \in 0 .. FailureThreshold /\ successes \in 0 .. SuccessThreshold
    /\ up \in BOOLEAN /\ recovering \in BOOLEAN
    /\ outcome \in {"none", "running", "ok", "failed", "dropped", "mixed"}

\* Until the base firewall is in place there is neither a tunnel nor a policy rule:
\* no order of the start, of requests served during it and of restarts after
\* failures forwards enrolled traffic before the policy that refuses it.
FirewallFirst == iface \/ kernel # {} => fw

\* Once configure_gateway_routes has returned Ok without another one beside it, no
\* lookup from the enrolled subnet reaches the uplink, in either family, whatever
\* happens to the interface and its routes, until the commands are run again; and
\* while the interface is up IPv4 goes through it.
RoutesHold ==
    outcome = "ok" =>
        /\ \A f \in Family : Lookup(f) # "uplink" /\ Rule90(f) \in kernel
        /\ iface => Lookup("ipv4") = "tunnel"

\* When faults stop, a gateway with a profile comes back by itself: the interface
\* is up, the monitor says so and recovery is no longer announced.  Failed
\* recoveries, DNAT that cannot be removed, dropped requests and restarts may have
\* come before.
EventuallyRecovers ==
    <>[]calm => <>[](active = NoProfile \/ (iface /\ up /\ ~recovering))
==============================================================================
