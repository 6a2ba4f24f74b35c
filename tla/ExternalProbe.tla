---------------------------- MODULE ExternalProbe ----------------------------
(***************************************************************************)
(* External verification of forwarded ports.  Three programs take part:    *)
(* maintain_port_forward in src/src/runtime.rs, which acquires and renews  *)
(* leases and publishes them; the companion src/src/bin/egressy-probe.rs,  *)
(* which reads the leases, asks a public service to connect to them and    *)
(* reports what it saw; and src/src/probe.rs, which polls the companion    *)
(* and applies its report to whatever is published by then.                *)
(*                                                                         *)
(* A lease is identified by its port and the time it was acquired; what    *)
(* the kernel holds for it is PortForward's subject.  The leases are       *)
(* written twice, first to the state the companion reads (legacy), then to *)
(* the snapshot (leases), and the snapshot's primary lease is a copy.      *)
(***************************************************************************)
EXTENDS Naturals, FiniteSets, FiniteSetsExt

CONSTANTS Usage,             \* usage ids: numbers, for they are kept in order
          Configured,        \* port_forwarding.primary_usage_id, or None
          Port,
          Responses,         \* what the public service may answer
          None,
          Freshness, MaxTime, MaxEvents

\* A usage id doubles as the port of its first lease.
ASSUME UsageAssumption == Usage \subseteq Nat \cap Port
ASSUME BoundsAssumption == {Freshness, MaxTime, MaxEvents} \subseteq Nat
\* The absent value is neither a time nor a lease.
ASSUME NoneAssumption ==
    /\ None \notin Nat
    /\ None \notin [port : Port \cup {None}, acquired : Nat \cup {None}, installed : BOOLEAN,
                    verified : BOOLEAN \cup {None}]

VARIABLES now, budget,
          legacy, shown,     \* state.port_forwards and state.port_forward,
                             \* which the companion reads
          leases, primary,   \* snapshot.port_forwards, snapshot.port_forward
          op,                \* where maintain_port_forward stands
          invalidating,      \* invalidate_published_forward is half done
          companion,         \* whether it reports per usage id
          flight,            \* the claims the companion is having checked
          reported,          \* its last report
          evidence           \* history: the observation a verification is from

forward == <<legacy, shown, leases, primary, op, invalidating>>
probing == <<companion, flight, reported>>
vars == <<now, budget, forward, probing, evidence>>

Default == [port |-> None, acquired |-> None, installed |-> FALSE, verified |-> None]
Installed(p, at) == [port |-> p, acquired |-> at, installed |-> TRUE, verified |-> None]
Identity(lease) == <<lease.port, lease.acquired>>
Known == {u \in Usage : leases[u] # None}

Nothing == [u \in Usage |-> None]
Idle == [at |-> "idle", usage |-> None, lease |-> None]
Publishing(u, lease) == [at |-> "publish", usage |-> u, lease |-> lease]
AtPrimary == [Idle EXCEPT !.at = "primary"]
InPass == [Idle EXCEPT !.at = "pass"]

\* The first round of maintain_port_forward is over: every target has a lease.
Held == [u \in Usage |-> Installed(u, 0)]

\* The primary lease: the configured one, or the only one
select_primary_usage_id(of) ==
    LET held == {u \in Usage : of[u] # None}
    IN IF Configured \in held THEN {Configured}
       ELSE IF Cardinality(held) = 1 THEN held ELSE {}

\* Which one is primary is read off the state, its lease off state or snapshot.
Primary(state, of) == LET selected == {u \in select_primary_usage_id(state) : of[u] # None}
                      IN IF selected = {} THEN Default ELSE of[Min(selected)]

Init == /\ now = 0 /\ budget = MaxEvents
        /\ legacy = Held /\ shown = Primary(Held, Held)
        /\ leases = Held /\ primary = Primary(Held, Held)
        /\ op = Idle /\ invalidating = FALSE
        /\ companion \in {"per usage", "single"}
        /\ flight = None /\ reported = [each |-> Nothing, single |-> None]
        /\ evidence = Nothing

Spend == budget > 0 /\ budget' = budget - 1
----------------------------------------------------------------------------
\* maintain_port_forward

\* A pass handles one usage id after the other.
Ready == op \in {Idle, InPass}

\* A mapping is granted: the state is written first, then the snapshot.
Acquire(u) ==
    /\ Ready
    /\ \E p \in Port \ {legacy[v].port : v \in {w \in Usage \ {u} : legacy[w] # None}} :
          /\ legacy' = [legacy EXCEPT ![u] = Installed(p, now)]
          /\ op' = Publishing(u, Installed(p, now))
    /\ UNCHANGED <<now, shown, leases, primary, invalidating, probing, evidence>>

\* Every pass asks for every lease again; one that is not installed gets another
\* pass in any case.
Renew(u) == legacy[u] # None /\ legacy[u].installed /\ Spend /\ Acquire(u)
Regain(u) == /\ \E of \in {legacy, leases} : (of[u] # None => ~of[u].installed)
             /\ UNCHANGED budget /\ Acquire(u)

\* deactivate_forward_for_usage
Deactivate(u) ==
    /\ Ready /\ legacy[u] # None /\ Spend
    /\ legacy' = [legacy EXCEPT ![u] = Default]
    /\ op' = Publishing(u, Default)
    /\ UNCHANGED <<now, shown, leases, primary, invalidating, probing, evidence>>

\* Planted fault: the clock is read again for the snapshot.
FaultyPublish ==
    /\ op.at = "publish"
    /\ leases' = [leases EXCEPT ![op.usage] =
                     [op.lease EXCEPT !.acquired = IF op.lease.installed THEN now ELSE None]]
    /\ op' = IF op.lease.installed THEN InPass ELSE AtPrimary
    /\ UNCHANGED <<now, budget, legacy, shown, primary, invalidating, probing, evidence>>

Publish ==
    /\ op.at = "publish"
    /\ leases' = [leases EXCEPT ![op.usage] = op.lease]
    /\ op' = IF op.lease.installed THEN InPass ELSE AtPrimary
    /\ UNCHANGED <<now, budget, legacy, shown, primary, invalidating, probing, evidence>>

\* publish_primary_forward, after every deactivation and at the end of a pass:
\* the state is read, then both copies are written.
ReadPrimary ==
    /\ op \in {AtPrimary, InPass}
    /\ op' = [at |-> IF op = AtPrimary THEN "copy" ELSE "last", usage |-> None,
              lease |-> Primary(legacy, legacy)]
    /\ UNCHANGED <<now, budget, legacy, shown, leases, primary, invalidating, probing,
                   evidence>>

\* Planted fault: the primary lease is copied only while there is none.
faulty_publish_primary_forward ==
    /\ op.at \in {"copy", "last"}
    /\ op' = IF op.at = "copy" THEN InPass ELSE Idle
    /\ shown' = op.lease
    /\ primary' = IF primary = Default THEN Primary(legacy, leases) ELSE primary
    /\ UNCHANGED <<now, budget, legacy, leases, invalidating, probing, evidence>>

publish_primary_forward ==
    /\ op.at \in {"copy", "last"}
    /\ op' = IF op.at = "copy" THEN InPass ELSE Idle
    /\ shown' = op.lease
    /\ primary' = Primary(legacy, leases)
    /\ UNCHANGED <<now, budget, legacy, leases, invalidating, probing, evidence>>

\* The target is gone: reconcile_lease_targets removes its deactivated lease.
Remove(u) ==
    /\ Ready /\ legacy[u] = Default /\ Spend
    /\ legacy' = [legacy EXCEPT ![u] = None]
    /\ leases' = [leases EXCEPT ![u] = None]
    /\ op' = InPass
    /\ UNCHANGED <<now, shown, primary, invalidating, probing, evidence>>

\* invalidate_published_forward, of the tunnel monitor and of discovery: first the
\* state, whose leases keep their port, then the snapshot.
InvalidateState ==
    /\ ~invalidating /\ Spend
    /\ invalidating' = TRUE
    /\ legacy' = [u \in Usage |-> IF legacy[u] = None THEN None
                                  ELSE [Default EXCEPT !.port = legacy[u].port]]
    /\ shown' = Default
    /\ UNCHANGED <<now, leases, primary, op, probing, evidence>>

InvalidateSnapshot ==
    /\ invalidating /\ invalidating' = FALSE
    /\ leases' = [u \in Usage |-> IF leases[u] = None THEN None ELSE Default]
    /\ primary' = Default
    /\ evidence' = Nothing
    /\ UNCHANGED <<now, budget, legacy, shown, op, probing>>
----------------------------------------------------------------------------
\* The companion: run_external_checks.

\* extract_port_forward_claim: only an active lease is claimed.
claims == {u \in Usage : legacy[u] # None /\ legacy[u].installed}

\* A state that cannot be read claims nothing.
BeginChecks(ok) ==
    /\ flight = None
    /\ IF ok THEN UNCHANGED budget ELSE Spend
    /\ flight' = [started |-> now, of |-> [u \in {v \in claims : ok} |-> legacy[u]],
                  primary |-> Identity(shown)]
    /\ UNCHANGED <<now, forward, companion, reported, evidence>>

map_external_response(response, claim, started) ==
    LET checks_passed == /\ response.public
                         /\ response.matches # FALSE /\ response.reachable # FALSE
    IN [status |-> IF response.reason = "healthy" /\ checks_passed THEN "healthy"
                   ELSE IF ~checks_passed THEN "degraded" ELSE "unavailable",
        reason |-> response.reason,
        public |-> response.public, matches |-> response.matches,
        reachable |-> response.reachable,
        port |-> claim.port, acquired |-> claim.acquired, started |-> started]

unavailable_external_probe ==
    [status |-> "unavailable", reason |-> "unavailable", public |-> None, matches |-> None,
     reachable |-> None, port |-> None, acquired |-> None, started |-> None]

Good == [reason |-> "healthy", public |-> TRUE, matches |-> TRUE, reachable |-> TRUE]

\* All answers are in (a request that fails or times out reports
\* unavailability).  The port that was granted is reachable unless something
\* fails.
EndChecks ==
    /\ flight # None /\ flight' = None
    /\ \E answers \in [DOMAIN flight.of -> Responses \cup {None}] :
          /\ budget' = budget - Cardinality({u \in DOMAIN answers : answers[u] # Good})
          /\ budget' >= 0
          /\ LET seen == [u \in DOMAIN answers |->
                            IF answers[u] = None THEN unavailable_external_probe
                            ELSE map_external_response(answers[u], flight.of[u], flight.started)]
                 first == {u \in DOMAIN seen : Identity(seen[u]) = flight.primary}
             IN reported' =
                  [each |-> [u \in Usage |-> IF u \in DOMAIN seen THEN seen[u] ELSE None],
                   single |-> IF first = {} THEN None ELSE seen[Min(first)]]
    /\ UNCHANGED <<now, forward, companion, evidence>>

\* The endpoint did not resolve to a public address.
RejectEndpoint ==
    /\ flight = None /\ Spend
    /\ reported' = [each |-> Nothing, single |-> unavailable_external_probe]
    /\ UNCHANGED <<now, forward, companion, flight, evidence>>
----------------------------------------------------------------------------
\* probe.rs

\* All clocks agree, so the time of the answer, which the code tests as well,
\* is fresh whenever the time of the request is.
Fresh(at) == now - at <= Freshness

\* Planted fault: the port alone says which lease an observation is about.
faulty_correlate_port_verification(lease, seen) ==
    IF \/ ~lease.installed \/ seen = None \/ seen.started = None
       \/ seen.port # lease.port
       \/ ~Fresh(seen.started)
    THEN None
    ELSE IF seen.status = "healthy" THEN TRUE
    ELSE IF seen.reason = "port_unreachable" THEN FALSE
    ELSE None

\* Whether an observation verifies (TRUE) or refutes (FALSE) a lease
correlate_port_verification(lease, seen) ==
    IF \/ ~lease.installed \/ seen = None \/ seen.started = None
       \/ Identity(seen) # Identity(lease) \/ seen.started < lease.acquired
       \/ ~Fresh(seen.started)
       \/ seen.public # TRUE \/ seen.matches = FALSE
    THEN None
    ELSE IF seen.status = "healthy" /\ seen.reason = "healthy" /\ seen.reachable = TRUE
    THEN TRUE
    ELSE IF seen.status = "degraded" /\ seen.reason = "port_unreachable" /\ seen.reachable = FALSE
    THEN FALSE
    ELSE None

apply_verification(lease, seen) ==
    [lease EXCEPT !.verified = correlate_port_verification(lease, seen)]

\* The leases, given what was observed of each usage id
Verified(seen) == [u \in Usage |-> IF u \in Known THEN apply_verification(leases[u], seen[u])
                                   ELSE None]
Kept(new, seen) ==
    evidence' = [u \in Usage |-> IF new[u] = None \/ new[u].verified = None THEN None
                                 ELSE IF leases[u].verified = new[u].verified /\ seen[u] = None
                                 THEN evidence[u] ELSE seen[u]]

observe_external_probes ==
    LET new == Verified(reported.each)
        same == {u \in Known : Identity(leases[u]) = Identity(primary)}
    IN /\ leases' = new
       /\ primary' = IF same = {} THEN primary ELSE new[Min(same)]
       /\ Kept(new, reported.each)

\* The one observation is applied to the primary lease and copied to the
\* installed lease it is a copy of.
OnPrimary(lease, seen) ==
    LET same == {u \in Known : Identity(leases[u]) = Identity(primary) /\ leases[u].installed}
        new == IF same = {} THEN leases
               ELSE [leases EXCEPT ![Min(same)].verified = lease.verified]
    IN /\ primary' = lease
       /\ leases' = new
       /\ Kept(new, [u \in Usage |-> IF u \in same /\ u = Min(same) THEN seen ELSE None])

observe_external_probe == OnPrimary(apply_verification(primary, reported.single), reported.single)
observe_external_probe_unavailable == OnPrimary([primary EXCEPT !.verified = None], None)

\* monitor: a poll of the companion, that may fail
Poll(ok) ==
    /\ IF ok THEN UNCHANGED budget ELSE Spend
    /\ IF ok /\ companion = "per usage" THEN observe_external_probes
       ELSE IF ok /\ reported.single # None THEN observe_external_probe
       ELSE observe_external_probe_unavailable
    /\ UNCHANGED <<now, legacy, shown, op, invalidating, probing>>

Tick == now < MaxTime /\ now' = now + 1
        /\ UNCHANGED <<budget, forward, probing, evidence>>

Maintain == \/ Publish \/ ReadPrimary \/ publish_primary_forward
            \/ \E u \in Usage : Regain(u)
Companion == (\E ok \in BOOLEAN : BeginChecks(ok)) \/ EndChecks
Next == \/ Maintain \/ InvalidateState \/ InvalidateSnapshot
        \/ (\E u \in Usage : Renew(u) \/ Deactivate(u) \/ Remove(u))
        \/ Companion \/ RejectEndpoint
        \/ (\E ok \in BOOLEAN : Poll(ok)) \/ Tick

Spec == Init /\ [][Next]_vars

\* The three programs run off intervals that never stop.
FairSpec == /\ Spec /\ WF_vars(Maintain) /\ WF_vars(InvalidateSnapshot)
            /\ WF_vars(Companion) /\ WF_vars(Poll(TRUE))
----------------------------------------------------------------------------
Lease == [port : Port, acquired : 0..MaxTime, installed : {TRUE}, verified : BOOLEAN \cup {None}]
            \cup {Default}
\* Both copies of the leases, the primary lease and what the companion reads have
\* their shapes; a lease that is not installed has no port, time or verification.
TypeOK == /\ now \in 0..MaxTime /\ budget \in 0..MaxEvents
          /\ \A u \in Usage : leases[u] \in Lease \cup {None}
          /\ {shown} \cup ({legacy[u] : u \in Usage} \ {None})
                \subseteq Lease \cup {[Default EXCEPT !.port = p] : p \in Port}
          /\ primary \in Lease /\ invalidating \in BOOLEAN
          /\ companion \in {"per usage", "single"}

\* A published verification rests on an answer about this very lease: the
\* service was asked after the lease was acquired, about its port, and said it
\* could, or could not, connect from a public address.  A renewal that happens
\* while a request, a report or a poll is under way never inherits it.
EvidenceMatches ==
    \A u \in Known : leases[u].verified # None =>
      LET seen == evidence[u]
      IN /\ leases[u].installed /\ seen # None
         /\ Identity(seen) = Identity(leases[u]) /\ seen.started >= leases[u].acquired
         /\ seen.reachable = leases[u].verified
         /\ seen.public /\ seen.matches # FALSE

\* Between two rounds of maintain_port_forward an installed primary lease is a
\* copy, verification included, of the lease the primary usage id holds, with
\* whatever verification was applied since.
PrimaryAgrees ==
    op = Idle /\ primary.installed =>
      \E u \in select_primary_usage_id(legacy) : leases[u] = primary

\* When nothing fails any more, a lease that is held is in the end verified:
\* every lease with a companion that reports per usage id, otherwise the
\* primary one.
VerifiedAtLast ==
    <>[](\A u \in Usage : \/ companion = "single" /\ u \notin select_primary_usage_id(legacy)
                          \/ leases[u] # None /\ leases[u].verified = TRUE)
==============================================================================
