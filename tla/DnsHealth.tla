------------------------------ MODULE DnsHealth ------------------------------
(***************************************************************************)
(* The debounced verdict on DNS resolution and its publication:            *)
(* DnsHealthState and observe_resolution_health in src/src/dns.rs, on top  *)
(* of the publisher.  A query task folds its outcome into the verdict      *)
(* under the lock and publishes after the lock is released, so verdicts of *)
(* two tasks may be published in the other order.  Instants are ages in    *)
(* ticks, capped where the code stops telling them apart; the consecutive  *)
(* counters are capped at their thresholds.                                *)
(***************************************************************************)
EXTENDS StatePublisher

CONSTANTS QueryTask,
          FailureThreshold, SuccessThreshold,
          RecoveryWindow, RecoveryMinSamples, RecoveryFailureRatio,
          DegradedDwell, RepublishInterval,
          NoVerdict

ASSUME HealthAssumption ==
    /\ {FailureThreshold, SuccessThreshold, RecoveryFailureRatio} \subseteq Nat \ {0}
    /\ {RecoveryWindow, RecoveryMinSamples, DegradedDwell, RepublishInterval} \subseteq Nat
    /\ RecoveryMinSamples <= RecoveryWindow /\ SuccessThreshold <= RecoveryWindow
    /\ {"dns.upstream_udp", "vpn_server.endpoint"} \subseteq Component

VARIABLES status, cause,                        \* the debounced verdict
          failures, successes,                  \* consecutive outcomes
          recent,                               \* which of the latest failed, newest first
          degraded_age, published_age,          \* ticks since degraded_since, published_at
          pending,                              \* verdicts not published yet, by task
          trend                                 \* what the resolver does from now on

health == <<status, cause, failures, successes, recent, degraded_age, published_age>>
health_vars == <<publisher, health, pending, trend>>

Failure == {"Upstream", "Admission"}
NoFailure == "none"
Verdict == [status : {"Healthy", "Degraded"}, cause : Failure \cup {NoFailure}]
Dns == "dns.upstream_udp"
OtherChecks == Critical \ {Dns}
Least(a, b) == IF a < b THEN a ELSE b

HealthInit ==
    /\ PublisherInit([id \in Component |-> NoCheck])
    /\ status = "Unknown" /\ cause = NoFailure
    /\ failures = 0 /\ successes = 0 /\ recent = <<>>
    /\ degraded_age = 0 /\ published_age = RepublishInterval
    /\ pending = [w \in QueryTask |-> NoVerdict]
    /\ trend = "any"
----------------------------------------------------------------------------
\* DnsHealthState, on the outcomes r that include the one being recorded

trouble_has_passed(r) ==
    LET bad == Cardinality({i \in DOMAIN r : r[i]})
    IN Len(r) >= RecoveryMinSamples /\ bad * RecoveryFailureRatio <= Len(r)

enter(w, st, why) ==
    /\ status' = st /\ cause' = why
    /\ degraded_age' = 0 /\ published_age' = 0
    /\ pending' = [pending EXCEPT ![w] = [status |-> st, cause |-> why]]

\* Planted fault: only changes of the verdict are published.
faulty_reaffirm(w) == UNCHANGED <<published_age, pending, status, cause, degraded_age>>

reaffirm(w) ==
    /\ IF status = "Unknown" \/ published_age < RepublishInterval
       THEN UNCHANGED <<published_age, pending>>
       ELSE /\ published_age' = 0
            /\ pending' = [pending EXCEPT ![w] = [status |-> status, cause |-> cause]]
    /\ UNCHANGED <<status, cause, degraded_age>>

Remember(failed) ==
    recent' = SubSeq(<<failed>> \o recent, 1, Least(Len(recent) + 1, RecoveryWindow))

RecordSuccess(w) ==
    /\ Remember(FALSE)
    /\ failures' = 0 /\ successes' = Least(successes + 1, SuccessThreshold)
    /\ IF \/ status = "Unknown"
          \/ /\ status = "Degraded" /\ successes' >= SuccessThreshold
             /\ trouble_has_passed(recent') /\ degraded_age >= DegradedDwell
       THEN enter(w, "Healthy", NoFailure)
       ELSE reaffirm(w)

RecordFailure(w, why) ==
    /\ Remember(TRUE)
    /\ successes' = 0 /\ failures' = Least(failures + 1, FailureThreshold)
    /\ IF status \in {"Unknown", "Healthy"} /\ failures' >= FailureThreshold
       THEN enter(w, "Degraded", why)
       ELSE reaffirm(w)
----------------------------------------------------------------------------
\* observe_resolution_health: the part under the lock, then the publication

Record(w) ==
    /\ pending[w] = NoVerdict
    /\ \/ trend # "failing" /\ RecordSuccess(w)
       \/ trend # "answering" /\ \E why \in Failure : RecordFailure(w, why)
    /\ UNCHANGED <<publisher, trend>>

PublishVerdict(w) ==
    /\ pending[w] # NoVerdict
    /\ observe(Dns, pending[w].status, pending[w].cause)
    /\ pending' = [pending EXCEPT ![w] = NoVerdict]
    /\ UNCHANGED <<health, trend>>

HealthTick ==
    /\ degraded_age' = IF status = "Degraded" THEN Least(degraded_age + 1, DegradedDwell) ELSE 0
    /\ published_age' = Least(published_age + 1, RepublishInterval)
    /\ UNCHANGED <<publisher, status, cause, failures, successes, recent, pending, trend>>

\* The monitors that share the publisher, and its other two operations
Observe ==
    /\ \E id \in OtherChecks, st \in {"Healthy", "Failed"} : observe(id, st, st)
    /\ UNCHANGED <<health, pending, trend>>

Recovery == mutate(~recovering) /\ UNCHANGED <<health, pending, trend>>

Event == emit("vpn_server.endpoint") /\ UNCHANGED <<health, pending, trend>>

\* From some time on every query fails, or every query is answered.
Settle ==
    /\ trend = "any" /\ trend' \in {"failing", "answering"}
    /\ UNCHANGED <<publisher, health, pending>>

Queries == \E w \in QueryTask : Record(w)
Publication == \E w \in QueryTask : PublishVerdict(w)
Monitors == Observe \/ Recovery \/ Event

HealthNext == HealthTick \/ Queries \/ Publication \/ Monitors \/ Settle

HealthSpec == HealthInit /\ [][HealthNext]_health_vars

\* Queries keep coming, time passes and every task runs on.
Fairness ==
    /\ WF_health_vars(Queries) /\ WF_health_vars(HealthTick)
    /\ \A w \in QueryTask : WF_health_vars(PublishVerdict(w))
HealthFairSpec == HealthSpec /\ Fairness
----------------------------------------------------------------------------
Reason == Failure \cup {NoFailure, "Healthy", "Failed"}

\* Checks, window and verdict have their shapes, and a cause is kept exactly while
\* the verdict is Degraded.
HealthTypeOK ==
    /\ checks \in [Component -> [status : Status, reason : Reason] \cup {NoCheck}]
    /\ recovering \in BOOLEAN /\ window \in Seq(Component) /\ Len(window) <= TransitionCapacity
    /\ status \in {"Unknown", "Healthy", "Degraded"} /\ cause \in Failure \cup {NoFailure}
    /\ failures \in 0 .. FailureThreshold /\ successes \in 0 .. SuccessThreshold
    /\ Len(recent) <= RecoveryWindow
    /\ degraded_age \in 0 .. DegradedDwell /\ published_age \in 0 .. RepublishInterval
    /\ pending \in [QueryTask -> Verdict \cup {NoVerdict}]
    /\ trend \in {"any", "failing", "answering"}
    /\ cause # NoFailure <=> status = "Degraded"

EntriesOf(w, id) == Cardinality({i \in DOMAIN w : w[i] = id})

\* push_transition: a component that changes often cannot push the entries of
\* a quiet one out of the window.  An entry leaves only when the window is
\* full and no component has more entries than its own.
QuietSurvives ==
    [][\A id \in Component :
          EntriesOf(window', id) < EntriesOf(window, id)
            => /\ Len(window) = TransitionCapacity
               /\ \A other \in Component : EntriesOf(window, other) <= EntriesOf(window, id)]_window

\* record, trouble_has_passed and reaffirm: when every query fails from some time
\* on, the check ends Degraded, and when every query is answered it ends Healthy,
\* whatever order the tasks publish their verdicts in.
VerdictSettles ==
    \A end \in {<<"failing", "Degraded">>, <<"answering", "Healthy">>} :
        <>(trend = end[1]) => <>[](checks[Dns] # NoCheck /\ checks[Dns].status = end[2])
==============================================================================
