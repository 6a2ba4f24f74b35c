---------------------------- MODULE StatePublisher ----------------------------
(***************************************************************************)
(* The canonical state and its publication: StatePublisher in              *)
(* src/src/control.rs, the transition window and the aggregates in         *)
(* src/src/domain.rs.  Every operation runs under the publisher's mutex,   *)
(* so each is one step.  A check is its status and its reason; timestamps, *)
(* messages and failure counts are abstracted, and so are the parts of the *)
(* snapshot that no check or aggregate reads.                              *)
(***************************************************************************)
EXTENDS Naturals, Sequences, FiniteSets

CONSTANTS Component, Critical,    \* checks, and those with critical impact
          TransitionCapacity,
          NoCheck

ASSUME PublisherAssumption ==
    /\ Critical \subseteq Component /\ TransitionCapacity \in Nat \ {0}

VARIABLES checks, recovering,     \* CanonicalSnapshot.checks, .recovery.active
          aggregate,              \* its protection and availability
          window                  \* the components of its transitions, oldest first

publisher == <<checks, recovering, aggregate, window>>

Status == {"Pending", "Healthy", "Degraded", "Failed", "Unknown"}

\* The index of the oldest entry of the component with the most entries; of
\* several such components, the one that has been in the window longest.
busiest_components_oldest(w) ==
    LET Held(i) == Cardinality({j \in DOMAIN w : w[j] = w[i]})
        Oldest == {i \in DOMAIN w : \A j \in 1 .. i - 1 : w[j] # w[i]}
    IN CHOOSE i \in Oldest :
          \A j \in Oldest : Held(j) < Held(i) \/ (Held(j) = Held(i) /\ i <= j)

\* Planted fault: the oldest entry of all is evicted.
faulty_push_transition(w, id) ==
    Append(IF Len(w) < TransitionCapacity THEN w ELSE Tail(w), id)

push_transition(w, id) ==
    Append(IF Len(w) < TransitionCapacity THEN w
           ELSE LET b == busiest_components_oldest(w)
                IN SubSeq(w, 1, b - 1) \o SubSeq(w, b + 1, Len(w)), id)

derive_aggregate(cs, rec) ==
    LET fw == cs["gateway.firewall"]
        routes == cs["gateway.routes"]
        Known == {id \in Critical : cs[id] # NoCheck}
        Some(statuses) == \E id \in Known : cs[id].status \in statuses
    IN [protection |->
          IF fw # NoCheck /\ routes # NoCheck /\ fw.status = "Healthy" /\ routes.status = "Healthy"
          THEN "Enforced"
          ELSE IF \E c \in {fw, routes} \ {NoCheck} : c.status = "Failed" THEN "Violated"
          ELSE "Unknown",
        availability |->
          IF rec THEN "Recovering"
          ELSE IF Some({"Failed"}) THEN "Unavailable"
          ELSE IF Some({"Degraded", "Unknown"}) THEN "Degraded"
          ELSE IF Some({"Pending"}) THEN "Starting"
          ELSE "Healthy"]

observe(id, status, reason) ==
    LET now == [status |-> status, reason |-> reason]
    IN /\ checks' = [checks EXCEPT ![id] = now]
       /\ window' = IF checks[id] = now THEN window ELSE push_transition(window, id)
       /\ aggregate' = derive_aggregate(checks', recovering)
       /\ UNCHANGED recovering

\* mutate, for the one update the aggregates depend on
mutate(rec) ==
    /\ recovering' = rec
    /\ aggregate' = derive_aggregate(checks, rec)
    /\ UNCHANGED <<checks, window>>

emit(id) ==
    /\ window' = push_transition(window, id)
    /\ UNCHANGED <<checks, recovering, aggregate>>

\* StatePublisher::new, and the observations run() makes before its tasks start
PublisherInit(cs) ==
    /\ checks = cs /\ recovering = FALSE
    /\ aggregate = derive_aggregate(cs, FALSE)
    /\ window = <<>>
==============================================================================
