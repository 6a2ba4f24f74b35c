------------------------------ MODULE Discovery ------------------------------
(***************************************************************************)
(* What is made of the containers and pods that are listed: discover and   *)
(* apply_port_forward_constraints in src/src/docker.rs, snapshot_from_pods *)
(* and client_from_pod in src/src/kubernetes.rs.  A workload is a record   *)
(* of its labels and attachments; an id and a usage id are numbers because *)
(* the code orders by them.  networks gives, for every network with an     *)
(* IPv4 gateway, its gw_priority or Unset.                                 *)
(***************************************************************************)
EXTENDS Naturals, FiniteSets

CONSTANTS Unset, MaxLeases, EgressNetwork

is_pod(w) == w.source = "Kubernetes"

\* derive_route_intent: the network Docker declares as the IPv4 default.
\* Network names are numbers, for the tie between equal priorities.
select_default_network(networks) ==
    LET names == DOMAIN networks
    IN IF names = {} THEN Unset
       ELSE IF Cardinality(names) = 1 THEN CHOOSE n \in names : TRUE
       ELSE IF \E n \in names : networks[n] = Unset THEN Unset
       ELSE CHOOSE n \in names :
               \A m \in names : \/ networks[m] < networks[n]
                                \/ networks[m] = networks[n] /\ n <= m

route_intent(w) ==
    LET selected == select_default_network(w.networks)
    IN IF selected = Unset THEN "Unknown"
       ELSE IF selected = EgressNetwork THEN "Verified" ELSE "Mismatch"

\* A running client is compliant when it is attached, its labels are valid and,
\* for a container, Docker does not declare another default network.
Compliant(w) ==
    /\ w.attached
    /\ w.target => w.port # Unset
    /\ is_pod(w) \/ route_intent(w) # "Mismatch"

Colliding(ws, field) == {w \in ws : \E v \in ws \ {w} : v[field] = w[field]}

\* With a container among the colliding clients only the pods lose, otherwise
\* all do.
losing_collision(ws, field) ==
    {w \in Colliding(ws, field) :
        is_pod(w) \/ \A v \in ws : v[field] = w[field] => ~is_pod(v)}

\* The order of lease slots: containers first, then by usage id and id
Before(a, b) == \/ ~is_pod(a) /\ is_pod(b)
                \/ /\ is_pod(a) = is_pod(b)
                   /\ a.usage < b.usage \/ (a.usage = b.usage /\ a.id < b.id)
WithinLeases(ws) == {w \in ws : Cardinality({v \in ws : Before(v, w)}) < MaxLeases}

\* Planted fault: a pod that collides with a container disqualifies it too.
faulty_apply_port_forward_constraints(eligible) ==
    WithinLeases(eligible \ (Colliding(eligible, "port") \cup Colliding(eligible, "usage")))

\* Of the eligible targets: those that keep their eligibility.  Both kinds of
\* collision are looked up before any client loses it.
apply_port_forward_constraints(eligible) ==
    WithinLeases(eligible \ (losing_collision(eligible, "port")
                               \cup losing_collision(eligible, "usage")))

Eligible(ws) == {w \in ws : w.target /\ Compliant(w)}

\* DockerObserver::discover: the containers, constrained among themselves
discover(ws) == apply_port_forward_constraints(Eligible({w \in ws : ~is_pod(w)}))

\* reconcile_docker: the listed pods are added and constrained again
targets(ws) ==
    apply_port_forward_constraints(discover(ws) \cup Eligible({w \in ws : is_pod(w)}))
==============================================================================
