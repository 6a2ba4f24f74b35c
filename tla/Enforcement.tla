----------------------------- MODULE Enforcement -----------------------------
(***************************************************************************)
(* The enforcement coordinator of src/src/enforcement.rs: the one owner of *)
(* the nftables table "inet egressy".  Every public operation takes the    *)
(* policy mutex, edits the desired policy and commits it in one nft        *)
(* transaction before the mutex is released, so each operation is one      *)
(* action here.  An operation that runs nft has a result parameter ok:     *)
(* FALSE is a failed spawn, read or commit.                                *)
(*                                                                         *)
(* Abstracted: the client counters (module UsageAccounting), the rendered  *)
(* rules other than the DNAT rules.                                        *)
(***************************************************************************)
CONSTANTS Usage,                 \* usage identities (lease keys)
          Container, Address,    \* enrolled containers and their IPv4 addresses
          Port,                  \* target ports and tunnel-side lease ports
          Inventories,           \* client maps that discovery may report
          ApplyGatewayFirewall,  \* config.reconcile.apply_gateway_firewall
          NoClient, NoTarget, NoPort, NoDnat

VARIABLES dnat_allowed, dnat_targets, desired_dnat, applied_dnat,
          table_present,         \* the kernel has the table "inet egressy"
          kernel_dnat,           \* the DNAT rules in it, by usage identity
          settled                \* the last nft commit attempted returned Ok

vars == <<dnat_allowed, dnat_targets, desired_dnat, applied_dnat,
          table_present, kernel_dnat, settled>>

Target == [container : Container, address : Address, port : Port]

Dnat == [lease : Port, address : Address, port : Port]

Client == [usage_id : Usage, ipv4_address : Address,
           target_port : Port \cup {NoPort},
           port_forward_target : BOOLEAN, compliant : BOOLEAN]

\* Clients that select_dnat_targets keeps: compliant forwarding targets with a
\* port.
Eligible(inv, c) ==
    /\ inv[c] # NoClient
    /\ inv[c].port_forward_target
    /\ inv[c].compliant
    /\ inv[c].target_port # NoPort

\* Discovery reports every client once, and no two eligible clients with one
\* usage identity (docker::apply_port_forward_constraints, applied before every
\* call of reconcile_clients).
ASSUME InventoriesAssumption ==
    /\ Inventories \subseteq [Container -> Client \cup {NoClient}]
    /\ \A inv \in Inventories : \A c, d \in Container :
          Eligible(inv, c) /\ Eligible(inv, d) /\ inv[c].usage_id = inv[d].usage_id
             => c = d

ASSUME ConfigAssumption == ApplyGatewayFirewall \in BOOLEAN

ASSUME NullAssumption ==
    /\ NoClient \notin Client
    /\ NoTarget \notin Target
    /\ NoPort \notin Port
    /\ NoDnat \notin Dnat

NoForwards == [u \in Usage |-> NoDnat]

\* runtime::tunnel_dnat: match the tunnel-side port of the NAT-PMP answer, send
\* to the target.
tunnel_dnat(lease, target) ==
    [lease |-> lease, address |-> target.address, port |-> target.port]

DnatTarget(inv, c) ==
    [container |-> c, address |-> inv[c].ipv4_address, port |-> inv[c].target_port]

select_dnat_targets(inv) ==
    [u \in Usage |->
        IF \E c \in Container : Eligible(inv, c) /\ inv[c].usage_id = u
        THEN DnatTarget(inv, CHOOSE c \in Container :
                                 Eligible(inv, c) /\ inv[c].usage_id = u)
        ELSE NoTarget]

Init ==
    /\ dnat_allowed = FALSE
    /\ dnat_targets = [u \in Usage |-> NoTarget]
    /\ desired_dnat = NoForwards
    /\ applied_dnat = NoForwards
    /\ table_present = FALSE
    /\ kernel_dnat = NoForwards
    /\ settled = TRUE

\* Commit the DNAT map d: delete the table if it is there and create it anew,
\* in one transaction.  A failed commit changes neither the kernel nor
\* applied_dnat.  Without apply_gateway_firewall nothing is done.
apply_locked(d, ok) ==
    IF ApplyGatewayFirewall
    THEN /\ settled' = ok
         /\ applied_dnat' = IF ok THEN d ELSE applied_dnat
         /\ table_present' = (ok \/ table_present)
         /\ kernel_dnat' = IF ok THEN d ELSE kernel_dnat
    ELSE /\ ok
         /\ UNCHANGED <<applied_dnat, table_present, kernel_dnat, settled>>

reconcile_base(ok) ==
    /\ apply_locked(desired_dnat, ok)
    /\ UNCHANGED <<dnat_allowed, dnat_targets, desired_dnat>>

\* reconcile_base is also awaited inside an HTTP handler, which is dropped when
\* its client goes away: nft may have committed while applied_dnat was not yet
\* assigned.
reconcile_base_cancelled ==
    /\ ApplyGatewayFirewall
    /\ table_present' = TRUE
    /\ kernel_dnat' = desired_dnat
    /\ settled' = FALSE
    /\ UNCHANGED <<dnat_allowed, dnat_targets, desired_dnat, applied_dnat>>

enable_dnat ==
    /\ dnat_allowed' = TRUE
    /\ UNCHANGED <<dnat_targets, desired_dnat, applied_dnat, table_present,
                   kernel_dnat, settled>>

\* Planted fault: DNAT is disallowed, what was installed stays desired.
FaultyDisable(ok) ==
    /\ dnat_allowed' = FALSE
    /\ apply_locked(desired_dnat, ok)
    /\ UNCHANGED <<dnat_targets, desired_dnat>>

disable_dnat(ok) ==
    /\ dnat_allowed' = FALSE
    /\ desired_dnat' = NoForwards
    /\ apply_locked(NoForwards, ok)
    /\ UNCHANGED dnat_targets

\* Planted fault: the target the lease was requested for is not compared.
FaultySetRefused(u, target) == ~dnat_allowed

\* The early return of set_dnat_for_target: Ok(false), nothing changes.
SetRefused(u, target) == ~dnat_allowed \/ dnat_targets[u] # target

set_dnat_for_target(u, dnat, target, ok) ==
    /\ ~SetRefused(u, target)
    /\ desired_dnat' = [desired_dnat EXCEPT ![u] = dnat]
    /\ apply_locked(desired_dnat', ok)
    /\ UNCHANGED <<dnat_allowed, dnat_targets>>

clear_dnat_for_usage(u, ok) ==
    /\ desired_dnat' = [desired_dnat EXCEPT ![u] = NoDnat]
    /\ apply_locked(desired_dnat', ok)
    /\ UNCHANGED <<dnat_allowed, dnat_targets>>

dnat_is_applied(u, dnat) == applied_dnat[u] = dnat

\* When the first counter read of reconcile_clients fails nothing has been edited
\* yet and the call is a stuttering step; ok = FALSE is a later failure.
reconcile_clients(inv, ok) ==
    /\ dnat_targets' = select_dnat_targets(inv)
    /\ desired_dnat' = [u \in Usage |->
                           IF dnat_targets[u] = dnat_targets'[u]
                           THEN desired_dnat[u] ELSE NoDnat]
    /\ apply_locked(desired_dnat', ok)
    /\ UNCHANGED dnat_allowed

\* Somebody else removes the table (nft flush ruleset).
ExternalFlush ==
    /\ table_present
    /\ table_present' = FALSE
    /\ kernel_dnat' = NoForwards
    /\ UNCHANGED <<dnat_allowed, dnat_targets, desired_dnat, applied_dnat, settled>>

Next ==
    \/ \E ok \in BOOLEAN : reconcile_base(ok)
    \/ reconcile_base_cancelled
    \/ enable_dnat
    \/ \E ok \in BOOLEAN : disable_dnat(ok)
    \/ \E u \in Usage, target \in Target, dnat \in Dnat, ok \in BOOLEAN :
          /\ dnat = tunnel_dnat(dnat.lease, target)
          /\ set_dnat_for_target(u, dnat, target, ok)
    \/ \E u \in Usage, ok \in BOOLEAN : clear_dnat_for_usage(u, ok)
    \/ \E inv \in Inventories, ok \in BOOLEAN : reconcile_clients(inv, ok)
    \/ ExternalFlush

Spec == Init /\ [][Next]_vars
------------------------------------------------------------------------------
ForwardMap == [Usage -> Dnat \cup {NoDnat}]

\* Every variable has the shape the coordinator's fields and the kernel have.
TypeOK ==
    /\ dnat_allowed \in BOOLEAN
    /\ dnat_targets \in [Usage -> Target \cup {NoTarget}]
    /\ desired_dnat \in ForwardMap
    /\ applied_dnat \in ForwardMap
    /\ table_present \in BOOLEAN
    /\ kernel_dnat \in ForwardMap
    /\ settled \in BOOLEAN

\* The DNAT map m forwards only where the policy permits: nothing while DNAT is
\* disabled, and for each usage identity only to its current target.
Owned(allowed, targets, m) ==
    \A u \in Usage : m[u] # NoDnat =>
        /\ allowed
        /\ targets[u] # NoTarget
        /\ m[u].address = targets[u].address
        /\ m[u].port = targets[u].port

\* What the coordinator will commit next is owned: no sequence of tunnel losses,
\* client changes and failed commits leaves a forward to a lost target desired.
DesiredOwned == Owned(dnat_allowed, dnat_targets, desired_dnat)

\* After a commit that returned Ok, the kernel, the applied map and the desired
\* map agree (unless somebody removed the table).
SettledKernel ==
    settled => /\ ApplyGatewayFirewall => applied_dnat = desired_dnat
               /\ table_present => kernel_dnat = desired_dnat

\* Once the last commit returned Ok, the kernel forwards only to the current
\* target of a usage identity and only while the tunnel monitor allows DNAT.
KernelOwned == settled => Owned(dnat_allowed, dnat_targets, kernel_dnat)

\* A step that puts a forward into the kernel, or changes one, puts an owned one
\* there: a failed removal followed by any other operation never re-installs a
\* forward to a lost target or across a tunnel loss.
InstallsOwned ==
    [][\A u \in Usage :
         kernel_dnat'[u] \notin {NoDnat, kernel_dnat[u]} =>
            /\ dnat_allowed'
            /\ dnat_targets'[u] # NoTarget
            /\ kernel_dnat'[u].address = dnat_targets'[u].address
            /\ kernel_dnat'[u].port = dnat_targets'[u].port]_vars
==============================================================================
