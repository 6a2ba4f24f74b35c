--------------------------- MODULE UsageAccounting ---------------------------
(***************************************************************************)
(* How a client's bytes reach the usage history.  Named nftables counters, *)
(* one per container, count on the gateway path; the coordinator           *)
(* (src/src/enforcement.rs) accumulates them across its own table          *)
(* replacements; monitor_client_traffic (src/src/runtime.rs) samples the   *)
(* totals and hands them, with the address in the shared state, to the     *)
(* history writer (src/src/history.rs), which adds to the usage of the     *)
(* container what its baseline has not counted yet.                        *)
(*                                                                         *)
(* One number stands for the four counters of a client, one bucket for all *)
(* of history.  A reconciliation that fails ends the process: Restart.     *)
(***************************************************************************)
EXTENDS Integers

CONSTANTS Container, Address,
          AddressesOf,     \* the addresses a container may be given
          MaxBytes,        \* bound on the bytes one container sends
          NoClient, NoCounter, NoAddress, NoTotal, NoBaseline

ASSUME AddressesAssumption == AddressesOf \in [Container -> SUBSET Address]
ASSUME BoundAssumption == MaxBytes \in Nat
ASSUME NullAssumption ==
    /\ NoAddress \notin Address
    /\ NoTotal \notin Nat
    /\ NoClient \notin [address : Address, total : Nat, last_raw : Nat]
    /\ NoCounter \notin [address : Address, raw : Nat]
    /\ NoBaseline \notin [address : Address, total : Nat]

VARIABLES clients,     \* DesiredPolicy.clients
          kernel,      \* the named counters of the table "inet egressy"
          d_pc, d_addresses,          \* reconcile_docker
          state_address,              \* state.clients, as far as recorded
          m_pc, m_totals,             \* monitor_client_traffic
          baseline, recorded,         \* counter_baselines, usage_buckets
          counted,     \* bytes the kernel has ever counted for a container
          lossless,    \* no counter was lost to a restart, a flush or a removal
          doubtful     \* a dropped commit found a counter that did not hold its total

cvars == <<clients, kernel>>
dvars == <<d_pc, d_addresses, state_address>>
mvars == <<m_pc, m_totals>>
hvars == <<baseline, recorded>>
vars == <<cvars, dvars, mvars, hvars, counted, lossless, doubtful>>

Init ==
    /\ clients = [c \in Container |-> NoClient]
    /\ kernel = [c \in Container |-> NoCounter]
    /\ d_pc = "idle"
    /\ d_addresses = [c \in Container |-> NoAddress]
    /\ state_address = d_addresses
    /\ m_pc = "idle"
    /\ m_totals = [c \in Container |-> NoTotal]
    /\ baseline = [c \in Container |-> NoBaseline]
    /\ recorded = [c \in Container |-> 0]
    /\ counted = [c \in Container |-> 0]
    /\ lossless = TRUE
    /\ doubtful = FALSE
------------------------------------------------------------------------------
(* The coordinator. *)

\* history::monotonic_delta, and the delta of CounterAccumulator::observe: a
\* smaller value than before is a counter that started again.
monotonic_delta(current, previous) ==
    IF current >= previous THEN current - previous ELSE current

\* CounterAccumulator::observe
observe(counters, raw) ==
    [counters EXCEPT !.total = @ + monotonic_delta(raw, counters.last_raw),
                     !.last_raw = raw]

\* Planted fault: the raw value just written to the kernel is not remembered.
FaultySeeded(counters) == counters

\* CounterAccumulator::seeded
seeded(counters) == [counters EXCEPT !.last_raw = counters.total]

\* observe_kernel_locked: counters are matched by container, not by address.
observe_kernel_locked(cs) ==
    [c \in Container |->
        IF cs[c] # NoClient /\ kernel[c] # NoCounter
        THEN observe(cs[c], kernel[c].raw) ELSE cs[c]]

\* sync_clients: a client that moved or went is dropped, a new one starts at 0.
sync_clients(cs, addresses) ==
    [c \in Container |->
        IF addresses[c] = NoAddress THEN NoClient
        ELSE IF cs[c] # NoClient /\ cs[c].address = addresses[c] THEN cs[c]
        ELSE [address |-> addresses[c], total |-> 0, last_raw |-> 0]]

\* Planted fault: the counters are not read before the table is replaced.
FaultyApply(cs, ok) ==
    /\ ok
    /\ kernel' = [c \in Container |->
                    IF cs[c] = NoClient THEN NoCounter
                    ELSE [address |-> cs[c].address, raw |-> cs[c].total]]
    /\ clients' = [c \in Container |-> IF cs[c] = NoClient THEN NoClient ELSE seeded(cs[c])]

\* apply_locked: read the kernel, then replace the table by one whose counters
\* start at the totals.
apply_locked(cs, ok) ==
    LET seen == observe_kernel_locked(cs)
    IN IF ok
       THEN /\ kernel' = [c \in Container |->
                            IF seen[c] = NoClient THEN NoCounter
                            ELSE [address |-> seen[c].address, raw |-> seen[c].total]]
            /\ clients' = [c \in Container |->
                             IF seen[c] = NoClient THEN NoClient ELSE seeded(seen[c])]
       ELSE /\ clients' = seen
            /\ kernel' = kernel

\* Any operation that commits without a new inventory; a failed one is tolerated
\* by the recovery path and by profile application.
Commit ==
    /\ \E ok \in BOOLEAN : apply_locked(clients, ok)
    /\ UNCHANGED <<dvars, mvars, hvars, counted, lossless, doubtful>>

\* The request that commits is dropped with its connection after nft has run:
\* the new table is there, the accumulators are not seeded.  Bound: one such
\* commit over a counter that does not hold its total.
CommitDropped ==
    LET seen == observe_kernel_locked(clients)
    IN /\ ~doubtful
       /\ kernel' = [c \in Container |->
                       IF seen[c] = NoClient THEN NoCounter
                       ELSE [address |-> seen[c].address, raw |-> seen[c].total]]
       /\ clients' = seen
       /\ doubtful' = (\/ doubtful
                       \/ \E c \in Container :
                             seen[c] # NoClient /\ seen[c].last_raw # seen[c].total)
       /\ UNCHANGED <<dvars, mvars, hvars, counted, lossless>>
------------------------------------------------------------------------------
(* reconcile_docker *)

Discoveries ==
    {f \in [Container -> Address \cup {NoAddress}] :
        /\ \A c \in Container : f[c] \in AddressesOf[c] \cup {NoAddress}
        /\ \A c, d \in Container : f[c] = f[d] /\ f[c] # NoAddress => c = d}

\* reconcile_clients; a client that goes takes its unsampled bytes with it.
ReconcileClients ==
    /\ d_pc = "idle"
    /\ \E addresses \in Discoveries :
          /\ d_addresses' = addresses
          /\ apply_locked(sync_clients(observe_kernel_locked(clients), addresses), TRUE)
          /\ lossless' = (/\ lossless
                          /\ \A c \in Container :
                                clients[c] # NoClient => clients[c].address = addresses[c])
    /\ d_pc' = "write"
    /\ UNCHANGED <<state_address, mvars, hvars, counted, doubtful>>

WriteClients ==
    /\ d_pc = "write"
    /\ state_address' = d_addresses
    /\ d_pc' = "idle"
    /\ UNCHANGED <<cvars, d_addresses, mvars, hvars, counted, lossless, doubtful>>
------------------------------------------------------------------------------
(* monitor_client_traffic and the history writer *)

\* sample_client_counters
Sample ==
    /\ m_pc = "idle"
    /\ clients' = observe_kernel_locked(clients)
    /\ m_totals' = [c \in Container |->
                      IF clients'[c] = NoClient THEN NoTotal ELSE clients'[c].total]
    /\ m_pc' = "record"
    /\ UNCHANGED <<kernel, dvars, hvars, counted, lossless, doubtful>>

same_incarnation(c) ==
    baseline[c] # NoBaseline /\ baseline[c].address = state_address[c]

\* What write_usage adds to the bucket.
UsageDelta(c) ==
    IF same_incarnation(c) THEN monotonic_delta(m_totals[c], baseline[c].total)
    ELSE m_totals[c]

\* The loop over the sampled clients that the shared state still has.  The
\* bounded queue of the writer may drop any of the observations; write_usage
\* moves the baseline and the bucket in one transaction.
Record ==
    /\ m_pc = "record"
    /\ \E dropped \in SUBSET Container :
          LET written == {c \in Container \ dropped :
                             m_totals[c] # NoTotal /\ state_address[c] # NoAddress}
          IN /\ recorded' = [c \in Container |->
                               IF c \in written THEN recorded[c] + UsageDelta(c)
                               ELSE recorded[c]]
             /\ baseline' = [c \in Container |->
                               IF c \in written
                               THEN [address |-> state_address[c], total |-> m_totals[c]]
                               ELSE baseline[c]]
    /\ m_pc' = "idle"
    /\ m_totals' = [c \in Container |-> NoTotal]
    /\ UNCHANGED <<cvars, dvars, counted, lossless, doubtful>>
------------------------------------------------------------------------------
(* The kernel and the process. *)

Traffic ==
    \E c \in Container :
       /\ kernel[c] # NoCounter
       /\ counted[c] < MaxBytes
       /\ kernel' = [kernel EXCEPT ![c].raw = @ + 1]
       /\ counted' = [counted EXCEPT ![c] = @ + 1]
       /\ UNCHANGED <<clients, dvars, mvars, hvars, lossless, doubtful>>

\* The table is removed, or its counters are zeroed, by somebody else.
Flush ==
    /\ kernel' = [c \in Container |-> NoCounter]
    /\ lossless' = FALSE
    /\ UNCHANGED <<clients, dvars, mvars, hvars, counted, doubtful>>

Reset ==
    /\ kernel' = [c \in Container |->
                    IF kernel[c] = NoCounter THEN NoCounter ELSE [kernel[c] EXCEPT !.raw = 0]]
    /\ lossless' = FALSE
    /\ UNCHANGED <<clients, dvars, mvars, hvars, counted, doubtful>>

\* Only the database survives a restart of the gateway container.
Restart ==
    /\ clients' = [c \in Container |-> NoClient]
    /\ kernel' = [c \in Container |-> NoCounter]
    /\ d_pc' = "idle"
    /\ d_addresses' = [c \in Container |-> NoAddress]
    /\ state_address' = d_addresses'
    /\ m_pc' = "idle"
    /\ m_totals' = [c \in Container |-> NoTotal]
    /\ lossless' = FALSE
    /\ UNCHANGED <<hvars, counted, doubtful>>

Next ==
    \/ Commit \/ CommitDropped
    \/ ReconcileClients \/ WriteClients
    \/ Sample \/ Record
    \/ Traffic \/ Flush \/ Reset \/ Restart

Spec == Init /\ [][Next]_vars
------------------------------------------------------------------------------
Counters == [address : Address, total : Nat, last_raw : Nat]

\* Every variable has the shape of the coordinator, kernel and database fields.
TypeOK ==
    /\ clients \in [Container -> Counters \cup {NoClient}]
    /\ kernel \in [Container -> [address : Address, raw : Nat] \cup {NoCounter}]
    /\ d_pc \in {"idle", "write"}
    /\ d_addresses \in [Container -> Address \cup {NoAddress}]
    /\ state_address \in [Container -> Address \cup {NoAddress}]
    /\ m_pc \in {"idle", "record"}
    /\ m_totals \in [Container -> Nat \cup {NoTotal}]
    /\ baseline \in [Container -> [address : Address, total : Nat] \cup {NoBaseline}]
    /\ recorded \in [Container -> Nat]
    /\ counted \in [Container -> Nat]
    /\ lossless \in BOOLEAN /\ doubtful \in BOOLEAN

\* History never shows more bytes for a container than the kernel counted:
\* restarts, flushed tables, removed clients, failed and dropped commits, dropped
\* writes and samples that are recorded late do not make bytes count twice.  One
\* combination does, and is excepted: a commit that is dropped while a counter
\* holds less than its total, because somebody zeroed it.
NeverOvercounts == ~doubtful => \A c \in Container : recorded[c] <= counted[c]

\* As long as no counter was lost, the coordinator can account for every byte
\* and history holds exactly what its baseline says: table replacements, failed
\* commits and dropped observations lose nothing.
NothingLost ==
    lossless =>
       \A c \in Container :
          /\ clients[c] # NoClient => observe_kernel_locked(clients)[c].total = counted[c]
          /\ recorded[c] = IF baseline[c] = NoBaseline THEN 0 ELSE baseline[c].total

\* Totals are "reset when a container is removed or changes address"
\* (docs/API.md:83): a client that moved starts again from zero.
MovedClientStartsAtZero ==
    [][\A c \in Container :
         /\ clients[c] # NoClient /\ clients'[c] # NoClient
         /\ clients'[c].address # clients[c].address
         => clients'[c].total = 0]_vars
==============================================================================
