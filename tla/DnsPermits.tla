----------------------------- MODULE DnsPermits -----------------------------
(***************************************************************************)
(* What admission control promises (QueryPermits of src/src/dns.rs), in    *)
(* terms of the queries alone: a query in progress holds a global permit   *)
(* and, until it leaves UDP or ends, a slot of its client's share.  How    *)
(* the client table finds the limit of the moment is left to DnsForwarder, *)
(* which implements this specification.                                    *)
(***************************************************************************)
EXTENDS Integers, FiniteSets

CONSTANTS Client, Worker,
          GlobalLimit,     \* max_concurrent_queries
          NoClient

VARIABLES ceiling,     \* the bound no client may pass: fixed_per_client, else
                       \* the global limit
          permit,      \* the client whose query holds the worker's permit
          slots        \* the workers that still hold their client's slot

pvars == <<ceiling, permit, slots>>

InProgress == {w \in Worker : permit[w] # NoClient}
SlotsOf(c) == {w \in slots : permit[w] = c}

Init ==
    /\ ceiling \in 1 .. GlobalLimit
    /\ permit = [w \in Worker |-> NoClient]
    /\ slots = {}

\* QueryPermits::try_acquire, when it succeeds
Acquire(w, c) ==
    /\ permit[w] = NoClient
    /\ Cardinality(SlotsOf(c)) < ceiling
    /\ Cardinality(InProgress) < GlobalLimit
    /\ permit' = [permit EXCEPT ![w] = c]
    /\ slots' = slots \cup {w}
    /\ UNCHANGED ceiling

\* ClientSlot::drop on leaving UDP for the TCP fallback
ReleaseSlot(w) ==
    /\ w \in slots
    /\ slots' = slots \ {w}
    /\ UNCHANGED <<ceiling, permit>>

\* The query ends: the permit is dropped, and the slot if it is still held.
Release(w) ==
    /\ permit[w] # NoClient
    /\ permit' = [permit EXCEPT ![w] = NoClient]
    /\ slots' = slots \ {w}
    /\ UNCHANGED ceiling

\* supervise: the listeners failed, their workers are aborted and the permits
\* are made anew.
Restart ==
    /\ permit' = [w \in Worker |-> NoClient]
    /\ slots' = {}
    /\ UNCHANGED ceiling

Next ==
    \/ \E w \in Worker, c \in Client : Acquire(w, c)
    \/ \E w \in Worker : ReleaseSlot(w) \/ Release(w)
    \/ Restart

Spec == Init /\ [][Next]_pvars
------------------------------------------------------------------------------
\* A slot is held only by a query in progress, whose permit names its client.
PermitsType ==
    /\ ceiling \in 1 .. GlobalLimit
    /\ permit \in [Worker -> Client \cup {NoClient}]
    /\ slots \subseteq InProgress

\* Whatever the interleaving of arrivals, fallbacks and ends, no more queries are
\* in progress than the global limit, and no client holds more slots than the
\* ceiling (try_acquire, dns.rs 231-244).
LimitsHold ==
    /\ Cardinality(InProgress) <= GlobalLimit
    /\ \A c \in Client : Cardinality(SlotsOf(c)) <= ceiling
==============================================================================
