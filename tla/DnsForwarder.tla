---------------------------- MODULE DnsForwarder ----------------------------
(***************************************************************************)
(* The DNS forwarder (src/src/dns.rs) with its admission control and its   *)
(* response cache.  serve_udp and serve_tcp run in one task (try_join!),   *)
(* so one query is admitted at a time, but the workers they spawn run on   *)
(* other threads: a worker may give its slot or permit back between the    *)
(* two halves of try_acquire, and the resolver may change (the profile     *)
(* manager publishes another) while a worker waits for the old one.        *)
(*                                                                         *)
(* A slot points to the counter its client had when it was admitted, so a  *)
(* counter is identified by its client and a generation, and its value is  *)
(* the number of workers that hold it.                                     *)
(***************************************************************************)
EXTENDS DnsCache

CONSTANTS Client, Worker,
          GlobalLimit, MinShare, ReserveDivisor, MaxTracked,
          FixedLimits,       \* settings to consider: limits or NoLimit
          UdpAttempts,
          Malformed,         \* queries shorter than a DNS header
          LocalNames,        \* queries for a container name
          Responses,         \* what a resolver may answer
          NoLimit, NoClient, NoUpstream, NoAdmission, NoQuery, NoSlot,
          Free, Untracked

ASSUME NumbersAssumption ==
    /\ GlobalLimit \in Nat \ {0} /\ MinShare \in Nat \ {0}
    /\ ReserveDivisor \in Nat \ {0} /\ MaxTracked \in Nat
    /\ UdpAttempts \in Nat \ {0}
    /\ FixedLimits \subseteq (Nat \ {0}) \cup {NoLimit}
    /\ NoLimit \notin Nat
ASSUME ResponsesAssumption == Responses \subseteq Response
ASSUME NamesAssumption == LocalNames \subseteq Single /\ Malformed \subseteq Query

VARIABLES fixed,         \* fixed_per_client
          loads,         \* ClientTable.loads: the generation of the counter
          idle,          \* clients last seen CLIENT_IDLE_AFTER ago or earlier
          listener,      \* the query being admitted
          workers,       \* the spawned workers
          upstream,      \* the resolver, from the profile manager
          local_names,   \* the container names, from discovery
          cache

pvars == <<fixed, loads, idle, listener, workers>>
svars == <<upstream, local_names>>
vars == <<pvars, svars, cache>>

Generation == 0 .. Cardinality(Worker)

\* A spawned worker: the client it serves and how far its query has come
Job == [client : Client, query : Query \cup {NoQuery},
        phase : {"read", "start", "udp", "tcp"}, attempt : 1 .. UdpAttempts,
        upstream : Upstream \cup {NoUpstream}, slot : Generation \cup {NoSlot}]

\* A query between the halves of try_acquire
Admission == [client : Client, query : Query \cup {NoQuery}, counter : Generation,
              limit : 1 .. GlobalLimit]

ASSUME FiniteAssumption == IsFiniteSet(Worker) /\ IsFiniteSet(Client)
ASSUME NullAssumption ==
    /\ NoClient \notin Client /\ Free \notin Job
    /\ NoSlot \notin Generation /\ Untracked \notin Generation

Busy == {w \in Worker : workers[w] # Free}
Available == GlobalLimit - Cardinality(Busy)
Holders(c, g) == {w \in Busy : workers[w].client = c /\ workers[w].slot = g}
InFlight(c) == Cardinality(Holders(c, loads[c]))
Tracked(table) == {c \in Client : table[c] # Untracked}

Init ==
    /\ fixed \in {IF l = NoLimit THEN l ELSE Min({l, GlobalLimit}) : l \in FixedLimits}
    /\ loads = [c \in Client |-> Untracked]
    /\ idle = {}
    /\ listener = NoAdmission
    /\ workers = [w \in Worker |-> Free]
    /\ upstream \in Upstream \cup {NoUpstream}
    /\ local_names = {}
    /\ cache = NoEntries
------------------------------------------------------------------------------
(* Admission. *)

\* Planted fault: a client may be forgotten while its queries are in flight.
faulty_prune(sweep) ==
    [c \in Client |-> IF sweep /\ c \in idle THEN Untracked ELSE loads[c]]

\* prune: at most once a second, or when the table is over capacity
prune(sweep) ==
    LET over_capacity == Cardinality(Tracked(loads)) > MaxTracked
    IN [c \in Client |->
          IF /\ over_capacity \/ sweep
             /\ InFlight(c) = 0
             /\ over_capacity \/ c \in idle
          THEN Untracked ELSE loads[c]]

\* A counter no slot of the client points to
Fresh(c) == CHOOSE g \in Generation : Holders(c, g) = {}

\* QueryPermits::limit_for: an even share, floored and capped
limit_for(active) ==
    IF fixed # NoLimit THEN fixed
    ELSE Min({Max({GlobalLimit \div active, Min({MinShare, GlobalLimit})}), GlobalLimit})

BorrowReserve == Max({GlobalLimit \div ReserveDivisor, 1})

\* QueryPermits::admission_limit: above the reserve, idle capacity may be borrowed
admission_limit(active) ==
    IF fixed = NoLimit /\ Available > BorrowReserve THEN GlobalLimit
    ELSE limit_for(active)

\* try_acquire, first half: client_share under the table's lock, and the limit
client_share(c, q) ==
    \E sweep \in BOOLEAN :
      LET pruned == prune(sweep)
          table == [pruned EXCEPT ![c] = IF @ = Untracked THEN Fresh(c) ELSE @]
      IN /\ loads' = table
         /\ idle' = idle \ {c}
         /\ listener' = [client |-> c, query |-> q, counter |-> table[c],
                         limit |-> admission_limit(Cardinality(Tracked(table)))]

\* try_acquire, second half: claim a slot, then a global permit.  A refused UDP
\* client is answered REFUSED, a refused TCP client by a worker without a permit.
ClientLimitReached ==
    Cardinality(Holders(listener.client, listener.counter)) >= listener.limit

Refuse ==
    /\ listener # NoAdmission
    /\ ClientLimitReached \/ Available <= 0
    /\ listener' = NoAdmission
    /\ UNCHANGED <<fixed, loads, idle, workers, svars, cache>>

\* Planted fault: the client's slot is claimed without looking at its limit.
FaultyAdmit(w) ==
    /\ listener # NoAdmission
    /\ workers[w] = Free
    /\ Available > 0
    /\ workers' = [workers EXCEPT ![w] =
          [client |-> listener.client, query |-> listener.query,
           phase |-> IF listener.query = NoQuery THEN "read" ELSE "start",
           attempt |-> 1, upstream |-> NoUpstream, slot |-> listener.counter]]
    /\ listener' = NoAdmission
    /\ UNCHANGED <<fixed, loads, idle, svars, cache>>

Admit(w) ==
    /\ listener # NoAdmission
    /\ workers[w] = Free
    /\ ~ClientLimitReached
    /\ Available > 0
    /\ workers' = [workers EXCEPT ![w] =
          [client |-> listener.client, query |-> listener.query,
           phase |-> IF listener.query = NoQuery THEN "read" ELSE "start",
           attempt |-> 1, upstream |-> NoUpstream, slot |-> listener.counter]]
    /\ listener' = NoAdmission
    /\ UNCHANGED <<fixed, loads, idle, svars, cache>>
------------------------------------------------------------------------------
(* Answers that need no resolver, before admission on UDP. *)

\* local_zone::answer: one question, whose name is a single label that discovery
\* has sent as the name of a running container
local_zone_answer(q, names) == q \in Single /\ q \in names

local_answer(q) == local_zone_answer(q, local_names)

\* cached_answer
cached_answer(q) == upstream # NoUpstream /\ Hit(cache, q, upstream)

Unforwarded(q) == local_answer(q) \/ cached_answer(q)

Looked(q) ==
    cache' = IF upstream = NoUpstream THEN cache ELSE AfterLookup(cache, q, upstream)

\* serve_udp, to the first half of try_acquire.  A query that is answered without
\* forwarding changes nothing.
UdpQuery(c, q) ==
    /\ listener = NoAdmission
    /\ ~Unforwarded(q)
    /\ client_share(c, q)
    /\ Looked(q)
    /\ UNCHANGED <<fixed, workers, svars>>

\* serve_tcp: a connection is admitted before its query has been read
TcpAccept(c) ==
    /\ listener = NoAdmission
    /\ client_share(c, NoQuery)
    /\ UNCHANGED <<fixed, workers, svars, cache>>
------------------------------------------------------------------------------
(* The workers. *)

Goes(w, record) == workers' = [workers EXCEPT ![w] = record]

\* The worker ends: its permit and what is left of its slot are dropped.
Ends(w) == Goes(w, Free)

\* handle_tcp_client: the query is read, and answered locally, from the cache or
\* by forward_over_tcp.
TcpRead(w, q) ==
    /\ workers[w] # Free /\ workers[w].phase = "read"
    /\ IF Unforwarded(q) THEN Ends(w) /\ UNCHANGED cache
       ELSE /\ Looked(q)
            /\ IF upstream = NoUpstream \/ q \in Malformed THEN Ends(w)
               ELSE Goes(w, [workers[w] EXCEPT !.query = q, !.phase = "tcp",
                                               !.upstream = upstream])
    /\ UNCHANGED <<fixed, loads, idle, listener, svars>>

TcpReadFails(w) ==
    /\ workers[w] # Free /\ workers[w].phase = "read"
    /\ Ends(w)
    /\ UNCHANGED <<fixed, loads, idle, listener, svars, cache>>

\* The UDP worker reads the resolver; without one, or for a query that is no DNS
\* message (validate_dns_message), it answers SERVFAIL.
Start(w) ==
    /\ workers[w] # Free /\ workers[w].phase = "start"
    /\ IF upstream = NoUpstream \/ workers[w].query \in Malformed THEN Ends(w)
       ELSE Goes(w, [workers[w] EXCEPT !.phase = "udp", !.upstream = upstream])
    /\ UNCHANGED <<fixed, loads, idle, listener, svars, cache>>

\* Planted fault: the answer is remembered under the resolver of the moment.
faulty_remember_answer(w, r) ==
    cache' \in Stored(cache, workers[w].query, upstream, workers[w].upstream, r)

\* remember_answer: under the resolver that was asked
remember_answer(w, r) ==
    cache' \in Stored(cache, workers[w].query, workers[w].upstream,
                      workers[w].upstream, r)

\* Planted fault: a query that gives up on UDP is tried over UDP again.
FaultyLeavesUdp(w) ==
    Goes(w, [workers[w] EXCEPT !.phase = "udp", !.attempt = 1, !.slot = NoSlot])

\* The worker has a response: it is remembered and sent.
Answered(w, r) == remember_answer(w, r) /\ Ends(w)

\* forward_query gives up on UDP: leaving_udp, then the TCP fallback
LeavesUdp(w) == Goes(w, [workers[w] EXCEPT !.phase = "tcp", !.slot = NoSlot])

\* udp_exchange answers; the socket is bound to the tunnel (tunnel_socket::udp).
UdpAnswer(w, r) ==
    /\ workers[w] # Free /\ workers[w].phase = "udp"
    /\ IF r.truncated THEN LeavesUdp(w) /\ UNCHANGED cache
       ELSE Answered(w, r)
    /\ UNCHANGED <<fixed, loads, idle, listener, svars>>

\* udp_exchange fails or times out
UdpFails(w) ==
    /\ workers[w] # Free /\ workers[w].phase = "udp"
    /\ IF workers[w].attempt < UdpAttempts
       THEN Goes(w, [workers[w] EXCEPT !.attempt = @ + 1])
       ELSE LeavesUdp(w)
    /\ UNCHANGED <<fixed, loads, idle, listener, svars, cache>>

\* tcp_exchange answers
TcpAnswer(w, r) ==
    /\ workers[w] # Free /\ workers[w].phase = "tcp"
    /\ Answered(w, r)
    /\ UNCHANGED <<fixed, loads, idle, listener, svars>>

\* tcp_exchange fails or times out: SERVFAIL
TcpFails(w) ==
    /\ workers[w] # Free /\ workers[w].phase = "tcp"
    /\ Ends(w)
    /\ UNCHANGED <<fixed, loads, idle, listener, svars, cache>>

\* run fails on a socket error and supervise starts it again: the workers are
\* aborted with their task set, the permits are new, the cache stays.
ListenerFails ==
    /\ listener = NoAdmission
    /\ workers' = [w \in Worker |-> Free]
    /\ loads' = [c \in Client |-> Untracked]
    /\ idle' = {}
    /\ UNCHANGED <<fixed, listener, svars, cache>>
------------------------------------------------------------------------------
(* The surroundings. *)

\* A profile was applied: publish_dns sends its resolver, or none.
PublishDns(u) ==
    /\ u # upstream
    /\ upstream' = u
    /\ UNCHANGED <<pvars, local_names, cache>>

\* Discovery sends the names of the running containers.
SendLocalNames(names) ==
    /\ names # local_names
    /\ local_names' = names
    /\ UNCHANGED <<pvars, upstream, cache>>

Tick ==
    /\ \E k \in DOMAIN cache : ~Expired(cache[k])
    /\ cache' = Aged(cache)
    /\ UNCHANGED <<pvars, svars>>

GoesIdle(c) ==
    /\ loads[c] # Untracked /\ c \notin idle
    /\ idle' = idle \cup {c}
    /\ UNCHANGED <<fixed, loads, listener, workers, svars, cache>>

WorkerStep(w) ==
    \/ \E q \in Query : TcpRead(w, q)
    \/ TcpReadFails(w)
    \/ Start(w)
    \/ \E r \in Responses : UdpAnswer(w, r) \/ TcpAnswer(w, r)
    \/ UdpFails(w)
    \/ TcpFails(w)

Next ==
    \/ \E c \in Client, q \in Query : UdpQuery(c, q)
    \/ \E c \in Client : TcpAccept(c) \/ GoesIdle(c)
    \/ Refuse
    \/ \E w \in Worker : Admit(w) \/ WorkerStep(w)
    \/ ListenerFails
    \/ \E u \in Upstream \cup {NoUpstream} : PublishDns(u)
    \/ \E names \in SUBSET LocalNames : SendLocalNames(names)
    \/ Tick

Spec == Init /\ [][Next]_vars
------------------------------------------------------------------------------
(* Properties. *)

\* Tables, slots and the cache have their shapes; a limit that was computed for an
\* admission is at least one and at most the global limit.
TypeOK ==
    /\ fixed \in (1 .. GlobalLimit) \cup {NoLimit}
    /\ loads \in [Client -> Generation \cup {Untracked}]
    /\ idle \subseteq Client
    /\ listener \in Admission \cup {NoAdmission}
    /\ workers \in [Worker -> Job \cup {Free}]
    /\ upstream \in Upstream \cup {NoUpstream}
    /\ local_names \subseteq LocalNames
    /\ DOMAIN cache \subseteq Query \X Upstream
    /\ \A k \in DOMAIN cache : cache[k] \in Entries

\* A cached answer comes from the resolver in use when it is given, even when the
\* worker that fetched it was still waiting for the previous resolver while the
\* profile changed ("must not serve what the previous one said", dns_cache.rs 42-45),
\* and it is younger than the longest lifetime allowed.
CachedAnswerIsCurrent ==
    \A q \in Query : cached_answer(q) =>
        /\ cache[Key(q, upstream)].origin = upstream
        /\ cache[Key(q, upstream)].age < MaxTtl

\* Every slot is charged to the counter the table has for its client: a client is
\* never forgotten, and counted from zero again, while it has queries in flight
\* (prune, dns.rs 319-329).
SlotsCharged ==
    \A w \in Busy : workers[w].slot # NoSlot => workers[w].slot = loads[workers[w].client]

\* The forwarder keeps what admission control promises.
Ceiling == IF fixed = NoLimit THEN GlobalLimit ELSE fixed
PermitOf == [w \in Worker |-> IF workers[w] = Free THEN NoClient ELSE workers[w].client]
Slotted == {w \in Worker : workers[w] # Free /\ workers[w].slot # NoSlot}

Permits == INSTANCE DnsPermits WITH ceiling <- Ceiling, permit <- PermitOf, slots <- Slotted

\* Admission as implemented by the client table, the counters and the two-step
\* claim is a behaviour of the abstract permits.
PermitsSpec == Permits!Spec

\* How much of the retry ladder a query has left
Left(x) ==
    IF x = Free THEN 0
    ELSE CASE x.phase = "tcp" -> 1
           [] x.phase = "udp" -> 2 + UdpAttempts - x.attempt
           [] OTHER -> 3 + UdpAttempts

\* Every step of a query brings its end nearer, whatever the resolver does, so that
\* its permit comes back: no outcome of an exchange starts the ladder again
\* (forward_query, dns.rs 863-929).
LadderDescends ==
    [][\A w \in Worker : workers[w] # Free /\ workers'[w] # workers[w] =>
          Left(workers'[w]) < Left(workers[w])]_vars
==============================================================================
