------------------------------ MODULE DnsProofs ------------------------------
(***************************************************************************)
(* For every finite set of clients and workers and every setting of the    *)
(* limits: slots are charged to the counter the table holds, admission as  *)
(* DnsForwarder implements it is a behaviour of DnsPermits and keeps the   *)
(* limits, a query goes down the retry ladder only, and the cache serves   *)
(* what the resolver in use has said.  For every set of components and     *)
(* every threshold: the window of transitions keeps the entries of quiet   *)
(* components, and the verdict on resolution is well formed.               *)
(***************************************************************************)
EXTENDS DnsForwarder, DnsHealth, FiniteSetTheorems, WellFoundedInduction, TLAPS

------------------------------------------------------------------------------
(* The slots of the forwarder. *)

\* The provers get more time than by default.
USE SMTT(30), ZenonT(20)

USE NumbersAssumption, FiniteAssumption, NullAssumption

\* What the two halves of try_acquire rely on.  SlotsCharged alone is not
\* inductive: a slot is claimed on the counter that was read one step earlier, so
\* the table must still hold that counter, and the limit that was computed with it
\* must not pass the ceiling.
AdmissionInv ==
    /\ fixed \in (1 .. GlobalLimit) \cup {NoLimit}
    /\ upstream \in Upstream \cup {NoUpstream}
    /\ loads \in [Client -> Generation \cup {Untracked}]
    /\ workers \in [Worker -> Job \cup {Free}]
    /\ listener # NoAdmission =>
          /\ listener \in Admission
          /\ listener.counter = loads[listener.client] /\ listener.limit <= Ceiling
    /\ SlotsCharged

\* Min and Max of two numbers, as limit_for uses them
LEMMA MinOfTwo ==
    ASSUME NEW a \in Int, NEW b \in Int
    PROVE  Min({a, b}) \in {a, b} /\ Min({a, b}) <= a /\ Min({a, b}) <= b
<1>1. \E x \in {a, b} : \A y \in {a, b} : x <= y
  <2>1. CASE a <= b
    BY <2>1
  <2>2. CASE ~(a <= b)
    BY <2>2
  <2> QED
    BY <2>1, <2>2
<1> QED
  BY <1>1 DEF Min

\* The larger of two integers is one of them and below neither.
LEMMA MaxOfTwo ==
    ASSUME NEW a \in Int, NEW b \in Int
    PROVE  Max({a, b}) \in {a, b} /\ Max({a, b}) >= a /\ Max({a, b}) >= b
<1>1. \E x \in {a, b} : \A y \in {a, b} : x >= y
  <2>1. CASE a >= b
    BY <2>1
  <2>2. CASE ~(a >= b)
    BY <2>2
  <2> QED
    BY <2>1, <2>2
<1> QED
  BY <1>1 DEF Max

\* The workers are finitely many, and there is one counter more than workers.
LEMMA Counting ==
    /\ Cardinality(Worker) \in Nat
    /\ IsFiniteSet(Generation) /\ Cardinality(Generation) = Cardinality(Worker) + 1
    /\ IsFiniteSet(Busy) /\ Cardinality(Busy) \in Nat
    /\ \A c, g : IsFiniteSet(Holders(c, g)) /\ Cardinality(Holders(c, g)) \in Nat
<1>1. Cardinality(Worker) \in Nat
  BY FS_CardinalityType
<1>2. IsFiniteSet(Generation) /\ Cardinality(Generation) = Cardinality(Worker) + 1
  BY <1>1, FS_Interval DEF Generation
<1>3. IsFiniteSet(Busy)
  BY FS_Subset DEF Busy
<1>4. ASSUME NEW c, NEW g PROVE IsFiniteSet(Holders(c, g))
  BY <1>3, FS_Subset DEF Holders
<1> QED
  BY <1>1, <1>2, <1>3, <1>4, FS_CardinalityType

\* A counter that no slot of the client points to can always be found.
LEMMA FreshExists ==
    ASSUME NEW c \in Client
    PROVE  Fresh(c) \in Generation
<1>1. \E g \in Generation : Holders(c, g) = {}
  <2> SUFFICES ASSUME \A g \in Generation : Holders(c, g) # {} PROVE FALSE
    OBVIOUS
  <2> DEFINE f == [g \in Generation |-> CHOOSE w \in Worker : w \in Holders(c, g)]
  <2>1. ASSUME NEW g \in Generation PROVE f[g] \in Worker /\ f[g] \in Holders(c, g)
    BY DEF Holders, Busy
  <2>2. f \in [Generation -> Worker]
    BY <2>1
  <2>3. \E g, h \in Generation : g # h /\ f[g] = f[h]
    <3> HIDE DEF f
    <3> QED
      BY <2>2, Counting, FS_PigeonHole
  <2>4. \A g, h \in Generation : f[g] = f[h] => g = h
    <3> HIDE DEF f
    <3> QED
      BY <2>1 DEF Holders
  <2> QED
    BY <2>3, <2>4
<1> QED
  BY <1>1 DEF Fresh

\* The limit that an admission is given lies between one and the ceiling.
LEMMA LimitInRange ==
    ASSUME AdmissionInv, NEW active \in Nat \ {0}
    PROVE  admission_limit(active) \in 1 .. GlobalLimit /\ admission_limit(active) <= Ceiling
<1> DEFINE floor == Min({MinShare, GlobalLimit})
<1> DEFINE share == GlobalLimit \div active
<1> DEFINE wide == Max({share, floor})
<1>1. floor \in 1 .. GlobalLimit
  <2>1. floor \in {MinShare, GlobalLimit} /\ floor <= GlobalLimit
    BY MinOfTwo, MinShare \in Int, GlobalLimit \in Int, Zenon
  <2> QED
    BY <2>1
<1>2. share \in Int
  OBVIOUS
<1>3. wide \in Int /\ wide >= floor
  <2> HIDE DEF share, floor
  <2> QED
    BY <1>1, <1>2, MaxOfTwo
<1>4. Min({wide, GlobalLimit}) \in 1 .. GlobalLimit
  <2> HIDE DEF wide, floor
  <2> QED
    BY <1>1, <1>3, MinOfTwo
<1>5. fixed = NoLimit => limit_for(active) \in 1 .. GlobalLimit
  BY <1>4 DEF limit_for
<1> QED
  BY <1>5 DEF AdmissionInv, admission_limit, limit_for, Ceiling

\* prune never forgets a client that holds slots.
LEMMA PruneKeeps ==
    ASSUME AdmissionInv, NEW sweep \in BOOLEAN
    PROVE  /\ prune(sweep) \in [Client -> Generation \cup {Untracked}]
           /\ \A w \in Busy : workers[w].slot # NoSlot =>
                 prune(sweep)[workers[w].client] = loads[workers[w].client]
<1>1. prune(sweep) \in [Client -> Generation \cup {Untracked}]
  BY DEF prune, AdmissionInv
<1>2. ASSUME NEW w \in Busy, workers[w].slot # NoSlot
      PROVE  prune(sweep)[workers[w].client] = loads[workers[w].client]
  <2>1. workers[w].client \in Client
    BY DEF AdmissionInv, Busy, Job
  <2>2. w \in Holders(workers[w].client, loads[workers[w].client])
    BY <1>2 DEF AdmissionInv, SlotsCharged, Holders
  <2>3. InFlight(workers[w].client) # 0
    BY <2>2, Counting, FS_EmptySet DEF InFlight
  <2> QED
    BY <2>1, <2>3 DEF prune
<1> QED
  BY <1>1, <1>2

\* client_share, the first half of try_acquire, prepares the second.
LEMMA ShareKeeps ==
    ASSUME AdmissionInv, NEW c \in Client, NEW q \in Query \cup {NoQuery},
           client_share(c, q), UNCHANGED <<fixed, workers, upstream>>
    PROVE  AdmissionInv'
<1>1. PICK sweep \in BOOLEAN :
        LET table == [prune(sweep) EXCEPT ![c] = IF @ = Untracked THEN Fresh(c) ELSE @]
        IN /\ loads' = table
           /\ listener' = [client |-> c, query |-> q, counter |-> table[c],
                           limit |-> admission_limit(Cardinality(Tracked(table)))]
  BY Zenon DEF client_share
<1> DEFINE pruned == prune(sweep)
<1> DEFINE table == [pruned EXCEPT ![c] = IF @ = Untracked THEN Fresh(c) ELSE @]
<1> DEFINE active == Cardinality(Tracked(table))
<1>2. /\ pruned \in [Client -> Generation \cup {Untracked}]
      /\ \A w \in Busy : workers[w].slot # NoSlot =>
            pruned[workers[w].client] = loads[workers[w].client]
  BY PruneKeeps
<1>3. loads' = table
  BY <1>1
<1>4. listener' = [client |-> c, query |-> q, counter |-> table[c],
                   limit |-> admission_limit(active)]
  BY <1>1
<1> HIDE DEF pruned
<1>5. table \in [Client -> Generation \cup {Untracked}] /\ table[c] \in Generation
  BY <1>2, FreshExists
<1>6. ASSUME NEW w \in Busy, workers[w].slot # NoSlot
      PROVE  workers[w].slot = table[workers[w].client]
  <2>1. /\ workers[w].client \in Client /\ workers[w].slot \in Generation
        /\ workers[w].slot = loads[workers[w].client]
    BY <1>6 DEF AdmissionInv, SlotsCharged, Busy, Job
  <2> QED
    BY <1>2, <1>6, <2>1
<1>7. active \in Nat \ {0}
  <2>1. c \in Tracked(table)
    BY <1>5 DEF Tracked
  <2>2. IsFiniteSet(Tracked(table))
    BY FS_Subset DEF Tracked
  <2> HIDE DEF table
  <2> QED
    BY <2>1, <2>2, FS_CardinalityType, FS_EmptySet
<1> HIDE DEF table, active
<1>8. admission_limit(active) \in 1 .. GlobalLimit /\ admission_limit(active) <= Ceiling
  BY <1>7, LimitInRange
<1>9. Ceiling' = Ceiling /\ Busy' = Busy
  BY DEF Ceiling, Busy
<1>10. listener' \in Admission
  BY <1>4, <1>5, <1>8 DEF Admission
<1>11. listener'.counter = loads'[listener'.client] /\ listener'.limit <= Ceiling'
  BY <1>3, <1>4, <1>8, <1>9
<1>12. SlotsCharged'
  BY <1>3, <1>6, <1>9 DEF SlotsCharged
<1> QED
  BY <1>3, <1>5, <1>10, <1>11, <1>12 DEF AdmissionInv
------------------------------------------------------------------------------
(* The steps of a worker. *)

\* A worker's record after a step that keeps its client and its slot
Onward(w, r) ==
    /\ r \in Job /\ Goes(w, r)
    /\ r.client = workers[w].client /\ r.slot = workers[w].slot

\* A worker ends, gives its slot back on leaving UDP, or goes on with both.
LEMMA WorkerMoves ==
    ASSUME AdmissionInv, NEW w \in Worker, WorkerStep(w)
    PROVE  /\ workers[w] \in Job /\ workers[w] # Free
           /\ UNCHANGED <<fixed, loads, listener, upstream>>
           /\ Ends(w) \/ LeavesUdp(w) \/ \E r : Onward(w, r)
<1>1. workers[w] # Free /\ UNCHANGED <<fixed, loads, listener, upstream>>
  BY Zenon DEF WorkerStep, TcpRead, TcpReadFails, Start, UdpAnswer, TcpAnswer, UdpFails, TcpFails,
         svars
<1>2. workers[w] \in Job
  BY <1>1 DEF AdmissionInv
<1>3. ASSUME NEW q \in Query, TcpRead(w, q)
      PROVE  Ends(w) \/ \E r : Onward(w, r)
  <2> DEFINE r == [workers[w] EXCEPT !.query = q, !.phase = "tcp", !.upstream = upstream]
  <2>1. r \in Job /\ r.client = workers[w].client /\ r.slot = workers[w].slot
    BY <1>2, Zenon DEF AdmissionInv, Job
  <2>2. Ends(w) \/ Goes(w, r)
    BY <1>3 DEF TcpRead
  <2> QED
    BY <2>1, <2>2, Zenon DEF Onward
<1>4. ASSUME Start(w) PROVE Ends(w) \/ \E r : Onward(w, r)
  <2> DEFINE r == [workers[w] EXCEPT !.phase = "udp", !.upstream = upstream]
  <2>1. r \in Job /\ r.client = workers[w].client /\ r.slot = workers[w].slot
    BY <1>2, Zenon DEF AdmissionInv, Job
  <2>2. Ends(w) \/ Goes(w, r)
    BY <1>4 DEF Start
  <2> QED
    BY <2>1, <2>2, Zenon DEF Onward
<1>5. ASSUME UdpFails(w) PROVE LeavesUdp(w) \/ \E r : Onward(w, r)
  <2> DEFINE r == [workers[w] EXCEPT !.attempt = @ + 1]
  <2>1. CASE workers[w].attempt < UdpAttempts
    <3>1. r \in Job /\ r.client = workers[w].client /\ r.slot = workers[w].slot
      BY <1>2, <2>1 DEF Job
    <3>2. Goes(w, r)
      BY <1>5, <2>1 DEF UdpFails
    <3> QED
      BY <3>1, <3>2, Zenon DEF Onward
  <2>2. CASE ~(workers[w].attempt < UdpAttempts)
    BY <1>5, <2>2 DEF UdpFails
  <2> QED
    BY <2>1, <2>2
<1>6. ASSUME NEW r \in Responses, UdpAnswer(w, r) \/ TcpAnswer(w, r)
      PROVE  Ends(w) \/ LeavesUdp(w)
  BY <1>6 DEF UdpAnswer, TcpAnswer, Answered
<1>7. ASSUME TcpReadFails(w) \/ TcpFails(w) PROVE Ends(w)
  BY <1>7 DEF TcpReadFails, TcpFails
<1> QED
  BY <1>1, <1>2, <1>3, <1>4, <1>5, <1>6, <1>7 DEF WorkerStep

\* What a step of one worker makes of the workers
LEMMA WorkerRecord ==
    ASSUME AdmissionInv, NEW w \in Worker, NEW r \in Job \cup {Free}, Goes(w, r),
           UNCHANGED <<fixed, loads, listener, upstream>>,
           r # Free => r.slot = NoSlot \/ r.slot = loads[r.client]
    PROVE  AdmissionInv'
<1>1. workers' \in [Worker -> Job \cup {Free}]
  BY DEF AdmissionInv, Goes
<1>2. SlotsCharged'
  <2> SUFFICES ASSUME NEW v \in Worker, workers'[v] # Free, workers'[v].slot # NoSlot
               PROVE  workers'[v].slot = loads[workers'[v].client]
    BY DEF SlotsCharged, Busy
  <2>1. CASE v = w
    BY <2>1 DEF AdmissionInv, Goes
  <2>2. CASE v # w
    BY <2>2 DEF AdmissionInv, Goes, SlotsCharged, Busy
  <2> QED
    BY <2>1, <2>2
<1> QED
  BY <1>1, <1>2 DEF AdmissionInv, Ceiling

\* A worker's steps keep the invariant, and are steps of DnsPermits.
LEMMA WorkerKeeps ==
    ASSUME AdmissionInv, NEW w \in Worker, WorkerStep(w)
    PROVE  AdmissionInv' /\ (Permits!Next \/ UNCHANGED Permits!pvars)
<1>1. workers[w] \in Job /\ workers[w] # Free /\ UNCHANGED <<fixed, loads, listener, upstream>>
  BY WorkerMoves
<1>2. workers \in [Worker -> Job \cup {Free}] /\ w \in Busy /\ Ceiling' = Ceiling
  BY <1>1 DEF AdmissionInv, Busy, Ceiling
<1>3. workers[w].client \in Client
  BY <1>1 DEF Job
<1>4. CASE Ends(w)
  <2>1. AdmissionInv'
    BY <1>1, <1>4, WorkerRecord DEF Ends
  <2>2. workers' = [workers EXCEPT ![w] = Free]
    BY <1>4 DEF Ends, Goes
  <2>3. Permits!Release(w)
    <3>1. PermitOf[w] # NoClient
      BY <1>1, <1>3 DEF PermitOf
    <3>2. PermitOf' = [PermitOf EXCEPT ![w] = NoClient]
      BY <1>2, <2>2, Zenon DEF PermitOf
    <3>3. Slotted' = Slotted \ {w}
      BY <1>2, <2>2 DEF Slotted
    <3> QED
      BY <1>2, <3>1, <3>2, <3>3 DEF Permits!Release
  <2> QED
    BY <2>1, <2>3 DEF Permits!Next
<1>5. CASE LeavesUdp(w)
  <2> DEFINE r == [workers[w] EXCEPT !.phase = "tcp", !.slot = NoSlot]
  <2>1. r \in Job /\ r.slot = NoSlot /\ r.client = workers[w].client
    BY <1>1, Zenon DEF Job
  <2>2. Goes(w, r)
    BY <1>5 DEF LeavesUdp
  <2> HIDE DEF r
  <2>3. AdmissionInv'
    BY <1>1, <2>1, <2>2, WorkerRecord
  <2>4. workers' = [workers EXCEPT ![w] = r] /\ r # Free
    BY <2>1, <2>2 DEF Goes
  <2>5. PermitOf' = PermitOf
    BY <1>1, <1>2, <2>1, <2>4 DEF PermitOf
  <2>6. Slotted' = Slotted \ {w}
    BY <1>2, <2>1, <2>4 DEF Slotted
  <2>7. CASE w \in Slotted
    BY <1>2, <2>3, <2>5, <2>6, <2>7 DEF Permits!Next, Permits!ReleaseSlot
  <2>8. CASE w \notin Slotted
    BY <1>2, <2>3, <2>5, <2>6, <2>8 DEF Permits!pvars
  <2> QED
    BY <2>7, <2>8
<1>6. ASSUME NEW r, Onward(w, r) PROVE AdmissionInv' /\ UNCHANGED Permits!pvars
  <2>1. r \in Job /\ r.client = workers[w].client /\ r.slot = workers[w].slot /\ r # Free
    BY <1>6 DEF Onward
  <2>2. r.slot # NoSlot => r.slot = loads[r.client]
    BY <1>2, <2>1 DEF AdmissionInv, SlotsCharged
  <2>3. AdmissionInv'
    BY <1>1, <1>6, <2>1, <2>2, WorkerRecord DEF Onward
  <2>4. workers' = [workers EXCEPT ![w] = r]
    BY <1>6 DEF Onward, Goes
  <2>5. PermitOf' = PermitOf
    BY <1>1, <1>2, <2>1, <2>4 DEF PermitOf
  <2>6. Slotted' = Slotted
    BY <1>1, <1>2, <2>1, <2>4 DEF Slotted
  <2> QED
    BY <1>2, <2>3, <2>5, <2>6 DEF Permits!pvars
<1> QED
  BY <1>4, <1>5, <1>6, WorkerMoves
------------------------------------------------------------------------------
(* Admission and the rest. *)

\* The instance of DnsPermits counts as the forwarder does.
LEMMA SameCardinality == \A S : Permits!Cardinality(S) = Cardinality(S)
BY Zenon DEF Permits!Cardinality, Cardinality

\* The second half of try_acquire, when it succeeds, keeps the invariant and is
\* Acquire: what the counter holds are the slots of the client.
LEMMA AdmitKeeps ==
    ASSUME AdmissionInv, NEW w \in Worker, Admit(w)
    PROVE  AdmissionInv' /\ Permits!Next
<1> DEFINE c == listener.client
<1> DEFINE r == [client |-> c, query |-> listener.query,
                 phase |-> IF listener.query = NoQuery THEN "read" ELSE "start",
                 attempt |-> 1, upstream |-> NoUpstream, slot |-> listener.counter]
<1>1. /\ listener \in Admission /\ listener.counter = loads[c] /\ listener.limit <= Ceiling
      /\ listener.limit \in 1 .. GlobalLimit /\ listener.counter \in Generation /\ c \in Client
      /\ UNCHANGED <<fixed, loads, upstream>> /\ listener' = NoAdmission
      /\ workers' = [workers EXCEPT ![w] = r] /\ workers[w] = Free
      /\ ~ClientLimitReached /\ Available > 0
  BY DEF AdmissionInv, Admit, Admission, svars
<1>2. r \in Job /\ r.client = c /\ r.slot = listener.counter /\ r # Free
  BY <1>1 DEF Job, Admission
<1> HIDE DEF r, c
<1>3. /\ workers \in [Worker -> Job \cup {Free}] /\ workers' \in [Worker -> Job \cup {Free}]
      /\ \A v \in Worker : workers'[v] = IF v = w THEN r ELSE workers[v]
  BY <1>1, <1>2 DEF AdmissionInv
<1>4. SlotsCharged'
  <2> SUFFICES ASSUME NEW v \in Worker, workers'[v] # Free, workers'[v].slot # NoSlot
               PROVE  workers'[v].slot = loads'[workers'[v].client]
    BY DEF SlotsCharged, Busy
  <2>1. CASE v = w
    BY <1>1, <1>2, <1>3, <2>1
  <2>2. CASE v # w
    BY <1>1, <1>3, <2>2 DEF AdmissionInv, SlotsCharged, Busy
  <2> QED
    BY <2>1, <2>2
<1>5. AdmissionInv'
  BY <1>1, <1>3, <1>4 DEF AdmissionInv
<1>6. Ceiling' = Ceiling /\ Ceiling \in Int
  BY <1>1 DEF Ceiling, AdmissionInv
<1>7. Permits!SlotsOf(c) = Holders(c, listener.counter)
  <2>1. ASSUME NEW v \in Worker
        PROVE  v \in Permits!SlotsOf(c) <=> v \in Holders(c, listener.counter)
    <3>1. CASE workers[v] = Free
      BY <3>1 DEF Permits!SlotsOf, Slotted, Holders, Busy
    <3>2. CASE workers[v] # Free
      <4>1. PermitOf[v] = workers[v].client /\ v \in Busy
        BY <3>2 DEF PermitOf, Busy
      <4>2. v \in Slotted <=> workers[v].slot # NoSlot
        BY <3>2 DEF Slotted
      <4>3. workers[v].slot # NoSlot => workers[v].slot = loads[workers[v].client]
        BY <4>1 DEF AdmissionInv, SlotsCharged
      <4>4. v \in Permits!SlotsOf(c) <=> v \in Slotted /\ workers[v].client = c
        BY <4>1 DEF Permits!SlotsOf
      <4>5. v \in Holders(c, listener.counter)
              <=> workers[v].client = c /\ workers[v].slot = listener.counter
        BY <4>1 DEF Holders
      <4>6. listener.counter # NoSlot
        BY <1>1
      <4> QED
        BY <1>1, <4>2, <4>3, <4>4, <4>5, <4>6
    <3> QED
      BY <3>1, <3>2
  <2>2. Permits!SlotsOf(c) \subseteq Worker /\ Holders(c, listener.counter) \subseteq Worker
    BY DEF Permits!SlotsOf, Slotted, Holders, Busy
  <2> QED
    BY <2>1, <2>2
<1>8. Cardinality(Permits!SlotsOf(c)) < Ceiling
  <2>1. Cardinality(Holders(c, listener.counter)) < listener.limit
    BY <1>1, Counting DEF ClientLimitReached, c
  <2> QED
    BY <1>1, <1>6, <1>7, <2>1, Counting
<1>9. Cardinality(Permits!InProgress) < GlobalLimit
  <2>1. ASSUME NEW v \in Worker PROVE PermitOf[v] # NoClient <=> workers[v] # Free
    BY <1>3 DEF PermitOf, Job
  <2>2. Permits!InProgress = Busy
    BY <2>1 DEF Permits!InProgress, Busy
  <2> QED
    BY <1>1, <2>2, Counting DEF Available
<1>10. PermitOf[w] = NoClient /\ PermitOf' = [PermitOf EXCEPT ![w] = c]
  BY <1>1, <1>2, <1>3, Zenon DEF PermitOf
<1>11. Slotted' = Slotted \cup {w}
  BY <1>1, <1>2, <1>3 DEF Slotted
<1>12. Permits!Acquire(w, c)
  BY <1>6, <1>8, <1>9, <1>10, <1>11, SameCardinality DEF Permits!Acquire
<1> QED
  BY <1>1, <1>5, <1>12 DEF Permits!Next

\* Every step of the forwarder keeps the invariant and is a step of DnsPermits, or
\* leaves permits and slots alone.
LEMMA ForwarderStep ==
    ASSUME AdmissionInv, [Next]_vars
    PROVE  AdmissionInv' /\ [Permits!Next]_(Permits!pvars)
<1>1. ASSUME NEW c \in Client, NEW q \in Query \cup {NoQuery}, client_share(c, q),
             UNCHANGED <<fixed, workers, upstream>>
      PROVE  AdmissionInv' /\ UNCHANGED Permits!pvars
  <2>1. UNCHANGED Permits!pvars
    BY <1>1 DEF Permits!pvars, Ceiling, PermitOf, Slotted
  <2> QED
    BY <1>1, <2>1, ShareKeeps
<1>2. ASSUME UNCHANGED <<fixed, workers, loads, listener>>,
             upstream' \in Upstream \cup {NoUpstream}
      PROVE  AdmissionInv' /\ UNCHANGED Permits!pvars
  BY <1>2 DEF AdmissionInv, SlotsCharged, Busy, Permits!pvars, Ceiling, PermitOf, Slotted
<1>3. ASSUME NEW c \in Client, NEW q \in Query, UdpQuery(c, q)
      PROVE  AdmissionInv' /\ UNCHANGED Permits!pvars
  BY <1>1, <1>3 DEF UdpQuery, svars
<1>4. ASSUME NEW c \in Client, TcpAccept(c)
      PROVE  AdmissionInv' /\ UNCHANGED Permits!pvars
  BY <1>1, <1>4 DEF TcpAccept, svars
<1>5. ASSUME Refuse PROVE AdmissionInv' /\ UNCHANGED Permits!pvars
  BY <1>5 DEF Refuse, svars, AdmissionInv, SlotsCharged, Busy, Permits!pvars, Ceiling,
              PermitOf, Slotted
<1>6. ASSUME ListenerFails PROVE AdmissionInv' /\ Permits!Next
  <2>1. AdmissionInv'
    BY <1>6 DEF ListenerFails, svars, AdmissionInv, SlotsCharged, Busy
  <2>2. /\ PermitOf' = [w \in Worker |-> NoClient] /\ Slotted' = {}
        /\ Ceiling' = Ceiling
    BY <1>6 DEF ListenerFails, PermitOf, Slotted, Ceiling
  <2> QED
    BY <2>1, <2>2 DEF Permits!Next, Permits!Restart
<1>7. ASSUME NEW c \in Client, GoesIdle(c) PROVE AdmissionInv' /\ UNCHANGED Permits!pvars
  <2>1. upstream \in Upstream \cup {NoUpstream}
    BY DEF AdmissionInv
  <2> QED
    BY <1>2, <1>7, <2>1 DEF GoesIdle, svars
<1>8. ASSUME NEW u \in Upstream \cup {NoUpstream}, PublishDns(u)
      PROVE  AdmissionInv' /\ UNCHANGED Permits!pvars
  BY <1>2, <1>8 DEF PublishDns, pvars
<1>9. ASSUME (\E names \in SUBSET LocalNames : SendLocalNames(names)) \/ Tick \/ UNCHANGED vars
      PROVE  AdmissionInv' /\ UNCHANGED Permits!pvars
  <2>1. upstream \in Upstream \cup {NoUpstream}
    BY DEF AdmissionInv
  <2> QED
    BY <1>2, <1>9, <2>1 DEF SendLocalNames, Tick, vars, pvars, svars
<1> QED
  BY <1>3, <1>4, <1>5, <1>6, <1>7, <1>8, <1>9, AdmitKeeps, WorkerKeeps DEF Next

\* The forwarder starts in a state of the invariant and of DnsPermits.
LEMMA ForwarderInit ==
    ASSUME Init
    PROVE  AdmissionInv /\ Permits!Init
<1>1. fixed \in (1 .. GlobalLimit) \cup {NoLimit}
  <2>1. PICK l \in FixedLimits : fixed = IF l = NoLimit THEN l ELSE Min({l, GlobalLimit})
    BY DEF Init
  <2>2. CASE l = NoLimit
    BY <2>1, <2>2
  <2>3. CASE l # NoLimit
    <3>1. l \in Nat \ {0} /\ l \in Int /\ GlobalLimit \in Int
      BY <2>3
    <3>2. Min({l, GlobalLimit}) \in {l, GlobalLimit} /\ Min({l, GlobalLimit}) <= GlobalLimit
      BY <3>1, MinOfTwo
    <3> QED
      BY <2>1, <2>3, <3>1, <3>2
  <2> QED
    BY <2>2, <2>3
<1>2. AdmissionInv
  BY <1>1 DEF Init, AdmissionInv, SlotsCharged, Busy
<1>3. Permits!Init
  BY <1>1 DEF Init, Permits!Init, Ceiling, PermitOf, Slotted
<1> QED
  BY <1>2, <1>3

\* prune never forgets a client that has queries in flight, so that no client is
\* counted from zero while it holds slots: every slot is charged to the counter
\* that the table has for its client, for any number of clients and workers.
THEOREM SlotsAlwaysCharged == Spec => []SlotsCharged
<1>1. AdmissionInv => SlotsCharged
  BY DEF AdmissionInv
<1> QED
  BY <1>1, ForwarderInit, ForwarderStep, PTL DEF Spec

\* try_acquire in two halves, with workers that give permits and slots back between
\* them, a table that is pruned and listeners that restart, is a behaviour of
\* DnsPermits, for every setting of the limits.
THEOREM AdmissionRefines == Spec => PermitsSpec
BY ForwarderInit, ForwarderStep, PTL DEF Spec, PermitsSpec, Permits!Spec
------------------------------------------------------------------------------
(* The limits that admission control promises. *)

\* LimitsHold is inductive together with the types: a slot of a client can only be
\* counted when its permit names that client.
LimitsInv == Permits!PermitsType /\ Permits!LimitsHold

\* The workers in progress, and those with a slot of one client, are finitely many.
LEMMA PermitsFinite ==
    /\ IsFiniteSet(Permits!InProgress) /\ Cardinality(Permits!InProgress) \in Nat
    /\ \A c : IsFiniteSet(Permits!SlotsOf(c)) /\ Cardinality(Permits!SlotsOf(c)) \in Nat
<1>1. IsFiniteSet(Permits!InProgress)
  BY FS_Subset DEF Permits!InProgress
<1>2. ASSUME NEW c PROVE IsFiniteSet(Permits!SlotsOf(c))
  <2>1. Permits!SlotsOf(c) \in SUBSET Worker
    BY DEF Permits!SlotsOf, Slotted
  <2> QED
    BY <2>1, FS_Subset
<1> QED
  BY <1>1, <1>2, FS_CardinalityType

\* A step that only gives up permits and slots keeps the limits.
LEMMA FewerPermits ==
    ASSUME LimitsInv, Ceiling' = Ceiling,
           Permits!InProgress' \subseteq Permits!InProgress,
           \A c \in Client : Permits!SlotsOf(c)' \subseteq Permits!SlotsOf(c)
    PROVE  Permits!LimitsHold'
<1>1. /\ Cardinality(Permits!InProgress') <= Cardinality(Permits!InProgress)
      /\ Cardinality(Permits!InProgress') \in Nat /\ Cardinality(Permits!InProgress) \in Nat
  BY PermitsFinite, FS_Subset, FS_CardinalityType
<1>2. ASSUME NEW c \in Client
      PROVE  /\ Cardinality(Permits!SlotsOf(c)') <= Cardinality(Permits!SlotsOf(c))
             /\ Cardinality(Permits!SlotsOf(c)') \in Nat
             /\ Cardinality(Permits!SlotsOf(c)) \in Nat
  BY PermitsFinite, FS_Subset, FS_CardinalityType
<1>3. Ceiling \in Nat
  BY DEF LimitsInv, Permits!PermitsType
<1> QED
  BY <1>1, <1>2, <1>3, SameCardinality DEF LimitsInv, Permits!LimitsHold

\* Every step of admission keeps types and limits.
LEMMA LimitsStep ==
    ASSUME LimitsInv, [Permits!Next]_(Permits!pvars)
    PROVE  LimitsInv'
<1>1. ASSUME NEW w \in Worker, NEW c \in Client, Permits!Acquire(w, c) PROVE LimitsInv'
  <2>1. Permits!PermitsType'
    BY <1>1 DEF LimitsInv, Permits!PermitsType, Permits!Acquire, Permits!InProgress
  <2>2. Permits!InProgress' = Permits!InProgress \cup {w} /\ w \notin Permits!InProgress
    BY <1>1 DEF LimitsInv, Permits!PermitsType, Permits!Acquire, Permits!InProgress
  <2>3. Permits!SlotsOf(c)' = Permits!SlotsOf(c) \cup {w} /\ w \notin Permits!SlotsOf(c)
    BY <1>1 DEF LimitsInv, Permits!PermitsType, Permits!Acquire, Permits!InProgress,
                Permits!SlotsOf
  <2>4. ASSUME NEW d \in Client \ {c} PROVE Permits!SlotsOf(d)' = Permits!SlotsOf(d)
    BY <1>1 DEF LimitsInv, Permits!PermitsType, Permits!Acquire, Permits!InProgress,
                Permits!SlotsOf
  <2>5. Cardinality(Permits!InProgress') = Cardinality(Permits!InProgress) + 1
    BY <2>2, PermitsFinite, FS_AddElement, Zenon
  <2>6. Cardinality(Permits!SlotsOf(c)') = Cardinality(Permits!SlotsOf(c)) + 1
    BY <2>3, PermitsFinite, FS_AddElement, Zenon
  <2>7. /\ Cardinality(Permits!InProgress) \in Nat /\ Cardinality(Permits!SlotsOf(c)) \in Nat
        /\ Ceiling \in Nat /\ Ceiling' = Ceiling
    BY <1>1, PermitsFinite DEF LimitsInv, Permits!PermitsType, Permits!Acquire
  <2>8. /\ Cardinality(Permits!InProgress') <= GlobalLimit
        /\ Cardinality(Permits!SlotsOf(c)') <= Ceiling'
    BY <1>1, <2>5, <2>6, <2>7, SameCardinality DEF Permits!Acquire
  <2>9. ASSUME NEW d \in Client PROVE Cardinality(Permits!SlotsOf(d)') <= Ceiling'
    BY <2>4, <2>7, <2>8, SameCardinality DEF LimitsInv, Permits!LimitsHold
  <2> QED
    BY <2>1, <2>8, <2>9, SameCardinality DEF LimitsInv, Permits!LimitsHold
<1>2. ASSUME NEW w \in Worker, Permits!ReleaseSlot(w) PROVE LimitsInv'
  <2>1. Permits!PermitsType'
    BY <1>2 DEF LimitsInv, Permits!PermitsType, Permits!ReleaseSlot, Permits!InProgress
  <2>2. /\ Permits!InProgress' \subseteq Permits!InProgress
        /\ \A c \in Client : Permits!SlotsOf(c)' \subseteq Permits!SlotsOf(c)
    BY <1>2 DEF Permits!ReleaseSlot, Permits!InProgress, Permits!SlotsOf
  <2> QED
    BY <1>2, <2>1, <2>2, FewerPermits DEF LimitsInv, Permits!ReleaseSlot
<1>3. ASSUME NEW w \in Worker, Permits!Release(w) PROVE LimitsInv'
  <2>1. Permits!PermitsType'
    BY <1>3 DEF LimitsInv, Permits!PermitsType, Permits!Release, Permits!InProgress
  <2>2. /\ Permits!InProgress' \subseteq Permits!InProgress
        /\ \A c \in Client : Permits!SlotsOf(c)' \subseteq Permits!SlotsOf(c)
    BY <1>3 DEF LimitsInv, Permits!PermitsType, Permits!Release, Permits!InProgress,
                Permits!SlotsOf
  <2> QED
    BY <1>3, <2>1, <2>2, FewerPermits DEF LimitsInv, Permits!Release
<1>4. CASE Permits!Restart
  <2>1. Permits!PermitsType'
    BY <1>4 DEF LimitsInv, Permits!PermitsType, Permits!Restart, Permits!InProgress
  <2>2. /\ Permits!InProgress' \subseteq Permits!InProgress
        /\ \A c \in Client : Permits!SlotsOf(c)' \subseteq Permits!SlotsOf(c)
    BY <1>4 DEF Permits!Restart, Permits!InProgress, Permits!SlotsOf
  <2> QED
    BY <1>4, <2>1, <2>2, FewerPermits DEF LimitsInv, Permits!Restart
<1>5. CASE UNCHANGED Permits!pvars
  <2>1. UNCHANGED <<Ceiling, PermitOf, Slotted>>
    BY <1>5 DEF Permits!pvars
  <2>2. /\ Permits!InProgress' = Permits!InProgress
        /\ \A c : Permits!SlotsOf(c)' = Permits!SlotsOf(c)
    BY <2>1 DEF Permits!InProgress, Permits!SlotsOf
  <2>3. Permits!PermitsType'
    BY <2>1, <2>2 DEF LimitsInv, Permits!PermitsType
  <2> QED
    BY <2>1, <2>2, <2>3, FewerPermits DEF LimitsInv
<1> QED
  BY <1>1, <1>2, <1>3, <1>4, <1>5 DEF Permits!Next

\* No more queries are in progress than the global limit and no client holds more
\* slots than its ceiling, whatever the order of arrivals, fallbacks to TCP, ends
\* and restarts of the listeners (try_acquire, dns.rs 231-244).
THEOREM LimitsAlwaysHold == Spec => []Permits!LimitsHold
<1>1. Permits!Init => LimitsInv
  <2> SUFFICES ASSUME Permits!Init PROVE LimitsInv
    OBVIOUS
  <2>1. Permits!InProgress = {} /\ \A c : Permits!SlotsOf(c) = {}
    BY DEF Permits!Init, Permits!InProgress, Permits!SlotsOf
  <2>2. Permits!PermitsType
    BY <2>1 DEF Permits!Init, Permits!PermitsType
  <2>3. Cardinality({}) = 0 /\ Ceiling \in Nat
    BY <2>2, FS_EmptySet DEF Permits!PermitsType
  <2> QED
    BY <2>1, <2>2, <2>3, SameCardinality DEF LimitsInv, Permits!LimitsHold
<1>2. LimitsInv => Permits!LimitsHold
  BY DEF LimitsInv
<1> QED
  BY <1>1, <1>2, ForwarderInit, ForwarderStep, LimitsStep, PTL DEF Spec
------------------------------------------------------------------------------
(* The retry ladder. *)

\* A worker's own steps go down the ladder.
LEMMA WorkerDescends ==
    ASSUME AdmissionInv, NEW w \in Worker, WorkerStep(w), NEW v \in Worker,
           workers[v] # Free, workers'[v] # workers[v]
    PROVE  Left(workers'[v]) < Left(workers[v])
<1>1. /\ workers \in [Worker -> Job \cup {Free}] /\ workers[v] \in Job
      /\ Free \notin Job
  BY DEF AdmissionInv
<1>2. /\ workers[v].phase \in {"read", "start", "udp", "tcp"}
      /\ workers[v].attempt \in 1 .. UdpAttempts
  BY <1>1 DEF Job
<1>3. Left(workers[v]) \in Nat \ {0}
  BY <1>1, <1>2 DEF Left
<1> DEFINE Lower(x) ==
      x # Free =>
          \/ workers[w].phase \in {"read", "udp"} /\ x.phase = "tcp"
          \/ workers[w].phase = "start" /\ x.phase = "udp" /\ x.attempt = workers[w].attempt
          \/ /\ workers[w].phase = "udp" /\ x.phase = "udp"
             /\ workers[w].attempt < UdpAttempts /\ x.attempt = workers[w].attempt + 1
<1>4. PICK x : workers' = [workers EXCEPT ![w] = x] /\ Lower(x)
  <2>1. Lower(Free)
    OBVIOUS
  <2> DEFINE j == workers[w]
  <2> DEFINE read(q) == [j EXCEPT !.query = q, !.phase = "tcp", !.upstream = upstream]
  <2> DEFINE begun == [j EXCEPT !.phase = "udp", !.upstream = upstream]
  <2> DEFINE again == [j EXCEPT !.attempt = @ + 1]
  <2> DEFINE leaves == [j EXCEPT !.phase = "tcp", !.slot = NoSlot]
  <2>2. ASSUME j # Free
        PROVE  /\ \A q : j.phase = "read" => Lower(read(q))
               /\ j.phase = "start" => Lower(begun)
               /\ j.phase = "udp" /\ j.attempt < UdpAttempts => Lower(again)
               /\ j.phase = "udp" => Lower(leaves)
    <3>1. j \in Job
      BY <1>1, <2>2
    <3>2. /\ \A q : read(q).phase = "tcp"
          /\ begun.phase = "udp" /\ begun.attempt = j.attempt
          /\ again.phase = j.phase /\ again.attempt = j.attempt + 1
          /\ leaves.phase = "tcp"
      BY <3>1 DEF Job
    <3> HIDE DEF read, begun, again, leaves
    <3> QED
      BY <3>2, Zenon
  <2> DEFINE Gets(x) == workers' = [workers EXCEPT ![w] = x]
  <2>3. \/ Gets(Free)
        \/ /\ j # Free /\ j.phase = "read" /\ \E q : Gets(read(q))
        \/ /\ j # Free /\ j.phase = "start" /\ Gets(begun)
        \/ /\ j # Free /\ j.phase = "udp" /\ j.attempt < UdpAttempts /\ Gets(again)
        \/ /\ j # Free /\ j.phase = "udp" /\ Gets(leaves)
    BY Zenon DEF WorkerStep, TcpRead, TcpReadFails, Start, UdpAnswer, TcpAnswer, UdpFails, TcpFails,
       Answered, LeavesUdp, Ends, Goes
  <2>4. \E x : Gets(x) /\ Lower(x)
    <3> HIDE DEF j, read, begun, again, leaves, Gets, Lower
    <3> QED
      BY <2>1, <2>2, <2>3, Zenon
  <2> QED
    BY <2>4, Zenon
<1>5. v = w /\ workers'[v] = x
  BY <1>1, <1>4
<1>6. CASE x = Free
  BY <1>3, <1>5, <1>6 DEF Left
<1>7. CASE x # Free
  BY <1>1, <1>2, <1>4, <1>5, <1>7 DEF Left
<1> QED
  BY <1>6, <1>7

\* Every step of a query brings its end nearer, whatever the resolver, the profile
\* manager and the listeners do: no query climbs the ladder again and keeps its
\* permit for ever (forward_query, dns.rs 863-929).
THEOREM LadderAlwaysDescends == Spec => LadderDescends
<1>1. ASSUME AdmissionInv, Next, NEW v \in Worker, workers[v] # Free, workers'[v] # workers[v]
      PROVE  Left(workers'[v]) < Left(workers[v])
  <2>1. CASE \E w \in Worker : WorkerStep(w)
    BY <1>1, <2>1, WorkerDescends
  <2>2. CASE ListenerFails
    <3>1. workers'[v] = Free
      BY <2>2 DEF ListenerFails
    <3>2. workers[v] \in Job
      BY <1>1 DEF AdmissionInv
    <3>3. workers[v].phase \in {"read", "start", "udp", "tcp"} /\ workers[v].attempt \in 1 .. UdpAttempts
      BY <3>2 DEF Job
    <3> QED
      BY <1>1, <3>1, <3>3 DEF Left
  <2>3. ASSUME NEW w \in Worker, Admit(w) PROVE FALSE
    BY <1>1, <2>3 DEF Admit, AdmissionInv
  <2>4. CASE UNCHANGED workers
    BY <1>1, <2>4
  <2> QED
    BY <1>1, <2>1, <2>2, <2>3, <2>4, Zenon
       DEF Next, UdpQuery, TcpAccept, GoesIdle, Refuse, PublishDns,
       SendLocalNames, Tick, pvars
<1>2. AdmissionInv /\ [Next]_vars =>
        [\A w \in Worker : workers[w] # Free /\ workers'[w] # workers[w] =>
            Left(workers'[w]) < Left(workers[w])]_vars
  BY <1>1
<1> QED
  BY <1>2, ForwarderInit, ForwarderStep, PTL DEF Spec, LadderDescends
------------------------------------------------------------------------------
(* The response cache. *)

\* An entry lives no longer than allowed, and its key names the resolver that gave it.
SoundEntry(k, entry) ==
    /\ k \in (Query \cup {NoQuery}) \X (Upstream \cup {NoUpstream})
    /\ entry \in [origin : Upstream \cup {NoUpstream}, ttl : 0 .. MaxTtl, age : 0 .. MaxTtl]
    /\ entry.age <= entry.ttl
    /\ entry.origin = k[2]

Sound(entries) == \A k \in DOMAIN entries : SoundEntry(k, entries[k])

\* The least of some natural numbers is one of them.
LEMMA LeastNat ==
    ASSUME NEW S, S \subseteq Nat, S # {}
    PROVE  Min(S) \in S
<1>1. \E x \in S : \A y \in S : ~(<<y, x>> \in OpToRel(<, Nat))
  BY NatLessThanWellFounded, WFMin, Zenon
<1>2. \A x, y \in S : y < x => <<y, x>> \in OpToRel(<, Nat)
  BY DEF OpToRel
<1>3. \E x \in S : \A y \in S : ~(y < x)
  BY <1>1, <1>2, Zenon
<1>4. \E x \in S : \A y \in S : x <= y
  BY <1>3
<1> QED
  BY <1>4, Zenon DEF Min

\* cacheable_ttl: a lifetime, if any, is one number and within the bounds.
LEMMA CacheableTtl ==
    ASSUME NEW r \in Responses, cacheable_ttl(r) # {}
    PROVE  Min(cacheable_ttl(r)) \in 0 .. MaxTtl
<1> DEFINE seconds == IF r.rcode = "NoError" /\ r.answers # {} THEN r.answers
                      ELSE IF r.rcode \in {"NoError", "NXDomain"} THEN NegativeTtls(r)
                      ELSE {}
<1> DEFINE least == Min({Min(seconds), MaxTtl})
<1>1. /\ seconds # {}
      /\ cacheable_ttl(r) = {ttl \in {least} : ttl >= MinTtl}
  BY Zenon DEF cacheable_ttl
<1>2. r.answers \in SUBSET Nat /\ r.soas \in SUBSET (Nat \X Nat)
  BY ResponsesAssumption DEF Response
<1>3. NegativeTtls(r) \subseteq Nat
  <2> SUFFICES ASSUME NEW s \in r.soas PROVE Min({s[1], s[2]}) \in Nat
    BY DEF NegativeTtls
  <2>1. s[1] \in Nat /\ s[2] \in Nat
    BY <1>2
  <2>2. {s[1], s[2]} \subseteq Nat /\ {s[1], s[2]} # {}
    BY <2>1
  <2> QED
    BY <2>2, LeastNat
<1>4. seconds \subseteq Nat
  BY <1>2, <1>3
<1> HIDE DEF seconds
<1>5. Min(seconds) \in Nat
  BY <1>1, <1>4, LeastNat, Zenon
<1>6. least \in 0 .. MaxTtl
  <2>1. Min(seconds) \in Int /\ MaxTtl \in Int /\ MaxTtl \in Nat
    BY <1>5, TtlAssumption
  <2>2. least \in {Min(seconds), MaxTtl} /\ least <= MaxTtl
    BY <2>1, MinOfTwo, Zenon
  <2> HIDE DEF least
  <2> QED
    BY <1>5, <2>1, <2>2
<1> HIDE DEF least
<1>7. cacheable_ttl(r) = {least}
  BY <1>1
<1>8. {least} \subseteq Nat /\ {least} # {}
  BY <1>6
<1>9. Min({least}) \in {least}
  BY <1>8, LeastNat
<1> QED
  BY <1>6, <1>7, <1>9

\* A lookup drops entries, a store adds one of the resolver that was asked, a tick
\* ages those that have not expired.
LEMMA CacheOperations ==
    ASSUME NEW entries, Sound(entries)
    PROVE  /\ \A q, u : Sound(AfterLookup(entries, q, u))
           /\ \A q \in Query \cup {NoQuery}, u \in Upstream \cup {NoUpstream}, r \in Responses :
                 \A new \in Stored(entries, q, u, u, r) : Sound(new)
           /\ Sound(Aged(entries))
<1>1. ASSUME NEW q, NEW u PROVE Sound(AfterLookup(entries, q, u))
  <2>1. CASE AfterLookup(entries, q, u) = entries
    BY <2>1
  <2>2. CASE AfterLookup(entries, q, u) = Restrict(entries, DOMAIN entries \ {Key(q, u)})
    BY <2>2 DEF Restrict, Sound
  <2> QED
    BY <2>1, <2>2 DEF AfterLookup
<1>2. ASSUME NEW q \in Query \cup {NoQuery}, NEW u \in Upstream \cup {NoUpstream},
             NEW r \in Responses, NEW new \in Stored(entries, q, u, u, r)
      PROVE  Sound(new)
  <2> DEFINE key == Key(q, u)
  <2> DEFINE entry == [origin |-> u, ttl |-> Min(cacheable_ttl(r)), age |-> 0]
  <2>1. CASE new = entries
    BY <2>1
  <2>2. CASE new # entries
    <3>1. cacheable_ttl(r) # {}
      BY <2>2, Zenon DEF Stored
    <3>2. \E kept \in SUBSET DOMAIN entries :
             new = [k \in kept \cup {key} |-> IF k = key THEN entry ELSE entries[k]]
      BY <2>2, Zenon DEF Stored
    <3>3. PICK kept \in SUBSET DOMAIN entries :
             new = [k \in kept \cup {key} |-> IF k = key THEN entry ELSE entries[k]]
      BY <3>2
    <3>4. SoundEntry(key, entry)
      <4>1. Min(cacheable_ttl(r)) \in 0 .. MaxTtl /\ MaxTtl \in Nat
        BY <3>1, CacheableTtl, TtlAssumption
      <4>2. key \in (Query \cup {NoQuery}) \X (Upstream \cup {NoUpstream}) /\ key[2] = u
        BY DEF Key
      <4> HIDE DEF key
      <4> QED
        BY <4>1, <4>2 DEF SoundEntry
    <3> HIDE DEF key, entry
    <3> QED
      BY <3>3, <3>4 DEF Sound
  <2> QED
    BY <2>1, <2>2
<1>3. Sound(Aged(entries))
  <2> SUFFICES ASSUME NEW k \in DOMAIN entries PROVE SoundEntry(k, Aged(entries)[k])
    BY DEF Sound, Aged
  <2>1. SoundEntry(k, entries[k])
    BY DEF Sound
  <2>2. CASE Expired(entries[k])
    BY <2>1, <2>2 DEF Aged
  <2>3. CASE ~Expired(entries[k])
    <3> DEFINE e == entries[k]
    <3>1. Aged(entries)[k] = [e EXCEPT !.age = @ + 1]
      BY <2>3 DEF Aged
    <3>2. /\ e \in [origin : Upstream \cup {NoUpstream}, ttl : 0 .. MaxTtl, age : 0 .. MaxTtl]
          /\ e.age < e.ttl /\ MaxTtl \in Nat /\ e.origin = k[2]
      BY <2>1, <2>3, TtlAssumption DEF SoundEntry, Expired
    <3> HIDE DEF e
    <3>3. [e EXCEPT !.age = @ + 1] = [e EXCEPT !.age = e.age + 1]
      BY <3>2
    <3> DEFINE n == [e EXCEPT !.age = e.age + 1]
    <3>4. /\ n \in [origin : Upstream \cup {NoUpstream}, ttl : 0 .. MaxTtl, age : 0 .. MaxTtl]
          /\ n.age = e.age + 1 /\ n.ttl = e.ttl /\ n.origin = e.origin
      BY <3>2
    <3> HIDE DEF n
    <3>5. SoundEntry(k, n)
      BY <2>1, <3>2, <3>4 DEF SoundEntry
    <3> QED
      BY <3>1, <3>3, <3>5 DEF n
  <2> QED
    BY <2>2, <2>3
<1> QED
  BY <1>1, <1>2, <1>3

\* Every step of the forwarder keeps the cache sound.
LEMMA CacheStep ==
    ASSUME AdmissionInv, Sound(cache), [Next]_vars
    PROVE  Sound(cache')
<1>1. ASSUME NEW q, Looked(q) PROVE Sound(cache')
  BY <1>1, CacheOperations DEF Looked
<1>2. ASSUME NEW w \in Worker, workers[w] # Free, NEW r \in Responses, remember_answer(w, r)
      PROVE  Sound(cache')
  <2>1. /\ workers[w].query \in Query \cup {NoQuery}
        /\ workers[w].upstream \in Upstream \cup {NoUpstream}
    BY <1>2 DEF AdmissionInv, Job
  <2> QED
    BY <1>2, <2>1, CacheOperations, Zenon DEF remember_answer
<1>3. CASE UNCHANGED cache
  BY <1>3
<1>4. ASSUME NEW w \in Worker, WorkerStep(w) PROVE Sound(cache')
  BY <1>1, <1>2, <1>3, <1>4, Zenon
     DEF WorkerStep, TcpRead, TcpReadFails, Start, UdpAnswer, TcpAnswer,
     UdpFails, TcpFails, Answered
<1>5. CASE Tick
  BY <1>5, CacheOperations DEF Tick
<1>6. ASSUME NEW c \in Client, NEW q \in Query, UdpQuery(c, q) PROVE Sound(cache')
  BY <1>1, <1>6 DEF UdpQuery
<1> QED
  BY <1>3, <1>4, <1>5, <1>6 DEF Next, TcpAccept, GoesIdle, Refuse, Admit, ListenerFails,
     PublishDns, SendLocalNames, vars

\* A cached answer always comes from the resolver in use when it is given, and is
\* younger than the longest lifetime allowed: for any number of workers that were
\* still waiting for an earlier resolver, and whatever the resolvers answer
\* (dns_cache.rs 42-45, cacheable_ttl).
THEOREM CachedAnswerAlwaysCurrent == Spec => []CachedAnswerIsCurrent
<1>1. Init => Sound(cache)
  BY DEF Init, NoEntries, Sound
<1>2. Sound(cache) => CachedAnswerIsCurrent
  <2> SUFFICES ASSUME Sound(cache), NEW q \in Query, cached_answer(q)
               PROVE  /\ cache[Key(q, upstream)].origin = upstream
                      /\ cache[Key(q, upstream)].age < MaxTtl
    BY DEF CachedAnswerIsCurrent
  <2> DEFINE k == Key(q, upstream)
  <2>1. k \in DOMAIN cache /\ ~Expired(cache[k])
    BY DEF cached_answer, Hit
  <2>2. SoundEntry(k, cache[k]) /\ k[2] = upstream
    BY <2>1 DEF Sound, Key
  <2> HIDE DEF k
  <2>3. /\ cache[k].origin = upstream /\ cache[k].ttl \in 0 .. MaxTtl
        /\ cache[k].age \in 0 .. MaxTtl /\ ~(cache[k].age >= cache[k].ttl)
    BY <2>1, <2>2 DEF SoundEntry, Expired
  <2>4. cache[k].age < MaxTtl
    BY <2>3, TtlAssumption
  <2> QED
    BY <2>3, <2>4 DEF k
<1>3. AdmissionInv /\ Sound(cache) /\ [Next]_vars => AdmissionInv' /\ Sound(cache)'
  BY CacheStep, ForwarderStep
<1> QED
  BY <1>1, <1>2, <1>3, ForwarderInit, PTL DEF Spec
------------------------------------------------------------------------------
(* The transition window and the verdict. *)

\* A set of numbers that is not empty has a least one.
LEMMA LeastNumber ==
    ASSUME NEW S, S \subseteq Nat, S # {}
    PROVE  \E x \in S : \A y \in S : x <= y
<1>1. \E x \in S : \A y \in S : ~(<<y, x>> \in OpToRel(<, Nat))
  BY NatLessThanWellFounded, WFMin, Zenon
<1>2. \A x, y \in S : y < x => <<y, x>> \in OpToRel(<, Nat)
  BY DEF OpToRel
<1>3. \E x \in S : \A y \in S : ~(y < x)
  BY <1>1, <1>2, Zenon
<1> QED
  BY <1>3

\* The entries of a component are a number, at most the length of the window.
LEMMA EntriesNumber ==
    ASSUME NEW w \in Seq(Component), NEW id
    PROVE  /\ IsFiniteSet({i \in DOMAIN w : w[i] = id})
           /\ EntriesOf(w, id) \in Nat /\ EntriesOf(w, id) <= Len(w)
<1> DEFINE at == {i \in DOMAIN w : w[i] = id}
<1>1. Len(w) \in Nat /\ at \subseteq 1 .. Len(w)
  OBVIOUS
<1>2. IsFiniteSet(1 .. Len(w)) /\ Cardinality(1 .. Len(w)) <= Len(w)
  <2>1. 1 \in Int /\ Len(w) \in Int
    BY <1>1
  <2>2. Cardinality(1 .. Len(w)) = IF 1 > Len(w) THEN 0 ELSE Len(w) - 1 + 1
    BY <2>1, FS_Interval
  <2> QED
    BY <1>1, <2>1, <2>2, FS_Interval
<1>3. EntriesOf(w, id) = Cardinality(at)
  BY DEF EntriesOf
<1> HIDE DEF at
<1>4. IsFiniteSet(at) /\ Cardinality(at) <= Cardinality(1 .. Len(w))
  BY <1>1, <1>2, FS_Subset, Zenon
<1>5. Cardinality(at) \in Nat /\ Cardinality(1 .. Len(w)) \in Nat
  BY <1>2, <1>4, FS_CardinalityType
<1>6. Cardinality(at) <= Len(w)
  BY <1>1, <1>2, <1>4, <1>5
<1> QED
  BY <1>3, <1>4, <1>5, <1>6 DEF at

\* busiest_components_oldest finds an entry, and no component has more entries than
\* the component of that one.
LEMMA BusiestFound ==
    ASSUME NEW w \in Seq(Component), w # <<>>
    PROVE  /\ busiest_components_oldest(w) \in 1 .. Len(w)
           /\ \A id \in Component :
                 EntriesOf(w, id) <= EntriesOf(w, w[busiest_components_oldest(w)])
<1> DEFINE Count(i) == EntriesOf(w, w[i])
           Oldest == {i \in DOMAIN w : \A j \in 1 .. i - 1 : w[j] # w[i]}
           Busiest(i) == \A j \in Oldest : Count(j) < Count(i) \/ (Count(j) = Count(i) /\ i <= j)
           b == busiest_components_oldest(w)
<1>1. DOMAIN w = 1 .. Len(w) /\ Len(w) \in Nat /\ 1 \in DOMAIN w
  OBVIOUS
<1>2. \A i \in DOMAIN w : Count(i) \in Nat /\ Count(i) <= Len(w)
  BY EntriesNumber, Zenon
<1>3. b = CHOOSE i \in Oldest : Busiest(i)
  BY DEF busiest_components_oldest, EntriesOf
<1>4. \A i \in DOMAIN w : \E j \in Oldest : w[j] = w[i]
  <2> TAKE i \in DOMAIN w
  <2> DEFINE Same == {j \in DOMAIN w : w[j] = w[i]}
  <2>1. Same \subseteq Nat /\ i \in Same
    BY <1>1
  <2>2. PICK j \in Same : \A k \in Same : j <= k
    <3> HIDE DEF Same
    <3> QED
      BY <2>1, LeastNumber, Zenon
  <2>3. j \in Oldest
    BY <1>1, <2>2
  <2> QED
    BY <2>2, <2>3
<1>5. \E i \in Oldest : Busiest(i)
  <2> DEFINE Short == {Len(w) - Count(i) : i \in DOMAIN w}
  <2>1. Short \subseteq Nat /\ Short # {}
    <3> HIDE DEF Count
    <3> QED
      BY <1>1, <1>2
  <2>2. PICK n \in Short : \A m \in Short : n <= m
    <3> HIDE DEF Short
    <3> QED
      BY <2>1, LeastNumber, Zenon
  <2>3. PICK most \in DOMAIN w : n = Len(w) - Count(most)
    OBVIOUS
  <2>4. \A j \in DOMAIN w : Count(j) <= Count(most)
    <3> HIDE DEF Count
    <3> TAKE j \in DOMAIN w
    <3>1. n <= Len(w) - Count(j)
      BY <2>2
    <3> QED
      BY <1>1, <1>2, <2>3, <3>1
  <2> DEFINE Most == {i \in DOMAIN w : Count(i) = Count(most)}
  <2>5. Most \subseteq Nat /\ most \in Most
    BY <1>1
  <2>6. PICK i \in Most : \A k \in Most : i <= k
    <3> HIDE DEF Most
    <3> QED
      BY <2>5, LeastNumber, Zenon
  <2>7. i \in Oldest
    <3>1. ASSUME NEW j \in 1 .. i - 1, w[j] = w[i] PROVE FALSE
      <4>1. j \in DOMAIN w /\ j < i
        BY <1>1, <2>6
      <4>2. Count(j) = Count(i)
        BY <3>1
      <4>3. j \in Most
        BY <2>6, <4>1, <4>2
      <4> QED
        BY <1>1, <2>6, <4>1, <4>3
    <3> QED
      BY <2>6, <3>1
  <2>8. Busiest(i)
    <3> SUFFICES ASSUME NEW j \in Oldest, ~(Count(j) < Count(i))
                 PROVE  Count(j) = Count(i) /\ i <= j
      OBVIOUS
    <3>1. j \in DOMAIN w /\ i \in DOMAIN w /\ Count(i) = Count(most)
      BY <2>6
    <3>2. Count(j) = Count(i)
      <4> HIDE DEF Count
      <4> QED
        BY <1>2, <2>4, <3>1
    <3>3. j \in Most
      BY <3>1, <3>2
    <3> QED
      BY <2>6, <3>2, <3>3
  <2> QED
    BY <2>7, <2>8
<1>6. b \in Oldest /\ Busiest(b)
  <2> HIDE DEF Oldest, Busiest, b
  <2> QED
    BY <1>3, <1>5, Zenon
<1>7. b \in 1 .. Len(w)
  BY <1>1, <1>6
<1>8. ASSUME NEW id \in Component PROVE EntriesOf(w, id) <= Count(b)
  <2>1. CASE \E i \in DOMAIN w : w[i] = id
    <3>1. PICK j \in Oldest : w[j] = id
      BY <1>4, <2>1
    <3>2. Count(j) <= Count(b)
      <4> HIDE DEF Count
      <4> QED
        BY <1>1, <1>2, <1>6, <1>7
    <3> QED
      BY <3>1, <3>2
  <2>2. CASE ~\E i \in DOMAIN w : w[i] = id
    <3>1. {i \in DOMAIN w : w[i] = id} = {}
      BY <2>2
    <3>2. EntriesOf(w, id) = 0
      BY <3>1, FS_EmptySet, Zenon DEF EntriesOf
    <3>3. Count(b) \in Nat
      <4> HIDE DEF Count, b
      <4> QED
        BY <1>1, <1>2, <1>7
    <3> QED
      BY <3>2, <3>3
  <2> QED
    BY <2>1, <2>2
<1> QED
  BY <1>7, <1>8

\* Two sequences joined
LEMMA Joined ==
    ASSUME NEW S, NEW left \in Seq(S), NEW right \in Seq(S)
    PROVE  left \o right \in Seq(S) /\ Len(left \o right) = Len(left) + Len(right)
OBVIOUS

\* The window without the entry at position b, as push_transition leaves it.
Without(w, b) == SubSeq(w, 1, b - 1) \o SubSeq(w, b + 1, Len(w))

\* An entry that leaves the window and one that joins it take nothing from another
\* component.
LEMMA OthersKept ==
    ASSUME NEW w \in Seq(Component), NEW b \in 1 .. Len(w), NEW new \in Component
    PROVE  /\ Append(Without(w, b), new) \in Seq(Component)
           /\ Len(Append(Without(w, b), new)) = Len(w)
           /\ \A id : id # w[b] => EntriesOf(w, id) <= EntriesOf(Append(Without(w, b), new), id)
<1> DEFINE left == SubSeq(w, 1, b - 1)
           right == SubSeq(w, b + 1, Len(w))
           v == Append(left \o right, new)
<1>1. Len(w) \in Nat /\ b \in Nat /\ 1 <= b /\ b <= Len(w)
  OBVIOUS
<1>2. /\ left \in Seq(Component) /\ Len(left) = b - 1
      /\ \A i \in 1 .. b - 1 : left[i] = w[i]
  OBVIOUS
<1>3. /\ right \in Seq(Component) /\ Len(right) = Len(w) - b
      /\ \A i \in 1 .. Len(w) - b : right[i] = w[b + i]
  OBVIOUS
<1> HIDE DEF left, right
<1>4. /\ v \in Seq(Component) /\ Len(v) = Len(w)
      /\ \A i \in 1 .. b - 1 : v[i] = w[i]
      /\ \A i \in b .. Len(w) - 1 : v[i] = w[i + 1]
  <2>1. left \o right \in Seq(Component) /\ Len(left \o right) = Len(w) - 1
    <3>1. /\ left \o right \in Seq(Component)
          /\ Len(left \o right) = Len(left) + Len(right)
      BY <1>2, <1>3, Joined, Zenon
    <3>2. Len(left) + Len(right) = Len(w) - 1
      BY <1>1, <1>2, <1>3
    <3> QED
      BY <3>1, <3>2
  <2>2. \A i \in 1 .. b - 1 : (left \o right)[i] = w[i]
    BY <1>1, <1>2, <1>3
  <2>3. \A i \in b .. Len(w) - 1 : (left \o right)[i] = w[i + 1]
    <3> SUFFICES ASSUME NEW i \in b .. Len(w) - 1 PROVE (left \o right)[i] = w[i + 1]
      BY Zenon
    <3>1. (left \o right)[i] = right[i - (b - 1)]
      BY <1>1, <1>2, <1>3
    <3>2. i - (b - 1) \in 1 .. Len(w) - b /\ b + (i - (b - 1)) = i + 1
      BY <1>1
    <3> QED
      BY <1>3, <3>1, <3>2
  <2> HIDE DEF left, right
  <2> DEFINE lr == left \o right
  <2>4. lr \in Seq(Component) /\ Len(lr) = Len(w) - 1
    BY <2>1
  <2> HIDE DEF lr
  <2>5. /\ Append(lr, new) \in Seq(Component) /\ Len(Append(lr, new)) = Len(w)
        /\ \A i \in 1 .. Len(w) - 1 : Append(lr, new)[i] = lr[i]
    BY <1>1, <2>4
  <2> QED
    BY <1>1, <2>2, <2>3, <2>5 DEF lr
<1>5. v = Append(Without(w, b), new)
  BY DEF Without, left, right
<1> HIDE DEF v
<1>6. ASSUME NEW id, id # w[b] PROVE EntriesOf(w, id) <= EntriesOf(v, id)
  <2> DEFINE S == {i \in DOMAIN w : w[i] = id}
             T == {i \in DOMAIN v : v[i] = id}
             f == [i \in S |-> IF i < b THEN i ELSE i - 1]
  <2>1. \A i \in S : i \in 1 .. Len(w) /\ i # b
    BY <1>1, <1>6
  <2>2. \A i \in S : f[i] \in T
    <3> TAKE i \in S
    <3>1. CASE i < b
      <4>1. v[i] = w[i] /\ i \in DOMAIN v
        BY <1>1, <1>4, <2>1, <3>1
      <4> QED
        BY <3>1, <4>1
    <3>2. CASE ~(i < b)
      <4>1. i - 1 \in b .. Len(w) - 1 /\ (i - 1) + 1 = i
        BY <1>1, <2>1, <3>2
      <4>2. v[i - 1] = w[i] /\ i - 1 \in DOMAIN v
        BY <1>1, <1>4, <4>1
      <4> QED
        BY <3>2, <4>2
    <3> QED
      BY <3>1, <3>2
  <2>3. f \in Injection(S, T)
    <3>1. f \in [S -> T]
      BY <2>2
    <3>2. \A i, j \in S : f[i] = f[j] => i = j
      BY <1>1, <2>1
    <3> HIDE DEF f, S, T
    <3> QED
      BY <3>1, <3>2 DEF Injection, IsInjective
  <2>4. IsFiniteSet(T)
    BY <1>4, EntriesNumber, Zenon
  <2>5. Cardinality(S) <= Cardinality(T)
    <3> HIDE DEF f, S, T
    <3> QED
      BY <2>3, <2>4, FS_Injection
  <2> QED
    BY <2>5 DEF EntriesOf
<1> QED
  BY <1>4, <1>5, <1>6

\* An entry that joins a window with room takes nothing from any component.
LEMMA AppendKeeps ==
    ASSUME NEW w \in Seq(Component), NEW new \in Component, NEW id
    PROVE  EntriesOf(w, id) <= EntriesOf(Append(w, new), id)
<1> DEFINE S == {i \in DOMAIN w : w[i] = id}
           T == {i \in DOMAIN Append(w, new) : Append(w, new)[i] = id}
<1>1. S \subseteq T
  OBVIOUS
<1>2. Append(w, new) \in Seq(Component)
  OBVIOUS
<1>3. IsFiniteSet(T)
  BY <1>2, EntriesNumber, Zenon
<1>4. Cardinality(S) <= Cardinality(T)
  <2> HIDE DEF S, T
  <2> QED
    BY <1>1, <1>3, FS_Subset
<1> QED
  BY <1>4, Zenon DEF EntriesOf

WindowInv == window \in Seq(Component) /\ Len(window) <= TransitionCapacity

\* What a step may do to the entries of the components
Evicts(w, v) ==
    \A id \in Component :
        EntriesOf(v, id) < EntriesOf(w, id)
          => /\ Len(w) = TransitionCapacity
             /\ \A other \in Component : EntriesOf(w, other) <= EntriesOf(w, id)

\* push_transition keeps the bound and evicts only from a component with the most
\* entries.
LEMMA PushEvicts ==
    ASSUME NEW w \in Seq(Component), Len(w) <= TransitionCapacity, NEW new \in Component
    PROVE  /\ push_transition(w, new) \in Seq(Component)
           /\ Len(push_transition(w, new)) <= TransitionCapacity
           /\ Evicts(w, push_transition(w, new))
<1>1. TransitionCapacity \in Nat \ {0} /\ Len(w) \in Nat
  BY PublisherAssumption
<1>2. CASE Len(w) < TransitionCapacity
  <2>1. push_transition(w, new) = Append(w, new)
    BY <1>2 DEF push_transition
  <2>2. Append(w, new) \in Seq(Component) /\ Len(Append(w, new)) = Len(w) + 1
    OBVIOUS
  <2>3. Evicts(w, Append(w, new))
    <3> SUFFICES ASSUME NEW id \in Component
                 PROVE  ~(EntriesOf(Append(w, new), id) < EntriesOf(w, id))
      BY DEF Evicts
    <3>1. EntriesOf(w, id) <= EntriesOf(Append(w, new), id)
      BY AppendKeeps
    <3>2. EntriesOf(w, id) \in Nat /\ EntriesOf(Append(w, new), id) \in Nat
      BY <2>2, EntriesNumber, Zenon
    <3> QED
      BY <3>1, <3>2
  <2> QED
    BY <1>1, <1>2, <2>1, <2>2, <2>3
<1>3. CASE ~(Len(w) < TransitionCapacity)
  <2> DEFINE b == busiest_components_oldest(w)
             v == Append(Without(w, b), new)
  <2>1. Len(w) = TransitionCapacity /\ w # <<>>
    BY <1>1, <1>3
  <2>2. push_transition(w, new) = v
    BY <1>3, Zenon DEF push_transition, Without
  <2>3. b \in 1 .. Len(w) /\ \A id \in Component : EntriesOf(w, id) <= EntriesOf(w, w[b])
    BY <2>1, BusiestFound
  <2> HIDE DEF b
  <2>4. v \in Seq(Component) /\ Len(v) = Len(w)
    BY <2>3, OthersKept
  <2>5. ASSUME NEW id \in Component, id # w[b]
        PROVE  ~(EntriesOf(v, id) < EntriesOf(w, id))
    <3>1. EntriesOf(w, id) <= EntriesOf(v, id)
      BY <2>3, <2>5, OthersKept
    <3>2. EntriesOf(w, id) \in Nat /\ EntriesOf(v, id) \in Nat
      BY <2>4, EntriesNumber, Zenon
    <3> QED
      BY <3>1, <3>2
  <2> HIDE DEF v
  <2>6. Evicts(w, v)
    BY <2>1, <2>3, <2>5 DEF Evicts
  <2> QED
    BY <2>1, <2>2, <2>4, <2>6
<1> QED
  BY <1>2, <1>3

\* Every step of the monitors pushes at most one transition.
LEMMA WindowSteps ==
    ASSUME WindowInv, [HealthNext]_health_vars
    PROVE  WindowInv' /\ (UNCHANGED window \/ Evicts(window, window'))
<1>1. UNCHANGED window \/ \E id \in Component : window' = push_transition(window, id)
  <2>1. CASE HealthTick \/ Queries \/ Settle \/ UNCHANGED health_vars
    BY <2>1 DEF HealthTick, Queries, Record, Settle, health_vars, publisher
  <2>2. CASE Publication
    BY <2>2, HealthAssumption DEF Publication, PublishVerdict, observe, Dns
  <2>3. CASE Observe
    BY <2>3, PublisherAssumption DEF Observe, observe, OtherChecks
  <2>4. CASE Recovery
    BY <2>4 DEF Recovery, mutate
  <2>5. CASE Event
    BY <2>5, HealthAssumption DEF Event, emit
  <2> QED
    BY <2>1, <2>2, <2>3, <2>4, <2>5 DEF HealthNext, Monitors
<1>2. CASE UNCHANGED window
  BY <1>2 DEF WindowInv
<1>3. ASSUME NEW id \in Component, window' = push_transition(window, id)
      PROVE  WindowInv' /\ Evicts(window, window')
  BY <1>3, PushEvicts DEF WindowInv
<1> QED
  BY <1>1, <1>2, <1>3

\* push_transition of domain.rs, for every set of components and every capacity: an
\* entry of a component leaves the window only when the window is full and no other
\* component has more entries.
THEOREM QuietAlwaysSurvives == HealthSpec => QuietSurvives
<1>1. HealthInit => WindowInv
  BY PublisherAssumption DEF HealthInit, PublisherInit, WindowInv
<1>2. WindowInv /\ [HealthNext]_health_vars => WindowInv'
  BY WindowSteps
<1>3. WindowInv /\ [HealthNext]_health_vars
        => [\A id \in Component :
              EntriesOf(window', id) < EntriesOf(window, id)
                => /\ Len(window) = TransitionCapacity
                   /\ \A other \in Component :
                         EntriesOf(window, other) <= EntriesOf(window, id)]_window
  BY WindowSteps DEF Evicts
<1> QED
  BY <1>1, <1>2, <1>3, PTL DEF HealthSpec, QuietSurvives

\* The verdict.  HealthTypeOK needs to know that the outcomes are a sequence.
Outcomes == recent \in Seq(BOOLEAN)

\* A ring of the latest outcomes does not grow past its capacity.
LEMMA Remembered ==
    ASSUME NEW S, NEW r \in Seq(S), NEW x \in S, NEW n \in Nat
    PROVE  /\ SubSeq(<<x>> \o r, 1, Least(Len(r) + 1, n)) \in Seq(S)
           /\ Len(SubSeq(<<x>> \o r, 1, Least(Len(r) + 1, n))) <= n
<1> DEFINE k == Least(Len(r) + 1, n)
           longer == <<x>> \o r
<1>1. k \in Nat /\ k <= n /\ k <= Len(r) + 1
  BY DEF Least
<1>2. longer \in Seq(S) /\ Len(longer) = Len(r) + 1
  <2>1. <<x>> \in Seq(S) /\ Len(<<x>>) = 1
    OBVIOUS
  <2> QED
    BY <2>1, Joined
<1> HIDE DEF k, longer
<1>3. SubSeq(longer, 1, k) \in Seq(S) /\ Len(SubSeq(longer, 1, k)) = k
  BY <1>1, <1>2
<1> QED
  BY <1>1, <1>3 DEF k, longer

\* A saturating count stays within its limit.
LEMMA Saturated ==
    ASSUME NEW n \in Nat, NEW c \in 0 .. n
    PROVE  Least(c + 1, n) \in 0 .. n
BY DEF Least

\* The publisher keeps the shape of the checks, whoever reports what.
LEMMA ObservedChecks ==
    ASSUME checks \in [Component -> [status : Status, reason : Reason] \cup {NoCheck}],
           NEW id \in Component, NEW st \in Status, NEW why \in Reason,
           observe(id, st, why)
    PROVE  /\ checks' \in [Component -> [status : Status, reason : Reason] \cup {NoCheck}]
           /\ recovering' = recovering
BY DEF observe

\* What a task has to publish after an outcome: the new verdict, the old one again, or
\* nothing
LEMMA OutcomeRecorded ==
    ASSUME HealthTypeOK, Outcomes, NEW w \in QueryTask, Record(w)
    PROVE  HealthTypeOK' /\ Outcomes'
<1>1. /\ {FailureThreshold, SuccessThreshold} \subseteq Nat \ {0}
      /\ {RecoveryWindow, DegradedDwell, RepublishInterval} \subseteq Nat
  BY HealthAssumption
<1>2. PICK failed \in BOOLEAN, why \in Failure :
        /\ failed => RecordFailure(w, why)
        /\ ~failed => RecordSuccess(w)
  BY Zenon DEF Record, Failure
<1>3. UNCHANGED <<checks, recovering, aggregate, window, trend>>
  BY DEF Record, publisher
<1>4. recent' = SubSeq(<<failed>> \o recent, 1, Least(Len(recent) + 1, RecoveryWindow))
  BY <1>2, Zenon DEF RecordFailure, RecordSuccess, Remember
<1>5. Outcomes' /\ Len(recent') <= RecoveryWindow
  BY <1>1, <1>4, Remembered, Zenon DEF Outcomes
<1>6. failures' \in 0 .. FailureThreshold /\ successes' \in 0 .. SuccessThreshold
  <2>1. /\ failures' \in {0, Least(failures + 1, FailureThreshold)}
        /\ successes' \in {0, Least(successes + 1, SuccessThreshold)}
    BY <1>2, Zenon DEF RecordFailure, RecordSuccess
  <2>2. failures \in 0 .. FailureThreshold /\ successes \in 0 .. SuccessThreshold
    BY DEF HealthTypeOK
  <2>3. /\ Least(failures + 1, FailureThreshold) \in 0 .. FailureThreshold
        /\ Least(successes + 1, SuccessThreshold) \in 0 .. SuccessThreshold
    BY <1>1, <2>2, Saturated
  <2> QED
    BY <1>1, <2>1, <2>3
<1>7. \/ enter(w, "Degraded", why) \/ enter(w, "Healthy", NoFailure) \/ reaffirm(w)
  BY <1>2, Zenon DEF RecordFailure, RecordSuccess
<1>8. /\ status' \in {"Unknown", "Healthy", "Degraded"} /\ cause' \in Failure \cup {NoFailure}
      /\ cause' # NoFailure <=> status' = "Degraded"
      /\ degraded_age' \in 0 .. DegradedDwell /\ published_age' \in 0 .. RepublishInterval
  BY <1>1, <1>7 DEF enter, reaffirm, HealthTypeOK, Failure, NoFailure
<1>9. pending' \in [QueryTask -> Verdict \cup {NoVerdict}]
  <2>1. CASE UNCHANGED pending
    BY <2>1 DEF HealthTypeOK
  <2>2. CASE ~UNCHANGED pending
    <3>1. PICK v \in Verdict : pending' = [pending EXCEPT ![w] = v]
      BY <1>7, <2>2 DEF enter, reaffirm, HealthTypeOK, Verdict, Failure, NoFailure
    <3> QED
      BY <3>1 DEF HealthTypeOK
  <2> QED
    BY <2>1, <2>2
<1> QED
  BY <1>3, <1>5, <1>6, <1>8, <1>9 DEF HealthTypeOK

\* DnsHealthState and StatePublisher, for every number of tasks and every threshold: the
\* counters of outcomes and the windows stay within their limits, and a cause is kept
\* exactly while the verdict is Degraded.
THEOREM HealthTypeCorrect == HealthSpec => []HealthTypeOK
<1> DEFINE Inv == HealthTypeOK /\ Outcomes /\ WindowInv
<1>1. HealthInit => Inv
  <2> SUFFICES ASSUME HealthInit PROVE Inv
    OBVIOUS
  <2>1. WindowInv
    BY PublisherAssumption DEF HealthInit, PublisherInit, WindowInv
  <2>2. checks \in [Component -> [status : Status, reason : Reason] \cup {NoCheck}]
    BY DEF HealthInit, PublisherInit
  <2>3. /\ recovering = FALSE /\ status = "Unknown" /\ cause = NoFailure /\ trend = "any"
        /\ failures = 0 /\ successes = 0 /\ recent = <<>> /\ degraded_age = 0
        /\ published_age = RepublishInterval /\ pending = [w \in QueryTask |-> NoVerdict]
    BY DEF HealthInit, PublisherInit
  <2>4. /\ failures \in 0 .. FailureThreshold /\ successes \in 0 .. SuccessThreshold
        /\ Len(recent) <= RecoveryWindow /\ degraded_age \in 0 .. DegradedDwell
        /\ published_age \in 0 .. RepublishInterval
    BY <2>3, HealthAssumption
  <2>5. Outcomes
    BY <2>3 DEF Outcomes
  <2>6. pending \in [QueryTask -> Verdict \cup {NoVerdict}]
    BY <2>3
  <2> QED
    BY <2>1, <2>2, <2>3, <2>4, <2>5, <2>6, Zenon DEF HealthTypeOK, WindowInv
<1>2. Inv /\ [HealthNext]_health_vars => Inv'
  <2> SUFFICES ASSUME HealthTypeOK, Outcomes, WindowInv, [HealthNext]_health_vars
               PROVE  (HealthTypeOK /\ Outcomes /\ WindowInv)'
    OBVIOUS
  <2>1. WindowInv'
    BY WindowSteps
  <2>2. CASE Queries
    BY <2>1, <2>2, OutcomeRecorded DEF Queries
  <2>3. CASE HealthTick
    <3>1. /\ degraded_age' \in 0 .. DegradedDwell /\ published_age' \in 0 .. RepublishInterval
      BY <2>3, HealthAssumption DEF HealthTick, HealthTypeOK, Least
    <3> QED
      BY <2>1, <2>3, <3>1 DEF HealthTick, HealthTypeOK, Outcomes, publisher
  <2>4. CASE Settle \/ UNCHANGED health_vars
    BY <2>1, <2>4 DEF Settle, health_vars, health, publisher, HealthTypeOK, Outcomes
  <2>5. CASE Publication
    <3>1. PICK w \in QueryTask : PublishVerdict(w)
      BY <2>5 DEF Publication
    <3>2. pending[w] \in Verdict
      BY <3>1 DEF PublishVerdict, HealthTypeOK
    <3>3. /\ checks' \in [Component -> [status : Status, reason : Reason] \cup {NoCheck}]
          /\ recovering' = recovering
      <4>1. pending[w].status \in Status /\ pending[w].cause \in Reason
        BY <3>2 DEF Verdict, Status, Reason
      <4>2. Dns \in Component
        BY HealthAssumption DEF Dns
      <4>3. observe(Dns, pending[w].status, pending[w].cause)
        BY <3>1 DEF PublishVerdict
      <4>4. checks \in [Component -> [status : Status, reason : Reason] \cup {NoCheck}]
        BY DEF HealthTypeOK
      <4> QED
        BY <4>1, <4>2, <4>3, <4>4, ObservedChecks
    <3>4. pending' \in [QueryTask -> Verdict \cup {NoVerdict}]
      BY <3>1 DEF PublishVerdict, HealthTypeOK
    <3> QED
      BY <2>1, <3>1, <3>3, <3>4 DEF PublishVerdict, health, HealthTypeOK, Outcomes, WindowInv
  <2>6. CASE Monitors
    <3>1. UNCHANGED <<health, pending, trend>>
      BY <2>6 DEF Monitors, Observe, Recovery, Event
    <3>2. /\ checks' \in [Component -> [status : Status, reason : Reason] \cup {NoCheck}]
          /\ recovering' \in BOOLEAN
      <4>1. CASE Observe
        <5>1. PICK id \in OtherChecks, st \in {"Healthy", "Failed"} : observe(id, st, st)
          BY <4>1 DEF Observe
        <5>2. id \in Component /\ st \in Status /\ st \in Reason
          BY <5>1, PublisherAssumption DEF OtherChecks, Status, Reason
        <5>3. /\ checks \in [Component -> [status : Status, reason : Reason] \cup {NoCheck}]
              /\ recovering \in BOOLEAN
          BY DEF HealthTypeOK
        <5> QED
          BY <5>1, <5>2, <5>3, ObservedChecks
      <4>2. CASE Recovery \/ Event
        BY <4>2, Zenon DEF Recovery, Event, mutate, emit, HealthTypeOK
      <4> QED
        BY <2>6, <4>1, <4>2 DEF Monitors
    <3> QED
      BY <2>1, <3>1, <3>2 DEF health, HealthTypeOK, Outcomes, WindowInv
  <2> QED
    BY <2>2, <2>3, <2>4, <2>5, <2>6 DEF HealthNext
<1> QED
  BY <1>1, <1>2, PTL DEF HealthSpec
==============================================================================
