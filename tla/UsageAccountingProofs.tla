------------------------ MODULE UsageAccountingProofs ------------------------
(***************************************************************************)
(* The usage history for every set of containers and addresses and every   *)
(* amount of traffic: it never shows more than the kernel counted, and     *)
(* nothing is lost while no counter is.                                    *)
(***************************************************************************)
EXTENDS UsageAccounting, TLAPS

\* The provers get more time than by default.
USE SMTT(30), ZenonT(20)

\* What the coordinator knows of a container, and what it would know if it read
\* the kernel now; what history has been told of it
Total(c) == IF clients[c] = NoClient THEN 0 ELSE clients[c].total
Seen(c) == IF clients[c] = NoClient THEN 0 ELSE observe_kernel_locked(clients)[c].total
Based(c) == IF baseline[c] = NoBaseline THEN 0 ELSE baseline[c].total

\* The bytes recorded and those still to be recorded fit into the n that were
\* counted.  Either the accumulator began after the baseline was taken, and all it
\* sees may be added, or it has gone on from the baseline, and only the rest may.
Fits(n, rec, base, total, seen) ==
    \/ rec + seen <= n
    \/ base <= total /\ rec + seen - base <= n

\* Both when the pending sample is dropped and when it is recorded
Safe(c) ==
    /\ Fits(counted[c], recorded[c], Based(c), Total(c), Seen(c))
    /\ m_totals[c] # NoTotal =>
          Fits(counted[c], recorded[c] + monotonic_delta(m_totals[c], Based(c)),
               m_totals[c], Total(c), Seen(c))

\* A container has one address, and a counter only while it is a client.
Settled(c) ==
    /\ clients[c] = NoClient => kernel[c] = NoCounter
    /\ clients[c] # NoClient => clients[c].address \in AddressesOf[c]
    /\ d_addresses[c] \in AddressesOf[c] \cup {NoAddress}
    /\ state_address[c] \in AddressesOf[c] \cup {NoAddress}
    /\ baseline[c] # NoBaseline => baseline[c].address \in AddressesOf[c]

OvercountInv ==
    /\ TypeOK
    /\ \A c \in Container : Settled(c)
    /\ ~doubtful => \A c \in Container : Safe(c)

----------------------------------------------------------------------------
(* Reading a counter *)

\* A delta is a number, and adding it never goes beyond the counter.
LEMMA DeltaType ==
    ASSUME NEW current \in Nat, NEW previous \in Nat
    PROVE  /\ monotonic_delta(current, previous) \in Nat
           /\ monotonic_delta(current, previous) <= current
BY DEF monotonic_delta

\* observe keeps the address, never lowers the total and remembers the raw value.
LEMMA Observed ==
    ASSUME NEW counters \in Counters, NEW raw \in Nat
    PROVE  /\ observe(counters, raw) \in Counters
           /\ observe(counters, raw).address = counters.address
           /\ observe(counters, raw).total
                = counters.total + monotonic_delta(raw, counters.last_raw)
           /\ observe(counters, raw).last_raw = raw
<1> DEFINE delta == monotonic_delta(raw, counters.last_raw)
<1>1. delta \in Nat
  BY DeltaType, Zenon DEF Counters
<1>2. observe(counters, raw) = [counters EXCEPT !.total = counters.total + delta, !.last_raw = raw]
  BY DEF observe
<1> HIDE DEF delta
<1>3. observe(counters, raw) = [address |-> counters.address, total |-> counters.total + delta,
                                last_raw |-> raw]
  BY <1>2, Zenon DEF Counters
<1>4. counters.address \in Address /\ counters.total + delta \in Nat
  BY <1>1 DEF Counters
<1> QED
  BY <1>3, <1>4 DEF Counters, delta

\* What a read of the kernel makes of one client
Read(c) ==
    /\ Total(c) \in Nat /\ Seen(c) \in Nat /\ Total(c) <= Seen(c)
    /\ clients[c] = NoClient => observe_kernel_locked(clients)[c] = NoClient
    /\ clients[c] # NoClient =>
          /\ observe_kernel_locked(clients)[c] \in Counters
          /\ observe_kernel_locked(clients)[c] # NoClient
          /\ observe_kernel_locked(clients)[c].address = clients[c].address
          /\ observe_kernel_locked(clients)[c].total = Seen(c)
    /\ clients[c] # NoClient /\ kernel[c] = NoCounter =>
          observe_kernel_locked(clients)[c] = clients[c] /\ Seen(c) = Total(c)
    /\ clients[c] # NoClient /\ kernel[c] # NoCounter =>
          /\ observe_kernel_locked(clients)[c].last_raw = kernel[c].raw
          /\ Seen(c) = Total(c) + monotonic_delta(kernel[c].raw, clients[c].last_raw)

\* That is what a read of the kernel makes of every client.
LEMMA ReadOne == TypeOK => \A c \in Container : Read(c)
<1> SUFFICES ASSUME TypeOK, NEW c \in Container PROVE Read(c)
  BY Zenon
<1> USE DEF Read
<1> DEFINE o == observe_kernel_locked(clients)[c]
<1>1. o = IF clients[c] # NoClient /\ kernel[c] # NoCounter
          THEN observe(clients[c], kernel[c].raw) ELSE clients[c]
  BY DEF observe_kernel_locked
<1>2. clients[c] # NoClient =>
        /\ clients[c] \in Counters /\ clients[c].total \in Nat /\ clients[c].last_raw \in Nat
  BY DEF TypeOK, Counters
<1>3. kernel[c] # NoCounter => kernel[c].raw \in Nat
  BY DEF TypeOK
<1>4. \A x \in Counters : x # NoClient
  BY NullAssumption DEF Counters
<1>5. CASE clients[c] = NoClient
  BY <1>1, <1>5 DEF Total, Seen
<1>6. CASE clients[c] # NoClient /\ kernel[c] = NoCounter
  BY <1>1, <1>2, <1>6 DEF Total, Seen
<1>7. CASE clients[c] # NoClient /\ kernel[c] # NoCounter
  <2>1. /\ o \in Counters /\ o.address = clients[c].address /\ o.last_raw = kernel[c].raw
        /\ o.total = clients[c].total + monotonic_delta(kernel[c].raw, clients[c].last_raw)
    <3>1. o = observe(clients[c], kernel[c].raw)
      BY <1>1, <1>7
    <3> HIDE DEF o
    <3> QED
      BY <1>2, <1>3, <1>7, <3>1, Observed, Zenon
  <2>2. monotonic_delta(kernel[c].raw, clients[c].last_raw) \in Nat
    BY <1>2, <1>3, <1>7, DeltaType, Zenon
  <2>3. Total(c) = clients[c].total /\ Seen(c) = o.total
    BY <1>7 DEF Total, Seen
  <2> HIDE DEF o, monotonic_delta
  <2> QED
    BY <1>2, <1>4, <1>7, <2>1, <2>2, <2>3 DEF o
<1> QED
  BY <1>5, <1>6, <1>7

\* And it is so after every step.
LEMMA ReadNext == TypeOK' => (\A c \in Container : Read(c))'
BY ReadOne, PTL

\* A read of the kernel keeps the shape of the accumulators.
LEMMA ReadTyped ==
    ASSUME TypeOK, NEW cs \in [Container -> Counters \cup {NoClient}]
    PROVE  observe_kernel_locked(cs) \in [Container -> Counters \cup {NoClient}]
<1> SUFFICES ASSUME NEW c \in Container
             PROVE  observe_kernel_locked(cs)[c] \in Counters \cup {NoClient}
  BY DEF observe_kernel_locked
<1>1. observe_kernel_locked(cs)[c]
        = IF cs[c] # NoClient /\ kernel[c] # NoCounter THEN observe(cs[c], kernel[c].raw) ELSE cs[c]
  BY DEF observe_kernel_locked
<1>2. kernel[c] # NoCounter => kernel[c].raw \in Nat
  BY DEF TypeOK
<1>3. CASE cs[c] # NoClient /\ kernel[c] # NoCounter
  <2>1. cs[c] \in Counters
    BY <1>3
  <2>2. observe(cs[c], kernel[c].raw) \in Counters
    BY <1>2, <1>3, <2>1, Observed
  <2> QED
    BY <1>1, <1>3, <2>2
<1>4. CASE ~(cs[c] # NoClient /\ kernel[c] # NoCounter)
  BY <1>1, <1>4
<1> QED
  BY <1>3, <1>4

\* A table whose counters start at the totals, as a commit leaves it
Replaced(seen) ==
    [c \in Container |-> IF seen[c] = NoClient THEN NoCounter
                         ELSE [address |-> seen[c].address, raw |-> seen[c].total]]

\* Such a table has a counter, at the total, for each client and for no other.
LEMMA ReplacedTyped ==
    ASSUME NEW seen \in [Container -> Counters \cup {NoClient}]
    PROVE  /\ Replaced(seen) \in [Container -> [address : Address, raw : Nat] \cup {NoCounter}]
           /\ \A c \in Container :
                 /\ seen[c] = NoClient => Replaced(seen)[c] = NoCounter
                 /\ seen[c] # NoClient => /\ Replaced(seen)[c] # NoCounter
                                          /\ Replaced(seen)[c].raw = seen[c].total
<1>1. ASSUME NEW c \in Container, seen[c] # NoClient
      PROVE  [address |-> seen[c].address, raw |-> seen[c].total] \in [address : Address, raw : Nat]
  BY <1>1 DEF Counters
<1> QED
  BY <1>1, NullAssumption DEF Replaced

\* A commit that succeeds: every accumulator is at its total and so is its counter.
LEMMA Committed ==
    ASSUME TypeOK, NEW cs \in [Container -> Counters \cup {NoClient}], apply_locked(cs, TRUE)
    PROVE  LET seen == observe_kernel_locked(cs)
           IN /\ clients' \in [Container -> Counters \cup {NoClient}]
              /\ kernel' \in [Container -> [address : Address, raw : Nat] \cup {NoCounter}]
              /\ \A c \in Container :
                    /\ seen[c] = NoClient => clients'[c] = NoClient /\ kernel'[c] = NoCounter
                    /\ seen[c] # NoClient =>
                          /\ clients'[c] # NoClient /\ clients'[c].address = seen[c].address
                          /\ clients'[c].total = seen[c].total
                          /\ clients'[c].last_raw = seen[c].total
                          /\ kernel'[c] # NoCounter /\ kernel'[c].raw = seen[c].total
<1> DEFINE seen == observe_kernel_locked(cs)
<1>1. seen \in [Container -> Counters \cup {NoClient}]
  BY ReadTyped
<1>2. /\ kernel' = Replaced(seen)
      /\ clients' = [c \in Container |-> IF seen[c] = NoClient THEN NoClient ELSE seeded(seen[c])]
  BY DEF apply_locked, Replaced
<1> HIDE DEF seen
<1>3. ASSUME NEW c \in Container, seen[c] # NoClient
      PROVE  /\ seeded(seen[c]) \in Counters /\ seeded(seen[c]).address = seen[c].address
             /\ seeded(seen[c]).total = seen[c].total /\ seeded(seen[c]).last_raw = seen[c].total
  BY <1>1, <1>3 DEF seeded, Counters
<1>4. \A x \in Counters : x # NoClient
  BY NullAssumption DEF Counters
<1>5. clients' \in [Container -> Counters \cup {NoClient}]
  BY <1>2, <1>3
<1>6. ASSUME NEW c \in Container
      PROVE  /\ seen[c] = NoClient => clients'[c] = NoClient
             /\ seen[c] # NoClient =>
                   /\ clients'[c] # NoClient /\ clients'[c].address = seen[c].address
                   /\ clients'[c].total = seen[c].total /\ clients'[c].last_raw = seen[c].total
  <2>1. clients'[c] = IF seen[c] = NoClient THEN NoClient ELSE seeded(seen[c])
    BY <1>2
  <2> QED
    BY <1>3, <1>4, <2>1
<1> QED
  BY <1>1, <1>2, <1>5, <1>6, ReplacedTyped DEF seen

\* Reconciliation starts a new client at zero and keeps one that stays.
LEMMA Synced ==
    ASSUME NEW cs \in [Container -> Counters \cup {NoClient}],
           NEW addresses \in [Container -> Address \cup {NoAddress}]
    PROVE  sync_clients(cs, addresses) \in [Container -> Counters \cup {NoClient}]
BY DEF sync_clients, Counters

\* Every step keeps the shape of the state.
LEMMA TypeStep == TypeOK /\ [Next]_vars => TypeOK'
<1> SUFFICES ASSUME TypeOK, [Next]_vars PROVE TypeOK'
  OBVIOUS
<1>1. CASE Commit
  <2>1. PICK ok \in BOOLEAN : apply_locked(clients, ok)
    BY <1>1 DEF Commit
  <2>2. /\ clients' \in [Container -> Counters \cup {NoClient}]
        /\ kernel' \in [Container -> [address : Address, raw : Nat] \cup {NoCounter}]
    <3>1. CASE ok
      BY <2>1, <3>1, Committed, Zenon DEF TypeOK
    <3>2. CASE ~ok
      BY <2>1, <3>2, ReadTyped DEF TypeOK, apply_locked
    <3> QED
      BY <3>1, <3>2
  <2> QED
    BY <1>1, <2>2 DEF Commit, TypeOK, dvars, mvars, hvars
<1>2. CASE CommitDropped
  <2>1. clients' = observe_kernel_locked(clients) /\ kernel' = Replaced(observe_kernel_locked(clients))
    BY <1>2 DEF CommitDropped, Replaced
  <2>2. /\ clients' \in [Container -> Counters \cup {NoClient}]
        /\ kernel' \in [Container -> [address : Address, raw : Nat] \cup {NoCounter}]
    BY <2>1, ReadTyped, ReplacedTyped DEF TypeOK
  <2>3. doubtful' \in BOOLEAN /\ UNCHANGED <<dvars, mvars, hvars, counted, lossless>>
    BY <1>2 DEF CommitDropped
  <2> QED
    BY <2>2, <2>3 DEF TypeOK, dvars, mvars, hvars
<1>3. CASE ReconcileClients
  <2>1. PICK addresses \in Discoveries :
          /\ d_addresses' = addresses
          /\ apply_locked(sync_clients(observe_kernel_locked(clients), addresses), TRUE)
          /\ lossless' \in BOOLEAN
    BY <1>3, Zenon DEF ReconcileClients
  <2>2. addresses \in [Container -> Address \cup {NoAddress}]
    BY DEF Discoveries
  <2>3. observe_kernel_locked(clients) \in [Container -> Counters \cup {NoClient}]
    BY ReadTyped DEF TypeOK
  <2>4. sync_clients(observe_kernel_locked(clients), addresses)
          \in [Container -> Counters \cup {NoClient}]
    BY <2>2, <2>3, Synced
  <2>5. /\ clients' \in [Container -> Counters \cup {NoClient}]
        /\ kernel' \in [Container -> [address : Address, raw : Nat] \cup {NoCounter}]
    BY <2>1, <2>4, Committed, Zenon
  <2>6. d_pc' = "write" /\ UNCHANGED <<state_address, mvars, hvars, counted, doubtful>>
    BY <1>3 DEF ReconcileClients
  <2> QED
    BY <2>1, <2>2, <2>5, <2>6 DEF TypeOK, mvars, hvars
<1>4. CASE WriteClients
  BY <1>4 DEF WriteClients, TypeOK, cvars, mvars, hvars
<1>5. CASE Sample
  <2>1. clients' \in [Container -> Counters \cup {NoClient}]
    BY <1>5, ReadTyped DEF Sample, TypeOK
  <2>2. m_totals' = [c \in Container |->
                       IF clients'[c] = NoClient THEN NoTotal ELSE clients'[c].total]
    BY <1>5 DEF Sample
  <2>3. m_totals' \in [Container -> Nat \cup {NoTotal}]
    BY <2>1, <2>2 DEF Counters
  <2>4. m_pc' = "record" /\ UNCHANGED <<kernel, dvars, hvars, counted, lossless, doubtful>>
    BY <1>5 DEF Sample
  <2> QED
    BY <2>1, <2>3, <2>4 DEF TypeOK, dvars, hvars
<1>6. CASE Record
  <2>1. PICK dropped \in SUBSET Container :
          LET written == {c \in Container \ dropped :
                             m_totals[c] # NoTotal /\ state_address[c] # NoAddress}
          IN /\ recorded' = [c \in Container |->
                               IF c \in written THEN recorded[c] + UsageDelta(c)
                               ELSE recorded[c]]
             /\ baseline' = [c \in Container |->
                               IF c \in written
                               THEN [address |-> state_address[c], total |-> m_totals[c]]
                               ELSE baseline[c]]
    BY <1>6, Zenon DEF Record
  <2>2. ASSUME NEW c \in Container, m_totals[c] # NoTotal, state_address[c] # NoAddress
        PROVE  /\ recorded[c] + UsageDelta(c) \in Nat
               /\ [address |-> state_address[c], total |-> m_totals[c]]
                    \in [address : Address, total : Nat]
    <3>1. m_totals[c] \in Nat /\ state_address[c] \in Address /\ recorded[c] \in Nat
      BY <2>2 DEF TypeOK
    <3>2. baseline[c] # NoBaseline => baseline[c].total \in Nat
      BY DEF TypeOK
    <3>3. UsageDelta(c) \in Nat
      BY <3>1, <3>2, DeltaType DEF UsageDelta, same_incarnation
    <3> QED
      BY <3>1, <3>3
  <2>3. recorded' \in [Container -> Nat]
    BY <2>1, <2>2 DEF TypeOK
  <2>4. baseline' \in [Container -> [address : Address, total : Nat] \cup {NoBaseline}]
    BY <2>1, <2>2 DEF TypeOK
  <2>5. /\ m_pc' = "idle" /\ m_totals' = [c \in Container |-> NoTotal]
        /\ UNCHANGED <<cvars, dvars, counted, lossless, doubtful>>
    BY <1>6 DEF Record
  <2> QED
    BY <2>3, <2>4, <2>5 DEF TypeOK, cvars, dvars
<1>7. CASE Traffic
  <2>1. PICK c \in Container :
          /\ kernel[c] # NoCounter
          /\ kernel' = [kernel EXCEPT ![c].raw = @ + 1]
          /\ counted' = [counted EXCEPT ![c] = @ + 1]
          /\ UNCHANGED <<clients, dvars, mvars, hvars, lossless, doubtful>>
    BY <1>7, Zenon DEF Traffic
  <2>2. kernel' \in [Container -> [address : Address, raw : Nat] \cup {NoCounter}]
    BY <2>1 DEF TypeOK
  <2>3. counted' \in [Container -> Nat]
    BY <2>1 DEF TypeOK
  <2> QED
    BY <2>1, <2>2, <2>3 DEF TypeOK, dvars, mvars, hvars
<1>8. CASE Flush
  BY <1>8, Zenon DEF Flush, TypeOK, dvars, mvars, hvars
<1>9. CASE Reset
  <2>1. kernel' \in [Container -> [address : Address, raw : Nat] \cup {NoCounter}]
    BY <1>9 DEF Reset, TypeOK
  <2> QED
    BY <1>9, <2>1, Zenon DEF Reset, TypeOK, dvars, mvars, hvars
<1>10. CASE Restart
  BY <1>10, Zenon DEF Restart, TypeOK, hvars
<1>11. CASE UNCHANGED vars
  BY <1>11 DEF vars, cvars, dvars, mvars, hvars, TypeOK
<1> QED
  BY <1>1, <1>2, <1>3, <1>4, <1>5, <1>6, <1>7, <1>8, <1>9, <1>10, <1>11 DEF Next

----------------------------------------------------------------------------
(* Nothing is counted twice. *)

\* What keeps the recorded bytes and those still to come within the bytes counted
LEMMA FitsArithmetic ==
    ASSUME NEW n \in Nat, NEW rec \in Nat, NEW base \in Nat, NEW total \in Nat, NEW seen \in Nat,
           total <= seen, Fits(n, rec, base, total, seen)
    PROVE  /\ rec <= n
           /\ Fits(n, rec, base, 0, 0)
           /\ Fits(n, rec + monotonic_delta(seen, base), seen, seen, seen)
           /\ \A t, s \in Nat : total <= t /\ s <= seen => Fits(n, rec, base, t, s)
           /\ \A s \in Nat : s <= seen + 1 => Fits(n + 1, rec, base, total, s)
BY DEF Fits, monotonic_delta

\* The numbers Safe is about
LEMMA SafeTyped ==
    TypeOK => \A c \in Container :
                 /\ counted[c] \in Nat /\ recorded[c] \in Nat /\ Based(c) \in Nat
                 /\ m_totals[c] # NoTotal => /\ m_totals[c] \in Nat
                                             /\ monotonic_delta(m_totals[c], Based(c)) \in Nat
<1> SUFFICES ASSUME TypeOK, NEW c \in Container
             PROVE  /\ counted[c] \in Nat /\ recorded[c] \in Nat /\ Based(c) \in Nat
                    /\ m_totals[c] # NoTotal =>
                          /\ m_totals[c] \in Nat
                          /\ monotonic_delta(m_totals[c], Based(c)) \in Nat
  BY Zenon
<1>1. counted[c] \in Nat /\ recorded[c] \in Nat /\ (m_totals[c] # NoTotal => m_totals[c] \in Nat)
  BY DEF TypeOK
<1>2. Based(c) \in Nat
  BY DEF TypeOK, Based
<1> QED
  BY <1>1, <1>2, DeltaType

\* A step that leaves history alone keeps it safe if the coordinator sees no more
\* than before, one more with each byte counted, or starts again from zero.
LEMMA SafeKept ==
    ASSUME TypeOK, TypeOK', NEW c \in Container, Safe(c),
           recorded'[c] = recorded[c], baseline'[c] = baseline[c],
           m_totals'[c] \in {m_totals[c], NoTotal},
           \/ counted'[c] = counted[c] /\ Total(c) <= Total(c)' /\ Seen(c)' <= Seen(c)
           \/ counted'[c] = counted[c] + 1 /\ Total(c)' = Total(c) /\ Seen(c)' <= Seen(c) + 1
           \/ counted'[c] = counted[c] /\ Total(c)' = 0 /\ Seen(c)' = 0
    PROVE  Safe(c)'
<1>1. /\ Total(c) \in Nat /\ Seen(c) \in Nat /\ Total(c) <= Seen(c)
      /\ Total(c)' \in Nat /\ Seen(c)' \in Nat
  BY ReadOne, ReadNext DEF Read
<1>2. /\ counted[c] \in Nat /\ recorded[c] \in Nat /\ Based(c) \in Nat
      /\ m_totals[c] # NoTotal =>
            m_totals[c] \in Nat /\ monotonic_delta(m_totals[c], Based(c)) \in Nat
  BY SafeTyped
<1>3. Based(c)' = Based(c)
  BY DEF Based
<1>4. ASSUME NEW rec \in Nat, NEW base \in Nat, Fits(counted[c], rec, base, Total(c), Seen(c))
      PROVE  Fits(counted'[c], rec, base, Total(c)', Seen(c)')
  <2> DEFINE t == Total(c)
             s == Seen(c)
             t2 == Total(c)'
             s2 == Seen(c)'
  <2>1. t \in Nat /\ s \in Nat /\ t <= s /\ t2 \in Nat /\ s2 \in Nat
    BY <1>1
  <2> HIDE DEF t, s, t2, s2
  <2>2. /\ Fits(counted[c], rec, base, 0, 0)
        /\ \A x, y \in Nat : t <= x /\ y <= s => Fits(counted[c], rec, base, x, y)
        /\ \A y \in Nat : y <= s + 1 => Fits(counted[c] + 1, rec, base, t, y)
    BY <1>2, <1>4, <2>1, FitsArithmetic, Zenon DEF t, s
  <2>3. \/ counted'[c] = counted[c] /\ t <= t2 /\ s2 <= s
        \/ counted'[c] = counted[c] + 1 /\ t2 = t /\ s2 <= s + 1
        \/ counted'[c] = counted[c] /\ t2 = 0 /\ s2 = 0
    BY DEF t, s, t2, s2
  <2>4. Fits(counted'[c], rec, base, t2, s2)
    BY <2>1, <2>2, <2>3
  <2> QED
    BY <2>4 DEF t2, s2
<1>5. Fits(counted'[c], recorded'[c], Based(c)', Total(c)', Seen(c)')
  BY <1>2, <1>3, <1>4 DEF Safe
<1>6. ASSUME m_totals'[c] # NoTotal
      PROVE  Fits(counted'[c], recorded'[c] + monotonic_delta(m_totals'[c], Based(c)'),
                  m_totals'[c], Total(c)', Seen(c)')
  <2>1. m_totals[c] # NoTotal /\ m_totals'[c] = m_totals[c]
    BY <1>6
  <2>2. recorded[c] + monotonic_delta(m_totals[c], Based(c)) \in Nat
    BY <1>2, <2>1
  <2>3. Fits(counted[c], recorded[c] + monotonic_delta(m_totals[c], Based(c)), m_totals[c],
             Total(c), Seen(c))
    BY <2>1 DEF Safe
  <2>4. Fits(counted'[c], recorded[c] + monotonic_delta(m_totals[c], Based(c)), m_totals[c],
             Total(c)', Seen(c)')
    BY <1>2, <1>4, <2>1, <2>2, <2>3
  <2> QED
    BY <1>3, <2>1, <2>4
<1> QED
  BY <1>5, <1>6 DEF Safe

\* After a commit the coordinator knows all that the kernel holds, and that is
\* what it saw before.
LEMMA CommittedSeen ==
    ASSUME TypeOK, TypeOK', NEW cs \in [Container -> Counters \cup {NoClient}],
           apply_locked(cs, TRUE), NEW c \in Container
    PROVE  /\ Seen(c)' = Total(c)'
           /\ Total(c)' = IF observe_kernel_locked(cs)[c] = NoClient THEN 0
                          ELSE observe_kernel_locked(cs)[c].total
<1> DEFINE seen == observe_kernel_locked(cs)
<1>1. /\ seen[c] = NoClient => clients'[c] = NoClient /\ kernel'[c] = NoCounter
      /\ seen[c] # NoClient =>
            /\ clients'[c] # NoClient /\ clients'[c].total = seen[c].total
            /\ clients'[c].last_raw = seen[c].total
            /\ kernel'[c] # NoCounter /\ kernel'[c].raw = seen[c].total
  BY Committed, Zenon
<1>2. /\ Total(c)' \in Nat
      /\ clients'[c] # NoClient /\ kernel'[c] # NoCounter =>
            Seen(c)' = Total(c)' + monotonic_delta(kernel'[c].raw, clients'[c].last_raw)
  BY ReadNext DEF Read
<1>3. Total(c)' = IF clients'[c] = NoClient THEN 0 ELSE clients'[c].total
  BY DEF Total
<1>4. clients'[c] = NoClient => Seen(c)' = 0
  BY DEF Seen
<1> HIDE DEF seen
<1>5. CASE seen[c] = NoClient
  BY <1>1, <1>3, <1>4, <1>5 DEF seen
<1>6. CASE seen[c] # NoClient
  <2>1. seen[c].total \in Nat /\ Total(c)' = seen[c].total
    BY <1>1, <1>2, <1>3, <1>6
  <2>2. monotonic_delta(seen[c].total, seen[c].total) = 0
    BY <2>1 DEF monotonic_delta
  <2> QED
    BY <1>1, <1>2, <1>6, <2>1, <2>2 DEF seen
<1> QED
  BY <1>5, <1>6

\* A read that changes nothing in the kernel leaves what will be seen as it is.
LEMMA ReadSeen ==
    ASSUME TypeOK, TypeOK', clients' = observe_kernel_locked(clients), kernel' = kernel,
           NEW c \in Container
    PROVE  Seen(c)' = Seen(c) /\ Total(c)' = Seen(c)
<1>1. Read(c) /\ Read(c)'
  BY ReadOne, ReadNext
<1>2. CASE clients[c] = NoClient
  BY <1>1, <1>2 DEF Read, Total, Seen
<1>3. CASE clients[c] # NoClient
  <2>1. clients'[c] # NoClient /\ Total(c)' = Seen(c)
    BY <1>1, <1>3 DEF Read, Total
  <2>2. CASE kernel[c] = NoCounter
    <3>1. Seen(c)' = Total(c)'
      BY <1>1, <2>1, <2>2 DEF Read
    <3> QED
      BY <2>1, <3>1
  <2>3. CASE kernel[c] # NoCounter
    <3>1. clients'[c].last_raw = kernel[c].raw
      BY <1>1, <1>3, <2>3 DEF Read
    <3>2. Seen(c)' = Total(c)' + monotonic_delta(kernel[c].raw, kernel[c].raw)
      BY <1>1, <2>1, <2>3, <3>1 DEF Read
    <3>3. kernel[c].raw \in Nat /\ Seen(c) \in Nat
      BY <1>1, <2>3 DEF TypeOK, Read
    <3>4. monotonic_delta(kernel[c].raw, kernel[c].raw) = 0
      BY <3>3 DEF monotonic_delta
    <3> QED
      BY <2>1, <3>2, <3>3, <3>4
  <2> QED
    BY <2>2, <2>3
<1> QED
  BY <1>2, <1>3

\* A reconciliation keeps what a client that stays has been seen to count and
\* starts every other at zero.
LEMMA ReconciledSeen ==
    ASSUME TypeOK, TypeOK', NEW addresses \in Discoveries,
           apply_locked(sync_clients(observe_kernel_locked(clients), addresses), TRUE),
           NEW c \in Container, clients[c] = NoClient => kernel[c] = NoCounter
    PROVE  /\ Seen(c)' = Total(c)'
           /\ addresses[c] = NoAddress => clients'[c] = NoClient /\ Total(c)' = 0
           /\ clients[c] = NoClient => Total(c)' = 0
           /\ clients[c] # NoClient /\ clients[c].address = addresses[c] => Total(c)' = Seen(c)
           /\ clients'[c] # NoClient => clients'[c].address = addresses[c]
           /\ clients'[c] = NoClient => kernel'[c] = NoCounter
           /\ clients'[c] # NoClient =>
                 /\ kernel'[c] # NoCounter /\ kernel'[c].raw = Total(c)'
                 /\ clients'[c].last_raw = Total(c)'
           /\ addresses[c] # NoAddress => clients'[c] # NoClient
<1> DEFINE o == observe_kernel_locked(clients)
           sy == sync_clients(o, addresses)
           seen == observe_kernel_locked(sy)
<1>0. addresses \in [Container -> Address \cup {NoAddress}]
  BY DEF Discoveries
<1>1. o \in [Container -> Counters \cup {NoClient}]
  BY ReadTyped DEF TypeOK
<1>2. sy \in [Container -> Counters \cup {NoClient}]
  BY <1>0, <1>1, Synced
<1>3. /\ sy[c] = IF addresses[c] = NoAddress THEN NoClient
                 ELSE IF o[c] # NoClient /\ o[c].address = addresses[c] THEN o[c]
                 ELSE [address |-> addresses[c], total |-> 0, last_raw |-> 0]
      /\ seen[c] = IF sy[c] # NoClient /\ kernel[c] # NoCounter
                   THEN observe(sy[c], kernel[c].raw) ELSE sy[c]
  <2> HIDE DEF o
  <2> QED
    BY DEF sync_clients, observe_kernel_locked
<1>4. /\ Seen(c)' = Total(c)'
      /\ Total(c)' = IF seen[c] = NoClient THEN 0 ELSE seen[c].total
  BY <1>2, CommittedSeen, Zenon
<1>5. /\ seen[c] = NoClient => clients'[c] = NoClient /\ kernel'[c] = NoCounter
      /\ seen[c] # NoClient =>
            /\ clients'[c] # NoClient /\ clients'[c].address = seen[c].address
            /\ clients'[c].last_raw = seen[c].total
            /\ kernel'[c] # NoCounter /\ kernel'[c].raw = seen[c].total
  BY <1>2, Committed, Zenon
<1>6. Read(c)
  BY ReadOne
<1>7. kernel[c] # NoCounter => kernel[c].raw \in Nat
  BY DEF TypeOK
<1>8. \A x \in Counters : x # NoClient
  BY NullAssumption DEF Counters
<1> HIDE DEF o, sy, seen
<1>9. CASE addresses[c] = NoAddress
  <2>1. seen[c] = NoClient
    BY <1>3, <1>9
  <2>2. clients[c] # NoClient => clients[c].address \in Address
    BY DEF TypeOK, Counters
  <2> QED
    BY <1>4, <1>5, <1>9, <2>1, <2>2, NullAssumption
<1>10. CASE addresses[c] # NoAddress /\ o[c] # NoClient /\ o[c].address = addresses[c]
  <2>1. sy[c] = o[c] /\ o[c] \in Counters
    BY <1>1, <1>3, <1>10
  <2>2. clients[c] # NoClient /\ o[c].total = Seen(c) /\ Seen(c) \in Nat
    BY <1>6, <1>10 DEF Read, o
  <2>3. seen[c] \in Counters /\ seen[c].total = Seen(c) /\ seen[c].address = addresses[c]
    <3>1. CASE kernel[c] = NoCounter
      BY <1>3, <1>10, <2>1, <2>2, <3>1
    <3>2. CASE kernel[c] # NoCounter
      <4>1. seen[c] = observe(o[c], kernel[c].raw) /\ o[c].last_raw = kernel[c].raw
        BY <1>3, <1>6, <1>10, <2>1, <2>2, <3>2 DEF Read, o
      <4>2. monotonic_delta(kernel[c].raw, kernel[c].raw) = 0
        BY <1>7, <3>2 DEF monotonic_delta
      <4>3. /\ seen[c] \in Counters /\ seen[c].address = o[c].address
            /\ seen[c].total = o[c].total + monotonic_delta(kernel[c].raw, kernel[c].raw)
        BY <1>7, <2>1, <3>2, <4>1, Observed
      <4> QED
        BY <1>10, <2>2, <4>2, <4>3
    <3> QED
      BY <3>1, <3>2
  <2> QED
    BY <1>4, <1>5, <1>8, <1>10, <2>2, <2>3
<1>11. CASE addresses[c] # NoAddress /\ ~(o[c] # NoClient /\ o[c].address = addresses[c])
  <2>1. /\ sy[c] = [address |-> addresses[c], total |-> 0, last_raw |-> 0]
        /\ sy[c] \in Counters /\ sy[c].address = addresses[c] /\ sy[c].total = 0
    BY <1>0, <1>3, <1>11 DEF Counters
  <2>2. ~(clients[c] # NoClient /\ clients[c].address = addresses[c])
    BY <1>6, <1>11 DEF Read, o
  <2>3. seen[c] \in Counters /\ seen[c].address = addresses[c]
    BY <1>3, <1>7, <1>8, <2>1, Observed
  <2>4. clients[c] = NoClient => seen[c].total = 0
    BY <1>3, <2>1
  <2> QED
    BY <1>4, <1>5, <1>8, <1>11, <2>2, <2>3, <2>4
<1> QED
  BY <1>9, <1>10, <1>11

\* Every step keeps a container to the addresses it may be given.
LEMMA SettledStep ==
    TypeOK /\ (\A c \in Container : Settled(c)) /\ [Next]_vars => \A c \in Container : Settled(c)'
<1> SUFFICES ASSUME TypeOK, \A c \in Container : Settled(c), [Next]_vars, NEW c \in Container
             PROVE  Settled(c)'
  OBVIOUS
<1>0. Settled(c) /\ TypeOK'
  BY TypeStep
<1>1. CASE Commit
  <2>1. PICK ok \in BOOLEAN : apply_locked(clients, ok)
    BY <1>1 DEF Commit
  <2>2. /\ clients'[c] = NoClient => kernel'[c] = NoCounter
        /\ clients'[c] # NoClient =>
              clients[c] # NoClient /\ clients'[c].address = clients[c].address
    <3>1. CASE ok
      <4>1. clients \in [Container -> Counters \cup {NoClient}]
        BY DEF TypeOK
      <4>2. /\ observe_kernel_locked(clients)[c] = NoClient =>
                  clients'[c] = NoClient /\ kernel'[c] = NoCounter
            /\ observe_kernel_locked(clients)[c] # NoClient =>
                  /\ clients'[c] # NoClient
                  /\ clients'[c].address = observe_kernel_locked(clients)[c].address
        BY <2>1, <3>1, <4>1, Committed, Zenon
      <4> QED
        BY <4>2, ReadOne DEF Read
    <3>2. CASE ~ok
      <4>1. clients' = observe_kernel_locked(clients) /\ kernel' = kernel
        BY <2>1, <3>2 DEF apply_locked
      <4> QED
        BY <1>0, <4>1, ReadOne DEF Read, Settled
    <3> QED
      BY <3>1, <3>2
  <2> QED
    BY <1>0, <1>1, <2>2 DEF Commit, dvars, mvars, hvars, Settled
<1>2. CASE CommitDropped
  <2>1. clients' = observe_kernel_locked(clients) /\ kernel' = Replaced(observe_kernel_locked(clients))
    BY <1>2 DEF CommitDropped, Replaced
  <2>2. /\ clients'[c] = NoClient => kernel'[c] = NoCounter
        /\ clients'[c] # NoClient =>
              clients[c] # NoClient /\ clients'[c].address = clients[c].address
    BY <2>1, ReadOne DEF Read, Replaced
  <2> QED
    BY <1>0, <1>2, <2>2 DEF CommitDropped, dvars, mvars, hvars, Settled
<1>3. CASE ReconcileClients
  <2>1. PICK addresses \in Discoveries :
          /\ d_addresses' = addresses
          /\ apply_locked(sync_clients(observe_kernel_locked(clients), addresses), TRUE)
    BY <1>3, Zenon DEF ReconcileClients
  <2>2. addresses[c] \in AddressesOf[c] \cup {NoAddress}
    BY DEF Discoveries
  <2>3. /\ addresses[c] = NoAddress => clients'[c] = NoClient
        /\ clients'[c] # NoClient => clients'[c].address = addresses[c]
        /\ clients'[c] = NoClient => kernel'[c] = NoCounter
    BY <1>0, <2>1, ReconciledSeen, Zenon DEF Settled
  <2>4. UNCHANGED <<state_address, hvars>>
    BY <1>3 DEF ReconcileClients
  <2> QED
    BY <1>0, <2>1, <2>2, <2>3, <2>4 DEF hvars, Settled
<1>4. CASE WriteClients
  BY <1>0, <1>4 DEF WriteClients, cvars, mvars, hvars, Settled
<1>5. CASE Sample
  <2>1. clients' = observe_kernel_locked(clients) /\ kernel' = kernel /\ UNCHANGED <<dvars, hvars>>
    BY <1>5 DEF Sample
  <2> QED
    BY <1>0, <2>1, ReadOne DEF Read, dvars, hvars, Settled
<1>6. CASE Record
  <2>1. /\ UNCHANGED <<cvars, dvars>>
        /\ \/ baseline'[c] = baseline[c]
           \/ /\ state_address[c] # NoAddress
              /\ baseline'[c] = [address |-> state_address[c], total |-> m_totals[c]]
    BY <1>6 DEF Record
  <2> QED
    BY <1>0, <2>1 DEF cvars, dvars, Settled
<1>7. CASE Traffic
  <2>1. PICK k \in Container :
          /\ kernel[k] # NoCounter
          /\ kernel' = [kernel EXCEPT ![k].raw = @ + 1]
          /\ UNCHANGED <<clients, dvars, mvars, hvars>>
    BY <1>7, Zenon DEF Traffic
  <2>2. kernel[c] = NoCounter => kernel'[c] = NoCounter
    BY <2>1 DEF TypeOK
  <2> QED
    BY <1>0, <2>1, <2>2 DEF dvars, hvars, Settled
<1>8. CASE Flush
  BY <1>0, <1>8 DEF Flush, dvars, hvars, Settled
<1>9. CASE Reset
  BY <1>0, <1>9 DEF Reset, dvars, hvars, Settled
<1>10. CASE Restart
  BY <1>0, <1>10 DEF Restart, hvars, Settled
<1>11. CASE UNCHANGED vars
  BY <1>0, <1>11 DEF vars, cvars, dvars, mvars, hvars, Settled
<1> QED
  BY <1>1, <1>2, <1>3, <1>4, <1>5, <1>6, <1>7, <1>8, <1>9, <1>10, <1>11 DEF Next

\* A step that leaves the database alone; only a sample it drops or keeps
HistoryKept(c) ==
    /\ recorded'[c] = recorded[c] /\ baseline'[c] = baseline[c]
    /\ m_totals'[c] \in {m_totals[c], NoTotal}

\* The steps of the coordinator keep history safe.
LEMMA CoordinatorSafe ==
    ASSUME TypeOK, TypeOK', NEW c \in Container, Settled(c), Safe(c),
           \A a, b \in AddressesOf[c] : a = b,
           Commit \/ (CommitDropped /\ ~doubtful') \/ ReconcileClients \/ WriteClients
    PROVE  Safe(c)'
<1>0. Read(c) /\ Read(c)'
  BY ReadOne, ReadNext
<1>1. CASE Commit
  <2>1. PICK ok \in BOOLEAN : apply_locked(clients, ok)
    BY <1>1 DEF Commit
  <2>2. HistoryKept(c) /\ counted' = counted
    BY <1>1 DEF Commit, HistoryKept, mvars, hvars
  <2>3. Seen(c)' = Seen(c) /\ Total(c)' = Seen(c)
    <3>1. CASE ok
      <4>1. clients \in [Container -> Counters \cup {NoClient}]
        BY DEF TypeOK
      <4>2. /\ Seen(c)' = Total(c)'
            /\ Total(c)' = IF observe_kernel_locked(clients)[c] = NoClient THEN 0
                           ELSE observe_kernel_locked(clients)[c].total
        BY <2>1, <3>1, <4>1, CommittedSeen, Zenon
      <4>3. Seen(c) = IF observe_kernel_locked(clients)[c] = NoClient THEN 0
                      ELSE observe_kernel_locked(clients)[c].total
        BY <1>0 DEF Read, Seen
      <4> QED
        BY <4>2, <4>3
    <3>2. CASE ~ok
      <4>1. clients' = observe_kernel_locked(clients) /\ kernel' = kernel
        BY <2>1, <3>2 DEF apply_locked
      <4> QED
        BY <4>1, ReadSeen
    <3> QED
      BY <3>1, <3>2
  <2>4. Total(c) \in Nat /\ Seen(c) \in Nat /\ Total(c) <= Total(c)' /\ Seen(c)' <= Seen(c)
    BY <1>0, <2>3 DEF Read
  <2> QED
    BY <2>2, <2>4, SafeKept DEF HistoryKept
<1>2. CASE CommitDropped /\ ~doubtful'
  <2>1. /\ clients' = observe_kernel_locked(clients)
        /\ kernel' = Replaced(observe_kernel_locked(clients))
        /\ clients'[c] # NoClient => clients'[c].last_raw = clients'[c].total
    BY <1>2 DEF CommitDropped, Replaced
  <2>2. HistoryKept(c) /\ counted' = counted
    BY <1>2 DEF CommitDropped, HistoryKept, mvars, hvars
  <2>3. Seen(c)' = Seen(c) /\ Total(c)' = Seen(c)
    <3>1. CASE clients[c] = NoClient
      BY <1>0, <2>1, <3>1 DEF Read, Total, Seen
    <3>2. CASE clients[c] # NoClient
      <4>1. /\ clients'[c] # NoClient /\ Total(c)' = Seen(c) /\ Seen(c) \in Nat
            /\ clients'[c].last_raw = Seen(c)
        BY <1>0, <2>1, <3>2 DEF Read, Total
      <4>2. kernel'[c] = [address |-> clients'[c].address, raw |-> Seen(c)]
        BY <1>0, <2>1, <3>2 DEF Read, Replaced
      <4>3. kernel'[c] # NoCounter /\ kernel'[c].raw = Seen(c)
        <5>1. clients'[c].address \in Address
          BY <4>1 DEF TypeOK, Counters
        <5> QED
          BY <4>1, <4>2, <5>1, NullAssumption
      <4>4. Seen(c)' = Total(c)' + monotonic_delta(Seen(c), Seen(c))
        BY <1>0, <4>1, <4>3 DEF Read
      <4>5. monotonic_delta(Seen(c), Seen(c)) = 0
        BY <4>1 DEF monotonic_delta
      <4> QED
        BY <4>1, <4>4, <4>5
    <3> QED
      BY <3>1, <3>2
  <2>4. Total(c) \in Nat /\ Seen(c) \in Nat /\ Total(c) <= Total(c)' /\ Seen(c)' <= Seen(c)
    BY <1>0, <2>3 DEF Read
  <2> QED
    BY <2>2, <2>4, SafeKept DEF HistoryKept
<1>3. CASE ReconcileClients
  <2>1. PICK addresses \in Discoveries :
          apply_locked(sync_clients(observe_kernel_locked(clients), addresses), TRUE)
    BY <1>3, Zenon DEF ReconcileClients
  <2>2. HistoryKept(c) /\ counted' = counted
    BY <1>3 DEF ReconcileClients, HistoryKept, mvars, hvars
  <2>3. addresses[c] \in AddressesOf[c] \cup {NoAddress}
    BY DEF Discoveries
  <2>4. /\ Seen(c)' = Total(c)'
        /\ addresses[c] = NoAddress => Total(c)' = 0
        /\ clients[c] = NoClient => Total(c)' = 0
        /\ clients[c] # NoClient /\ clients[c].address = addresses[c] => Total(c)' = Seen(c)
    BY <2>1, ReconciledSeen, Zenon DEF Settled
  <2>5. Total(c)' = 0 \/ Total(c)' = Seen(c)
    BY <2>3, <2>4 DEF Settled
  <2>6. \/ Total(c) <= Total(c)' /\ Seen(c)' <= Seen(c)
        \/ Total(c)' = 0 /\ Seen(c)' = 0
    BY <1>0, <2>4, <2>5 DEF Read
  <2> QED
    BY <2>2, <2>6, SafeKept DEF HistoryKept
<1>4. CASE WriteClients
  <2>1. /\ HistoryKept(c) /\ counted' = counted /\ UNCHANGED <<clients, kernel>>
    BY <1>4 DEF WriteClients, HistoryKept, cvars, mvars, hvars
  <2>2. Total(c)' = Total(c) /\ Seen(c)' = Seen(c)
    BY <2>1 DEF Total, Seen, observe_kernel_locked
  <2> QED
    BY <1>0, <2>1, <2>2, SafeKept DEF HistoryKept, Read
<1> QED
  BY <1>1, <1>2, <1>3, <1>4

\* So do the sample and the record of it.
LEMMA HistorySafe ==
    ASSUME TypeOK, TypeOK', NEW c \in Container, Settled(c), Safe(c),
           \A a, b \in AddressesOf[c] : a = b,
           Sample \/ Record
    PROVE  Safe(c)'
<1>0. Read(c) /\ Read(c)'
  BY ReadOne, ReadNext
<1>1. /\ counted[c] \in Nat /\ recorded[c] \in Nat /\ Based(c) \in Nat
      /\ Total(c) \in Nat /\ Seen(c) \in Nat /\ Total(c) <= Seen(c)
      /\ m_totals[c] # NoTotal =>
            m_totals[c] \in Nat /\ monotonic_delta(m_totals[c], Based(c)) \in Nat
  BY <1>0, SafeTyped DEF Read
<1>2. CASE Sample
  <2>1. /\ clients' = observe_kernel_locked(clients) /\ kernel' = kernel
        /\ UNCHANGED <<baseline, recorded, counted>>
        /\ m_totals'[c] = IF clients'[c] = NoClient THEN NoTotal ELSE clients'[c].total
    BY <1>2 DEF Sample, hvars
  <2>2. Seen(c)' = Seen(c) /\ Total(c)' = Seen(c) /\ Based(c)' = Based(c)
    BY <2>1, ReadSeen DEF Based
  <2>3. m_totals'[c] # NoTotal => m_totals'[c] = Seen(c)
    BY <2>1, <2>2 DEF Total
  <2>4. /\ Fits(counted[c], recorded[c] + monotonic_delta(Seen(c), Based(c)), Seen(c), Seen(c), Seen(c))
        /\ Fits(counted[c], recorded[c], Based(c), Seen(c), Seen(c))
    <3>1. Fits(counted[c], recorded[c], Based(c), Total(c), Seen(c))
      BY DEF Safe
    <3>2. Seen(c) <= Seen(c)
      BY <1>1
    <3> QED
      BY <1>1, <3>1, <3>2, FitsArithmetic
  <2> QED
    BY <2>1, <2>2, <2>3, <2>4 DEF Safe
<1>3. CASE Record
  <2>1. /\ m_totals'[c] = NoTotal /\ UNCHANGED <<clients, kernel, counted>>
        /\ \/ recorded'[c] = recorded[c] /\ baseline'[c] = baseline[c]
           \/ /\ m_totals[c] # NoTotal /\ state_address[c] # NoAddress
              /\ recorded'[c] = recorded[c] + UsageDelta(c)
              /\ baseline'[c] = [address |-> state_address[c], total |-> m_totals[c]]
    BY <1>3 DEF Record, cvars
  <2>2. Total(c)' = Total(c) /\ Seen(c)' = Seen(c)
    BY <2>1 DEF Total, Seen, observe_kernel_locked
  <2>3. CASE recorded'[c] = recorded[c] /\ baseline'[c] = baseline[c]
    BY <1>1, <2>1, <2>2, <2>3, SafeKept
  <2>4. CASE /\ m_totals[c] # NoTotal /\ state_address[c] # NoAddress
             /\ recorded'[c] = recorded[c] + UsageDelta(c)
             /\ baseline'[c] = [address |-> state_address[c], total |-> m_totals[c]]
    <3>1. UsageDelta(c) = monotonic_delta(m_totals[c], Based(c))
      <4>1. CASE same_incarnation(c)
        BY <4>1 DEF UsageDelta, same_incarnation, Based
      <4>2. CASE ~same_incarnation(c)
        <5>1. baseline[c] = NoBaseline
          BY <2>4, <4>2 DEF same_incarnation, Settled
        <5> QED
          BY <1>1, <2>4, <4>2, <5>1 DEF UsageDelta, Based, monotonic_delta
      <4> QED
        BY <4>1, <4>2
    <3>2. Based(c)' = m_totals[c]
      <4>1. state_address[c] \in Address /\ m_totals[c] \in Nat
        BY <2>4 DEF TypeOK
      <4> QED
        BY <2>4, <4>1, NullAssumption DEF Based
    <3> QED
      BY <2>1, <2>2, <2>4, <3>1, <3>2 DEF Safe
  <2> QED
    BY <2>1, <2>3, <2>4
<1> QED
  BY <1>2, <1>3

\* One more byte is one more to be seen, at most.
LEMMA OneMore ==
    ASSUME NEW raw \in Nat, NEW last \in Nat
    PROVE  /\ monotonic_delta(raw + 1, last) <= monotonic_delta(raw, last) + 1
           /\ monotonic_delta(0, last) = 0
BY DEF monotonic_delta

\* So do traffic, a table that is lost or zeroed, and a restart.
LEMMA KernelSafe ==
    ASSUME TypeOK, TypeOK', NEW c \in Container, Settled(c), Safe(c),
           Traffic \/ Flush \/ Reset \/ Restart
    PROVE  Safe(c)'
<1>0. Read(c) /\ Read(c)' /\ counted[c] \in Nat
  BY ReadOne, ReadNext, SafeTyped
<1>1. CASE Traffic
  <2>1. PICK k \in Container :
          /\ kernel[k] # NoCounter
          /\ kernel' = [kernel EXCEPT ![k].raw = @ + 1]
          /\ counted' = [counted EXCEPT ![k] = @ + 1]
          /\ UNCHANGED <<clients, mvars, hvars>>
    BY <1>1, Zenon DEF Traffic
  <2>2. HistoryKept(c) /\ Total(c)' = Total(c)
    BY <2>1 DEF HistoryKept, mvars, hvars, Total
  <2>3. CASE c # k
    <3>1. kernel'[c] = kernel[c] /\ counted'[c] = counted[c]
      BY <2>1, <2>3 DEF TypeOK
    <3>2. Seen(c)' = Seen(c)
      <4>1. /\ observe_kernel_locked(clients)[c]
                 = IF clients[c] # NoClient /\ kernel[c] # NoCounter
                   THEN observe(clients[c], kernel[c].raw) ELSE clients[c]
            /\ observe_kernel_locked(clients)[c]'
                 = IF clients'[c] # NoClient /\ kernel'[c] # NoCounter
                   THEN observe(clients'[c], kernel'[c].raw) ELSE clients'[c]
        BY DEF observe_kernel_locked
      <4>2. observe_kernel_locked(clients)[c]' = observe_kernel_locked(clients)[c]
        BY <2>1, <3>1, <4>1
      <4> QED
        BY <2>1, <4>2 DEF Seen
    <3> QED
      BY <1>0, <2>2, <3>1, <3>2, SafeKept DEF HistoryKept, Read
  <2>4. CASE c = k
    <3>1. /\ kernel[c] # NoCounter /\ kernel'[c] # NoCounter /\ kernel[c].raw \in Nat
          /\ kernel'[c].raw = kernel[c].raw + 1 /\ counted'[c] = counted[c] + 1
      BY <2>1, <2>4, NullAssumption DEF TypeOK
    <3>2. clients[c] # NoClient /\ clients'[c] = clients[c] /\ clients[c].last_raw \in Nat
      BY <2>1, <3>1 DEF Settled, TypeOK, Counters
    <3>3. /\ Seen(c) = Total(c) + monotonic_delta(kernel[c].raw, clients[c].last_raw)
          /\ Seen(c)' = Total(c)' + monotonic_delta(kernel'[c].raw, clients'[c].last_raw)
      BY <1>0, <3>1, <3>2 DEF Read
    <3>4. monotonic_delta(kernel[c].raw + 1, clients[c].last_raw)
            <= monotonic_delta(kernel[c].raw, clients[c].last_raw) + 1
      BY <3>1, <3>2, OneMore
    <3>5. /\ monotonic_delta(kernel[c].raw + 1, clients[c].last_raw) \in Nat
          /\ monotonic_delta(kernel[c].raw, clients[c].last_raw) \in Nat
      <4>1. kernel[c].raw + 1 \in Nat
        BY <3>1
      <4> QED
        BY <3>1, <3>2, <4>1, DeltaType, Zenon
    <3>6. Seen(c)' = Total(c) + monotonic_delta(kernel[c].raw + 1, clients[c].last_raw)
      BY <2>2, <3>1, <3>2, <3>3
    <3>7. Seen(c)' <= Seen(c) + 1
      BY <1>0, <3>3, <3>4, <3>5, <3>6 DEF Read
    <3> QED
      BY <2>2, <3>1, <3>7, SafeKept DEF HistoryKept
  <2> QED
    BY <2>3, <2>4
<1>2. CASE Flush \/ Reset
  <2>1. /\ HistoryKept(c) /\ Total(c)' = Total(c) /\ clients' = clients /\ counted' = counted
        /\ kernel'[c] # NoCounter => kernel[c] # NoCounter
    BY <1>2 DEF Flush, Reset, HistoryKept, mvars, hvars, Total
  <2>2. kernel'[c] # NoCounter => kernel'[c].raw = 0
    BY <1>2 DEF Flush, Reset, TypeOK
  <2>3. Seen(c)' = Total(c)
    <3>1. CASE clients[c] = NoClient
      BY <2>1, <3>1 DEF Seen, Total
    <3>2. CASE clients[c] # NoClient /\ kernel'[c] = NoCounter
      BY <1>0, <2>1, <3>2 DEF Read
    <3>3. CASE clients[c] # NoClient /\ kernel'[c] # NoCounter
      <4>1. Seen(c)' = Total(c)' + monotonic_delta(kernel'[c].raw, clients'[c].last_raw)
        BY <1>0, <2>1, <3>3 DEF Read
      <4>2. clients[c].last_raw \in Nat /\ Total(c) \in Nat
        BY <1>0, <3>3 DEF TypeOK, Counters, Read
      <4>3. monotonic_delta(0, clients[c].last_raw) = 0
        BY <4>2, OneMore
      <4> QED
        BY <2>1, <2>2, <3>3, <4>1, <4>2, <4>3
    <3> QED
      BY <3>1, <3>2, <3>3
  <2>4. Total(c) <= Total(c)' /\ Seen(c)' <= Seen(c)
    BY <1>0, <2>1, <2>3, Zenon DEF Read
  <2> QED
    BY <2>1, <2>4, SafeKept DEF HistoryKept
<1>3. CASE Restart
  <2>1. HistoryKept(c) /\ counted' = counted /\ clients'[c] = NoClient
    BY <1>3 DEF Restart, HistoryKept, hvars
  <2>2. Total(c)' = 0 /\ Seen(c)' = 0
    BY <2>1 DEF Total, Seen
  <2> QED
    BY <2>1, <2>2, SafeKept, Zenon DEF HistoryKept
<1> QED
  BY <1>1, <1>2, <1>3

\* History never shows more bytes for a container than the kernel counted
\* (write_usage and apply_locked together), whatever the containers and however
\* many bytes they send, as long as a container always comes back with the address
\* it had.
THEOREM OvercountsNever ==
    ASSUME \A c \in Container : \A a, b \in AddressesOf[c] : a = b
    PROVE  Spec => []NeverOvercounts
<1>1. Init => OvercountInv
  <2> SUFFICES ASSUME Init PROVE OvercountInv
    OBVIOUS
  <2>1. TypeOK
    BY Zenon DEF Init, TypeOK
  <2>2. \A c \in Container : Settled(c)
    BY Zenon DEF Init, Settled
  <2>3. ASSUME NEW c \in Container PROVE Safe(c)
    <3>1. /\ counted[c] = 0 /\ recorded[c] = 0 /\ m_totals[c] = NoTotal
          /\ Based(c) = 0 /\ Total(c) = 0 /\ Seen(c) = 0
      BY DEF Init, Based, Total, Seen
    <3> QED
      BY <3>1 DEF Safe, Fits
  <2> QED
    BY <2>1, <2>2, <2>3 DEF OvercountInv
<1>2. OvercountInv /\ [Next]_vars => OvercountInv'
  <2> SUFFICES ASSUME OvercountInv, [Next]_vars PROVE OvercountInv'
    OBVIOUS
  <2>1. TypeOK' /\ \A c \in Container : Settled(c)'
    BY TypeStep, SettledStep DEF OvercountInv
  <2>2. ASSUME ~doubtful', NEW c \in Container PROVE Safe(c)'
    <3>1. ~doubtful
      BY <2>2, Zenon DEF Next, vars, Commit, CommitDropped, ReconcileClients, WriteClients, Sample, Record,
                  Traffic, Flush, Reset, Restart
    <3>2. TypeOK /\ Settled(c) /\ Safe(c) /\ \A a, b \in AddressesOf[c] : a = b
      BY <3>1 DEF OvercountInv
    <3>3. CASE Commit \/ (CommitDropped /\ ~doubtful') \/ ReconcileClients \/ WriteClients
      BY <2>1, <3>2, <3>3, CoordinatorSafe
    <3>4. CASE Sample \/ Record
      BY <2>1, <3>2, <3>4, HistorySafe
    <3>5. CASE Traffic \/ Flush \/ Reset \/ Restart
      BY <2>1, <3>2, <3>5, KernelSafe
    <3>6. CASE UNCHANGED vars
      BY <3>2, <3>6 DEF vars, cvars, mvars, hvars, Safe, Based, Total, Seen, observe_kernel_locked
    <3> QED
      BY <2>2, <3>3, <3>4, <3>5, <3>6 DEF Next
  <2> QED
    BY <2>1, <2>2 DEF OvercountInv
<1>3. OvercountInv => NeverOvercounts
  <2> SUFFICES ASSUME OvercountInv, ~doubtful, NEW c \in Container PROVE recorded[c] <= counted[c]
    BY Zenon DEF NeverOvercounts
  <2>1. TypeOK /\ Safe(c)
    BY DEF OvercountInv
  <2>2. Total(c) \in Nat /\ Seen(c) \in Nat /\ Total(c) <= Seen(c)
    BY <2>1, ReadOne DEF Read
  <2> QED
    BY <2>1, <2>2, SafeTyped, FitsArithmetic DEF Safe
<1> QED
  BY <1>1, <1>2, <1>3, PTL DEF Spec

----------------------------------------------------------------------------
(* Nothing is lost. *)

\* While no counter was lost: a client's counter has every byte, its accumulator
\* stands where the counter was read, the four places that know its address agree,
\* and history, the pending sample and the accumulator follow one another.  A
\* container that was never a client is known nowhere.
Whole(c) ==
    /\ clients[c] # NoClient =>
          /\ kernel[c] # NoCounter /\ kernel[c].raw = counted[c]
          /\ clients[c].last_raw = clients[c].total /\ clients[c].total <= counted[c]
          /\ d_addresses[c] = clients[c].address
          /\ state_address[c] \in {NoAddress, clients[c].address}
          /\ baseline[c] # NoBaseline => baseline[c].address = clients[c].address
          /\ Based(c) <= clients[c].total
          /\ m_totals[c] # NoTotal => Based(c) <= m_totals[c] /\ m_totals[c] <= clients[c].total
    /\ clients[c] = NoClient =>
          /\ counted[c] = 0 /\ kernel[c] = NoCounter /\ baseline[c] = NoBaseline
          /\ m_totals[c] = NoTotal /\ d_addresses[c] = NoAddress /\ state_address[c] = NoAddress
    /\ recorded[c] = Based(c)

LossInv == TypeOK /\ (lossless => \A c \in Container : Whole(c))

\* A read of the kernel then gives every byte that was counted.
LEMMA WholeSeen ==
    TypeOK => \A c \in Container : Whole(c) /\ clients[c] # NoClient => Seen(c) = counted[c]
<1> SUFFICES ASSUME TypeOK, NEW c \in Container, Whole(c), clients[c] # NoClient
             PROVE  Seen(c) = counted[c]
  OBVIOUS
<1>1. Seen(c) = Total(c) + monotonic_delta(kernel[c].raw, clients[c].last_raw)
  BY ReadOne DEF Read, Whole
<1>2. Total(c) = clients[c].total /\ clients[c].total \in Nat /\ counted[c] \in Nat
  BY DEF Total, TypeOK, Counters
<1>3. monotonic_delta(counted[c], clients[c].total) = counted[c] - clients[c].total
  BY <1>2 DEF Whole, monotonic_delta
<1> QED
  BY <1>1, <1>2, <1>3 DEF Whole

\* A step of the coordinator that keeps a client where it is
LEMMA WholeClient ==
    ASSUME TypeOK, TypeOK', NEW c \in Container, Whole(c), clients[c] # NoClient,
           clients'[c] # NoClient, clients'[c].address = clients[c].address,
           clients'[c].total = counted[c], clients'[c].last_raw = counted[c],
           kernel'[c] # NoCounter, kernel'[c].raw = counted[c],
           counted'[c] = counted[c], recorded'[c] = recorded[c], baseline'[c] = baseline[c],
           m_totals'[c] \in {m_totals[c], counted[c]}, d_addresses'[c] = clients[c].address,
           state_address'[c] = state_address[c]
    PROVE  Whole(c)'
<1>1. Based(c)' = Based(c) /\ Based(c) \in Nat /\ clients[c].total \in Nat /\ counted[c] \in Nat
  BY SafeTyped DEF Based, TypeOK, Counters
<1>2. /\ Based(c) <= clients[c].total /\ clients[c].total <= counted[c]
      /\ Based(c) <= counted[c] /\ counted[c] <= counted[c]
  <2>1. Based(c) <= clients[c].total /\ clients[c].total <= counted[c]
    BY DEF Whole
  <2> QED
    BY <1>1, <2>1
<1>3. Based(c)' <= clients'[c].total /\ clients'[c].total <= counted'[c]
  BY <1>1, <1>2, Zenon
<1>4. m_totals'[c] # NoTotal => Based(c)' <= m_totals'[c] /\ m_totals'[c] <= clients'[c].total
  <2>1. CASE m_totals'[c] = counted[c]
    BY <1>1, <1>2, <2>1, Zenon
  <2>2. CASE m_totals'[c] = m_totals[c]
    <3>1. m_totals[c] # NoTotal =>
            m_totals[c] \in Nat /\ Based(c) <= m_totals[c] /\ m_totals[c] <= clients[c].total
      BY DEF TypeOK, Whole
    <3>2. m_totals[c] # NoTotal => m_totals[c] <= counted[c]
      BY <1>1, <1>2, <3>1
    <3> QED
      BY <1>1, <2>2, <3>1, <3>2, Zenon
  <2> QED
    BY <2>1, <2>2, Zenon
<1> QED
  BY <1>1, <1>3, <1>4 DEF Whole

\* Everything about a container that a step may leave alone
Untouched(c) ==
    /\ clients'[c] = clients[c] /\ kernel'[c] = kernel[c] /\ d_addresses'[c] = d_addresses[c]
    /\ state_address'[c] = state_address[c] /\ m_totals'[c] = m_totals[c]
    /\ baseline'[c] = baseline[c] /\ recorded'[c] = recorded[c] /\ counted'[c] = counted[c]

\* Every step that loses no counter keeps the bytes whole.
LEMMA WholeStep ==
    ASSUME TypeOK, TypeOK', NEW c \in Container, Whole(c), [Next]_vars, lossless'
    PROVE  Whole(c)'
<1>0. Read(c) /\ (clients[c] # NoClient => Seen(c) = counted[c])
  BY ReadOne, WholeSeen
<1>01. ASSUME Untouched(c) PROVE Whole(c)'
  BY <1>01 DEF Untouched, Whole, Based
<1>1. CASE Commit
  <2>1. PICK ok \in BOOLEAN : apply_locked(clients, ok)
    BY <1>1 DEF Commit
  <2>2. UNCHANGED <<d_addresses, state_address, m_totals, baseline, recorded, counted>>
    BY <1>1 DEF Commit, dvars, mvars, hvars
  <2>3. CASE clients[c] = NoClient
    <3>1. clients'[c] = NoClient /\ kernel'[c] = NoCounter
      <4>1. CASE ok
        <5>1. clients \in [Container -> Counters \cup {NoClient}]
          BY DEF TypeOK
        <5>2. observe_kernel_locked(clients)[c] = NoClient
          BY <1>0, <2>3 DEF Read
        <5> QED
          BY <2>1, <4>1, <5>1, <5>2, Committed, Zenon
      <4>2. CASE ~ok
        <5>1. clients' = observe_kernel_locked(clients) /\ kernel' = kernel
          BY <2>1, <4>2 DEF apply_locked
        <5> QED
          BY <1>0, <2>3, <5>1, Zenon DEF Read, Whole
      <4> QED
        BY <4>1, <4>2
    <3> QED
      BY <1>01, <2>2, <2>3, <3>1, Zenon DEF Untouched, Whole
  <2>4. CASE clients[c] # NoClient
    <3>1. /\ clients'[c] # NoClient /\ clients'[c].address = clients[c].address
          /\ clients'[c].total = counted[c] /\ clients'[c].last_raw = counted[c]
          /\ kernel'[c] # NoCounter /\ kernel'[c].raw = counted[c]
      <4>1. CASE ok
        <5>1. clients \in [Container -> Counters \cup {NoClient}]
          BY DEF TypeOK
        <5>2. /\ observe_kernel_locked(clients)[c] # NoClient
              /\ observe_kernel_locked(clients)[c].address = clients[c].address
              /\ observe_kernel_locked(clients)[c].total = counted[c]
          BY <1>0, <2>4 DEF Read
        <5> QED
          BY <2>1, <4>1, <5>1, <5>2, Committed, Zenon
      <4>2. CASE ~ok
        <5>1. clients' = observe_kernel_locked(clients) /\ kernel' = kernel
          BY <2>1, <4>2 DEF apply_locked
        <5> QED
          BY <1>0, <2>4, <5>1, Zenon DEF Read, Whole
      <4> QED
        BY <4>1, <4>2
    <3> QED
      BY <2>2, <2>4, <3>1, WholeClient DEF Whole
  <2> QED
    BY <2>3, <2>4
<1>2. CASE CommitDropped
  <2>1. /\ clients' = observe_kernel_locked(clients)
        /\ kernel' = Replaced(observe_kernel_locked(clients))
        /\ UNCHANGED <<d_addresses, state_address, m_totals, baseline, recorded, counted>>
    BY <1>2 DEF CommitDropped, Replaced, dvars, mvars, hvars
  <2>2. CASE clients[c] = NoClient
    <3>1. clients'[c] = NoClient /\ kernel'[c] = NoCounter
      BY <1>0, <2>1, <2>2 DEF Read, Replaced
    <3> QED
      BY <1>01, <2>1, <2>2, <3>1 DEF Untouched, Whole
  <2>3. CASE clients[c] # NoClient
    <3>1. /\ clients'[c] # NoClient /\ clients'[c].address = clients[c].address
          /\ clients'[c].total = counted[c] /\ clients'[c].last_raw = counted[c]
      BY <1>0, <2>1, <2>3, Zenon DEF Read, Whole
    <3>2. kernel'[c] = [address |-> clients'[c].address, raw |-> counted[c]]
      BY <2>1, <3>1 DEF Replaced
    <3>3. kernel'[c] # NoCounter /\ kernel'[c].raw = counted[c]
      <4>1. clients'[c].address \in Address /\ counted[c] \in Nat
        BY <3>1 DEF TypeOK, Counters
      <4> QED
        BY <3>2, <4>1, NullAssumption
    <3> QED
      BY <2>1, <2>3, <3>1, <3>3, WholeClient, Zenon DEF Whole
  <2> QED
    BY <2>2, <2>3
<1>3. CASE ReconcileClients
  <2>1. PICK addresses \in Discoveries :
          /\ d_addresses' = addresses
          /\ apply_locked(sync_clients(observe_kernel_locked(clients), addresses), TRUE)
          /\ clients[c] # NoClient => clients[c].address = addresses[c]
    BY <1>3, Zenon DEF ReconcileClients
  <2>2. UNCHANGED <<state_address, m_totals, baseline, recorded, counted>>
    BY <1>3 DEF ReconcileClients, mvars, hvars
  <2>3. /\ addresses[c] = NoAddress => clients'[c] = NoClient /\ Total(c)' = 0
        /\ clients[c] = NoClient => Total(c)' = 0
        /\ clients[c] # NoClient /\ clients[c].address = addresses[c] => Total(c)' = Seen(c)
        /\ clients'[c] # NoClient => clients'[c].address = addresses[c]
        /\ clients'[c] = NoClient => kernel'[c] = NoCounter
        /\ clients'[c] # NoClient =>
              /\ kernel'[c] # NoCounter /\ kernel'[c].raw = Total(c)'
              /\ clients'[c].last_raw = Total(c)'
        /\ addresses[c] # NoAddress => clients'[c] # NoClient
    BY <2>1, ReconciledSeen, Zenon DEF Whole
  <2>4. clients'[c] # NoClient => Total(c)' = clients'[c].total
    BY DEF Total
  <2>5. CASE clients[c] = NoClient
    <3>1. /\ Based(c)' = 0 /\ recorded'[c] = 0 /\ counted'[c] = 0
          /\ m_totals'[c] = NoTotal /\ state_address'[c] = NoAddress /\ baseline'[c] = NoBaseline
      BY <2>2, <2>5 DEF Whole, Based
    <3>2. CASE clients'[c] = NoClient
      <4>1. addresses[c] = NoAddress /\ kernel'[c] = NoCounter
        BY <2>3, <3>2
      <4> QED
        BY <2>1, <3>1, <3>2, <4>1 DEF Whole
    <3>3. CASE clients'[c] # NoClient
      <4>1. /\ clients'[c].total = 0 /\ clients'[c].last_raw = 0
            /\ kernel'[c] # NoCounter /\ kernel'[c].raw = 0 /\ clients'[c].address = addresses[c]
        BY <2>3, <2>4, <2>5, <3>3
      <4> QED
        BY <2>1, <3>1, <3>3, <4>1 DEF Whole
    <3> QED
      BY <3>2, <3>3
  <2>6. CASE clients[c] # NoClient
    <3>1. addresses[c] # NoAddress
      BY <2>1, <2>6, NullAssumption DEF TypeOK, Counters
    <3>2. /\ clients'[c] # NoClient /\ clients'[c].address = clients[c].address
          /\ clients'[c].total = counted[c] /\ clients'[c].last_raw = counted[c]
          /\ kernel'[c] # NoCounter /\ kernel'[c].raw = counted[c]
      BY <1>0, <2>1, <2>3, <2>4, <2>6, <3>1, Zenon
    <3> QED
      BY <2>1, <2>2, <2>6, <3>2, WholeClient, Zenon
  <2> QED
    BY <2>5, <2>6
<1>4. CASE WriteClients
  <2>1. /\ state_address' = d_addresses
        /\ UNCHANGED <<clients, kernel, d_addresses, m_totals, baseline, recorded, counted>>
    BY <1>4 DEF WriteClients, cvars, mvars, hvars
  <2> QED
    BY <2>1, Zenon DEF Whole, Based
<1>5. CASE Sample
  <2>1. /\ clients' = observe_kernel_locked(clients)
        /\ m_totals'[c] = IF clients'[c] = NoClient THEN NoTotal ELSE clients'[c].total
        /\ UNCHANGED <<kernel, d_addresses, state_address, baseline, recorded, counted>>
    BY <1>5 DEF Sample, dvars, hvars
  <2>2. CASE clients[c] = NoClient
    <3>1. clients'[c] = NoClient
      BY <1>0, <2>1, <2>2, Zenon DEF Read
    <3> QED
      BY <1>01, <2>1, <2>2, <3>1 DEF Untouched, Whole
  <2>3. CASE clients[c] # NoClient
    <3>1. /\ clients'[c] # NoClient /\ clients'[c].address = clients[c].address
          /\ clients'[c].total = counted[c] /\ clients'[c].last_raw = counted[c]
      BY <1>0, <2>1, <2>3, Zenon DEF Read, Whole
    <3> QED
      BY <2>1, <2>3, <3>1, WholeClient, Zenon DEF Whole
  <2> QED
    BY <2>2, <2>3
<1>6. CASE Record
  <2>1. /\ m_totals'[c] = NoTotal
        /\ UNCHANGED <<clients, kernel, d_addresses, state_address, counted>>
        /\ \/ recorded'[c] = recorded[c] /\ baseline'[c] = baseline[c]
           \/ /\ m_totals[c] # NoTotal /\ state_address[c] # NoAddress
              /\ recorded'[c] = recorded[c] + UsageDelta(c)
              /\ baseline'[c] = [address |-> state_address[c], total |-> m_totals[c]]
    BY <1>6 DEF Record, cvars, dvars
  <2>2. CASE recorded'[c] = recorded[c] /\ baseline'[c] = baseline[c]
    BY <2>1, <2>2, Zenon DEF Whole, Based
  <2>3. CASE /\ m_totals[c] # NoTotal /\ state_address[c] # NoAddress
             /\ recorded'[c] = recorded[c] + UsageDelta(c)
             /\ baseline'[c] = [address |-> state_address[c], total |-> m_totals[c]]
    <3>1. /\ clients[c] # NoClient /\ state_address[c] = clients[c].address
          /\ m_totals[c] \in Nat /\ Based(c) \in Nat /\ Based(c) <= m_totals[c]
      BY <2>3, SafeTyped, Zenon DEF Whole
    <3>2. UsageDelta(c) = m_totals[c] - Based(c)
      <4>1. CASE baseline[c] = NoBaseline
        BY <3>1, <4>1 DEF UsageDelta, same_incarnation, Based
      <4>2. CASE baseline[c] # NoBaseline
        <5>1. same_incarnation(c) /\ Based(c) = baseline[c].total
          BY <3>1, <4>2 DEF Whole, same_incarnation, Based
        <5> QED
          BY <3>1, <5>1 DEF UsageDelta, monotonic_delta
      <4> QED
        BY <4>1, <4>2
    <3>3. recorded'[c] = m_totals[c]
      BY <2>3, <3>1, <3>2 DEF Whole
    <3>4. /\ baseline'[c] # NoBaseline /\ baseline'[c].address = clients[c].address
          /\ Based(c)' = m_totals[c]
      <4>1. state_address[c] \in Address
        BY <2>3 DEF TypeOK
      <4> QED
        BY <2>3, <3>1, <4>1, NullAssumption DEF Based
    <3> QED
      BY <2>1, <2>3, <3>1, <3>3, <3>4, Zenon DEF Whole
  <2> QED
    BY <2>1, <2>2, <2>3
<1>7. CASE Traffic
  <2>1. PICK k \in Container :
          /\ kernel[k] # NoCounter
          /\ kernel' = [kernel EXCEPT ![k].raw = @ + 1]
          /\ counted' = [counted EXCEPT ![k] = @ + 1]
          /\ UNCHANGED <<clients, d_addresses, state_address, m_totals, baseline, recorded>>
    BY <1>7, Zenon DEF Traffic, dvars, mvars, hvars
  <2>2. CASE c # k
    BY <1>01, <2>1, <2>2 DEF Untouched, TypeOK
  <2>3. CASE c = k
    <3>1. /\ kernel[c] # NoCounter /\ kernel'[c] # NoCounter /\ counted[c] \in Nat
          /\ kernel'[c].raw = kernel[c].raw + 1 /\ counted'[c] = counted[c] + 1
      BY <2>1, <2>3, NullAssumption DEF TypeOK
    <3>2. clients[c] # NoClient /\ clients[c].total \in Nat
      BY <3>1 DEF Whole, TypeOK, Counters
    <3>3. clients'[c].total <= counted'[c]
      BY <2>1, <3>1, <3>2 DEF Whole
    <3>4. Based(c)' = Based(c)
      BY <2>1 DEF Based
    <3> QED
      BY <2>1, <3>1, <3>2, <3>3, <3>4 DEF Whole
  <2> QED
    BY <2>2, <2>3
<1>8. CASE Flush \/ Reset \/ Restart
  BY <1>8 DEF Flush, Reset, Restart
<1>9. CASE UNCHANGED vars
  BY <1>01, <1>9 DEF Untouched, vars, cvars, dvars, mvars, hvars
<1> QED
  BY <1>1, <1>2, <1>3, <1>4, <1>5, <1>6, <1>7, <1>8, <1>9 DEF Next

\* As long as no counter was lost the coordinator can account for every byte the
\* kernel counted, and history holds what its baseline says, whatever the
\* containers and their addresses: table replacements (apply_locked), failed and
\* dropped commits and dropped observations lose nothing.
THEOREM LossesNever == Spec => []NothingLost
<1>1. Init => LossInv
  <2> SUFFICES ASSUME Init PROVE LossInv
    OBVIOUS
  <2>1. TypeOK
    BY Zenon DEF Init, TypeOK
  <2>2. ASSUME NEW c \in Container PROVE Whole(c)
    BY DEF Init, Whole, Based
  <2> QED
    BY <2>1, <2>2 DEF LossInv
<1>2. LossInv /\ [Next]_vars => LossInv'
  <2> SUFFICES ASSUME LossInv, [Next]_vars PROVE LossInv'
    OBVIOUS
  <2>1. TypeOK /\ TypeOK'
    BY TypeStep DEF LossInv
  <2>2. ASSUME lossless', NEW c \in Container PROVE Whole(c)'
    <3>1. lossless
      BY <2>2, Zenon DEF Next, vars, Commit, CommitDropped, ReconcileClients, WriteClients, Sample, Record,
                  Traffic, Flush, Reset, Restart
    <3> QED
      BY <2>1, <2>2, <3>1, WholeStep DEF LossInv
  <2> QED
    BY <2>1, <2>2 DEF LossInv
<1>3. LossInv => NothingLost
  <2> SUFFICES ASSUME LossInv, lossless, NEW c \in Container
               PROVE  /\ clients[c] # NoClient =>
                            observe_kernel_locked(clients)[c].total = counted[c]
                      /\ recorded[c] = IF baseline[c] = NoBaseline THEN 0 ELSE baseline[c].total
    BY Zenon DEF NothingLost
  <2>1. TypeOK /\ Whole(c)
    BY DEF LossInv
  <2> QED
    BY <2>1, WholeSeen, ReadOne, Zenon DEF Read, Whole, Based
<1> QED
  BY <1>1, <1>2, <1>3, PTL DEF Spec
==============================================================================
