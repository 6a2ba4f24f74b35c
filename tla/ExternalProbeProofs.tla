------------------------- MODULE ExternalProbeProofs -------------------------
(***************************************************************************)
(* A published verification always rests on an answer about the very lease *)
(* it stands by, and the primary lease stays a copy of the one it was      *)
(* selected from, for any number of leases, ports and polls and whatever   *)
(* the public service answers.                                             *)
(***************************************************************************)
EXTENDS ExternalProbe, WellFoundedInduction, TLAPS

\* The provers get more time than by default.
USE SMTT(30), ZenonT(20)

\* Usage ids are numbers, so a lookup by the least of some is one of them.
LEMMA LeastIsMember ==
    ASSUME NEW S, S \subseteq Usage, S # {}
    PROVE  Min(S) \in S
<1>1. S \subseteq Nat
  BY UsageAssumption
<1>2. \E x \in S : \A y \in S : ~(<<y, x>> \in OpToRel(<, Nat))
  BY <1>1, NatLessThanWellFounded, WFMin, Zenon
<1>3. \A x, y \in S : y < x => <<y, x>> \in OpToRel(<, Nat)
  BY <1>1 DEF OpToRel
<1>4. \E x \in S : \A y \in S : ~(y < x)
  BY <1>2, <1>3, Zenon
<1>5. \E x \in S : \A y \in S : x <= y
  BY <1>1, <1>4
<1> QED
  BY <1>5 DEF Min
------------------------------------------------------------------------------
\* A lease as it is published
LeaseRecord ==
    {l \in [port : Port \cup {None}, acquired : Nat \cup {None}, installed : BOOLEAN,
            verified : BOOLEAN \cup {None}] : l.installed => l.acquired \in Nat}

\* A time stamp that can be compared with the time a lease was acquired
Stamped(seen) == seen # None => seen.started \in Nat \cup {None}

\* EvidenceMatches alone is not inductive: the lease that is about to be published
\* must carry no verification, and what the companion reports must be comparable
\* with the leases.
ProbeInv ==
    /\ now \in Nat
    /\ leases \in [Usage -> LeaseRecord \cup {None}]
    /\ primary \in LeaseRecord
    /\ op.at = "publish" =>
          op.usage \in Usage /\ op.lease \in LeaseRecord /\ op.lease.verified = None
    /\ flight # None => flight.started \in Nat /\ DOMAIN flight.of \subseteq Usage
    /\ \A u \in Usage : Stamped(reported.each[u])
    /\ Stamped(reported.single)
    /\ EvidenceMatches

\* What EvidenceMatches says of one lease
Supported(lease, seen) ==
    lease.verified # None =>
      /\ lease.installed /\ seen # None
      /\ Identity(seen) = Identity(lease) /\ seen.started >= lease.acquired
      /\ seen.reachable = lease.verified
      /\ seen.public /\ seen.matches # FALSE

\* EvidenceMatches speaks of every published lease by itself.
LEMMA EvidencePerLease ==
    EvidenceMatches <=> \A u \in Usage : leases[u] # None => Supported(leases[u], evidence[u])
BY DEF EvidenceMatches, Supported, Known

\* A lease that is new, withdrawn or gone
LEMMA NewLeases ==
    /\ \A p \in Port, t \in Nat : /\ Installed(p, t) \in LeaseRecord
                                  /\ Installed(p, t).verified = None
    /\ Default \in LeaseRecord /\ Default.verified = None
BY DEF LeaseRecord, Installed, Default

\* The primary lease is one of the published ones, or the default.
LEMMA PrimaryIsLease ==
    ASSUME NEW state, NEW of \in [Usage -> LeaseRecord \cup {None}]
    PROVE  Primary(state, of) \in LeaseRecord
<1> DEFINE selected == {u \in select_primary_usage_id(state) : of[u] # None}
<1>1. select_primary_usage_id(state) \subseteq Usage
  BY DEF select_primary_usage_id
<1>2. CASE selected = {}
  BY <1>2, NewLeases DEF Primary
<1>3. CASE selected # {}
  <2>1. Min(selected) \in selected
    BY <1>1, <1>3, LeastIsMember
  <2>2. of[Min(selected)] \in LeaseRecord
    BY <1>1, <2>1
  <2> QED
    BY <1>3, <2>2 DEF Primary
<1> QED
  BY <1>2, <1>3

\* A verification comes from an observation of this lease.
LEMMA Correlated ==
    ASSUME NEW lease \in LeaseRecord, NEW seen, Stamped(seen)
    PROVE  /\ correlate_port_verification(lease, seen) \in BOOLEAN \cup {None}
           /\ apply_verification(lease, seen) \in LeaseRecord
           /\ Identity(apply_verification(lease, seen)) = Identity(lease)
           /\ apply_verification(lease, seen).installed = lease.installed
           /\ Supported(apply_verification(lease, seen), seen)
<1> DEFINE v == correlate_port_verification(lease, seen)
<1>1. v \in BOOLEAN \cup {None}
  BY DEF correlate_port_verification
<1>2. ASSUME v # None
      PROVE  /\ lease.installed /\ seen # None /\ Identity(seen) = Identity(lease)
             /\ seen.started \in Nat /\ ~(seen.started < lease.acquired)
             /\ seen.reachable = v /\ seen.public = TRUE /\ seen.matches # FALSE
  BY <1>2, Zenon DEF correlate_port_verification, Stamped
<1> HIDE DEF v
<1>3. apply_verification(lease, seen) = [lease EXCEPT !.verified = v]
  BY DEF apply_verification, v
<1> DEFINE new == [lease EXCEPT !.verified = v]
<1>4. /\ new \in LeaseRecord /\ new.verified = v /\ new.port = lease.port
      /\ new.acquired = lease.acquired /\ new.installed = lease.installed
  BY <1>1 DEF LeaseRecord
<1> HIDE DEF new
<1>5. Identity(new) = Identity(lease)
  BY <1>4 DEF Identity
<1>6. v # None => seen.started >= lease.acquired
  BY <1>2 DEF LeaseRecord
<1>7. Supported(new, seen)
  BY <1>2, <1>4, <1>5, <1>6, Zenon DEF Supported
<1> QED
  BY <1>1, <1>3, <1>4, <1>5, <1>7 DEF v, new
------------------------------------------------------------------------------
\* A report per usage id is applied to the leases of this moment.
LEMMA EachKeeps ==
    ASSUME ProbeInv, observe_external_probes
    PROVE  /\ leases' \in [Usage -> LeaseRecord \cup {None}] /\ primary' \in LeaseRecord
           /\ EvidenceMatches'
<1> DEFINE seen == reported.each
<1> DEFINE same == {u \in Known : Identity(leases[u]) = Identity(primary)}
<1>1. /\ leases' = Verified(seen) /\ Kept(Verified(seen), seen)
      /\ primary' = IF same = {} THEN primary ELSE Verified(seen)[Min(same)]
  BY DEF observe_external_probes
<1>2. ASSUME NEW u \in Usage
      PROVE  /\ u \in Known => leases'[u] \in LeaseRecord /\ Supported(leases'[u], seen[u])
             /\ u \notin Known => leases'[u] = None
  <2>1. CASE u \in Known
    <3>1. leases[u] \in LeaseRecord /\ Stamped(seen[u])
      BY <2>1 DEF ProbeInv, Known
    <3>2. leases'[u] = apply_verification(leases[u], seen[u])
      BY <1>1, <2>1 DEF Verified
    <3> QED
      BY <2>1, <3>1, <3>2, Correlated
  <2>2. CASE u \notin Known
    BY <1>1, <2>2 DEF Verified
  <2> QED
    BY <2>1, <2>2
<1>3. leases' \in [Usage -> LeaseRecord \cup {None}]
  <2>1. leases' = [u \in Usage |-> leases'[u]]
    BY <1>1 DEF Verified
  <2> QED
    BY <1>2, <2>1
<1>4. primary' \in LeaseRecord
  <2>1. CASE same = {}
    BY <1>1, <2>1 DEF ProbeInv
  <2>2. CASE same # {}
    <3>1. Min(same) \in same
      BY <2>2, LeastIsMember DEF Known
    <3> QED
      BY <1>1, <1>2, <2>2, <3>1 DEF Known
  <2> QED
    BY <2>1, <2>2
<1>5. ASSUME NEW u \in Usage, leases'[u] # None, leases'[u].verified # None
      PROVE  Supported(leases'[u], evidence'[u])
  <2>1. Supported(leases'[u], seen[u])
    BY <1>2, <1>5
  <2>2. seen[u] # None
    BY <1>5, <2>1 DEF Supported
  <2>3. evidence'[u] = seen[u]
    BY <1>1, <1>5, <2>2 DEF Kept
  <2> QED
    BY <2>1, <2>3
<1>6. \A u \in Usage : leases'[u] # None => Supported(leases'[u], evidence'[u])
  BY <1>5, Zenon DEF Supported
<1>7. EvidenceMatches'
  BY <1>6, Zenon DEF EvidenceMatches, Known, Supported
<1> QED
  BY <1>3, <1>4, <1>7

\* What is concluded about the primary lease is copied to the lease it stands for.
LEMMA OnPrimaryKeeps ==
    ASSUME ProbeInv, NEW lease \in LeaseRecord, NEW seen, Supported(lease, seen),
           Identity(lease) = Identity(primary), OnPrimary(lease, seen)
    PROVE  /\ leases' \in [Usage -> LeaseRecord \cup {None}] /\ primary' \in LeaseRecord
           /\ EvidenceMatches'
<1> DEFINE same == {u \in Known : Identity(leases[u]) = Identity(primary) /\ leases[u].installed}
<1> DEFINE m == Min(same)
<1> DEFINE heard == [u \in Usage |-> IF u \in same /\ u = m THEN seen ELSE None]
<1>1. /\ primary' = lease /\ Kept(leases', heard)
      /\ leases' = IF same = {} THEN leases ELSE [leases EXCEPT ![m].verified = lease.verified]
  BY DEF OnPrimary
<1>2. same # {} => m \in same
  BY LeastIsMember DEF Known
<1>3. same \subseteq Usage /\ \A u \in same : leases[u] \in LeaseRecord /\ leases[u].installed
                                 /\ Identity(leases[u]) = Identity(primary)
  BY DEF Known, ProbeInv
<1>4. leases \in [Usage -> LeaseRecord \cup {None}]
  BY DEF ProbeInv
<1>5. \A u \in Usage : leases[u] # None => Supported(leases[u], evidence[u])
  BY EvidencePerLease DEF ProbeInv
<1> HIDE DEF same, m
<1>6. ASSUME same # {}
      PROVE  /\ leases'[m] \in LeaseRecord /\ Supported(leases'[m], seen)
             /\ \A u \in Usage \ {m} : leases'[u] = leases[u]
             /\ leases' \in [Usage -> LeaseRecord \cup {None}]
  <2>1. leases' = [leases EXCEPT ![m] = [leases[m] EXCEPT !.verified = lease.verified]]
    BY <1>1, <1>2, <1>3, <1>4, <1>6
  <2> DEFINE new == [leases[m] EXCEPT !.verified = lease.verified]
  <2>2. leases[m] \in LeaseRecord /\ leases[m].installed /\ m \in Usage
        /\ Identity(leases[m]) = Identity(lease)
    BY <1>2, <1>3, <1>6
  <2>3. /\ new \in LeaseRecord /\ new.verified = lease.verified /\ new.installed
        /\ new.port = leases[m].port /\ new.acquired = leases[m].acquired
    BY <2>2 DEF LeaseRecord
  <2> HIDE DEF new
  <2>4. new.port = lease.port /\ new.acquired = lease.acquired
    BY <2>2, <2>3 DEF Identity
  <2>5. Supported(new, seen)
    BY <2>3, <2>4, Zenon DEF Supported, Identity
  <2>6. leases'[m] = new /\ (\A u \in Usage \ {m} : leases'[u] = leases[u])
        /\ leases' \in [Usage -> LeaseRecord \cup {None}]
    BY <1>4, <2>1, <2>2, <2>3 DEF new
  <2> QED
    BY <2>3, <2>5, <2>6
<1>7. leases' \in [Usage -> LeaseRecord \cup {None}]
  BY <1>1, <1>4, <1>6
<1>8. ASSUME NEW u \in Usage, leases'[u] # None, leases'[u].verified # None
      PROVE  Supported(leases'[u], evidence'[u])
  <2>1. evidence'[u] = IF leases[u].verified = leases'[u].verified /\ heard[u] = None
                       THEN evidence[u] ELSE heard[u]
    BY <1>1, <1>8 DEF Kept
  <2>2. CASE same # {} /\ u = m
    <3>1. Supported(leases'[u], seen) /\ heard[u] = seen
      BY <1>2, <1>6, <2>2
    <3>2. seen # None
      BY <1>8, <3>1 DEF Supported
    <3> QED
      BY <2>1, <3>1, <3>2
  <2>3. CASE ~(same # {} /\ u = m)
    <3>1. leases'[u] = leases[u] /\ heard[u] = None
      BY <1>1, <1>6, <2>3
    <3> QED
      BY <1>5, <1>8, <2>1, <3>1
  <2> QED
    BY <2>2, <2>3
<1>9. \A u \in Usage : leases'[u] # None => Supported(leases'[u], evidence'[u])
  BY <1>8, Zenon DEF Supported
<1>10. EvidenceMatches'
  BY <1>9, Zenon DEF EvidenceMatches, Known, Supported
<1> QED
  BY <1>1, <1>7, <1>10

\* A poll, whatever it brings
LEMMA PollKeeps ==
    ASSUME ProbeInv, NEW ok \in BOOLEAN, Poll(ok)
    PROVE  ProbeInv'
<1>1. UNCHANGED <<now, op, flight, reported>>
  BY Zenon DEF Poll, probing
<1>2. /\ leases' \in [Usage -> LeaseRecord \cup {None}] /\ primary' \in LeaseRecord
      /\ EvidenceMatches'
  <2>1. CASE observe_external_probes
    BY <2>1, EachKeeps
  <2>2. CASE observe_external_probe
    <3>1. primary \in LeaseRecord /\ Stamped(reported.single)
      BY DEF ProbeInv
    <3> QED
      BY <2>2, <3>1, Correlated, OnPrimaryKeeps DEF observe_external_probe
  <2>3. CASE observe_external_probe_unavailable
    <3> DEFINE lease == [primary EXCEPT !.verified = None]
    <3>1. lease \in LeaseRecord /\ lease.verified = None
          /\ lease.port = primary.port /\ lease.acquired = primary.acquired
      BY DEF ProbeInv, LeaseRecord
    <3>2. Identity(lease) = Identity(primary) /\ Supported(lease, None)
      BY <3>1 DEF Identity, Supported
    <3> QED
      BY <2>3, <3>1, <3>2, OnPrimaryKeeps DEF observe_external_probe_unavailable
  <2> QED
    BY <2>1, <2>2, <2>3, Zenon DEF Poll
<1> QED
  BY <1>1, <1>2 DEF ProbeInv, Stamped
------------------------------------------------------------------------------
\* The steps of maintain_port_forward: a lease is prepared without a verification
\* and then published over the old one.
LEMMA ForwardKeeps ==
    ASSUME ProbeInv,
           \/ Maintain \/ InvalidateState \/ InvalidateSnapshot
           \/ \E u \in Usage : Renew(u) \/ Deactivate(u) \/ Remove(u)
    PROVE  ProbeInv'
<1>1. UNCHANGED <<now, flight, reported>>
  BY DEF Maintain, InvalidateState, InvalidateSnapshot, Renew, Regain, Acquire, Deactivate,
         Remove, Publish, ReadPrimary, publish_primary_forward, probing
<1>2. ASSUME NEW u \in Usage, Acquire(u)
      PROVE  /\ op'.usage \in Usage /\ op'.lease \in LeaseRecord /\ op'.lease.verified = None
             /\ UNCHANGED <<leases, primary, evidence>>
  <2>1. PICK p \in Port : op' = Publishing(u, Installed(p, now))
    BY <1>2 DEF Acquire
  <2>2. now \in Nat
    BY DEF ProbeInv
  <2>3. op'.usage = u /\ op'.lease = Installed(p, now)
    BY <2>1 DEF Publishing
  <2> QED
    BY <1>2, <2>2, <2>3, NewLeases DEF Acquire
<1>3. ASSUME NEW u \in Usage, Renew(u) \/ Regain(u) PROVE ProbeInv'
  BY <1>1, <1>2, <1>3, Zenon DEF Renew, Regain, ProbeInv, Stamped, EvidenceMatches, Known
<1>4. ASSUME NEW u \in Usage, Deactivate(u) PROVE ProbeInv'
  <2>1. op'.usage = u /\ op'.lease = Default /\ UNCHANGED <<leases, primary, evidence>>
    BY <1>4 DEF Deactivate, Publishing
  <2> QED
    BY <1>1, <2>1, NewLeases, Zenon DEF ProbeInv, Stamped, EvidenceMatches, Known
<1>5. ASSUME Publish PROVE ProbeInv'
  <2>1. /\ op.usage \in Usage /\ op.lease \in LeaseRecord /\ op.lease.verified = None
        /\ leases' = [leases EXCEPT ![op.usage] = op.lease] /\ UNCHANGED <<primary, evidence>>
    BY <1>5 DEF Publish, ProbeInv
  <2>2. op'.at # "publish"
    BY <1>5 DEF Publish, InPass, AtPrimary, Idle
  <2>3. leases' \in [Usage -> LeaseRecord \cup {None}]
    BY <2>1 DEF ProbeInv
  <2>4. EvidenceMatches'
    BY <2>1, EvidencePerLease, Zenon DEF ProbeInv, EvidenceMatches, Known, Supported
  <2> QED
    BY <1>1, <2>1, <2>2, <2>3, <2>4 DEF ProbeInv, Stamped
<1>6. ASSUME ReadPrimary PROVE ProbeInv'
  <2>1. op'.at # "publish" /\ UNCHANGED <<leases, primary, evidence>>
    BY <1>6 DEF ReadPrimary
  <2> QED
    BY <1>1, <2>1, Zenon DEF ProbeInv, Stamped, EvidenceMatches, Known
<1>7. ASSUME publish_primary_forward PROVE ProbeInv'
  <2>1. op'.at # "publish" /\ UNCHANGED <<leases, evidence>> /\ primary' = Primary(legacy, leases)
    BY <1>7 DEF publish_primary_forward, InPass, Idle
  <2>2. primary' \in LeaseRecord
    BY <2>1, PrimaryIsLease DEF ProbeInv
  <2> QED
    BY <1>1, <2>1, <2>2, Zenon DEF ProbeInv, Stamped, EvidenceMatches, Known
<1>8. ASSUME NEW u \in Usage, Remove(u) PROVE ProbeInv'
  <2>1. op'.at # "publish" /\ UNCHANGED <<primary, evidence>>
        /\ leases' = [leases EXCEPT ![u] = None]
    BY <1>8 DEF Remove, InPass, Idle
  <2>2. leases' \in [Usage -> LeaseRecord \cup {None}]
    BY <2>1 DEF ProbeInv
  <2>3. EvidenceMatches'
    BY <2>1, Zenon DEF ProbeInv, EvidenceMatches, Known
  <2> QED
    BY <1>1, <2>1, <2>2, <2>3 DEF ProbeInv, Stamped
<1>9. ASSUME InvalidateState PROVE ProbeInv'
  BY <1>1, <1>9, Zenon DEF InvalidateState, ProbeInv, Stamped, EvidenceMatches, Known
<1>10. ASSUME InvalidateSnapshot PROVE ProbeInv'
  <2>1. /\ leases' = [u \in Usage |-> IF leases[u] = None THEN None ELSE Default]
        /\ primary' = Default /\ op' = op
    BY <1>10 DEF InvalidateSnapshot
  <2>2. leases' \in [Usage -> LeaseRecord \cup {None}] /\ primary' \in LeaseRecord
    BY <2>1, NewLeases
  <2>3. EvidenceMatches'
    BY <2>1, NewLeases DEF EvidenceMatches, Known
  <2> QED
    BY <1>1, <2>1, <2>2, <2>3 DEF ProbeInv, Stamped
<1> QED
  BY <1>3, <1>4, <1>5, <1>6, <1>7, <1>8, <1>9, <1>10 DEF Maintain

\* The companion's report carries the time its requests were started.
LEMMA CompanionKeeps ==
    ASSUME ProbeInv, Companion \/ RejectEndpoint
    PROVE  ProbeInv'
<1>1. UNCHANGED <<now, leases, primary, op, evidence>>
  BY DEF Companion, RejectEndpoint, BeginChecks, EndChecks, forward
<1>2. unavailable_external_probe.started = None
  BY DEF unavailable_external_probe
<1>3. ASSUME NEW ok \in BOOLEAN, BeginChecks(ok)
      PROVE  /\ flight'.started \in Nat /\ DOMAIN flight'.of \subseteq Usage
             /\ reported' = reported
  <2>1. flight'.started = now /\ DOMAIN flight'.of = {v \in claims : ok} /\ reported' = reported
    BY <1>3 DEF BeginChecks
  <2> QED
    BY <2>1 DEF ProbeInv, claims
<1>4. ASSUME EndChecks
      PROVE  /\ flight' = None /\ Stamped(reported'.single)
             /\ \A u \in Usage : Stamped(reported'.each[u])
  <2>1. flight # None /\ flight' = None /\ flight.started \in Nat /\ DOMAIN flight.of \subseteq Usage
    BY <1>4 DEF EndChecks, ProbeInv
  <2>2. PICK answers \in [DOMAIN flight.of -> Responses \cup {None}] :
          LET seen == [u \in DOMAIN answers |->
                         IF answers[u] = None THEN unavailable_external_probe
                         ELSE map_external_response(answers[u], flight.of[u], flight.started)]
              first == {u \in DOMAIN seen : Identity(seen[u]) = flight.primary}
          IN reported' =
               [each |-> [u \in Usage |-> IF u \in DOMAIN seen THEN seen[u] ELSE None],
                single |-> IF first = {} THEN None ELSE seen[Min(first)]]
    BY <1>4, Zenon DEF EndChecks
  <2> DEFINE seen == [u \in DOMAIN answers |->
                        IF answers[u] = None THEN unavailable_external_probe
                        ELSE map_external_response(answers[u], flight.of[u], flight.started)]
  <2> DEFINE first == {u \in DOMAIN seen : Identity(seen[u]) = flight.primary}
  <2>3. /\ reported'.each = [u \in Usage |-> IF u \in DOMAIN seen THEN seen[u] ELSE None]
        /\ reported'.single = IF first = {} THEN None ELSE seen[Min(first)]
    BY <2>2
  <2>4. DOMAIN seen \subseteq Usage
    BY <2>1
  <2>5. ASSUME NEW u \in DOMAIN seen PROVE seen[u].started \in Nat \cup {None}
    <3>1. CASE answers[u] = None
      BY <1>2, <3>1
    <3>2. CASE answers[u] # None
      <4>1. seen[u] = map_external_response(answers[u], flight.of[u], flight.started)
        BY <3>2
      <4>2. seen[u].started = flight.started
        BY <4>1 DEF map_external_response
      <4> QED
        BY <2>1, <4>2
    <3> QED
      BY <3>1, <3>2
  <2> HIDE DEF seen
  <2>6. first # {} => Min(first) \in DOMAIN seen
    <3>1. first \subseteq Usage
      BY <2>4
    <3> QED
      BY <3>1, LeastIsMember
  <2> HIDE DEF first
  <2> QED
    BY <2>1, <2>3, <2>5, <2>6 DEF Stamped
<1>5. ASSUME RejectEndpoint
      PROVE  /\ flight' = flight /\ Stamped(reported'.single)
             /\ \A u \in Usage : Stamped(reported'.each[u])
  BY <1>2, <1>5 DEF RejectEndpoint, Stamped, Nothing
<1> QED
  BY <1>1, <1>3, <1>4, <1>5, Zenon DEF Companion, ProbeInv, Stamped, EvidenceMatches, Known

\* ProbeInv holds at the start.
LEMMA ProbeStarts == Init => ProbeInv
<1> SUFFICES ASSUME Init PROVE ProbeInv
  OBVIOUS
<1>1. \A u \in Usage : Held[u] = Installed(u, 0) /\ Held[u].verified = None
  BY DEF Held, Installed
<1>2. Held \in [Usage -> LeaseRecord \cup {None}]
  BY UsageAssumption, NewLeases DEF Held
<1>3. primary \in LeaseRecord
  BY <1>2, PrimaryIsLease, Zenon DEF Init
<1>4. op.at # "publish" /\ now \in Nat /\ leases = Held /\ flight = None
  BY Zenon DEF Init, Idle
<1>5. Stamped(reported.single) /\ \A u \in Usage : Stamped(reported.each[u])
  BY Zenon DEF Init, Stamped, Nothing
<1>6. EvidenceMatches
  BY <1>1, <1>4 DEF EvidenceMatches, Known
<1> QED
  BY <1>2, <1>3, <1>4, <1>5, <1>6 DEF ProbeInv

\* Every step keeps ProbeInv.
LEMMA ProbeStep == ProbeInv /\ [Next]_vars => ProbeInv'
<1> SUFFICES ASSUME ProbeInv, [Next]_vars PROVE ProbeInv'
  OBVIOUS
<1>1. CASE Tick \/ UNCHANGED vars
  <2>1. UNCHANGED <<leases, primary, op, flight, reported, evidence>> /\ now' \in Nat
    BY <1>1 DEF Tick, vars, forward, probing, ProbeInv
  <2>2. EvidenceMatches'
    BY <2>1, Zenon DEF ProbeInv, EvidenceMatches, Known
  <2> QED
    BY <2>1, <2>2 DEF ProbeInv, Stamped
<1> QED
  BY <1>1, ForwardKeeps, CompanionKeeps, PollKeeps DEF Next

\* A verification that the gateway publishes rests on an answer about that lease,
\* from a request started after the lease was acquired: no renewal, withdrawal,
\* invalidation or late report makes it stand by another
\* (correlate_port_verification, probe.rs 219-280).
THEOREM EvidenceAlwaysMatches == Spec => []EvidenceMatches
<1>1. ProbeInv => EvidenceMatches
  BY DEF ProbeInv
<1> QED
  BY ProbeStarts, ProbeStep, <1>1, PTL DEF Spec
------------------------------------------------------------------------------
(* The primary lease. *)

Active(u) == leases[u] # None /\ leases[u].installed

\* PrimaryAgrees alone is not inductive: a poll finds the lease that the primary one
\* is a copy of by its identity, so no two installed leases may share a port.  Ports
\* are granted against the state that is written first, so the state has to hold the
\* ports of what is published, but for the lease that is being published.
PrimaryInv ==
    /\ legacy \in [Usage -> LeaseRecord \cup {None}]
    /\ \A u \in Usage : leases[u] # None /\ ~leases[u].installed => leases[u].acquired = None
    /\ ~primary.installed => primary.acquired = None
    /\ op.at = "publish" =>
          IF op.lease.installed
          THEN /\ legacy[op.usage] # None /\ legacy[op.usage].port = op.lease.port
               /\ \A v \in Usage \ {op.usage} : legacy[v] # None => legacy[v].port # op.lease.port
          ELSE op.lease.acquired = None
    /\ \A u \in Usage : Active(u) /\ ~(op.at = "publish" /\ op.usage = u) =>
          legacy[u] # None /\ legacy[u].port = leases[u].port
    /\ \A u, v \in Usage : u # v /\ Active(u) /\ Active(v) => leases[u].port # leases[v].port
    /\ PrimaryAgrees

\* A lease is not None.
LEMMA LeaseIsSome ==
    ASSUME NEW l \in LeaseRecord
    PROVE  l # None
BY NoneAssumption DEF LeaseRecord

\* An identity tells whether a lease is installed, and installed leases apart.
LEMMA IdentityTells ==
    ASSUME ProbeInv, PrimaryInv, NEW u \in Usage, leases[u] # None,
           Identity(leases[u]) = Identity(primary)
    PROVE  /\ leases[u].installed <=> primary.installed
           /\ \A v \in Usage : primary.installed /\ leases[v] = primary => v = u
<1>1. leases[u] \in LeaseRecord /\ primary \in LeaseRecord
  BY DEF ProbeInv
<1>2. leases[u].port = primary.port /\ leases[u].acquired = primary.acquired
  BY DEF Identity
<1>3. /\ leases[u].installed \in BOOLEAN /\ primary.installed \in BOOLEAN
      /\ leases[u].installed => leases[u].acquired \in Nat
      /\ primary.installed => primary.acquired \in Nat
  BY <1>1 DEF LeaseRecord
<1>4. leases[u].installed <=> primary.installed
  BY <1>2, <1>3, NoneAssumption DEF PrimaryInv
<1>5. ASSUME NEW v \in Usage, primary.installed, leases[v] = primary, v # u PROVE FALSE
  <2>1. Active(u) /\ Active(v) /\ leases[u].port = leases[v].port
    BY <1>1, <1>2, <1>4, <1>5, LeaseIsSome DEF Active
  <2> QED
    BY <1>5, <2>1 DEF PrimaryInv
<1> QED
  BY <1>4, <1>5

\* A step that changes at most the verifications of the leases
LEMMA VerifiedKeeps ==
    ASSUME ProbeInv, PrimaryInv, UNCHANGED <<legacy, op>>,
           \A u \in Usage : /\ leases'[u] = None <=> leases[u] = None
                            /\ leases[u] # None => /\ leases'[u].port = leases[u].port
                                                   /\ leases'[u].acquired = leases[u].acquired
                                                   /\ leases'[u].installed = leases[u].installed,
           ~primary'.installed => primary'.acquired = None, PrimaryAgrees'
    PROVE  PrimaryInv'
<1>1. \A u \in Usage : Active(u)' <=> Active(u)
  BY DEF Active
<1>2. \A u \in Usage : leases'[u] # None /\ ~leases'[u].installed => leases'[u].acquired = None
  BY DEF PrimaryInv
<1>3. \A u \in Usage : Active(u)' /\ ~(op'.at = "publish" /\ op'.usage = u) =>
          legacy'[u] # None /\ legacy'[u].port = leases'[u].port
  BY <1>1 DEF PrimaryInv, Active
<1>4. \A u, v \in Usage : u # v /\ Active(u)' /\ Active(v)' => leases'[u].port # leases'[v].port
  BY <1>1 DEF PrimaryInv, Active
<1> QED
  BY <1>2, <1>3, <1>4 DEF PrimaryInv

\* A report per usage id
LEMMA EachAgrees ==
    ASSUME ProbeInv, PrimaryInv, observe_external_probes, UNCHANGED <<legacy, op>>
    PROVE  PrimaryInv'
<1> DEFINE seen == reported.each
<1> DEFINE same == {u \in Known : Identity(leases[u]) = Identity(primary)}
<1>1. /\ leases' = Verified(seen)
      /\ primary' = IF same = {} THEN primary ELSE leases'[Min(same)]
  BY DEF observe_external_probes
<1>2. ASSUME NEW u \in Usage
      PROVE  /\ leases'[u] = None <=> leases[u] = None
             /\ leases[u] # None => /\ leases'[u].port = leases[u].port
                                    /\ leases'[u].acquired = leases[u].acquired
                                    /\ leases'[u].installed = leases[u].installed
  <2>1. CASE u \in Known
    <3>1. leases[u] \in LeaseRecord /\ Stamped(seen[u])
      BY <2>1 DEF ProbeInv, Known
    <3>2. leases'[u] = apply_verification(leases[u], seen[u])
      BY <1>1, <2>1 DEF Verified
    <3>3. /\ leases'[u] \in LeaseRecord /\ Identity(leases'[u]) = Identity(leases[u])
          /\ leases'[u].installed = leases[u].installed
      BY <3>1, <3>2, Correlated
    <3> QED
      BY <3>1, <3>3, LeaseIsSome DEF Identity
  <2>2. CASE u \notin Known
    BY <1>1, <2>2 DEF Verified, Known
  <2> QED
    BY <2>1, <2>2
<1>3. same \subseteq Usage /\ (same # {} => Min(same) \in same)
  BY LeastIsMember DEF Known
<1>4. CASE same = {}
  <2>1. ASSUME op = Idle, primary.installed PROVE FALSE
    <3>1. PICK u \in select_primary_usage_id(legacy) : leases[u] = primary
      BY <2>1 DEF PrimaryInv, PrimaryAgrees
    <3>2. u \in Usage /\ primary # None
      BY LeaseIsSome DEF select_primary_usage_id, ProbeInv
    <3> QED
      BY <1>4, <3>1, <3>2 DEF Known
  <2>2. primary' = primary
    BY <1>1, <1>4
  <2>3. PrimaryAgrees' /\ (~primary'.installed => primary'.acquired = None)
    BY <2>1, <2>2 DEF PrimaryAgrees, PrimaryInv
  <2> QED
    BY <1>2, <2>3, VerifiedKeeps
<1>5. CASE same # {}
  <2> DEFINE m == Min(same)
  <2>1. m \in Usage /\ leases[m] # None /\ Identity(leases[m]) = Identity(primary)
    BY <1>3, <1>5 DEF Known
  <2>2. primary' = leases'[m]
    BY <1>1, <1>5
  <2> HIDE DEF m
  <2>3. ~primary'.installed => primary'.acquired = None
    BY <1>2, <2>1, <2>2 DEF PrimaryInv
  <2>4. ASSUME op' = Idle, primary'.installed
        PROVE  \E u \in select_primary_usage_id(legacy') : leases'[u] = primary'
    <3>1. leases[m].installed
      BY <1>2, <2>1, <2>2, <2>4
    <3>2. primary.installed
      BY <2>1, <3>1, IdentityTells
    <3>3. PICK u \in select_primary_usage_id(legacy) : leases[u] = primary
      BY <2>4, <3>2 DEF PrimaryInv, PrimaryAgrees
    <3>4. u = m
      BY <2>1, <3>2, <3>3, IdentityTells DEF select_primary_usage_id
    <3> QED
      BY <2>2, <3>3, <3>4
  <2>5. PrimaryAgrees'
    BY <2>4 DEF PrimaryAgrees, select_primary_usage_id
  <2> QED
    BY <1>2, <2>3, <2>5, VerifiedKeeps
<1> QED
  BY <1>4, <1>5

\* An observation, or the lack of one, about the primary lease
LEMMA OnPrimaryAgrees ==
    ASSUME ProbeInv, PrimaryInv, NEW lease \in LeaseRecord, NEW seen, NEW v,
           lease = [primary EXCEPT !.verified = v], OnPrimary(lease, seen),
           UNCHANGED <<legacy, op>>
    PROVE  PrimaryInv'
<1> DEFINE same == {u \in Known : Identity(leases[u]) = Identity(primary) /\ leases[u].installed}
<1> DEFINE m == Min(same)
<1>1. /\ primary' = lease
      /\ leases' = IF same = {} THEN leases ELSE [leases EXCEPT ![m].verified = lease.verified]
  BY DEF OnPrimary
<1>2. same # {} => /\ m \in Usage /\ leases[m] # None /\ leases[m].installed
                   /\ Identity(leases[m]) = Identity(primary)
  <2>1. same \subseteq Usage
    BY DEF Known
  <2>2. same # {} => m \in same
    BY <2>1, LeastIsMember
  <2> QED
    BY <2>2 DEF Known
<1>3. /\ leases \in [Usage -> LeaseRecord \cup {None}] /\ primary \in LeaseRecord
      /\ lease.port = primary.port /\ lease.acquired = primary.acquired
      /\ lease.installed = primary.installed /\ lease.verified = v
  BY DEF ProbeInv, LeaseRecord
<1>4. ASSUME op = Idle, primary.installed
      PROVE  /\ same # {} /\ leases[m] = primary /\ m \in select_primary_usage_id(legacy)
  <2>1. PICK u \in select_primary_usage_id(legacy) : leases[u] = primary
    BY <1>4 DEF PrimaryInv, PrimaryAgrees
  <2>2. u \in Usage /\ primary # None
    BY <1>3, LeaseIsSome DEF select_primary_usage_id
  <2>3. same # {}
    BY <1>4, <2>1, <2>2 DEF Known
  <2>4. u = m
    BY <1>2, <1>4, <2>1, <2>2, <2>3, IdentityTells
  <2> QED
    BY <2>1, <2>3, <2>4
<1> HIDE DEF same, m
<1>5. ASSUME NEW u \in Usage
      PROVE  /\ leases'[u] = None <=> leases[u] = None
             /\ leases[u] # None => /\ leases'[u].port = leases[u].port
                                    /\ leases'[u].acquired = leases[u].acquired
                                    /\ leases'[u].installed = leases[u].installed
             /\ same # {} /\ u = m => leases'[u] = [leases[u] EXCEPT !.verified = v]
  <2>1. CASE same = {} \/ u # m
    BY <1>1, <1>3, <2>1
  <2>2. CASE same # {} /\ u = m
    <3>1. leases'[u] = [leases[u] EXCEPT !.verified = v]
      BY <1>1, <1>2, <1>3, <2>2
    <3>2. leases[u] \in LeaseRecord
      BY <1>2, <1>3, <2>2
    <3>3. v \in BOOLEAN \cup {None}
      BY <1>3 DEF LeaseRecord
    <3>4. [leases[u] EXCEPT !.verified = v] \in LeaseRecord
      BY <3>2, <3>3 DEF LeaseRecord
    <3>5. leases'[u] # None /\ leases[u] # None
      BY <3>1, <3>2, <3>4, LeaseIsSome
    <3> QED
      BY <3>1, <3>2, <3>5 DEF LeaseRecord
  <2> QED
    BY <2>1, <2>2
<1>6. ~primary'.installed => primary'.acquired = None
  BY <1>1, <1>3 DEF PrimaryInv
<1>7. ASSUME op' = Idle, primary'.installed
      PROVE  \E u \in select_primary_usage_id(legacy') : leases'[u] = primary'
  <2>1. same # {} /\ leases[m] = primary /\ m \in select_primary_usage_id(legacy)
    BY <1>1, <1>3, <1>4, <1>7
  <2>2. leases'[m] = primary'
    BY <1>1, <1>2, <1>5, <2>1
  <2> QED
    BY <2>1, <2>2
<1>8. PrimaryAgrees'
  BY <1>7 DEF PrimaryAgrees, select_primary_usage_id
<1> QED
  BY <1>5, <1>6, <1>8, VerifiedKeeps, Zenon

\* A poll, whatever it brings
LEMMA PollAgrees ==
    ASSUME ProbeInv, PrimaryInv, NEW ok \in BOOLEAN, Poll(ok)
    PROVE  PrimaryInv'
<1>1. UNCHANGED <<legacy, op>>
  BY Zenon DEF Poll
<1>2. primary \in LeaseRecord /\ Stamped(reported.single)
  BY DEF ProbeInv
<1>3. CASE observe_external_probes
  BY <1>1, <1>3, EachAgrees
<1>4. CASE observe_external_probe
  <2> DEFINE v == correlate_port_verification(primary, reported.single)
  <2>1. apply_verification(primary, reported.single) = [primary EXCEPT !.verified = v]
    BY DEF apply_verification
  <2>2. apply_verification(primary, reported.single) \in LeaseRecord
    BY <1>2, Correlated
  <2> HIDE DEF v
  <2> QED
    BY <1>1, <1>4, <2>1, <2>2, OnPrimaryAgrees DEF observe_external_probe
<1>5. CASE observe_external_probe_unavailable
  <2>1. [primary EXCEPT !.verified = None] \in LeaseRecord
    BY <1>2 DEF LeaseRecord
  <2> QED
    BY <1>1, <1>5, <2>1, OnPrimaryAgrees DEF observe_external_probe_unavailable
<1> QED
  BY <1>3, <1>4, <1>5, Zenon DEF Poll

\* Places of maintain_port_forward
LEMMA Places ==
    /\ Idle.at = "idle" /\ InPass.at = "pass" /\ AtPrimary.at = "primary"
    /\ \A u, l : /\ Publishing(u, l).at = "publish" /\ Publishing(u, l).usage = u
                 /\ Publishing(u, l).lease = l
    /\ \A p, t : /\ Installed(p, t).port = p /\ Installed(p, t).installed
                 /\ Installed(p, t).acquired = t
    /\ ~Default.installed /\ Default.acquired = None
BY DEF Idle, InPass, AtPrimary, Publishing, Installed, Default

\* The lease that is chosen as primary is the one the primary usage id holds.
LEMMA PrimaryIsSelected ==
    ASSUME NEW state, NEW of
    PROVE  \/ Primary(state, of) = Default
           \/ \E u \in select_primary_usage_id(state) : of[u] # None /\ Primary(state, of) = of[u]
<1> DEFINE selected == {u \in select_primary_usage_id(state) : of[u] # None}
<1>1. selected \subseteq Usage
  BY DEF select_primary_usage_id
<1>2. selected # {} => Min(selected) \in selected
  BY <1>1, LeastIsMember
<1>3. Primary(state, of) = IF selected = {} THEN Default ELSE of[Min(selected)]
  BY DEF Primary
<1> HIDE DEF selected
<1>4. \A u \in selected : u \in select_primary_usage_id(state) /\ of[u] # None
  BY DEF selected
<1> QED
  BY <1>2, <1>3, <1>4

\* A lease is acquired: its port is one the state does not hold.
LEMMA AcquireAgrees ==
    ASSUME ProbeInv, PrimaryInv, NEW u \in Usage, Acquire(u)
    PROVE  PrimaryInv'
<1>1. PICK p \in Port \ {legacy[v].port : v \in {w \in Usage \ {u} : legacy[w] # None}} :
        /\ legacy' = [legacy EXCEPT ![u] = Installed(p, now)]
        /\ op' = Publishing(u, Installed(p, now))
  BY Zenon DEF Acquire
<1>2. op.at # "publish" /\ UNCHANGED <<leases, primary>> /\ now \in Nat
  BY Places DEF Acquire, Ready, ProbeInv
<1>3. op'.at = "publish" /\ op'.usage = u /\ op'.lease = Installed(p, now) /\ op' # Idle
  BY <1>1, Places
<1>4. /\ legacy'[u] = Installed(p, now) /\ (\A v \in Usage \ {u} : legacy'[v] = legacy[v])
      /\ legacy' \in [Usage -> LeaseRecord \cup {None}]
  BY <1>1, <1>2, NewLeases DEF PrimaryInv
<1>5. legacy'[u] # None
  BY <1>2, <1>4, NewLeases, LeaseIsSome
<1>6. \A v \in Usage \ {u} : legacy'[v] # None => legacy'[v].port # p
  BY <1>1, <1>4
<1>7. \A v \in Usage \ {u} : Active(v)' => legacy'[v] # None /\ legacy'[v].port = leases'[v].port
  BY <1>2, <1>4 DEF PrimaryInv, Active
<1>8. IF op'.lease.installed
      THEN /\ legacy'[op'.usage] # None /\ legacy'[op'.usage].port = op'.lease.port
           /\ \A v \in Usage \ {op'.usage} : legacy'[v] # None => legacy'[v].port # op'.lease.port
      ELSE op'.lease.acquired = None
  BY <1>3, <1>4, <1>5, <1>6, Places
<1>9. PrimaryAgrees'
  BY <1>3 DEF PrimaryAgrees
<1> QED
  BY <1>2, <1>3, <1>4, <1>7, <1>8, <1>9 DEF PrimaryInv, Active

\* The snapshot receives what the state already has.
LEMMA PublishAgrees ==
    ASSUME ProbeInv, PrimaryInv, Publish
    PROVE  PrimaryInv'
<1>1. /\ op.at = "publish" /\ op.usage \in Usage /\ op.lease \in LeaseRecord
      /\ leases \in [Usage -> LeaseRecord \cup {None}]
      /\ leases' = [leases EXCEPT ![op.usage] = op.lease] /\ UNCHANGED <<primary, legacy>>
  BY DEF Publish, ProbeInv
<1>2. PICK u \in Usage : u = op.usage
  BY <1>1
<1>3. op'.at # "publish" /\ op' # Idle
  BY Places DEF Publish
<1>4. leases'[u] = op.lease /\ \A v \in Usage \ {u} : leases'[v] = leases[v]
  BY <1>1, <1>2
<1>5. \A v \in Usage \ {u} : Active(v)' <=> Active(v)
  BY <1>4 DEF Active
<1>6. ASSUME NEW v \in Usage, Active(v)'
      PROVE  legacy'[v] # None /\ legacy'[v].port = leases'[v].port
  <2>1. CASE v = u
    BY <1>1, <1>2, <1>4, <1>6, <2>1 DEF PrimaryInv, Active
  <2>2. CASE v # u
    BY <1>1, <1>2, <1>4, <1>5, <1>6, <2>2 DEF PrimaryInv
  <2> QED
    BY <2>1, <2>2
<1>7. ASSUME NEW v \in Usage \ {u}, Active(u)', Active(v)'
      PROVE  leases'[u].port # leases'[v].port
  <2>1. op.lease.installed
    BY <1>4, <1>7 DEF Active
  <2>2. legacy[v] # None /\ legacy[v].port = leases'[v].port
    BY <1>1, <1>6, <1>7
  <2> QED
    BY <1>1, <1>2, <1>4, <2>1, <2>2 DEF PrimaryInv
<1>8. \A v, w \in Usage : v # w /\ Active(v)' /\ Active(w)' => leases'[v].port # leases'[w].port
  BY <1>4, <1>5, <1>7 DEF PrimaryInv
<1>9. \A v \in Usage : leases'[v] # None /\ ~leases'[v].installed => leases'[v].acquired = None
  BY <1>1, <1>4 DEF PrimaryInv
<1>10. PrimaryAgrees'
  BY <1>3 DEF PrimaryAgrees
<1> QED
  BY <1>1, <1>3, <1>6, <1>8, <1>9, <1>10 DEF PrimaryInv

\* The steps of maintain_port_forward and of those that invalidate what it published
LEMMA ForwardAgrees ==
    ASSUME ProbeInv, PrimaryInv,
           \/ Maintain \/ InvalidateState \/ InvalidateSnapshot
           \/ \E u \in Usage : Renew(u) \/ Deactivate(u) \/ Remove(u)
    PROVE  PrimaryInv'
<1>1. ASSUME NEW u \in Usage, Deactivate(u) PROVE PrimaryInv'
  <2>1. /\ op.at # "publish" /\ UNCHANGED <<leases, primary>>
        /\ legacy' = [legacy EXCEPT ![u] = Default] /\ op' = Publishing(u, Default)
    BY <1>1, Places DEF Deactivate, Ready
  <2>2. op'.at = "publish" /\ op'.usage = u /\ op'.lease = Default /\ op' # Idle
    BY <2>1, Places
  <2>3. /\ \A v \in Usage \ {u} : legacy'[v] = legacy[v]
        /\ legacy' \in [Usage -> LeaseRecord \cup {None}]
    BY <2>1, NewLeases DEF PrimaryInv
  <2>4. PrimaryAgrees'
    BY <2>2 DEF PrimaryAgrees
  <2> QED
    BY <2>1, <2>2, <2>3, <2>4, Places DEF PrimaryInv, Active
<1>2. ASSUME ReadPrimary PROVE PrimaryInv'
  <2>1. op.at # "publish" /\ op'.at \in {"copy", "last"} /\ UNCHANGED <<legacy, leases, primary>>
    BY <1>2, Places DEF ReadPrimary
  <2>2. op' # Idle /\ op'.at # "publish"
    BY <2>1, Places
  <2>3. PrimaryAgrees'
    BY <2>2 DEF PrimaryAgrees
  <2> QED
    BY <2>1, <2>2, <2>3 DEF PrimaryInv, Active
<1>3. ASSUME publish_primary_forward PROVE PrimaryInv'
  <2>1. /\ op.at # "publish" /\ UNCHANGED <<legacy, leases>>
        /\ primary' = Primary(legacy, leases) /\ op'.at # "publish"
    BY <1>3, Places DEF publish_primary_forward
  <2>2. \/ primary' = Default
        \/ \E u \in select_primary_usage_id(legacy) : leases[u] # None /\ primary' = leases[u]
    BY <2>1, PrimaryIsSelected
  <2>3. ~primary'.installed => primary'.acquired = None
    <3>1. \A u \in select_primary_usage_id(legacy) : u \in Usage
      BY DEF select_primary_usage_id
    <3> QED
      BY <2>2, <3>1, Places DEF PrimaryInv
  <2>4. PrimaryAgrees'
    BY <2>1, <2>2, Places DEF PrimaryAgrees, select_primary_usage_id
  <2> QED
    BY <2>1, <2>3, <2>4 DEF PrimaryInv, Active
<1>4. ASSUME NEW u \in Usage, Remove(u) PROVE PrimaryInv'
  <2>1. /\ op.at # "publish" /\ op'.at # "publish" /\ op' # Idle /\ UNCHANGED primary
        /\ legacy' = [legacy EXCEPT ![u] = None] /\ leases' = [leases EXCEPT ![u] = None]
    BY <1>4, Places DEF Remove, Ready
  <2>2. /\ legacy'[u] = None /\ (\A v \in Usage \ {u} : legacy'[v] = legacy[v])
        /\ legacy' \in [Usage -> LeaseRecord \cup {None}]
    BY <2>1 DEF PrimaryInv
  <2>3. leases'[u] = None /\ \A v \in Usage \ {u} : leases'[v] = leases[v]
    BY <2>1 DEF ProbeInv
  <2>4. PrimaryAgrees'
    BY <2>1 DEF PrimaryAgrees
  <2> QED
    BY <2>1, <2>2, <2>3, <2>4 DEF PrimaryInv, Active
<1>5. ASSUME InvalidateState PROVE PrimaryInv'
  <2>1. /\ UNCHANGED <<leases, primary, op>>
        /\ legacy' = [u \in Usage |-> IF legacy[u] = None THEN None
                                      ELSE [Default EXCEPT !.port = legacy[u].port]]
    BY <1>5 DEF InvalidateState
  <2>2. ASSUME NEW u \in Usage
        PROVE  /\ legacy'[u] = None <=> legacy[u] = None
               /\ legacy[u] # None => legacy'[u].port = legacy[u].port
               /\ legacy'[u] \in LeaseRecord \cup {None}
    <3>1. \A x \in Port \cup {None} : /\ [Default EXCEPT !.port = x].port = x
                                     /\ [Default EXCEPT !.port = x] \in LeaseRecord
      BY Zenon DEF Default, LeaseRecord
    <3>2. legacy[u] # None => legacy[u].port \in Port \cup {None}
      BY DEF PrimaryInv, LeaseRecord
    <3>3. legacy'[u] = IF legacy[u] = None THEN None ELSE [Default EXCEPT !.port = legacy[u].port]
      BY <2>1
    <3>4. CASE legacy[u] = None
      BY <3>3, <3>4
    <3>5. CASE legacy[u] # None
      BY <3>1, <3>2, <3>3, <3>5, LeaseIsSome
    <3> QED
      BY <3>4, <3>5
  <2>3. select_primary_usage_id(legacy') = select_primary_usage_id(legacy)
    <3>1. {u \in Usage : legacy'[u] # None} = {u \in Usage : legacy[u] # None}
      BY <2>2
    <3> QED
      BY <3>1 DEF select_primary_usage_id
  <2>4. PrimaryAgrees'
    <3>1. PrimaryAgrees
      BY DEF PrimaryInv
    <3>2. op' = Idle /\ primary'.installed =>
            \E u \in select_primary_usage_id(legacy') : leases'[u] = primary'
      BY <2>1, <2>3, <3>1 DEF PrimaryAgrees
    <3> QED
      BY <3>2 DEF PrimaryAgrees, select_primary_usage_id
  <2>5. legacy' \in [Usage -> LeaseRecord \cup {None}]
    BY <2>1, <2>2
  <2>6. op.at = "publish" => op.usage \in Usage
    BY DEF ProbeInv
  <2> QED
    BY <2>1, <2>2, <2>4, <2>5, <2>6 DEF PrimaryInv, Active
<1>6. ASSUME InvalidateSnapshot PROVE PrimaryInv'
  <2>1. /\ leases' = [u \in Usage |-> IF leases[u] = None THEN None ELSE Default]
        /\ primary' = Default /\ UNCHANGED <<op, legacy>>
    BY <1>6 DEF InvalidateSnapshot
  <2>2. /\ \A u \in Usage : ~Active(u)'
        /\ \A u \in Usage : leases'[u] # None => leases'[u].acquired = None
        /\ ~primary'.installed /\ primary'.acquired = None
    BY <2>1, Places DEF Active
  <2>3. PrimaryAgrees'
    BY <2>2 DEF PrimaryAgrees
  <2> QED
    BY <2>1, <2>2, <2>3 DEF PrimaryInv
<1> QED
  BY <1>1, <1>2, <1>3, <1>4, <1>5, <1>6, AcquireAgrees, PublishAgrees DEF Maintain, Renew, Regain

\* Between two rounds of maintain_port_forward an installed primary lease is a copy,
\* verification included, of the lease that the primary usage id holds, whatever
\* reports, polls and invalidations came since the round ended
\* (publish_primary_forward, observe_external_probe).
THEOREM PrimaryAlwaysAgrees == Spec => []PrimaryAgrees
<1>1. Init => PrimaryInv
  <2> SUFFICES ASSUME Init PROVE PrimaryInv
    OBVIOUS
  <2>1. legacy = Held /\ leases = Held /\ primary = Primary(Held, Held) /\ op = Idle
    BY Zenon DEF Init
  <2>2. /\ \A u \in Usage : Held[u] = Installed(u, 0) /\ Installed(u, 0) \in LeaseRecord
        /\ Held \in [Usage -> LeaseRecord \cup {None}]
    BY UsageAssumption, NewLeases DEF Held
  <2>3. \A u \in Usage : /\ Held[u] # None /\ Held[u].port = u /\ Held[u].installed
    BY <2>2, LeaseIsSome, Places
  <2>4. \/ primary = Default
        \/ \E u \in select_primary_usage_id(legacy) : leases[u] # None /\ primary = leases[u]
    BY <2>1, PrimaryIsSelected
  <2>5. (~primary.installed => primary.acquired = None) /\ PrimaryAgrees
    BY <2>1, <2>3, <2>4, Places, Zenon DEF PrimaryAgrees, select_primary_usage_id
  <2> QED
    BY <2>1, <2>2, <2>3, <2>5, Places DEF PrimaryInv, Active
<1>2. ProbeInv /\ PrimaryInv /\ [Next]_vars => PrimaryInv'
  <2> SUFFICES ASSUME ProbeInv, PrimaryInv, [Next]_vars PROVE PrimaryInv'
    OBVIOUS
  <2>1. CASE Tick \/ Companion \/ RejectEndpoint \/ UNCHANGED vars
    <3>1. UNCHANGED <<legacy, leases, primary, op>>
      BY <2>1 DEF Tick, Companion, BeginChecks, EndChecks, RejectEndpoint, vars, forward
    <3>2. PrimaryAgrees'
      BY <3>1 DEF PrimaryInv, PrimaryAgrees, select_primary_usage_id
    <3> QED
      BY <3>1, <3>2 DEF PrimaryInv, Active
  <2> QED
    BY <2>1, ForwardAgrees, PollAgrees DEF Next
<1>3. PrimaryInv => PrimaryAgrees
  BY DEF PrimaryInv
<1> QED
  BY ProbeStarts, ProbeStep, <1>1, <1>2, <1>3, PTL DEF Spec
==============================================================================
