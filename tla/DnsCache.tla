------------------------------ MODULE DnsCache ------------------------------
(***************************************************************************)
(* The response cache (src/src/dns_cache.rs): a bounded map from question  *)
(* and resolver to a response, which is served until its time to live has  *)
(* passed.  The operators take and return the map; DnsForwarder holds it.  *)
(* Time is counted in ticks; an entry carries its age instead of the       *)
(* instant it was stored, and stops ageing once it has expired.            *)
(***************************************************************************)
EXTENDS Integers, FiniteSetsExt, Functions

CONSTANTS Query,         \* what a client may ask
          Single,        \* those with exactly one question
          Upstream,
          Capacity,      \* capacity.max(1)
          MinTtl, MaxTtl

ASSUME SingleAssumption == Single \subseteq Query
ASSUME CapacityAssumption == Capacity \in Nat \ {0}
ASSUME TtlAssumption == MinTtl \in Nat \ {0} /\ MaxTtl \in Nat /\ MinTtl <= MaxTtl

\* A response: its code, whether it is truncated, the times to live of its answer
\* records, and the (record ttl, minimum) pairs of the SOAs in its authority.
Response == [rcode : {"NoError", "NXDomain", "ServFail"}, truncated : BOOLEAN,
             answers : SUBSET Nat, soas : SUBSET (Nat \X Nat)]

\* Key: the resolver is part of it.
Key(q, u) == <<q, u>>

NoEntries == [k \in {} |-> 0]

Expired(entry) == entry.age >= entry.ttl

\* negative_ttl_seconds: RFC 2308, per SOA the smaller of the two, and the least.
NegativeTtls(r) == {Min(soa) : soa \in {{s[1], s[2]} : s \in r.soas}}

\* cacheable_ttl, as the set of at most one lifetime
cacheable_ttl(r) ==
    LET seconds == IF r.rcode = "NoError" /\ r.answers # {} THEN r.answers
                   ELSE IF r.rcode \in {"NoError", "NXDomain"} THEN NegativeTtls(r)
                   ELSE {}
    IN IF r.truncated \/ seconds = {} THEN {}
       ELSE {ttl \in {Min({Min(seconds), MaxTtl})} : ttl >= MinTtl}

\* DnsCache::lookup finds a live entry
Hit(entries, q, u) ==
    /\ q \in Single
    /\ Key(q, u) \in DOMAIN entries
    /\ ~Expired(entries[Key(q, u)])

\* DnsCache::lookup drops the entry it finds expired
AfterLookup(entries, q, u) ==
    IF q \in Single /\ Key(q, u) \in DOMAIN entries /\ Expired(entries[Key(q, u)])
    THEN Restrict(entries, DOMAIN entries \ {Key(q, u)})
    ELSE entries

\* evict_one: an expired entry if there is one, otherwise the oldest
Victims(entries) ==
    LET expired == {k \in DOMAIN entries : Expired(entries[k])}
    IN IF expired # {} THEN expired
       ELSE {k \in DOMAIN entries :
                \A j \in DOMAIN entries : entries[j].age <= entries[k].age}

\* DnsCache::store: the maps it may leave (which victim goes is up to HashMap)
Stored(entries, q, u, origin, r) ==
    LET key == Key(q, u)
        full == Cardinality(DOMAIN entries) >= Capacity /\ key \notin DOMAIN entries
    IN IF q \notin Single \/ cacheable_ttl(r) = {} THEN {entries}
       ELSE {[k \in kept \cup {key} |->
                 IF k = key THEN [origin |-> origin, ttl |-> Min(cacheable_ttl(r)), age |-> 0]
                 ELSE entries[k]] :
             kept \in IF full THEN {DOMAIN entries \ {v} : v \in Victims(entries)}
                      ELSE {DOMAIN entries}}

\* One tick of the clock
Aged(entries) ==
    [k \in DOMAIN entries |->
        IF Expired(entries[k]) THEN entries[k]
        ELSE [entries[k] EXCEPT !.age = @ + 1]]

Entries ==
    [origin : Upstream, ttl : MinTtl .. MaxTtl, age : 0 .. MaxTtl]
==============================================================================
