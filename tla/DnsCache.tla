------------------------------ MODULE DnsCache ------------------------------
(***************************************************************************)
(* The response cache of the relay: src/dns_cache.cc and                   *)
(* include/dns_cache.h.  One object per server; the io_context is single   *)
(* threaded, so each member function is one atomic step.                   *)
(*                                                                         *)
(* A wire response is abstracted to what the cache reads and writes of it: *)
(*   txn    bytes 0-1;                                                     *)
(*   shape  "short" (fewer than 12 bytes), "badquestion" (the walk over    *)
(*          the question section fails) or "ok";                           *)
(*   rrs    the resource records the walk reaches, in order, each with its *)
(*          TTL and whether it is an OPT pseudo-record (type 41);          *)
(*   body   everything else, never touched by the cache.                   *)
(***************************************************************************)
EXTENDS Integers, Sequences, FiniteSets, FiniteSetsExt, Functions

CONSTANTS Labels,       \* domain names up to letter case
          Qtypes,       \* query types
          Txn,          \* transaction ids
          Bodies,       \* contents of a response besides txn and TTLs
          Responses,    \* the upstream responses offered to Insert
          MaxEntries,   \* m_MaxEntries_
          UINT32_MAX,   \* stands for 2^32 - 1, the largest TTL
          TicksPerSec,  \* resolution of steady_clock, in ticks per second
          MaxTime       \* bound on the clock

RR == [opt : BOOLEAN, ttl : 0 .. UINT32_MAX]

Response == [txn : Txn, shape : {"short", "badquestion", "ok"},
             rrs : Seq(RR), body : Bodies]

ASSUME CapacityAssumption == MaxEntries \in Nat \ {0}
ASSUME ClockAssumption == TicksPerSec \in Nat \ {0} /\ MaxTime \in Nat
ASSUME TtlAssumption == UINT32_MAX \in Nat \ {0}
ASSUME ResponsesAssumption == Responses \subseteq Response

\* A name as the client spelled it: a label and its letter case.
Name == Labels \X {"lower", "mixed"}

ToLower(n) == <<n[1], "lower">>

Key == [domain : Labels \X {"lower"}, qtype : Qtypes]

Entry == [response : Response, insert_time : 0 .. MaxTime,
          min_ttl : 1 .. UINT32_MAX]

VARIABLES now,    \* steady_clock, in ticks
          cache,  \* m_Cache_: a function from the keys present to their entries
          reply   \* what the last Lookup returned, until the next step

vars == <<now, cache, reply>>

NoReply == [kind |-> "none"]
Miss == [kind |-> "miss"]
HitReply == [kind : {"hit"}, key : Key, answer : Response]

TypeOK == /\ now \in 0 .. MaxTime
          /\ DOMAIN cache \subseteq Key
          /\ cache \in [DOMAIN cache -> Entry]
          /\ reply \in {NoReply, Miss} \cup HitReply

-----------------------------------------------------------------------------
(* Helpers *)

\* TTLs of the records other than OPT.
Ttls(r) == {r.rrs[i].ttl : i \in {j \in DOMAIN r.rrs : ~ r.rrs[j].opt}}

\* Variant: the longest TTL instead of the shortest.
ExtractMinTtl_Max(r) ==
    IF r.shape # "ok" \/ Ttls(r) = {} THEN 0
    ELSE IF Max(Ttls(r)) = UINT32_MAX THEN 0 ELSE Max(Ttls(r))

\* 0 stands for "do not cache": unreadable response, no record but OPT, a
\* zero TTL, and (through the UINT32_MAX sentinel) a minimum of UINT32_MAX.
ExtractMinTtl(r) ==
    IF r.shape # "ok" \/ Ttls(r) = {} THEN 0
    ELSE IF Min(Ttls(r)) = UINT32_MAX THEN 0 ELSE Min(Ttls(r))

\* TTLs less the elapsed seconds, never below 1.
AdjustTtls(r, elapsed) ==
    IF elapsed = 0 \/ r.shape # "ok" THEN r
    ELSE [r EXCEPT !.rrs =
            [i \in DOMAIN r.rrs |->
               IF r.rrs[i].opt THEN r.rrs[i]
               ELSE [opt |-> FALSE,
                     ttl |-> IF r.rrs[i].ttl > elapsed
                               THEN r.rrs[i].ttl - elapsed ELSE 1]]]

\* duration_cast<seconds> truncates.
Elapsed(e) == (now - e.insert_time) \div TicksPerSec

\* Variant: > for >=.
Expired_Late(e) == Elapsed(e) > e.min_ttl

Expired(e) == Elapsed(e) >= e.min_ttl

EvictExpired(c) == Restrict(c, {k \in DOMAIN c : ~ Expired(c[k])})

\* The keys min_element may stop at: it returns the first in hash order.
Oldest(c) ==
    {k \in DOMAIN c : \A j \in DOMAIN c : c[k].insert_time <= c[j].insert_time}

\* Variant: only expired entries make room.
MakeRoom_ExpiredOnly(c, k) ==
    IF Cardinality(DOMAIN c) < MaxEntries \/ k \in DOMAIN c THEN {c}
    ELSE {EvictExpired(c)}

\* Variant: the oldest goes without looking for expired ones.
MakeRoom_OldestOnly(c, k) ==
    IF Cardinality(DOMAIN c) < MaxEntries \/ k \in DOMAIN c THEN {c}
    ELSE {Restrict(c, DOMAIN c \ {o}) : o \in Oldest(c)}

\* The possible caches once Insert has made room for key k.
MakeRoom(c, k) ==
    IF Cardinality(DOMAIN c) < MaxEntries \/ k \in DOMAIN c THEN {c}
    ELSE LET live == EvictExpired(c)
         IN  IF Cardinality(DOMAIN live) < MaxEntries THEN {live}
             ELSE {Restrict(live, DOMAIN live \ {o}) : o \in Oldest(live)}

Store(c, k, e) == [j \in DOMAIN c \cup {k} |-> IF j = k THEN e ELSE c[j]]

\* Variant: the type is not part of the key.
KeyOf_NameOnly(n, q) == [domain |-> ToLower(n), qtype |-> CHOOSE t \in Qtypes : TRUE]

KeyOf(n, q) == [domain |-> ToLower(n), qtype |-> q]

-----------------------------------------------------------------------------
(* Operations *)

Init == /\ now = 0
        /\ cache = [k \in {} |-> 0]
        /\ reply = NoReply

LookupAbsent(k) ==
    /\ k \notin DOMAIN cache
    /\ reply' = Miss
    /\ UNCHANGED <<now, cache>>

LookupExpired(k) ==
    /\ k \in DOMAIN cache
    /\ Expired(cache[k])
    /\ cache' = Restrict(cache, DOMAIN cache \ {k})
    /\ reply' = Miss
    /\ UNCHANGED now

\* Variant: a hit makes the entry young again.
LookupHit_Refresh(k, txn) ==
    /\ k \in DOMAIN cache
    /\ ~ Expired(cache[k])
    /\ reply' = [kind |-> "hit", key |-> k,
                 answer |-> AdjustTtls([cache[k].response EXCEPT !.txn = txn],
                                       Elapsed(cache[k]))]
    /\ cache' = [cache EXCEPT ![k].insert_time = now]
    /\ UNCHANGED now

LookupHit(k, txn) ==
    /\ k \in DOMAIN cache
    /\ ~ Expired(cache[k])
    /\ reply' = [kind |-> "hit", key |-> k,
                 answer |-> AdjustTtls([cache[k].response EXCEPT !.txn = txn],
                                       Elapsed(cache[k]))]
    /\ UNCHANGED <<now, cache>>

Lookup(n, q, txn) == \/ LookupAbsent(KeyOf(n, q))
                     \/ LookupExpired(KeyOf(n, q))
                     \/ LookupHit(KeyOf(n, q), txn)

Insert(n, q, r) ==
    /\ ExtractMinTtl(r) # 0
    /\ \E c \in MakeRoom(cache, KeyOf(n, q)) :
          cache' = Store(c, KeyOf(n, q),
                         [response |-> r, insert_time |-> now,
                          min_ttl |-> ExtractMinTtl(r)])
    /\ reply' = NoReply
    /\ UNCHANGED now

\* Insert's early returns.
InsertRefused(r) ==
    /\ ExtractMinTtl(r) = 0
    /\ reply' = NoReply
    /\ UNCHANGED <<now, cache>>

Clear == /\ cache' = [k \in {} |-> 0]
         /\ reply' = NoReply
         /\ UNCHANGED now

Tick == /\ now < MaxTime
        /\ now' = now + 1
        /\ reply' = NoReply
        /\ UNCHANGED cache

Next == \/ \E n \in Name, q \in Qtypes :
              \/ \E txn \in Txn : Lookup(n, q, txn)
              \/ \E r \in Responses : Insert(n, q, r)
        \/ \E r \in Responses : InsertRefused(r)
        \/ Clear
        \/ Tick

Spec == Init /\ [][Next]_vars

-----------------------------------------------------------------------------
(* Properties *)

\* The cache never holds more than m_MaxEntries_ entries, whichever mixture
\* of overwrites, expiries and evictions led here (dns_cache.cc:72-81).
CapacityBound == Cardinality(DOMAIN cache) <= MaxEntries

\* Every entry was stored in the past, under a lifetime that no record of its
\* response falls short of and that is neither 0 nor the UINT32_MAX sentinel:
\* what makes expiring the whole entry at once right (dns_cache.cc:64-68).
EntriesSound ==
    \A k \in DOMAIN cache :
       LET e == cache[k]
       IN  /\ e.insert_time <= now
           /\ e.response.shape = "ok"
           /\ e.min_ttl \in Ttls(e.response)
           /\ e.min_ttl < UINT32_MAX
           /\ \A t \in Ttls(e.response) : e.min_ttl <= t

\* A hit carries exactly the original TTLs less the whole seconds spent in the
\* cache: the clamp to 1 in AdjustTtls never lengthens a record's life.
ClampNeverLengthens ==
    reply.kind = "hit" =>
       LET e == cache[reply.key]
       IN  \A i \in DOMAIN e.response.rrs :
              ~ e.response.rrs[i].opt =>
                 /\ reply.answer.rrs[i].ttl = e.response.rrs[i].ttl - Elapsed(e)
                 /\ reply.answer.rrs[i].ttl >= 1

\* An entry that is still alive is dropped only by Clear, or when the cache is
\* full of live entries, and then alone: expired entries always go first
\* (dns_cache.cc:72-81).  Which live one goes is left open: README.md:326 calls
\* the cache "LRU / TTL-expiry", while the code drops the entry stored longest
\* ago, however recently it was served (Oldest).
LiveEvictedLast ==
    [][\A k \in DOMAIN cache \ DOMAIN cache' :
          ~ Expired(cache[k]) =>
             \/ DOMAIN cache' = {}
             \/ /\ Cardinality(DOMAIN cache) = MaxEntries
                /\ \A j \in DOMAIN cache : ~ Expired(cache[j])
                /\ Cardinality(DOMAIN cache \ DOMAIN cache') = 1]_vars

\* The cache implements its contract: the store of TtlCache is the map, and
\* an entry's life is its minimum TTL.
Contract == INSTANCE TtlCache WITH
    Response <- Responses,
    store <- [k \in DOMAIN cache |->
                [response |-> cache[k].response,
                 at |-> cache[k].insert_time,
                 life |-> cache[k].min_ttl]]

ImplementsTtlCache == Contract!Spec

=============================================================================
