--------------------------- MODULE DnsCacheProofs ---------------------------
EXTENDS DnsCache, FiniteSetTheorems, WellFoundedInduction, TLAPS

LEMMA DivBounds ==
    ASSUME NEW a \in Nat, NEW d \in Nat \ {0}
    PROVE  /\ a \div d \in Nat
           /\ (a \div d) * d <= a
           /\ a < (a \div d) * d + d
  BY SMT

LEMMA MinExists ==
    ASSUME NEW T, T \subseteq Nat, T # {}
    PROVE  /\ Min(T) \in T
           /\ \A t \in T : Min(T) <= t
<1> DEFINE R == {ss \in Nat \X Nat : ss[1] < ss[2]}
<1>1. IsWellFoundedOn(R, Nat)
  BY NatLessThanWellFounded DEF OpToRel
<1>2. \E x \in T : \A y \in T : ~ <<y, x>> \in R
  BY <1>1, WFMin
<1>3. PICK x \in T : \A y \in T : ~ <<y, x>> \in R
  BY <1>2
<1>4. ASSUME NEW y \in T PROVE x <= y
  <2>1. x \in Nat /\ y \in Nat /\ <<y, x>> \in Nat \X Nat
    OBVIOUS
  <2>2. y < x => <<y, x>> \in R
    BY <2>1
  <2> QED
    BY <1>3, <2>1, <2>2
<1> QED
  BY <1>3, <1>4 DEF Min

-----------------------------------------------------------------------------
(* Helpers of the cache *)

\* A nonzero minimum TTL is the TTL of some record and a lower bound of all
\* (ExtractMinTtl, dns_cache.cc:160-214).
LEMMA MinTtlSound ==
    ASSUME NEW r \in Response, ExtractMinTtl(r) # 0
    PROVE  /\ r.shape = "ok"
           /\ ExtractMinTtl(r) \in Ttls(r)
           /\ ExtractMinTtl(r) \in 1 .. UINT32_MAX
           /\ ExtractMinTtl(r) < UINT32_MAX
           /\ \A t \in Ttls(r) : ExtractMinTtl(r) <= t
<1>1. Ttls(r) \subseteq 0 .. UINT32_MAX
  <2>1. ASSUME NEW i \in DOMAIN r.rrs PROVE r.rrs[i].ttl \in 0 .. UINT32_MAX
    <3>1. r.rrs \in Seq(RR)
      BY DEF Response
    <3>2. r.rrs[i] \in RR
      BY <3>1
    <3> QED
      BY <3>2 DEF RR
  <2> QED
    BY <2>1 DEF Ttls
<1>2. /\ r.shape = "ok"
      /\ Ttls(r) # {}
      /\ Min(Ttls(r)) # UINT32_MAX
      /\ ExtractMinTtl(r) = Min(Ttls(r))
  BY DEF ExtractMinTtl
<1>3. /\ Min(Ttls(r)) \in Ttls(r)
      /\ \A t \in Ttls(r) : Min(Ttls(r)) <= t
  <2>1. Ttls(r) \subseteq Nat
    BY <1>1, TtlAssumption
  <2> QED
    BY <1>2, <2>1, MinExists
<1>4. ExtractMinTtl(r) \in 0 .. UINT32_MAX
  BY <1>1, <1>2, <1>3
<1> QED
  BY <1>2, <1>3, <1>4, TtlAssumption

\* Rewriting the TTLs of a response gives a response (AdjustTtls,
\* dns_cache.cc:219-274).
LEMMA AdjustTtlsType ==
    ASSUME NEW r \in Response, NEW elapsed \in Nat
    PROVE  AdjustTtls(r, elapsed) \in Response
<1> DEFINE s == [i \in DOMAIN r.rrs |->
                   IF r.rrs[i].opt THEN r.rrs[i]
                   ELSE [opt |-> FALSE,
                         ttl |-> IF r.rrs[i].ttl > elapsed
                                   THEN r.rrs[i].ttl - elapsed ELSE 1]]
<1>1. r.rrs \in Seq(RR)
  BY DEF Response
<1>2. ASSUME NEW i \in DOMAIN r.rrs PROVE s[i] \in RR
  <2>1. r.rrs[i] \in RR
    BY <1>1
  <2>2. r.rrs[i].ttl \in 0 .. UINT32_MAX
    BY <2>1 DEF RR
  <2> DEFINE t == IF r.rrs[i].ttl > elapsed THEN r.rrs[i].ttl - elapsed ELSE 1
  <2>3. t \in 0 .. UINT32_MAX
    BY <2>2, TtlAssumption
  <2>4. [opt |-> FALSE, ttl |-> t] \in RR
    BY <2>3 DEF RR
  <2> QED
    BY <2>1, <2>4
<1>3. s \in Seq(RR)
  <2>1. DOMAIN s = 1 .. Len(r.rrs) /\ Len(r.rrs) \in Nat
    BY <1>1
  <2>2. s \in [1 .. Len(r.rrs) -> RR]
    BY <1>2, <2>1
  <2> HIDE DEF s
  <2> QED
    BY <2>1, <2>2
<1>4. [r EXCEPT !.rrs = s] \in Response
  <2> HIDE DEF s
  <2> QED
    BY <1>3 DEF Response
<1> QED
  BY <1>4 DEF AdjustTtls

\* Making room for a key only drops entries, and leaves a free place for it
\* (the eviction in Insert, dns_cache.cc:72-81).
LEMMA MakeRoomBound ==
    ASSUME NEW c, c \in [DOMAIN c -> Entry], IsFiniteSet(DOMAIN c),
           Cardinality(DOMAIN c) <= MaxEntries,
           NEW k, NEW d \in MakeRoom(c, k)
    PROVE  /\ DOMAIN d \subseteq DOMAIN c
           /\ d = [j \in DOMAIN d |-> c[j]]
           /\ IsFiniteSet(DOMAIN d \cup {k})
           /\ Cardinality(DOMAIN d \cup {k}) <= MaxEntries
<1> DEFINE L == {j \in DOMAIN c : ~ Expired(c[j])}
           live == EvictExpired(c)
<1>0. Cardinality(DOMAIN c) \in Nat /\ MaxEntries \in Nat /\ MaxEntries # 0
  BY FS_CardinalityType, CapacityAssumption
<1>1. DOMAIN live = L /\ L \subseteq DOMAIN c /\ live = [j \in L |-> c[j]]
  BY DEF EvictExpired, Restrict
<1>2. /\ IsFiniteSet(L)
      /\ Cardinality(L) \in Nat
      /\ Cardinality(L) <= Cardinality(DOMAIN c)
  BY <1>1, FS_Subset, FS_CardinalityType
<1> HIDE DEF L, live
<1>3. CASE d = c /\ (Cardinality(DOMAIN c) < MaxEntries \/ k \in DOMAIN c)
  BY <1>0, <1>3, FS_AddElement
<1>4. CASE d = live /\ Cardinality(L) < MaxEntries
  <2>1. /\ IsFiniteSet(L \cup {k})
        /\ Cardinality(L \cup {k}) =
              IF k \in L THEN Cardinality(L) ELSE Cardinality(L) + 1
    BY <1>2, FS_AddElement
  <2> QED
    BY <1>0, <1>1, <1>2, <1>4, <2>1
<1>5. ASSUME NEW o \in Oldest(live), d = Restrict(live, DOMAIN live \ {o})
      PROVE  /\ DOMAIN d \subseteq DOMAIN c
             /\ d = [j \in DOMAIN d |-> c[j]]
             /\ IsFiniteSet(DOMAIN d \cup {k})
             /\ Cardinality(DOMAIN d \cup {k}) <= MaxEntries
  <2>1. o \in L
    BY <1>1 DEF Oldest
  <2>2. DOMAIN d = L \ {o} /\ d = [j \in L \ {o} |-> c[j]]
    BY <1>1, <1>5 DEF Restrict
  <2>3. /\ IsFiniteSet(L \ {o})
        /\ Cardinality(L \ {o}) = Cardinality(L) - 1
    BY <1>2, <2>1, FS_RemoveElement
  <2>4. /\ IsFiniteSet((L \ {o}) \cup {k})
        /\ Cardinality((L \ {o}) \cup {k}) =
              IF k \in L \ {o} THEN Cardinality(L \ {o})
                               ELSE Cardinality(L \ {o}) + 1
    BY <2>3, FS_AddElement
  <2>5. Cardinality(DOMAIN d \cup {k}) <= MaxEntries
    BY <1>0, <1>2, <2>2, <2>3, <2>4
  <2>6. DOMAIN d \subseteq DOMAIN c /\ d = [j \in DOMAIN d |-> c[j]]
    BY <1>1, <2>2
  <2> QED
    BY <2>2, <2>4, <2>5, <2>6
<1> QED
  BY <1>1, <1>3, <1>4, <1>5 DEF MakeRoom, live

-----------------------------------------------------------------------------
(* The inductive invariant *)

IInv == /\ TypeOK
        /\ EntriesSound
        /\ IsFiniteSet(DOMAIN cache)
        /\ CapacityBound

\* The seconds an entry has spent in the cache: a natural number that falls
\* short of the true age by less than a second.
LEMMA ElapsedBounds ==
    ASSUME TypeOK, EntriesSound, NEW k \in DOMAIN cache
    PROVE  /\ Elapsed(cache[k]) \in Nat
           /\ Elapsed(cache[k]) * TicksPerSec <= now - cache[k].insert_time
           /\ now - cache[k].insert_time
                 < Elapsed(cache[k]) * TicksPerSec + TicksPerSec
<1>1. cache[k].insert_time \in 0 .. MaxTime /\ cache[k].insert_time <= now
  BY DEF TypeOK, EntriesSound, Entry
<1>2. now - cache[k].insert_time \in Nat
  BY <1>1, ClockAssumption DEF TypeOK
<1> QED
  BY <1>2, DivBounds, ClockAssumption DEF Elapsed

LEMMA InitIInv == Init => IInv
<1> SUFFICES ASSUME Init PROVE IInv
  OBVIOUS
<1>1. cache = [k \in {} |-> 0] /\ DOMAIN cache = {}
  BY DEF Init
<1>2. TypeOK
  BY <1>1, ClockAssumption DEF Init, TypeOK
<1>3. EntriesSound
  BY <1>1 DEF EntriesSound
<1>4. IsFiniteSet(DOMAIN cache) /\ CapacityBound
  BY <1>1, FS_EmptySet, CapacityAssumption DEF CapacityBound
<1> QED
  BY <1>2, <1>3, <1>4 DEF IInv

\* Dropping entries disturbs nothing.
LEMMA ShrinkIInv ==
    ASSUME IInv, NEW D \in SUBSET DOMAIN cache,
           cache' = Restrict(cache, D), now' = now,
           reply' \in {NoReply, Miss}
    PROVE  IInv'
<1>1. DOMAIN cache' = D /\ \A k \in D : cache'[k] = cache[k]
  BY DEF Restrict
<1>2. TypeOK'
  BY <1>1 DEF IInv, TypeOK, Restrict
<1>3. EntriesSound'
  BY <1>1 DEF IInv, EntriesSound
<1>4. IsFiniteSet(D) /\ Cardinality(D) <= Cardinality(DOMAIN cache)
  BY FS_Subset DEF IInv
<1>5. Cardinality(D) \in Nat /\ Cardinality(DOMAIN cache) \in Nat
  BY <1>4, FS_CardinalityType DEF IInv
<1>6. CapacityBound'
  BY <1>1, <1>4, <1>5, CapacityAssumption DEF IInv, CapacityBound
<1> QED
  BY <1>1, <1>2, <1>3, <1>4, <1>6 DEF IInv

\* Making room in the cache keeps what it does not drop.
LEMMA RoomKeeps ==
    ASSUME IInv, NEW k, NEW d \in MakeRoom(cache, k)
    PROVE  DOMAIN d \subseteq DOMAIN cache /\ \A j \in DOMAIN d : d[j] = cache[j]
<1>1. /\ DOMAIN d \subseteq DOMAIN cache
      /\ d = [j \in DOMAIN d |-> cache[j]]
      /\ IsFiniteSet(DOMAIN d \cup {k})
      /\ Cardinality(DOMAIN d \cup {k}) <= MaxEntries
  BY MakeRoomBound DEF IInv, TypeOK, CapacityBound
<1>2. \A j \in DOMAIN d : [i \in DOMAIN d |-> cache[i]][j] = cache[j]
  OBVIOUS
<1> QED
  BY <1>1, <1>2

LEMMA InsertIInv ==
    ASSUME IInv, NEW n \in Name, NEW q \in Qtypes, NEW r \in Responses,
           Insert(n, q, r)
    PROVE  IInv'
<1> DEFINE k == KeyOf(n, q)
           e == [response |-> r, insert_time |-> now,
                 min_ttl |-> ExtractMinTtl(r)]
<1>1. PICK c \in MakeRoom(cache, k) : cache' = Store(c, k, e)
  BY DEF Insert
<1>2. k \in Key
  BY DEF KeyOf, ToLower, Key, Name
<1>3. /\ r \in Response
      /\ r.shape = "ok"
      /\ ExtractMinTtl(r) \in Ttls(r)
      /\ ExtractMinTtl(r) \in 1 .. UINT32_MAX
      /\ ExtractMinTtl(r) < UINT32_MAX
      /\ \A t \in Ttls(r) : ExtractMinTtl(r) <= t
  BY MinTtlSound, ResponsesAssumption DEF Insert
<1>4. e \in Entry
  BY <1>3 DEF Entry, IInv, TypeOK
<1>5. /\ DOMAIN c \subseteq DOMAIN cache
      /\ c = [j \in DOMAIN c |-> cache[j]]
      /\ IsFiniteSet(DOMAIN c \cup {k})
      /\ Cardinality(DOMAIN c \cup {k}) <= MaxEntries
  BY MakeRoomBound DEF IInv, TypeOK, CapacityBound
<1>6. /\ e.response = r
      /\ e.insert_time = now
      /\ e.min_ttl = ExtractMinTtl(r)
  OBVIOUS
<1> HIDE DEF k, e
<1>7. /\ DOMAIN cache' = DOMAIN c \cup {k}
      /\ cache'[k] = e
      /\ \A j \in DOMAIN c \ {k} : cache'[j] = cache[j]
      /\ cache' = [j \in DOMAIN c \cup {k} |-> IF j = k THEN e ELSE c[j]]
  BY <1>1, <1>5 DEF Store
<1>8. now' = now /\ reply' = NoReply
  BY DEF Insert
<1>9. TypeOK'
  <2>1. DOMAIN cache' \subseteq Key
    BY <1>2, <1>5, <1>7 DEF IInv, TypeOK
  <2>2. \A j \in DOMAIN cache' : cache'[j] \in Entry
    BY <1>4, <1>5, <1>7 DEF IInv, TypeOK
  <2>3. cache' \in [DOMAIN cache' -> Entry]
    BY <1>7, <2>2
  <2> QED
    BY <1>8, <2>1, <2>3 DEF IInv, TypeOK
<1>10. EntriesSound'
  <2> SUFFICES ASSUME NEW j \in DOMAIN cache'
               PROVE  /\ cache'[j].insert_time <= now
                      /\ cache'[j].response.shape = "ok"
                      /\ cache'[j].min_ttl \in Ttls(cache'[j].response)
                      /\ cache'[j].min_ttl < UINT32_MAX
                      /\ \A t \in Ttls(cache'[j].response) :
                            cache'[j].min_ttl <= t
    BY <1>8 DEF EntriesSound
  <2>1. CASE j = k
    BY <1>3, <1>6, <1>7, <2>1 DEF IInv, TypeOK
  <2>2. CASE j # k
    <3>1. j \in DOMAIN cache /\ cache'[j] = cache[j]
      BY <1>5, <1>7, <2>2
    <3> QED
      BY <3>1 DEF IInv, EntriesSound
  <2> QED
    BY <2>1, <2>2
<1> QED
  BY <1>5, <1>7, <1>9, <1>10 DEF IInv, CapacityBound

\* The response a hit copies: the stored one with the client's transaction id
\* (dns_cache.cc:44-50).
LEMMA CopyType ==
    ASSUME NEW r \in Response, NEW txn \in Txn
    PROVE  /\ [r EXCEPT !.txn = txn] \in Response
           /\ [r EXCEPT !.txn = txn].txn = txn
           /\ [r EXCEPT !.txn = txn].shape = r.shape
           /\ [r EXCEPT !.txn = txn].rrs = r.rrs
           /\ [r EXCEPT !.txn = txn].body = r.body
  BY DEF Response

LEMMA HitReplyType ==
    ASSUME IInv, NEW k \in DOMAIN cache, NEW txn \in Txn
    PROVE  AdjustTtls([cache[k].response EXCEPT !.txn = txn], Elapsed(cache[k]))
              \in Response
<1>1. cache[k].response \in Response
  BY DEF IInv, TypeOK, Entry
<1>2. Elapsed(cache[k]) \in Nat
  BY ElapsedBounds DEF IInv
<1> QED
  BY <1>1, <1>2, CopyType, AdjustTtlsType

LEMMA NextIInv == IInv /\ [Next]_vars => IInv'
<1> SUFFICES ASSUME IInv, [Next]_vars PROVE IInv'
  OBVIOUS
<1>1. ASSUME UNCHANGED cache, now' = now, reply' \in {NoReply, Miss} \cup HitReply
      PROVE  IInv'
  BY <1>1 DEF IInv, TypeOK, EntriesSound, CapacityBound
<1>2. ASSUME NEW n \in Name, NEW q \in Qtypes, NEW txn \in Txn,
             Lookup(n, q, txn)
      PROVE  IInv'
  <2> DEFINE k == KeyOf(n, q)
  <2>1. CASE LookupAbsent(k)
    BY <1>1, <2>1 DEF LookupAbsent
  <2>2. CASE LookupExpired(k)
    BY <2>2, ShrinkIInv DEF LookupExpired
  <2>3. CASE LookupHit(k, txn)
    <3>1. k \in DOMAIN cache /\ k \in Key
      BY <2>3 DEF LookupHit, IInv, TypeOK
    <3>2. reply' \in HitReply
      BY <2>3, <3>1, HitReplyType DEF LookupHit, HitReply
    <3> QED
      BY <1>1, <2>3, <3>2 DEF LookupHit
  <2> QED
    BY <1>2, <2>1, <2>2, <2>3 DEF Lookup
<1>3. ASSUME NEW n \in Name, NEW q \in Qtypes, NEW r \in Responses,
             Insert(n, q, r)
      PROVE  IInv'
  BY <1>3, InsertIInv
<1>4. ASSUME NEW r \in Responses, InsertRefused(r)
      PROVE  IInv'
  BY <1>1, <1>4 DEF InsertRefused
<1>5. CASE Clear
  <2>1. cache' = Restrict(cache, {})
    BY <1>5 DEF Clear, Restrict
  <2> QED
    BY <1>5, <2>1, ShrinkIInv DEF Clear
<1>6. CASE Tick
  <2>1. TypeOK'
    BY <1>6, ClockAssumption DEF Tick, IInv, TypeOK
  <2>2. EntriesSound'
    <3> SUFFICES ASSUME NEW k \in DOMAIN cache
                 PROVE  cache[k].insert_time <= now'
      BY <1>6 DEF Tick, IInv, EntriesSound
    <3>1. cache[k].insert_time \in Int /\ now \in Int
      BY ClockAssumption DEF IInv, TypeOK, Entry
    <3> QED
      BY <1>6, <3>1 DEF Tick, IInv, EntriesSound
  <2> QED
    BY <1>6, <2>1, <2>2 DEF Tick, IInv, CapacityBound
<1>7. CASE UNCHANGED vars
  BY <1>7 DEF vars, IInv, TypeOK, EntriesSound, CapacityBound
<1> QED
  BY <1>2, <1>3, <1>4, <1>5, <1>6, <1>7 DEF Next

\* The state of the cache has its type in every reachable state, for every
\* capacity, clock resolution and set of upstream responses.
THEOREM TypeCorrect == Spec => []TypeOK
<1>1. IInv => TypeOK
  BY DEF IInv
<1> QED
  BY InitIInv, NextIInv, <1>1, PTL DEF Spec

\* m_Cache_ never exceeds m_MaxEntries_ (Insert, dns_cache.cc:72-83).
THEOREM CapacityHolds == Spec => []CapacityBound
<1>1. IInv => CapacityBound
  BY DEF IInv
<1> QED
  BY InitIInv, NextIInv, <1>1, PTL DEF Spec

\* Every stored entry has a lifetime that none of its records falls short of.
THEOREM EntriesHold == Spec => []EntriesSound
<1>1. IInv => EntriesSound
  BY DEF IInv
<1> QED
  BY InitIInv, NextIInv, <1>1, PTL DEF Spec

-----------------------------------------------------------------------------
(* What a hit returns *)

\* The TTLs a hit carries: the stored ones less the elapsed seconds, which are
\* fewer than any of them as long as the entry has not expired.
LEMMA HitTtls ==
    ASSUME IInv, NEW k \in DOMAIN cache, ~ Expired(cache[k]), NEW txn \in Txn,
           NEW a, a = AdjustTtls([cache[k].response EXCEPT !.txn = txn],
                                 Elapsed(cache[k]))
    PROVE  LET r == cache[k].response
           IN  /\ a.txn = txn
               /\ a.body = r.body
               /\ DOMAIN a.rrs = DOMAIN r.rrs
               /\ \A i \in DOMAIN r.rrs :
                     r.rrs[i].opt => a.rrs[i] = r.rrs[i]
               /\ \A i \in DOMAIN r.rrs :
                     ~ r.rrs[i].opt =>
                        /\ ~ a.rrs[i].opt
                        /\ a.rrs[i].ttl = r.rrs[i].ttl - Elapsed(cache[k])
                        /\ a.rrs[i].ttl >= 1
<1> DEFINE r == cache[k].response
           el == Elapsed(cache[k])
           b == [r EXCEPT !.txn = txn]
<1>1. r \in Response /\ cache[k].min_ttl \in 1 .. UINT32_MAX
  BY DEF IInv, TypeOK, Entry
<1>2. el \in Nat /\ el < cache[k].min_ttl
  BY <1>1, ElapsedBounds DEF IInv, Expired
<1>3. r.shape = "ok" /\ \A t \in Ttls(r) : cache[k].min_ttl <= t
  BY DEF IInv, EntriesSound
<1>4. b.txn = txn /\ b.shape = "ok" /\ b.rrs = r.rrs /\ b.body = r.body
      /\ b \in Response
  BY <1>1, <1>3, CopyType
<1>5. ASSUME NEW i \in DOMAIN r.rrs, ~ r.rrs[i].opt
      PROVE  r.rrs[i].ttl \in Nat /\ r.rrs[i].ttl > el
  <2>1. r.rrs \in Seq(RR)
    BY <1>1 DEF Response
  <2>2. r.rrs[i] \in RR
    BY <2>1
  <2>3. r.rrs[i].ttl \in Nat
    BY <2>2, TtlAssumption DEF RR
  <2>4. r.rrs[i].ttl \in Ttls(r)
    BY <1>5 DEF Ttls
  <2> QED
    BY <1>1, <1>2, <1>3, <2>3, <2>4
<1> DEFINE s == [i \in DOMAIN r.rrs |->
                   IF r.rrs[i].opt THEN r.rrs[i]
                   ELSE [opt |-> FALSE,
                         ttl |-> IF r.rrs[i].ttl > el
                                   THEN r.rrs[i].ttl - el ELSE 1]]
<1>6. CASE el = 0
  <2>1. a = b
    BY <1>6 DEF AdjustTtls
  <2> HIDE DEF r, el, b
  <2>2. \A i \in DOMAIN r.rrs :
           ~ r.rrs[i].opt => /\ r.rrs[i].ttl = r.rrs[i].ttl - el
                             /\ r.rrs[i].ttl >= 1
    BY <1>5, <1>6
  <2>3. a.txn = txn /\ a.rrs = r.rrs /\ a.body = r.body
    BY <1>4, <2>1
  <2> QED
    BY <2>2, <2>3 DEF r, el
<1>7. CASE el # 0
  <2>1. a = [b EXCEPT !.rrs = s]
    BY <1>4, <1>7 DEF AdjustTtls
  <2>2. a.txn = txn /\ a.rrs = s /\ a.body = r.body
    <3> HIDE DEF r, b, s
    <3> QED
      BY <1>4, <2>1 DEF Response
  <2>3. DOMAIN s = DOMAIN r.rrs
    OBVIOUS
  <2>4. \A i \in DOMAIN r.rrs : r.rrs[i].opt => s[i] = r.rrs[i]
    BY Zenon
  <2>5. ASSUME NEW i \in DOMAIN r.rrs, ~ r.rrs[i].opt
        PROVE  /\ ~ s[i].opt
               /\ s[i].ttl = r.rrs[i].ttl - el
               /\ s[i].ttl >= 1
    <3> HIDE DEF el
    <3>1. r.rrs[i].ttl > el /\ r.rrs[i].ttl \in Nat
      BY <1>5, <2>5
    <3>2. s[i] = [opt |-> FALSE, ttl |-> r.rrs[i].ttl - el]
      BY <2>5, <3>1, Zenon
    <3>3. s[i].opt = FALSE /\ s[i].ttl = r.rrs[i].ttl - el
      <4> HIDE DEF r, s
      <4> QED
        BY <3>2
    <3> HIDE DEF r, s
    <3> QED
      BY <1>2, <3>1, <3>3
  <2> HIDE DEF r, el, s
  <2> QED
    BY <2>2, <2>3, <2>4, <2>5 DEF r, el
<1> QED
  BY <1>6, <1>7

\* The answer of a hit on key k.
Served(k, txn) == AdjustTtls([cache[k].response EXCEPT !.txn = txn], Elapsed(cache[k]))

LEMMA ServedTtls ==
    ASSUME IInv, NEW k \in DOMAIN cache, ~ Expired(cache[k]), NEW txn \in Txn
    PROVE  LET r == cache[k].response
               a == Served(k, txn)
           IN  /\ a.txn = txn
               /\ a.body = r.body
               /\ DOMAIN a.rrs = DOMAIN r.rrs
               /\ \A i \in DOMAIN r.rrs :
                     r.rrs[i].opt => a.rrs[i] = r.rrs[i]
               /\ \A i \in DOMAIN r.rrs :
                     ~ r.rrs[i].opt =>
                        /\ ~ a.rrs[i].opt
                        /\ a.rrs[i].ttl = r.rrs[i].ttl - Elapsed(cache[k])
                        /\ a.rrs[i].ttl >= 1
BY HitTtls DEF Served

ReplySound == /\ reply.kind = "hit" => reply.key \in DOMAIN cache
              /\ ClampNeverLengthens

LEMMA NextReplySound == IInv /\ ReplySound /\ [Next]_vars => ReplySound'
<1> SUFFICES ASSUME IInv, ReplySound, [Next]_vars PROVE ReplySound'
  OBVIOUS
<1>1. ASSUME reply' \in {NoReply, Miss} PROVE ReplySound'
  BY <1>1 DEF NoReply, Miss, ReplySound, ClampNeverLengthens
<1>2. ASSUME NEW k, NEW txn \in Txn, LookupHit(k, txn) PROVE ReplySound'
  <2>1. k \in DOMAIN cache /\ ~ Expired(cache[k]) /\ cache' = cache /\ now' = now
    BY <1>2 DEF LookupHit
  <2> DEFINE a == AdjustTtls([cache[k].response EXCEPT !.txn = txn],
                             Elapsed(cache[k]))
  <2>2. reply'.key = k /\ reply'.answer = a
    BY <1>2 DEF LookupHit
  <2>3. \A i \in DOMAIN cache[k].response.rrs :
           ~ cache[k].response.rrs[i].opt =>
              /\ a.rrs[i].ttl = cache[k].response.rrs[i].ttl - Elapsed(cache[k])
              /\ a.rrs[i].ttl >= 1
    BY <2>1, HitTtls
  <2> HIDE DEF a
  <2> QED
    BY <2>1, <2>2, <2>3 DEF ReplySound, ClampNeverLengthens, Elapsed
<1>3. CASE UNCHANGED vars
  BY <1>3 DEF vars, ReplySound, ClampNeverLengthens, Elapsed
<1> QED
  BY <1>1, <1>2, <1>3
  DEF Next, Lookup, LookupAbsent, LookupExpired, Insert, InsertRefused, Clear, Tick

\* A hit never lengthens the life of a record: the clamp of AdjustTtls
\* (dns_cache.cc:263) is never taken on the way to a client.
THEOREM ClampHolds == Spec => []ClampNeverLengthens
<1>1. Init => ReplySound
  BY DEF Init, NoReply, ReplySound, ClampNeverLengthens
<1>2. ReplySound => ClampNeverLengthens
  BY DEF ReplySound
<1> QED
  BY <1>1, <1>2, InitIInv, NextIInv, NextReplySound, PTL DEF Spec

-----------------------------------------------------------------------------
(* What eviction may drop *)

\* The entries Insert gives up to make room: expired ones if there is any, else
\* one of the oldest (dns_cache.cc:72-81, 95-105).
LEMMA RoomDrops ==
    ASSUME IInv, NEW k, NEW d \in MakeRoom(cache, k),
           NEW j \in DOMAIN cache, j \notin DOMAIN d, ~ Expired(cache[j])
    PROVE  /\ k \notin DOMAIN cache
           /\ Cardinality(DOMAIN cache) = MaxEntries
           /\ \A i \in DOMAIN cache : ~ Expired(cache[i])
           /\ j \in Oldest(cache)
           /\ DOMAIN cache \ DOMAIN d = {j}
<1> DEFINE L == {i \in DOMAIN cache : ~ Expired(cache[i])}
           live == EvictExpired(cache)
<1>1. DOMAIN live = L /\ L \subseteq DOMAIN cache /\ \A i \in L : live[i] = cache[i]
  BY DEF EvictExpired, Restrict
<1>2. /\ IsFiniteSet(DOMAIN cache) /\ Cardinality(DOMAIN cache) \in Nat
      /\ Cardinality(DOMAIN cache) <= MaxEntries /\ MaxEntries \in Nat
  BY FS_CardinalityType, CapacityAssumption DEF IInv, CapacityBound
<1>3. /\ Cardinality(L) \in Nat /\ Cardinality(L) <= Cardinality(DOMAIN cache)
      /\ Cardinality(L) = Cardinality(DOMAIN cache) => L = DOMAIN cache
  BY <1>1, <1>2, FS_Subset, FS_CardinalityType
<1>4. j \in L /\ d # cache
  OBVIOUS
<1> HIDE DEF L
<1>5. d # live
  BY <1>1, <1>4
<1> HIDE DEF live
<1>6. /\ ~ (Cardinality(DOMAIN cache) < MaxEntries \/ k \in DOMAIN cache)
      /\ ~ (Cardinality(DOMAIN live) < MaxEntries)
      /\ \E o \in Oldest(live) : d = Restrict(live, DOMAIN live \ {o})
  BY <1>4, <1>5 DEF MakeRoom, live
<1>7. PICK o \in Oldest(live) : d = Restrict(live, DOMAIN live \ {o})
  BY <1>6
<1>8. L = DOMAIN cache /\ Cardinality(DOMAIN cache) = MaxEntries
  BY <1>1, <1>2, <1>3, <1>6
<1>9. DOMAIN d = DOMAIN cache \ {o} /\ o \in DOMAIN cache
  BY <1>1, <1>7, <1>8 DEF Restrict, Oldest
<1>10. j = o
  BY <1>9
<1>11. o \in Oldest(cache)
  BY <1>1, <1>7, <1>8 DEF Oldest
<1> QED
  BY <1>6, <1>8, <1>9, <1>10, <1>11 DEF L

\* An entry that is still alive goes only with Clear, or alone, when the cache is
\* full of live entries (dns_cache.cc:72-81).
THEOREM LiveEntriesEvictedLast == Spec => LiveEvictedLast
<1> DEFINE Kept(k) ==
      \/ DOMAIN cache' = {}
      \/ /\ Cardinality(DOMAIN cache) = MaxEntries
         /\ \A j \in DOMAIN cache : ~ Expired(cache[j])
         /\ Cardinality(DOMAIN cache \ DOMAIN cache') = 1
<1>1. ASSUME IInv, [Next]_vars, NEW k \in DOMAIN cache \ DOMAIN cache',
             ~ Expired(cache[k])
      PROVE  Kept(k)
  <2>1. ASSUME NEW n \in Name, NEW q \in Qtypes, NEW txn \in Txn, Lookup(n, q, txn)
        PROVE  FALSE
    <3>1. CASE LookupExpired(KeyOf(n, q))
      <4>1. DOMAIN cache' = DOMAIN cache \ {KeyOf(n, q)} /\ Expired(cache[KeyOf(n, q)])
        BY <3>1 DEF LookupExpired, Restrict
      <4> QED
        BY <1>1, <4>1
    <3>2. CASE LookupAbsent(KeyOf(n, q)) \/ LookupHit(KeyOf(n, q), txn)
      BY <1>1, <3>2 DEF LookupAbsent, LookupHit
    <3> QED
      BY <2>1, <3>1, <3>2 DEF Lookup
  <2>2. ASSUME NEW n \in Name, NEW q \in Qtypes, NEW r \in Responses, Insert(n, q, r)
        PROVE  Kept(k)
    <3> DEFINE key == KeyOf(n, q)
               e == [response |-> r, insert_time |-> now, min_ttl |-> ExtractMinTtl(r)]
    <3>1. PICK d \in MakeRoom(cache, key) : cache' = Store(d, key, e)
      BY <2>2 DEF Insert
    <3> HIDE DEF key, e
    <3>2. DOMAIN cache' = DOMAIN d \cup {key}
      BY <3>1 DEF Store
    <3>3. /\ key \notin DOMAIN cache
          /\ Cardinality(DOMAIN cache) = MaxEntries
          /\ \A i \in DOMAIN cache : ~ Expired(cache[i])
          /\ k \in Oldest(cache)
          /\ DOMAIN cache \ DOMAIN d = {k}
      BY <1>1, <3>1, <3>2, RoomDrops
    <3>4. DOMAIN cache \ DOMAIN cache' = {k}
      BY <3>2, <3>3
    <3>5. Cardinality({k}) = 1
      BY FS_Singleton
    <3> QED
      BY <3>3, <3>4, <3>5
  <2>3. ASSUME NEW r \in Responses, InsertRefused(r)
        PROVE  FALSE
    BY <1>1, <2>3 DEF InsertRefused
  <2>4. CASE Clear
    BY <2>4 DEF Clear
  <2>5. CASE Tick \/ UNCHANGED vars
    BY <1>1, <2>5 DEF Tick, vars
  <2> QED
    BY <1>1, <2>1, <2>2, <2>3, <2>4, <2>5 DEF Next
<1>2. IInv /\ [Next]_vars =>
        \A k \in DOMAIN cache \ DOMAIN cache' : ~ Expired(cache[k]) => Kept(k)
  BY <1>1
<1> QED
  BY <1>2, InitIInv, NextIInv, PTL DEF Spec, LiveEvictedLast

-----------------------------------------------------------------------------
(* The cache implements its contract *)

Abs(c) == [k \in DOMAIN c |-> [response |-> c[k].response,
                               at |-> c[k].insert_time,
                               life |-> c[k].min_ttl]]

\* Dropping entries is forgetting.
LEMMA ShrinkForgets ==
    ASSUME NEW c, NEW D \in SUBSET DOMAIN c
    PROVE  Abs(Restrict(c, D)) \in Contract!Forgetting(Abs(c))
<1>1. Abs(Restrict(c, D)) = [k \in D |-> Abs(c)[k]]
  BY DEF Abs, Restrict
<1>2. D \in SUBSET DOMAIN Abs(c)
  BY DEF Abs
<1> QED
  BY <1>1, <1>2 DEF Contract!Forgetting

\* An unexpired entry is alive by the clock: rounding the age down to seconds
\* neither expires an entry early nor keeps it late.
LEMMA AliveByTheClock ==
    ASSUME IInv, NEW k \in DOMAIN cache, ~ Expired(cache[k])
    PROVE  now < cache[k].insert_time + cache[k].min_ttl * TicksPerSec
<1> DEFINE el == Elapsed(cache[k])
           m == cache[k].min_ttl
           t == cache[k].insert_time
<1>1. m \in Nat /\ t \in Nat /\ now \in Nat /\ TicksPerSec \in Nat
  BY TtlAssumption, ClockAssumption DEF IInv, TypeOK, Entry
<1>2. el \in Nat /\ now - t < el * TicksPerSec + TicksPerSec
  BY ElapsedBounds DEF IInv
<1>3. el + 1 <= m
  BY <1>1, <1>2 DEF Expired
<1> HIDE DEF el, m, t
<1>4. (el + 1) * TicksPerSec <= m * TicksPerSec
  BY <1>1, <1>2, <1>3
<1>5. (el + 1) * TicksPerSec = el * TicksPerSec + TicksPerSec
  BY <1>1, <1>2
<1>6. m * TicksPerSec \in Nat /\ el * TicksPerSec \in Nat
  BY <1>1, <1>2
<1>7. now < t + m * TicksPerSec
  BY <1>1, <1>2, <1>4, <1>5, <1>6
<1> QED
  BY <1>7 DEF m, t

\* A client that counts a served TTL down from now lets go of the record less
\* than a second after the upstream deadline.
LEMMA ServedDeadline ==
    ASSUME IInv, NEW k \in DOMAIN cache, NEW ttl \in Nat, NEW served,
           served = ttl - Elapsed(cache[k])
    PROVE  now + served * TicksPerSec
              < cache[k].insert_time + (ttl + 1) * TicksPerSec
<1> DEFINE el == Elapsed(cache[k])
           t == cache[k].insert_time
<1>1. t \in Nat /\ now \in Nat /\ TicksPerSec \in Nat
  BY ClockAssumption DEF IInv, TypeOK, Entry
<1>2. el \in Nat /\ now - t < el * TicksPerSec + TicksPerSec
  BY ElapsedBounds DEF IInv
<1> HIDE DEF el, t
<1>3. /\ (ttl - el) * TicksPerSec = ttl * TicksPerSec - el * TicksPerSec
      /\ (ttl + 1) * TicksPerSec = ttl * TicksPerSec + TicksPerSec
      /\ ttl * TicksPerSec \in Nat
      /\ el * TicksPerSec \in Nat
  BY <1>1, <1>2
<1>4. now + (ttl - el) * TicksPerSec < t + (ttl + 1) * TicksPerSec
  BY <1>1, <1>2, <1>3
<1> QED
  BY <1>4 DEF el, t

LEMMA HitFaithful ==
    ASSUME IInv, NEW k \in DOMAIN cache, ~ Expired(cache[k]), NEW txn \in Txn
    PROVE  Contract!Faithful(Abs(cache)[k], txn,
              AdjustTtls([cache[k].response EXCEPT !.txn = txn],
                         Elapsed(cache[k])))
<1> DEFINE r == cache[k].response
           a == AdjustTtls([r EXCEPT !.txn = txn], Elapsed(cache[k]))
<1>1. Abs(cache)[k].response = r /\ Abs(cache)[k].at = cache[k].insert_time
  BY DEF Abs
<1>2. /\ a.txn = txn
      /\ a.body = r.body
      /\ DOMAIN a.rrs = DOMAIN r.rrs
      /\ \A i \in DOMAIN r.rrs : r.rrs[i].opt => a.rrs[i] = r.rrs[i]
      /\ \A i \in DOMAIN r.rrs :
            ~ r.rrs[i].opt =>
               /\ ~ a.rrs[i].opt
               /\ a.rrs[i].ttl = r.rrs[i].ttl - Elapsed(cache[k])
               /\ a.rrs[i].ttl >= 1
  BY HitTtls
<1>3. r \in Response /\ a \in Response
  BY HitReplyType DEF IInv, TypeOK, Entry
<1> HIDE DEF r, a
<1>4. ASSUME NEW i \in DOMAIN r.rrs
      PROVE  /\ r.rrs[i].opt \in BOOLEAN
             /\ a.rrs[i].opt \in BOOLEAN
             /\ r.rrs[i].ttl \in Nat
  <2>1. r.rrs \in Seq(RR) /\ a.rrs \in Seq(RR)
    BY <1>3 DEF Response
  <2>2. r.rrs[i] \in RR /\ a.rrs[i] \in RR
    BY <1>2, <2>1
  <2> QED
    BY <2>2, TtlAssumption DEF RR
<1>5. ASSUME NEW i \in Contract!Timed(r)
      PROVE  /\ i \in DOMAIN r.rrs
             /\ a.rrs[i].ttl >= 1
             /\ now + a.rrs[i].ttl * TicksPerSec
                   < cache[k].insert_time + (r.rrs[i].ttl + 1) * TicksPerSec
  BY <1>2, <1>4, ServedDeadline DEF Contract!Timed
<1>6. ASSUME NEW i \in DOMAIN r.rrs
      PROVE  /\ a.rrs[i].opt = r.rrs[i].opt
             /\ i \notin Contract!Timed(r) => a.rrs[i] = r.rrs[i]
  BY <1>2, <1>4 DEF Contract!Timed
<1>7. Contract!Faithful(Abs(cache)[k], txn, a)
  BY <1>1, <1>2, <1>5, <1>6 DEF Contract!Faithful
<1> QED
  BY <1>7 DEF r, a

LEMMA InsertPuts ==
    ASSUME IInv, NEW n \in Name, NEW q \in Qtypes, NEW r \in Responses,
           Insert(n, q, r)
    PROVE  Contract!Put(KeyOf(n, q), r, ExtractMinTtl(r))
<1> DEFINE k == KeyOf(n, q)
           m == ExtractMinTtl(r)
           e == [response |-> r, insert_time |-> now, min_ttl |-> m]
<1>1. PICK c \in MakeRoom(cache, k) : cache' = Store(c, k, e)
  BY DEF Insert
<1>2. /\ DOMAIN c \subseteq DOMAIN cache
      /\ c = [j \in DOMAIN c |-> cache[j]]
      /\ IsFiniteSet(DOMAIN c \cup {k})
      /\ Cardinality(DOMAIN c \cup {k}) <= MaxEntries
  BY MakeRoomBound DEF IInv, TypeOK, CapacityBound
<1>3. Abs(c) \in Contract!Forgetting(Abs(cache))
  <2>1. c = Restrict(cache, DOMAIN c)
    BY <1>2 DEF Restrict
  <2> QED
    BY <1>2, <2>1, ShrinkForgets
<1>4. \A t \in Ttls(r) : m <= t
  BY MinTtlSound, ResponsesAssumption DEF Insert
<1>5. \A i \in Contract!Timed(r) : m <= r.rrs[i].ttl
  BY <1>4 DEF Contract!Timed, Ttls
<1>6. Abs(cache') = [j \in DOMAIN Abs(c) \cup {k} |->
                       IF j = k THEN [response |-> r, at |-> now, life |-> m]
                                ELSE Abs(c)[j]]
  <2>1. DOMAIN Abs(c) = DOMAIN c
    BY DEF Abs
  <2> HIDE DEF k, m
  <2> QED
    BY <1>1, <2>1 DEF Abs, Store
<1> DEFINE a == [response |-> r, at |-> now, life |-> m]
<1>7. reply' = NoReply /\ now' = now
  BY DEF Insert
<1> HIDE DEF k, m, e, a
<1>8. Abs(cache') = [j \in DOMAIN Abs(c) \cup {k} |->
                       IF j = k THEN a ELSE Abs(c)[j]]
  BY <1>6 DEF a
<1>9. k \in DOMAIN Abs(cache') /\ Abs(cache')[k] = a
  BY <1>8
<1>10. Abs(cache') = [j \in DOMAIN Abs(c) \cup {k} |->
                        IF j = k THEN Abs(cache')[k] ELSE Abs(c)[j]]
  BY <1>8, <1>9
<1>11. Contract!Put(k, r, m)
  <2>1. Abs(cache)' = Abs(cache')
    BY DEF Abs
  <2>2. \E s \in Contract!Forgetting(Abs(cache)) :
           Abs(cache') = [j \in DOMAIN s \cup {k} |->
                            IF j = k THEN Abs(cache')[k] ELSE s[j]]
    BY <1>3, <1>10
  <2> QED
    BY <1>5, <1>7, <1>9, <2>1, <2>2
    DEF Contract!Put, NoReply, Contract!NoReply, a, Abs
<1> QED
  BY <1>11 DEF k, m

LEMMA StepImplements == IInv /\ [Next]_vars => [Contract!Next]_(Contract!vars)
<1> SUFFICES ASSUME IInv, [Next]_vars
             PROVE  Contract!Next \/ UNCHANGED Contract!vars
  OBVIOUS
<1>1. ASSUME NEW D \in SUBSET DOMAIN cache, cache' = Restrict(cache, D),
             now' = now, reply' \in {NoReply, Miss}
      PROVE  Contract!Next
  <2>1. Abs(cache') \in Contract!Forgetting(Abs(cache))
    BY <1>1, ShrinkForgets
  <2>2. CASE reply' = NoReply
    <3>1. Contract!Forget(Contract!NoReply)
      BY <1>1, <2>1, <2>2 DEF Contract!Forget, Abs, NoReply, Contract!NoReply
    <3> QED
      BY <3>1 DEF Contract!Next
  <2>3. CASE reply' = Miss
    <3>1. Contract!Forget(Contract!Miss)
      BY <1>1, <2>1, <2>3 DEF Contract!Forget, Abs, Miss, Contract!Miss
    <3> QED
      BY <3>1 DEF Contract!Next
  <2> QED
    BY <1>1, <2>2, <2>3
<1>2. cache = Restrict(cache, DOMAIN cache)
  BY DEF Restrict, IInv, TypeOK
<1>3. ASSUME NEW n \in Name, NEW q \in Qtypes, NEW txn \in Txn,
             Lookup(n, q, txn)
      PROVE  Contract!Next
  <2> DEFINE k == KeyOf(n, q)
  <2>1. CASE LookupAbsent(k)
    BY <1>1, <1>2, <2>1 DEF LookupAbsent
  <2>2. CASE LookupExpired(k)
    BY <1>1, <2>2 DEF LookupExpired
  <2>3. CASE LookupHit(k, txn)
    <3>1. k \in DOMAIN cache /\ ~ Expired(cache[k]) /\ k \in Key
      BY <2>3 DEF LookupHit, IInv, TypeOK
    <3> DEFINE a == AdjustTtls([cache[k].response EXCEPT !.txn = txn],
                               Elapsed(cache[k]))
    <3>2. Contract!Faithful(Abs(cache)[k], txn, a)
      BY <3>1, HitFaithful
    <3>3. now < Abs(cache)[k].at + Abs(cache)[k].life * TicksPerSec
      BY <3>1, AliveByTheClock DEF Abs
    <3>4. /\ reply'.kind = "hit"
          /\ reply'.key = k
          /\ reply'.answer = a
          /\ cache' = cache
          /\ now' = now
      BY <2>3 DEF LookupHit
    <3>5. k \in DOMAIN Abs(cache)
      BY <3>1 DEF Abs
    <3> HIDE DEF a, k
    <3>6. Contract!Hit(k, txn)
      BY <3>2, <3>3, <3>4, <3>5 DEF Contract!Hit, Abs
    <3> QED
      BY <3>1, <3>6 DEF Contract!Next
  <2> QED
    BY <1>3, <2>1, <2>2, <2>3 DEF Lookup
<1>4. ASSUME NEW n \in Name, NEW q \in Qtypes, NEW r \in Responses,
             Insert(n, q, r)
      PROVE  Contract!Next
  <2>1. KeyOf(n, q) \in Key
    BY DEF KeyOf, ToLower, Key, Name
  <2>2. ExtractMinTtl(r) \in 1 .. UINT32_MAX
    BY <1>4, MinTtlSound, ResponsesAssumption DEF Insert
  <2> QED
    BY <1>4, <2>1, <2>2, InsertPuts DEF Contract!Next
<1>5. ASSUME NEW r \in Responses, InsertRefused(r)
      PROVE  Contract!Next
  BY <1>1, <1>2, <1>5 DEF InsertRefused
<1>6. CASE Clear
  <2>1. cache' = Restrict(cache, {})
    BY <1>6 DEF Clear, Restrict
  <2> QED
    BY <1>1, <1>6, <2>1 DEF Clear
<1>7. CASE Tick
  <2>1. Contract!Tick
    BY <1>7 DEF Tick, Contract!Tick, NoReply, Contract!NoReply
  <2> QED
    BY <2>1 DEF Contract!Next
<1>8. CASE UNCHANGED vars
  BY <1>8 DEF vars, Contract!vars
<1> QED
  BY <1>3, <1>4, <1>5, <1>6, <1>7, <1>8 DEF Next

\* DnsCache implements TtlCache: whatever was stored, overwritten, expired or
\* evicted, a hit is a response stored for that key, alive by the clock, with
\* TTLs that outlast the upstream deadline by less than a second.
THEOREM CacheImplementsContract == Spec => ImplementsTtlCache
<1>1. Init => Contract!Init
  BY DEF Init, Contract!Init, NoReply, Contract!NoReply
<1> QED
  BY <1>1, InitIInv, NextIInv, StepImplements, PTL
  DEF Spec, ImplementsTtlCache, Contract!Spec

=============================================================================
