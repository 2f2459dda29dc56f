--------------------------- MODULE LocalDnsProofs ----------------------------
(* LocalDns (src/local_dns.cc): what a lookup answers, for every zone file, every set *)
(* of names, records and expressions and every depth, and the cache of compiled       *)
(* expressions under it, for every set of patterns and every size of at least one.    *)
(*                                                                                    *)
(* The variables and constants of RegexCache are declared here, so that its theorem   *)
(* stands in this module as R!Spec => ...                                             *)
EXTENDS LocalDns, FiniteSetTheorems, NaturalsInduction, WellFoundedInduction, TLAPS

CONSTANTS Patterns, Inputs, MatchedBy, Invalid, DNS_REGEX_CACHE_SIZE
VARIABLES cache, call

R == INSTANCE RegexCache

-----------------------------------------------------------------------------
(* The table *)

\* A sequence, of whatever.
IsSeq(s) == \E n \in Nat : DOMAIN s = 1 .. n /\ s \in Seq(Range(s))

ValueOK(v) == IsArray(v) => IsSeq(v[2])
RecordsOK(recs) == \A k \in DOMAIN recs : ValueOK(recs[k])
ZoneOK(zone) == /\ DOMAIN zone = {"blocked", "types"}
                /\ \A t \in DOMAIN zone.types : RecordsOK(zone.types[t])

\* The invariant of the table: what is marked as an array holds a sequence.
TableOK == \A z \in DOMAIN zones : ZoneOK(zones[z])

\* A function on 1 .. n is a sequence.
LEMMA FunctionIsSeq ==
    ASSUME NEW n \in Nat, NEW s, s = [i \in 1 .. n |-> s[i]]
    PROVE  IsSeq(s) /\ Len(s) = n
<1>1. DOMAIN s = 1 .. n
  OBVIOUS
<1>2. s \in Seq(Range(s)) /\ Len(s) = n
  BY <1>1 DEF Range
<1> QED
  BY <1>1, <1>2 DEF IsSeq

\* What a sequence is to the provers.
LEMMA SeqFacts ==
    ASSUME NEW s, IsSeq(s)
    PROVE  Len(s) \in Nat /\ DOMAIN s = 1 .. Len(s) /\ s = [i \in 1 .. Len(s) |-> s[i]]
  BY DEF IsSeq

\* A sequence is one over its values and any other.
LEMMA InSeq ==
    ASSUME NEW s, IsSeq(s), NEW v
    PROVE  s \in Seq(Range(s) \cup {v})
<1>1. s \in Seq(Range(s))
  BY DEF IsSeq
<1> QED
  BY <1>1

\* A sequence with values in some set is a sequence.
LEMMA SeqIsSeq ==
    ASSUME NEW S, NEW s \in Seq(S)
    PROVE  IsSeq(s)
<1>1. Len(s) \in Nat /\ s = [i \in 1 .. Len(s) |-> s[i]]
  OBVIOUS
<1> QED
  BY <1>1, FunctionIsSeq

\* One value more.
LEMMA AppendIsSeq ==
    ASSUME NEW s, IsSeq(s), NEW v
    PROVE  IsSeq(Append(s, v))
<1> DEFINE S == Range(s) \cup {v}
<1>1. s \in Seq(S) /\ v \in S
  BY InSeq
<1> HIDE DEF S
<1>2. Append(s, v) \in Seq(S)
  BY <1>1
<1> QED
  BY <1>2, SeqIsSeq

\* The array a second value makes (Merge).
LEMMA PairIsSeq == ASSUME NEW a, NEW b PROVE IsSeq(<<a, b>>)
<1> DEFINE s == <<a, b>>
<1>1. s = [i \in 1 .. 2 |-> s[i]]
  OBVIOUS
<1> HIDE DEF s
<1>2. IsSeq(s)
  BY <1>1, FunctionIsSeq
<1> QED
  BY <1>2 DEF s

\* A single answer.
LEMMA OneIsSeq == ASSUME NEW a PROVE IsSeq(<<a>>) /\ Len(<<a>>) = 1
<1> DEFINE s == <<a>>
<1>1. s = [i \in 1 .. 1 |-> s[i]]
  OBVIOUS
<1> HIDE DEF s
<1>2. IsSeq(s) /\ Len(s) = 1
  BY <1>1, FunctionIsSeq
<1> QED
  BY <1>2 DEF s

\* One key more, or one replaced.
LEMMA WithOK ==
    ASSUME NEW recs, RecordsOK(recs), NEW k, NEW v, ValueOK(v)
    PROVE  RecordsOK(With(recs, k, v))
  BY DEF RecordsOK, With

\* Merging the values of one name makes arrays of them (config_parser.cc:160-190).
LEMMA AddToOK ==
    ASSUME NEW recs, RecordsOK(recs), NEW r \in Records
    PROVE  RecordsOK(AddTo(recs, r))
<1> DEFINE v == IF r.data = ForwardAll THEN Forward ELSE r.data
           k == SubKey(r)
           merged == With(recs, k, Merge(recs, k, v))
<1>f. ValueOK(Forward)
  BY DEF ValueOK, IsArray, Forward
<1>0. ValueOK(r.data)
  <2>1. ASSUME IsArray(r.data) PROVE IsSeq(r.data[2])
    <3>1. r.data[2] \in Seq(Range(r.data[2]))
      BY <2>1, DataAssumption
    <3> QED
      BY <3>1 DEF IsSeq
  <2> QED
    BY <2>1 DEF ValueOK
<1>1. ValueOK(v)
  BY <1>0, <1>f
<1> HIDE DEF v, k
<1>2. ValueOK(Merge(recs, k, v))
  <2>1. CASE k \notin DOMAIN recs
    BY <1>1, <2>1 DEF Merge
  <2>2. CASE k \in DOMAIN recs /\ IsArray(recs[k])
    <3>1. IsSeq(recs[k][2])
      BY <2>2 DEF RecordsOK, ValueOK
    <3>2. IsSeq(Append(recs[k][2], v))
      BY <3>1, AppendIsSeq
    <3>3. Merge(recs, k, v) = <<"array", Append(recs[k][2], v)>>
      BY <2>2 DEF Merge, Array
    <3> QED
      BY <3>2, <3>3 DEF ValueOK
  <2>3. CASE k \in DOMAIN recs /\ ~ IsArray(recs[k])
    <3>1. Merge(recs, k, v) = <<"array", <<recs[k], v>> >>
      BY <2>3 DEF Merge, Array
    <3> QED
      BY <3>1, PairIsSeq DEF ValueOK
  <2> QED
    BY <2>1, <2>2, <2>3
<1>3. RecordsOK(merged)
  BY <1>2, WithOK
<1>4. RecordsOK(With(merged, All, Forward))
  BY <1>3, <1>f, WithOK
<1>5. AddTo(recs, r) = merged \/ AddTo(recs, r) = With(merged, All, Forward)
  BY DEF AddTo, v, k
<1> QED
  BY <1>3, <1>4, <1>5

\* A type without records.
LEMMA NothingOK == RecordsOK(NoTypes)
  BY DEF RecordsOK, NoTypes

\* Converting addresses keeps the arrays (config_parser.cc: ValidateAndOptimize).
LEMMA ConvertOK ==
    ASSUME NEW zone, ZoneOK(zone)
    PROVE  ZoneOK(ConvertZone(zone))
<1> DEFINE c == ConvertZone(zone)
           new(t, k) == IF t \notin {"A", "AAAA"} \/ Skipped(zone.types[t][k])
                          THEN zone.types[t][k] ELSE Convert(zone.types[t][k])
<1>1. DOMAIN c = {"blocked", "types"}
      /\ c.types = [t \in DOMAIN zone.types |-> [k \in DOMAIN zone.types[t] |-> new(t, k)]]
  BY DEF ConvertZone, ZoneOK
<1>2. ASSUME NEW v, ValueOK(v) PROVE ValueOK(Convert(v))
  <2>1. CASE IsArray(v)
    <3> DEFINE a == [i \in DOMAIN v[2] |-> Hex(v[2][i])]
    <3>1. IsSeq(v[2])
      BY <1>2, <2>1 DEF ValueOK
    <3>2. PICK n \in Nat : DOMAIN v[2] = 1 .. n
      BY <3>1 DEF IsSeq
    <3>3. a = [i \in 1 .. n |-> a[i]]
      BY <3>2
    <3> HIDE DEF a
    <3>4. IsSeq(a)
      BY <3>3, FunctionIsSeq
    <3>5. Convert(v) = <<"array", a>>
      BY <2>1 DEF Convert, Array, a
    <3> QED
      BY <3>4, <3>5 DEF ValueOK
  <2>2. CASE ~ IsArray(v)
    BY <2>2 DEF Convert, Hex, ValueOK, IsArray
  <2> QED
    BY <2>1, <2>2
<1>3. ASSUME NEW t \in DOMAIN zone.types, NEW k \in DOMAIN zone.types[t]
      PROVE  ValueOK(new(t, k))
  BY <1>2 DEF ZoneOK, RecordsOK
<1> HIDE DEF c, new
<1> QED
  BY <1>1, <1>3 DEF ZoneOK, RecordsOK, c

\* Reading a file, in any order and to any length, keeps the invariant.
LEMMA TableStep == TableOK /\ [Next]_vars => TableOK'
<1> SUFFICES ASSUME TableOK, [Next]_vars PROVE TableOK'
  OBVIOUS
<1>1. ASSUME NEW z \in ZoneNames, BeginZone(z) \/ BlockZone(z) PROVE TableOK'
  <2>1. PICK b \in BOOLEAN : zones' = With(zones, z, [blocked |-> b, types |-> NoTypes])
    BY <1>1 DEF BeginZone, BlockZone
  <2>2. ZoneOK([blocked |-> b, types |-> NoTypes])
    BY DEF ZoneOK, NoTypes
  <2> QED
    BY <2>1, <2>2 DEF TableOK, With
<1>2. ASSUME NEW r \in Records, ReadRecord(r) PROVE TableOK'
  <2> DEFINE types == zones[current].types
             recs == IF r.type \in DOMAIN types THEN types[r.type] ELSE NoTypes
             added == With(types, r.type, AddTo(recs, r))
  <2>1. zones' = [zones EXCEPT ![current].types = added]
    BY <1>2 DEF ReadRecord
  <2>2. CASE current \in DOMAIN zones
    <3>1. ZoneOK(zones[current])
      BY <2>2 DEF TableOK
    <3>2. RecordsOK(recs)
      BY <3>1, NothingOK DEF ZoneOK
    <3> HIDE DEF recs
    <3>3. RecordsOK(AddTo(recs, r))
      BY <3>2, AddToOK
    <3>4. \A t \in DOMAIN added : RecordsOK(added[t])
      BY <3>1, <3>3 DEF ZoneOK, With
    <3> HIDE DEF added
    <3>5. ZoneOK([zones[current] EXCEPT !.types = added])
      BY <3>1, <3>4 DEF ZoneOK
    <3>6. zones' = [zones EXCEPT ![current] = [zones[current] EXCEPT !.types = added]]
      BY <2>1, <2>2
    <3> QED
      BY <3>5, <3>6 DEF TableOK
  <2>3. CASE current \notin DOMAIN zones
    BY <2>1, <2>3 DEF TableOK
  <2> QED
    BY <2>2, <2>3
<1>3. CASE Validate
  <2>1. zones' = zones \/ zones' = [z \in DOMAIN zones |-> ConvertZone(zones[z])]
    BY <1>3 DEF Validate
  <2>2. CASE zones' = zones
    BY <2>2 DEF TableOK
  <2>3. CASE zones' = [z \in DOMAIN zones |-> ConvertZone(zones[z])]
    BY <2>3, ConvertOK DEF TableOK
  <2> QED
    BY <2>1, <2>2, <2>3
<1>4. CASE UNCHANGED vars
  BY <1>4 DEF vars, TableOK
<1> QED
  BY <1>1, <1>2, <1>3, <1>4 DEF Next

\* The table is empty at first.
LEMMA TableInit == Init => TableOK
  BY DEF Init, TableOK

-----------------------------------------------------------------------------
(* Lookups *)

\* A nonempty set of numbers has a least member.
LEMMA LeastExists ==
    ASSUME NEW T, T \subseteq Nat, T # {}
    PROVE  \E x \in T : \A y \in T : x <= y
<1> DEFINE Below == {ss \in Nat \X Nat : ss[1] < ss[2]}
<1>1. IsWellFoundedOn(Below, Nat)
  BY NatLessThanWellFounded DEF OpToRel
<1>2. PICK x \in T : \A y \in T : ~ <<y, x>> \in Below
  BY <1>1, WFMin
<1>3. ASSUME NEW y \in T PROVE x <= y
  <2>1. x \in Nat /\ y \in Nat /\ <<y, x>> \in Nat \X Nat
    OBVIOUS
  <2>2. y < x => <<y, x>> \in Below
    BY <2>1
  <2> QED
    BY <1>2, <2>1, <2>2
<1> QED
  BY <1>3

\* The least place of Hits is one of them.
LEMMA MinIn ==
    ASSUME NEW T, T \subseteq Nat, T # {}
    PROVE  Min(T) \in T
  BY LeastExists DEF Min

\* The longest prefix accepted (MultiAnswer) is one of them.
LEMMA MaxIn ==
    ASSUME NEW n \in Nat, NEW T, T \subseteq 0 .. n, T # {}
    PROVE  Max(T) \in T
<1> DEFINE U == {n - x : x \in T}
<1>1. U \subseteq Nat /\ U # {}
  <2>1. ASSUME NEW x \in T PROVE n - x \in Nat
    <3>1. x \in 0 .. n
      OBVIOUS
    <3> QED
      BY <3>1
  <2> QED
    BY <2>1
<1>2. PICK u \in U : \A y \in U : u <= y
  BY <1>1, LeastExists
<1>3. PICK x \in T : u = n - x
  OBVIOUS
<1>4. ASSUME NEW y \in T PROVE x >= y
  <2>1. n - x <= n - y
    BY <1>2, <1>3
  <2>2. x \in Int /\ y \in Int
    OBVIOUS
  <2> QED
    BY <2>1, <2>2
<1> QED
  BY <1>4 DEF Max

\* The smaller of two numbers.
LEMMA MinOfTwo ==
    ASSUME NEW a \in Nat, NEW b \in Nat
    PROVE  Min({a, b}) = IF a <= b THEN a ELSE b
  BY DEF Min

\* The key that decides is a key of the table.
LEMMA KeyFound ==
    ASSUME NEW recs, NEW sub
    PROVE  FirstKey(recs, sub) \in DOMAIN recs \/ FirstKey(recs, sub) = NoKey
<1>1. ASSUME NEW fallback PROVE LET k == FirstOf({}, fallback, recs)
                                IN  k \in DOMAIN recs \/ k = NoKey
  BY DEF FirstOf
<1>2. CASE sub = <<>>
  BY <1>1, <1>2 DEF FirstKey
<1>3. CASE sub # <<>> /\ Hits(recs, sub) = {}
  BY <1>1, <1>3 DEF FirstKey
<1>4. CASE sub # <<>> /\ Hits(recs, sub) # {}
  <2>1. Hits(recs, sub) \subseteq Nat
    BY FileAssumption DEF Hits
  <2>2. Min(Hits(recs, sub)) \in Hits(recs, sub)
    BY <1>4, <2>1, MinIn
  <2>3. FirstKey(recs, sub) = KeyOrder[Min(Hits(recs, sub))]
    BY <1>4 DEF FirstKey, FirstOf
  <2> QED
    BY <2>2, <2>3 DEF Hits
<1> QED
  BY <1>2, <1>3, <1>4

\* What is decided is a value of the table or none.
LEMMA DecideOK ==
    ASSUME NEW recs, RecordsOK(recs), NEW sub
    PROVE  ValueOK(Decide(recs, sub))
<1>1. ValueOK(None)
  BY DEF ValueOK, IsArray, None
<1>2. Decide(recs, sub) = None
      \/ (FirstKey(recs, sub) # NoKey /\ Decide(recs, sub) = recs[FirstKey(recs, sub)])
  BY DEF Decide, Value
<1> QED
  BY <1>1, <1>2, KeyFound DEF RecordsOK

\* The records of a type keep the invariant.
LEMMA RecordsOfOK ==
    ASSUME NEW zone, ZoneOK(zone), NEW type
    PROVE  RecordsOK(RecordsOf(zone, type))
  BY NothingOK DEF ZoneOK, RecordsOf

\* What LookupLocalRecord returns is a value of the table or none.
LEMMA LookupOK ==
    ASSUME TableOK, NEW d, NEW type
    PROVE  ValueOK(LookupLocalRecord(d, type))
<1>1. ValueOK(None)
  BY DEF ValueOK, IsArray, None
<1>2. CASE LookupLocalRecord(d, type) = None
  BY <1>1, <1>2
<1>3. CASE /\ RootDomain(d) \in DOMAIN zones
           /\ LookupLocalRecord(d, type)
                = Decide(RecordsOf(zones[RootDomain(d)], type), SubDomain(d))
  <2>1. RecordsOK(RecordsOf(zones[RootDomain(d)], type))
    BY <1>3, RecordsOfOK DEF TableOK
  <2> QED
    BY <1>3, <2>1, DecideOK
<1> QED
  BY <1>2, <1>3 DEF LookupLocalRecord

\* The records of an answer: one per value, of the type and owner asked for.
LEMMA ExpandFacts ==
    ASSUME NEW type, NEW v, ValueOK(v), NEW name
    PROVE  LET ans == ExpandAnswerRecords(type, v, name)
           IN  /\ IsSeq(ans)
               /\ \A i \in DOMAIN ans : ans[i].type = type /\ ans[i].name = name
<1> DEFINE ans == ExpandAnswerRecords(type, v, name)
<1>1. CASE IsArray(v)
  <2> DEFINE a == [i \in DOMAIN v[2] |-> Answer(type, v[2][i], name)]
  <2>1. PICK n \in Nat : DOMAIN v[2] = 1 .. n
    BY <1>1 DEF ValueOK, IsSeq
  <2>2. a = [i \in 1 .. n |-> a[i]]
    BY <2>1
  <2>3. \A i \in DOMAIN a : a[i].type = type /\ a[i].name = name
    BY DEF Answer
  <2> HIDE DEF a
  <2>4. IsSeq(a)
    BY <2>2, FunctionIsSeq
  <2>5. ans = a
    BY <1>1 DEF ExpandAnswerRecords, a
  <2> QED
    BY <2>3, <2>4, <2>5
<1>2. CASE ~ IsArray(v)
  <2> DEFINE b == Answer(type, v, name)
  <2>1. ans = <<b>>
    BY <1>2 DEF ExpandAnswerRecords
  <2>2. b.type = type /\ b.name = name
    BY DEF Answer
  <2> HIDE DEF b
  <2> QED
    BY <2>1, <2>2, OneIsSeq
<1> QED
  BY <1>1, <1>2

-----------------------------------------------------------------------------
(* Chains *)

\* ans, of length k, is a chain of m CNAMEs, followed by records of a type.
Linked(ans, k, m, type) ==
    /\ IsSeq(ans) /\ Len(ans) = k /\ m \in 1 .. k
    /\ ans[1].name = <<>>
    /\ \A i \in 2 .. k : ans[i].name = ans[IF i - 1 <= m THEN i - 1 ELSE m].data[2]
    /\ \A i \in 1 .. k : ans[i].type = IF i <= m THEN "CNAME" ELSE type

\* The state p of the loop after n lookups: while it goes on, there are CNAMEs only, and
\* it is at the target of the last one.
Walked(p, n, type) ==
    /\ DOMAIN p = {"at", "more", "thrown", "answers"} /\ p.more \in BOOLEAN
    /\ \E k \in Nat, m \in 1 .. n + 1 :
          /\ Linked(p.answers, k, m, type)
          /\ p.more => m = k /\ p.at = p.answers[k].data[2]

\* The state in which the loop begins.
Begun(target) == [at |-> target, more |-> TRUE, thrown |-> FALSE,
                  answers |-> <<Answer("CNAME", <<"name", target>>, <<>>)>>]

\* Before the first lookup: the CNAME that redirects the query.
LEMMA BegunWalked == ASSUME NEW target, NEW type PROVE Walked(Begun(target), 0, type)
<1> DEFINE b == Answer("CNAME", <<"name", target>>, <<>>)
           p == Begun(target)
<1>1. b.type = "CNAME" /\ b.name = <<>> /\ b.data[2] = target
  BY DEF Answer
<1>2. /\ DOMAIN p = {"at", "more", "thrown", "answers"} /\ p.more = TRUE /\ p.at = target
      /\ p.answers = <<b>>
  BY DEF Begun
<1> HIDE DEF b, p
<1> SUFFICES Walked(p, 0, type)
  BY DEF p
<1>3. IsSeq(<<b>>) /\ Len(<<b>>) = 1 /\ <<b>>[1] = b
  BY OneIsSeq
<1> DEFINE ans == p.answers
<1>4. IsSeq(ans) /\ Len(ans) = 1 /\ ans[1] = b
  BY <1>2, <1>3
<1> HIDE DEF ans
<1>5. Linked(ans, 1, 1, type)
  <2>1. 2 .. 1 = {} /\ 1 \in 1 .. 1 /\ 1 <= 1 /\ \A i \in 1 .. 1 : i = 1
    OBVIOUS
  <2>2. \A i \in 1 .. 1 : ans[i].type = IF i <= 1 THEN "CNAME" ELSE type
    BY <1>1, <1>4, <2>1
  <2>3. ans[1].name = <<>>
    BY <1>1, <1>4
  <2> QED
    BY <1>4, <2>1, <2>2, <2>3, Zenon DEF Linked
<1>6. p.at = ans[1].data[2]
  BY <1>1, <1>2, <1>4
<1>7. 1 \in Nat /\ 1 \in 1 .. 0 + 1
  OBVIOUS
<1> QED
  BY <1>2, <1>5, <1>6, <1>7, Zenon DEF Walked, ans

\* An answer of a type, owned by the target of the CNAME c.
Owned(b, c, type) == b.type = type /\ b.name = c.data[2]

\* One more CNAME, owned by the target of the last.
LEMMA LinkCname ==
    ASSUME NEW ans, NEW n \in Nat, NEW type, NEW b, Linked(ans, n, n, type),
           Owned(b, ans[n], "CNAME")
    PROVE  Linked(Append(ans, b), n + 1, n + 1, type)
<1> DEFINE bs == Append(ans, b)
<1>1. IsSeq(ans) /\ Len(ans) = n
  BY DEF Linked
<1>2. n >= 1
  <2>1. n \in 1 .. n
    BY DEF Linked
  <2> QED
    BY <2>1
<1>3. /\ IsSeq(bs) /\ Len(bs) = n + 1
      /\ \A i \in 1 .. n : bs[i] = ans[i]
      /\ bs[n + 1] = b
  <2> DEFINE S == Range(ans) \cup {b}
  <2>1. ans \in Seq(S) /\ b \in S
    BY <1>1, InSeq
  <2> HIDE DEF S
  <2>2. bs \in Seq(S) /\ Len(bs) = n + 1
    BY <1>1, <2>1
  <2>3. IsSeq(bs)
    BY <2>2, SeqIsSeq
  <2>4. (\A i \in 1 .. n : bs[i] = ans[i]) /\ bs[n + 1] = b
    BY <1>1, <2>1
  <2> QED
    BY <2>2, <2>3, <2>4
<1> HIDE DEF bs
<1>4. ASSUME NEW i \in 2 .. n + 1 PROVE bs[i].name = bs[i - 1].data[2]
  <2>1. CASE i = n + 1
    <3>1. bs[i] = b /\ i - 1 = n /\ n \in 1 .. n
      BY <1>2, <1>3, <2>1
    <3>2. bs[n] = ans[n]
      BY <1>3, <3>1
    <3> QED
      BY <3>1, <3>2 DEF Owned
  <2>2. CASE i # n + 1
    <3>1. i \in 2 .. n /\ i \in 1 .. n /\ i - 1 \in 1 .. n /\ i - 1 <= n
      BY <1>2, <2>2
    <3>2. ans[i].name = ans[i - 1].data[2]
      BY <3>1 DEF Linked
    <3> QED
      BY <1>3, <3>1, <3>2
  <2> QED
    BY <2>1, <2>2
<1>5. bs[1].name = <<>>
  <2>1. ans[1].name = <<>> /\ 1 \in 1 .. n
    BY <1>2 DEF Linked
  <2> QED
    BY <1>3, <2>1
<1>6. ASSUME NEW i \in 1 .. n + 1 PROVE bs[i].type = "CNAME"
  <2>1. CASE i = n + 1
    BY <1>3, <2>1 DEF Owned
  <2>2. CASE i # n + 1
    <3>1. i \in 1 .. n /\ i <= n
      BY <2>2
    <3>2. ans[i].type = "CNAME"
      BY <3>1 DEF Linked
    <3> QED
      BY <1>3, <3>1, <3>2
  <2> QED
    BY <2>1, <2>2
<1>7. ASSUME NEW i \in 2 .. n + 1 PROVE (IF i - 1 <= n + 1 THEN i - 1 ELSE n + 1) = i - 1
  OBVIOUS
<1>8. n + 1 \in 1 .. n + 1 /\ \A i \in 1 .. n + 1 : i <= n + 1
  BY <1>2
<1>9. Linked(bs, n + 1, n + 1, type)
  BY <1>3, <1>4, <1>5, <1>6, <1>7, <1>8 DEF Linked
<1> QED
  BY <1>9 DEF bs

\* The records at the end, owned by the target of the last CNAME.
LEMMA LinkRecords ==
    ASSUME NEW ans, NEW n \in Nat, NEW type, NEW rs, Linked(ans, n, n, type), IsSeq(rs),
           \A i \in DOMAIN rs : Owned(rs[i], ans[n], type)
    PROVE  \E k \in Nat : Linked(ans \o rs, k, n, type)
<1> DEFINE k == Len(rs)
           bs == ans \o rs
<1>1. IsSeq(ans) /\ Len(ans) = n
  BY DEF Linked
<1>0. n >= 1
  <2>1. n \in 1 .. n
    BY DEF Linked
  <2> QED
    BY <2>1
<1>2. k \in Nat /\ DOMAIN rs = 1 .. k
  BY SeqFacts
<1>3. /\ IsSeq(bs) /\ Len(bs) = n + k
      /\ \A i \in 1 .. n : bs[i] = ans[i]
      /\ \A i \in 1 .. k : bs[n + i] = rs[i]
  <2> DEFINE S == Range(ans) \cup Range(rs)
  <2>1. ans \in Seq(S) /\ rs \in Seq(S)
    <3>1. ans \in Seq(Range(ans)) /\ rs \in Seq(Range(rs))
      BY <1>1 DEF IsSeq
    <3> QED
      BY <3>1
  <2> HIDE DEF S
  <2>2. bs \in Seq(S) /\ Len(bs) = n + k
    BY <1>1, <2>1
  <2>3. IsSeq(bs)
    BY <2>2, SeqIsSeq
  <2>4. \A i \in 1 .. n : bs[i] = ans[i]
    BY <1>1, <2>1
  <2>5. \A i \in 1 .. k : bs[n + i] = rs[i]
    BY <1>1, <2>1
  <2> QED
    BY <2>2, <2>3, <2>4, <2>5
<1> HIDE DEF k, bs
<1>4. ASSUME NEW i \in n + 1 .. n + k
      PROVE  bs[i].type = type /\ bs[i].name = bs[n].data[2]
  <2>1. i - n \in 1 .. k /\ n + (i - n) = i /\ n \in 1 .. n
    BY <1>0, <1>2
  <2>2. bs[i] = rs[i - n] /\ bs[n] = ans[n]
    BY <1>3, <2>1
  <2> QED
    BY <1>2, <2>1, <2>2 DEF Owned
<1>5. ASSUME NEW i \in 2 .. n PROVE bs[i].name = bs[i - 1].data[2]
  <2>1. i - 1 \in 1 .. n /\ i \in 1 .. n /\ i - 1 <= n
    BY <1>0
  <2>2. ans[i].name = ans[i - 1].data[2]
    BY <2>1 DEF Linked
  <2> QED
    BY <1>3, <2>1, <2>2
<1>6. ASSUME NEW i \in 1 .. n PROVE bs[i].type = "CNAME"
  <2>1. i \in 1 .. n /\ i <= n
    BY <1>0
  <2>2. ans[i].type = "CNAME"
    BY <2>1 DEF Linked
  <2> QED
    BY <1>3, <2>1, <2>2
<1>7. bs[1].name = <<>>
  <2>1. ans[1].name = <<>> /\ 1 \in 1 .. n
    BY <1>0 DEF Linked
  <2> QED
    BY <1>3, <2>1
<1>8. ASSUME NEW i \in 2 .. n + k
      PROVE  bs[i].name = bs[IF i - 1 <= n THEN i - 1 ELSE n].data[2]
  <2>1. CASE i <= n
    BY <1>0, <1>2, <1>5, <2>1
  <2>2. CASE i > n
    <3>1. i \in n + 1 .. n + k
      BY <1>0, <1>2, <2>2
    <3>2. (IF i - 1 <= n THEN i - 1 ELSE n) = n
      BY <1>0, <1>2, <2>2
    <3> QED
      BY <1>4, <3>1, <3>2
  <2> QED
    BY <1>0, <1>2, <2>1, <2>2
<1>9. ASSUME NEW i \in 1 .. n + k
      PROVE  bs[i].type = IF i <= n THEN "CNAME" ELSE type
  BY <1>0, <1>2, <1>4, <1>6
<1>10. n \in 1 .. n + k /\ n + k \in Nat
  BY <1>0, <1>2
<1>11. Linked(bs, n + k, n, type)
  BY <1>3, <1>7, <1>8, <1>9, <1>10 DEF Linked
<1> QED
  BY <1>10, <1>11 DEF bs

\* One lookup of the chain (local_dns.cc:404-439).
LEMMA StepWalked ==
    ASSUME TableOK, NEW p, NEW n \in Nat, NEW type, Walked(p, n, type)
    PROVE  Walked(Step(p, type), n + 1, type)
<1> DEFINE cname == LookupLocalRecord(p.at, "CNAME")
           final == LookupLocalRecord(p.at, type)
           r == Step(p, type)
<1>0. ValueOK(final)
  BY LookupOK
<1>1. r = Follow(p, cname, final, type)
  BY DEF Step
<1> HIDE DEF cname, final, r
<1> SUFFICES Walked(r, n + 1, type)
  BY DEF r
<1>2. PICK k \in Nat, m \in 1 .. n + 1 :
         /\ Linked(p.answers, k, m, type)
         /\ p.more => m = k /\ p.at = p.answers[k].data[2]
  BY DEF Walked
<1>3. m \in 1 .. (n + 1) + 1 /\ m + 1 \in 1 .. (n + 1) + 1 /\ m \in Nat /\ k + 1 \in Nat
  OBVIOUS
<1>4. ASSUME r.more = FALSE, r.answers = p.answers,
             DOMAIN r = {"at", "more", "thrown", "answers"}
      PROVE  Walked(r, n + 1, type)
  BY <1>2, <1>3, <1>4 DEF Walked
<1>5. CASE ~ p.more
  <2>1. r = p
    BY <1>1, <1>5 DEF Follow
  <2> QED
    BY <1>4, <1>5, <2>1 DEF Walked
<1>6. CASE p.more /\ cname # None /\ IsArray(cname)
  <2>1. r = [p EXCEPT !.more = FALSE, !.thrown = TRUE]
    BY <1>1, <1>6 DEF Follow
  <2> QED
    BY <1>4, <2>1 DEF Walked
<1>7. CASE p.more /\ cname # None /\ ~ IsArray(cname)
  <2> DEFINE b == Answer("CNAME", cname, p.at)
  <2>1. r = [p EXCEPT !.at = cname[2], !.answers = Append(@, b)]
    BY <1>1, <1>7 DEF Follow
  <2>2. b.type = "CNAME" /\ b.name = p.at /\ b.data = cname
    BY DEF Answer
  <2> HIDE DEF b
  <2>3. /\ DOMAIN r = {"at", "more", "thrown", "answers"} /\ r.more = p.more
        /\ r.at = cname[2] /\ r.answers = Append(p.answers, b)
    BY <2>1 DEF Walked
  <2>4. m = k /\ Linked(p.answers, k, k, type) /\ b.name = p.answers[k].data[2]
    BY <1>2, <1>7, <2>2
  <2>8. Owned(b, p.answers[k], "CNAME")
    BY <2>2, <2>4 DEF Owned
  <2>5. Linked(r.answers, k + 1, k + 1, type)
    BY <2>3, <2>4, <2>8, LinkCname
  <2>6. r.answers[k + 1] = b
    <3>1. IsSeq(p.answers) /\ Len(p.answers) = k
      BY <2>4 DEF Linked
    <3> QED
      BY <2>3, <3>1, InSeq
  <2>7. r.at = r.answers[k + 1].data[2]
    BY <2>2, <2>3, <2>6
  <2> QED
    BY <1>3, <1>7, <2>3, <2>4, <2>5, <2>7 DEF Walked
<1>8. CASE p.more /\ cname = None /\ type # "*" /\ final # None
  <2> DEFINE rs == ExpandAnswerRecords(type, final, p.at)
  <2>1. r = [p EXCEPT !.more = FALSE, !.answers = @ \o rs]
    BY <1>1, <1>8 DEF Follow
  <2>2. IsSeq(rs) /\ \A i \in DOMAIN rs : rs[i].type = type /\ rs[i].name = p.at
    BY <1>0, ExpandFacts
  <2> HIDE DEF rs
  <2>3. /\ DOMAIN r = {"at", "more", "thrown", "answers"} /\ r.more = FALSE
        /\ r.answers = p.answers \o rs
    BY <2>1 DEF Walked
  <2>4. m = k /\ Linked(p.answers, k, k, type) /\ p.at = p.answers[k].data[2]
    BY <1>2, <1>8
  <2>6. \A i \in DOMAIN rs : Owned(rs[i], p.answers[k], type)
    BY <2>2, <2>4 DEF Owned
  <2>5. \E j \in Nat : Linked(r.answers, j, m, type)
    BY <2>2, <2>3, <2>4, <2>6, LinkRecords
  <2> QED
    BY <1>3, <2>3, <2>5 DEF Walked
<1>9. CASE p.more /\ cname = None /\ ~ (type # "*" /\ final # None)
  <2>1. r = [p EXCEPT !.more = FALSE]
    BY <1>1, <1>9 DEF Follow
  <2> QED
    BY <1>4, <2>1 DEF Walked
<1>10. p.more \in BOOLEAN
  BY DEF Walked
<1> QED
  BY <1>5, <1>6, <1>7, <1>8, <1>9, <1>10

\* The loop exists: CheckLocalMatch looks up DNS_MAX_CNAME_DEPTH times at most.
LEMMA ChainSteps ==
    ASSUME NEW target, NEW type
    PROVE  \E f : /\ f[0] = Begun(target)
                  /\ \A i \in 1 .. DNS_MAX_CNAME_DEPTH : f[i] = Step(f[i - 1], type)
                  /\ Chain(target, type) = f[DNS_MAX_CNAME_DEPTH]
<1> DEFINE n == DNS_MAX_CNAME_DEPTH
           Leaves(f, i) == IF i = 0 THEN Begun(target) ELSE Step(f[i - 1], type)
           Body(f) == [i \in 0 .. n |-> Leaves(f, i)]
           walk == CHOOSE f : f = Body(f)
           Good(m) == \E f : \A j \in 0 .. n : j <= m => f[j] = Leaves(f, j)
           Bad == {m \in Nat : ~ Good(m)}
<1>0. n \in Nat
  BY DepthAssumption
<1>a. Chain(target, type) = walk[n]
  BY DEF Chain, Begun
<1> HIDE DEF n
<1>r. ASSUME NEW e, NEW f, NEW j \in 0 .. n, j # 0 => e[j - 1] = f[j - 1]
      PROVE  Leaves(e, j) = Leaves(f, j)
  BY <1>r
<1>1. Good(0)
  <2> DEFINE f == [j \in 0 .. n |-> Begun(target)]
  <2>1. \A j \in 0 .. n : j <= 0 => f[j] = Leaves(f, j)
    BY <1>0
  <2> QED
    BY <2>1
<1> HIDE DEF Leaves
<1>2. ASSUME NEW m \in Nat, Good(m) PROVE Good(m + 1)
  <2>1. PICK f : \A j \in 0 .. n : j <= m => f[j] = Leaves(f, j)
    BY <1>2
  <2> DEFINE e == Body(f)
  <2>2. \A j \in 0 .. n : e[j] = Leaves(f, j)
    OBVIOUS
  <2> HIDE DEF e
  <2>3. ASSUME NEW j \in 0 .. n, j <= m + 1
        PROVE  Leaves(f, j) = Leaves(e, j)
    <3>1. ASSUME j # 0 PROVE e[j - 1] = f[j - 1]
      <4>1. j - 1 \in 0 .. n /\ j - 1 <= m
        BY <1>0, <2>3, <3>1
      <4> QED
        BY <2>1, <2>2, <4>1
    <3> QED
      BY <1>r, <3>1
  <2> QED
    BY <2>2, <2>3
<1> HIDE DEF Good
<1>3. Bad = {}
  <2> SUFFICES ASSUME Bad # {} PROVE FALSE
    OBVIOUS
  <2>1. PICK m \in Bad : \A y \in Bad : m <= y
    BY LeastExists
  <2>2. m # 0 /\ m \in Nat
    BY <1>1
  <2>3. m - 1 \in Nat /\ ~ (m - 1 \in Bad)
    BY <2>1, <2>2
  <2>4. Good(m - 1)
    BY <2>3
  <2>5. Good((m - 1) + 1)
    BY <1>2, <2>3, <2>4
  <2> QED
    BY <2>2, <2>5
<1>5. \E f : f = Body(f)
  <2>1. PICK f : \A j \in 0 .. n : j <= n => f[j] = Leaves(f, j)
    <3>1. Good(n)
      BY <1>0, <1>3
    <3> QED
      BY <3>1 DEF Good
  <2> DEFINE e == Body(f)
  <2>2. ASSUME NEW j \in 0 .. n PROVE e[j] = f[j]
    BY <1>0, <2>1
  <2>3. ASSUME NEW j \in 0 .. n PROVE Leaves(f, j) = Leaves(e, j)
    <3>1. ASSUME j # 0 PROVE e[j - 1] = f[j - 1]
      BY <1>0, <2>2, <3>1
    <3> HIDE DEF e
    <3> QED
      BY <1>r, <3>1
  <2>4. e = Body(e)
    BY <2>3
  <2> QED
    BY <2>4
<1>6. walk = Body(walk)
  BY <1>5
<1> HIDE DEF walk
<1>7. \A j \in 0 .. n : walk[j] = Leaves(walk, j)
  BY <1>6
<1>8. walk[0] = Begun(target)
  BY <1>0, <1>7 DEF Leaves
<1>9. ASSUME NEW i \in 1 .. n PROVE walk[i] = Step(walk[i - 1], type)
  BY <1>0, <1>7 DEF Leaves
<1> QED
  BY <1>a, <1>8, <1>9 DEF n

\* The loop ends with a chain, whatever it met.
LEMMA ChainWalked ==
    ASSUME TableOK, NEW target, NEW type
    PROVE  Walked(Chain(target, type), DNS_MAX_CNAME_DEPTH, type)
<1>1. PICK f : /\ f[0] = Begun(target)
               /\ \A i \in 1 .. DNS_MAX_CNAME_DEPTH : f[i] = Step(f[i - 1], type)
               /\ Chain(target, type) = f[DNS_MAX_CNAME_DEPTH]
  BY ChainSteps
<1> DEFINE Bad == {i \in 0 .. DNS_MAX_CNAME_DEPTH : ~ Walked(f[i], i, type)}
<1>2. Bad = {}
  <2> SUFFICES ASSUME Bad # {} PROVE FALSE
    OBVIOUS
  <2>0. Bad \subseteq Nat
    BY DepthAssumption
  <2>1. PICK i \in Bad : \A j \in Bad : i <= j
    BY <2>0, LeastExists
  <2>2. i # 0
    BY <1>1, BegunWalked
  <2>3. i \in 1 .. DNS_MAX_CNAME_DEPTH /\ i - 1 \in 0 .. DNS_MAX_CNAME_DEPTH /\ i - 1 < i
        /\ i - 1 \in Nat /\ (i - 1) + 1 = i
    BY <2>2, DepthAssumption
  <2>4. Walked(f[i - 1], i - 1, type)
    BY <2>1, <2>3
  <2>5. Walked(f[i], (i - 1) + 1, type)
    BY <1>1, <2>3, <2>4, StepWalked
  <2> QED
    BY <2>3, <2>5
<1> QED
  BY <1>1, <1>2, DepthAssumption

-----------------------------------------------------------------------------
(* Messages *)

\* A message holds the first answers, up to the first refused.
LEMMA MultiPrefix ==
    ASSUME NEW ans, NEW k \in Nat, IsSeq(ans), Len(ans) = k
    PROVE  \E j \in 0 .. k : MultiAnswer(ans).answers = SubSeq(ans, 1, j)
<1> DEFINE T == {n \in 0 .. k : \A i \in 1 .. n : Accepts(ans[i].type, ans[i].data)}
<1>1. T \subseteq 0 .. k /\ 0 \in T
  OBVIOUS
<1>2. MultiAnswer(ans).answers = SubSeq(ans, 1, Max(T))
  BY DEF MultiAnswer
<1> HIDE DEF T
<1>3. Max(T) \in T
  BY <1>1, MaxIn
<1> QED
  BY <1>1, <1>2, <1>3

\* The first j answers.
LEMMA PrefixFacts ==
    ASSUME NEW s, NEW k \in Nat, IsSeq(s), Len(s) = k, NEW j \in 0 .. k
    PROVE  LET t == SubSeq(s, 1, j)
           IN  /\ IsSeq(t) /\ Len(t) = j /\ DOMAIN t = 1 .. j
               /\ \A i \in 1 .. j : t[i] = s[i]
<1> DEFINE S == Range(s)
           t == SubSeq(s, 1, j)
<1>1. s \in Seq(S)
  BY DEF IsSeq
<1> HIDE DEF S
<1>2. t \in Seq(S) /\ Len(t) = j
  BY <1>1
<1>3. IsSeq(t)
  BY <1>2, SeqIsSeq
<1>4. \A i \in 1 .. j : t[i] = s[i]
  BY <1>1
<1>5. DOMAIN t = 1 .. j
  BY <1>2
<1> QED
  BY <1>2, <1>3, <1>4, <1>5

\* The first c of j answers are CNAMEs, the others are of a type.
CnamesFirst(t, j, c, type) ==
    DOMAIN t = 1 .. j /\ \A i \in 1 .. j : t[i].type = IF i <= c THEN "CNAME" ELSE type

\* Counting the CNAMEs finds the end of the chain.
LEMMA CnameCount ==
    ASSUME NEW t, NEW j \in Nat, NEW c \in 0 .. j, NEW type, type # "CNAME",
           CnamesFirst(t, j, c, type)
    PROVE  Cardinality({i \in DOMAIN t : t[i].type = "CNAME"}) = c
<1>1. {i \in DOMAIN t : t[i].type = "CNAME"} = 1 .. c
  <2>1. ASSUME NEW i \in 1 .. c PROVE i \in DOMAIN t /\ t[i].type = "CNAME"
    <3>1. i \in 1 .. j /\ i <= c
      OBVIOUS
    <3> QED
      BY <3>1 DEF CnamesFirst
  <2>2. ASSUME NEW i \in DOMAIN t, t[i].type = "CNAME" PROVE i \in 1 .. c
    <3>1. i \in 1 .. j
      BY DEF CnamesFirst
    <3>2. i <= c
      BY <2>2, <3>1 DEF CnamesFirst
    <3> QED
      BY <3>1, <3>2
  <2> QED
    BY <2>1, <2>2
<1>2. Cardinality(1 .. c) = IF 1 > c THEN 0 ELSE c - 1 + 1
  BY FS_Interval
<1>3. Cardinality(1 .. c) = c
  BY <1>2
<1> QED
  BY <1>1, <1>3, Zenon

\* What a message holds of a chain is a chain.
LEMMA PrefixConnected ==
    ASSUME NEW ans, NEW k \in Nat, NEW m \in 1 .. DNS_MAX_CNAME_DEPTH + 1, NEW type,
           type # "CNAME", Linked(ans, k, m, type), NEW j \in 0 .. k
    PROVE  IsChain(SubSeq(ans, 1, j), type)
<1> DEFINE t == SubSeq(ans, 1, j)
           c == IF m <= j THEN m ELSE j
<1>1. IsSeq(ans) /\ Len(ans) = k
  BY DEF Linked
<1>2. IsSeq(t) /\ Len(t) = j /\ DOMAIN t = 1 .. j /\ \A i \in 1 .. j : t[i] = ans[i]
  BY <1>1, PrefixFacts
<1>3. j \in Nat /\ c \in 0 .. j /\ c <= DNS_MAX_CNAME_DEPTH + 1
  <2>1. m \in Nat /\ m <= DNS_MAX_CNAME_DEPTH + 1 /\ DNS_MAX_CNAME_DEPTH \in Nat /\ j \in Nat
    BY DepthAssumption
  <2> QED
    BY <2>1
<1>4. m \in 1 .. k
  BY DEF Linked
<1> HIDE DEF t
<1>5. ASSUME NEW i \in 1 .. j PROVE t[i].type = IF i <= c THEN "CNAME" ELSE type
  <2>1. ans[i].type = IF i <= m THEN "CNAME" ELSE type
    BY DEF Linked
  <2> QED
    BY <1>2, <1>4, <2>1
<1> HIDE DEF c
<1>6. Cardinality({i \in DOMAIN t : t[i].type = "CNAME"}) = c
  <2>1. CnamesFirst(t, j, c, type)
    BY <1>2, <1>5 DEF CnamesFirst
  <2> QED
    BY <1>3, <2>1, CnameCount
<1>7. ASSUME c > 0 PROVE Connected(t, c, type)
  <2>1. t[1].name = <<>>
    <3>1. 1 \in 1 .. j
      BY <1>3, <1>7
    <3>2. ans[1].name = <<>>
      BY DEF Linked
    <3> QED
      BY <1>2, <3>1, <3>2
  <2>2. ASSUME NEW i \in 2 .. j PROVE t[i].name = t[Min({i - 1, c})].data[2]
    <3> DEFINE b == IF i - 1 <= m THEN i - 1 ELSE m
    <3>1. Min({i - 1, c}) = IF i - 1 <= c THEN i - 1 ELSE c
      <4>1. i - 1 \in Nat /\ c \in Nat
        BY <1>3
      <4> QED
        BY <4>1, MinOfTwo
    <3>2. Min({i - 1, c}) = b
      BY <1>3, <1>4, <3>1 DEF c
    <3>3. i \in 2 .. k /\ i \in 1 .. j /\ b \in 1 .. j
      BY <1>3, <1>4
    <3>4. ans[i].name = ans[b].data[2]
      BY <3>3 DEF Linked
    <3> HIDE DEF b
    <3> QED
      BY <1>2, <3>2, <3>3, <3>4
  <2>3. ASSUME NEW i \in DOMAIN t PROVE t[i].type = IF i <= c THEN "CNAME" ELSE type
    BY <1>2, <1>5
  <2> QED
    BY <1>2, <1>3, <2>1, <2>2, <2>3 DEF Connected
<1>8. IsChain(t, type)
  BY <1>6, <1>7 DEF IsChain
<1> QED
  BY <1>8 DEF t

\* Answers without a CNAME are no chain.
LEMMA NoCname ==
    ASSUME NEW t, NEW type, \A i \in DOMAIN t : t[i].type # "CNAME"
    PROVE  IsChain(t, type)
<1>1. {i \in DOMAIN t : t[i].type = "CNAME"} = {}
  OBVIOUS
<1>2. Cardinality({}) = 0
  BY FS_EmptySet
<1> QED
  BY <1>1, <1>2 DEF IsChain

\* No answer: forwarded, NXDOMAIN, or a value the builder refuses.
LEMMA SilentChain ==
    ASSUME NEW type
    PROVE  /\ IsChain(NotFound.out.answers, type)
           /\ IsChain(NoOutput.answers, type)
           /\ IsChain(Found(NxDomain).out.answers, type)
<1>1. /\ NotFound.out.answers = <<>> /\ NoOutput.answers = <<>>
      /\ Found(NxDomain).out.answers = <<>>
  BY DEF NotFound, Found, NxDomain, NoOutput
<1>2. IsChain(<<>>, type)
  BY NoCname
<1> QED
  BY <1>1, <1>2

\* What is found is what was built.
LEMMA FoundIs == ASSUME NEW out PROVE Found(out).out = out
  BY DEF Found

\* A builder's single record.
LEMMA OneRecordChain ==
    ASSUME NEW t, NEW v, NEW type, t # "CNAME"
    PROVE  IsChain(CallResponseFunction(t, v).answers, type)
<1>1. CASE Accepts(t, v)
  <2>1. CallResponseFunction(t, v).answers = <<Answer(t, v, <<>>)>>
    BY <1>1 DEF CallResponseFunction, OneAnswer
  <2>2. \A i \in DOMAIN <<Answer(t, v, <<>>)>> : <<Answer(t, v, <<>>)>>[i].type # "CNAME"
    BY DEF Answer
  <2> QED
    BY <2>1, <2>2, NoCname
<1>2. CASE ~ Accepts(t, v)
  BY <1>2, SilentChain DEF CallResponseFunction
<1> QED
  BY <1>1, <1>2

\* The records of the type asked for.
LEMMA ManyRecordsChain ==
    ASSUME NEW v, ValueOK(v), NEW type, type # "CNAME"
    PROVE  IsChain(DispatchSingleOrMulti(type, v).answers, type)
<1>1. CASE IsArray(v)
  <2> DEFINE ans == ExpandAnswerRecords(type, v, <<>>)
             k == Len(ans)
  <2>1. DispatchSingleOrMulti(type, v) = MultiAnswer(ans)
    BY <1>1 DEF DispatchSingleOrMulti
  <2>2. IsSeq(ans) /\ \A i \in DOMAIN ans : ans[i].type = type
    BY ExpandFacts
  <2> HIDE DEF ans
  <2>3. k \in Nat /\ DOMAIN ans = 1 .. k /\ Len(ans) = k
    BY <2>2, SeqFacts
  <2> HIDE DEF k
  <2>4. PICK j \in 0 .. k : MultiAnswer(ans).answers = SubSeq(ans, 1, j)
    BY <2>2, <2>3, MultiPrefix
  <2> DEFINE t == SubSeq(ans, 1, j)
  <2>5. DOMAIN t = 1 .. j /\ \A i \in 1 .. j : t[i] = ans[i]
    BY <2>2, <2>3, PrefixFacts
  <2> HIDE DEF t
  <2>6. \A i \in DOMAIN t : t[i].type # "CNAME"
    BY <2>2, <2>3, <2>5
  <2> QED
    BY <2>1, <2>4, <2>6, NoCname DEF t
<1>2. CASE ~ IsArray(v)
  BY <1>2, OneRecordChain DEF DispatchSingleOrMulti
<1> QED
  BY <1>1, <1>2

\* The answers of a redirected query.
LEMMA RedirectedChain ==
    ASSUME TableOK, NEW target, NEW type, type # "CNAME"
    PROVE  IsChain(Redirected(Chain(target, type)).out.answers, type)
<1> DEFINE p == Chain(target, type)
<1>1. Walked(p, DNS_MAX_CNAME_DEPTH, type)
  BY ChainWalked
<1> HIDE DEF p
<1>2. CASE p.thrown
  BY <1>2, SilentChain DEF Redirected, p
<1>3. CASE ~ p.thrown
  <2>1. PICK k \in Nat, m \in 1 .. DNS_MAX_CNAME_DEPTH + 1 : Linked(p.answers, k, m, type)
    BY <1>1 DEF Walked
  <2>2. IsSeq(p.answers) /\ Len(p.answers) = k
    BY <2>1 DEF Linked
  <2>3. PICK j \in 0 .. k : MultiAnswer(p.answers).answers = SubSeq(p.answers, 1, j)
    BY <2>2, MultiPrefix
  <2>4. IsChain(SubSeq(p.answers, 1, j), type)
    BY <2>1, PrefixConnected
  <2>5. Redirected(p).out = MultiAnswer(p.answers)
    BY <1>3, FoundIs DEF Redirected
  <2> QED
    BY <2>3, <2>4, <2>5 DEF p
<1> QED
  BY <1>2, <1>3

\* Whatever the table holds, every way a lookup can end gives a chain.
LEMMA MatchChain ==
    ASSUME TableOK, NEW q, q.type \notin {"CNAME", "*"}
    PROVE  IsChain(CheckLocalMatch(q).out.answers, q.type)
<1> DEFINE zone == zones[RootDomain(q.name)]
           target == CnameTarget(zone, SubDomain(q.name))
           v == Decide(RecordsOf(zone, q.type), SubDomain(q.name))
<1>1. CASE RootDomain(q.name) \notin DOMAIN zones
  BY <1>1, SilentChain DEF CheckLocalMatch
<1>2. CASE RootDomain(q.name) \in DOMAIN zones
  <2>1. ZoneOK(zone) /\ CheckLocalMatch(q) = CheckInZone(zone, target, q)
    BY <1>2 DEF TableOK, CheckLocalMatch
  <2> HIDE DEF zone
  <2>2. ValueOK(v)
    BY <2>1, RecordsOfOK, DecideOK
  <2> HIDE DEF target, v
  <2>3. CASE zone.blocked
    <3>1. CheckInZone(zone, target, q) = Found(NxDomain)
      BY <2>3 DEF CheckInZone
    <3> QED
      BY <2>1, <3>1, SilentChain
  <2>4. CASE ~ zone.blocked /\ q.type = "PTR"
    <3>1. CheckInZone(zone, target, q) = CheckPtr(zone, q)
      BY <2>4 DEF CheckInZone
    <3>2. \/ CheckPtr(zone, q) = NotFound
          \/ CheckPtr(zone, q).out = CallResponseFunction("PTR", zone.types["address"])
      BY FoundIs DEF CheckPtr
    <3> QED
      BY <2>1, <3>1, <3>2, SilentChain, OneRecordChain
  <2>5. CASE ~ zone.blocked /\ q.type # "PTR" /\ target # None
    <3>1. CheckInZone(zone, target, q) = CheckCname(target, q)
      BY <2>5 DEF CheckInZone
    <3>2. \/ CheckCname(target, q) = NotFound
          \/ CheckCname(target, q) = Redirected(Chain(target[2], q.type))
      BY DEF CheckCname
    <3> QED
      BY <2>1, <3>1, <3>2, SilentChain, RedirectedChain
  <2>6. CASE ~ zone.blocked /\ q.type # "PTR" /\ target = None
    <3>1. CheckInZone(zone, target, q) = TypeFound(q.type, v)
      BY <2>6 DEF CheckInZone, CheckType, v
    <3>2. \/ TypeFound(q.type, v) = NotFound
          \/ TypeFound(q.type, v).out = DispatchSingleOrMulti(q.type, v)
      BY FoundIs DEF TypeFound
    <3> QED
      BY <2>1, <2>2, <3>1, <3>2, SilentChain, ManyRecordsChain
  <2> QED
    BY <2>3, <2>4, <2>5, <2>6
<1> QED
  BY <1>1, <1>2

\* Whatever zones.json holds, an answer that redirects is a connected chain of at most
\* DNS_MAX_CNAME_DEPTH further CNAMEs, loops and refused records included
\* (local_dns.cc:404-439).
THEOREM ChainsConnected == Spec => []ChainConnected
<1>1. Init => TableOK
  BY TableInit
<1>2. TableOK /\ [Next]_vars => TableOK'
  BY TableStep
<1>3. TableOK => ChainConnected
  BY MatchChain DEF ChainConnected
<1> QED
  BY <1>1, <1>2, <1>3, PTL DEF Spec

-----------------------------------------------------------------------------
(* The file and the table *)

\* What the table holds for the records of one type at one name: before addresses are
\* converted, and after.
Stored(rs) == IF Len(rs) = 1 THEN (IF rs[1].data = ForwardAll THEN Forward ELSE rs[1].data)
              ELSE Array([i \in DOMAIN rs |-> rs[i].data])
Final(rs) == IF Len(rs) = 1
               THEN (IF rs[1].data \in {Forward, ForwardAll} THEN Forward ELSE Hex(rs[1].data))
               ELSE Array([i \in DOMAIN rs |-> Hex(rs[i].data)])
Kept(rs, p) == IF p = "ready" THEN Final(rs) ELSE Stored(rs)

\* The records rs of a zone, as file history, and recs, what the table has of one type:
\* a key for each record, and under it what the records of that name make.
Reflects(recs, rs, type, p) ==
    /\ \A k \in DOMAIN recs : \E i \in DOMAIN rs : rs[i].type = type /\ k = SubKey(rs[i])
    /\ \A i \in DOMAIN rs : rs[i].type = type =>
          /\ SubKey(rs[i]) \in DOMAIN recs
          /\ recs[SubKey(rs[i])] = Kept(At(rs, type, rs[i].name), p)

ZoneReflects(zone, rs, p) ==
    /\ \A t \in DOMAIN zone.types : \E i \in DOMAIN rs : rs[i].type = t
    /\ \A t \in {"A", "AAAA"} : Reflects(RecordsOf(zone, t), rs, t, p)

\* The records picked at a name are those of the name, and several are no {{FORWARD}}s.
Picked(rs, type, n) ==
    LET at == At(rs, type, n)
    IN  /\ at \in Seq(Records)
        /\ \A i \in DOMAIN rs : (rs[i].type = type /\ rs[i].name = n) => at # <<>>
        /\ \A j \in DOMAIN at : at[j].type = type /\ at[j].name = n
                                /\ \E i \in DOMAIN rs : rs[i] = at[j]
        /\ Plain(rs) /\ Len(at) # 1 =>
              \A j \in DOMAIN at : at[j].data \notin {Forward, ForwardAll}

FileInv ==
    /\ DOMAIN source = DOMAIN zones
    /\ current = <<>> \/ current \in DOMAIN zones
    /\ \A z \in DOMAIN zones :
          /\ source[z] \in Seq(Records)
          /\ \A type, n : Picked(source[z], type, n)
          /\ ~ zones[z].blocked /\ Plain(source[z]) => ZoneReflects(zones[z], source[z], phase)

\* The loop over the records exists.
AtLoop(f, rs, n, type, m) ==
    /\ f[0] = <<>>
    /\ \A i \in 1 .. n : f[i] = IF rs[i].type = type /\ rs[i].name = m
                                  THEN Append(f[i - 1], rs[i]) ELSE f[i - 1]

LEMMA AtSteps ==
    ASSUME NEW rs, NEW n \in Nat, Len(rs) = n, NEW type, NEW m
    PROVE  \E f : AtLoop(f, rs, n, type, m) /\ At(rs, type, m) = f[n]
<1> DEFINE More(f, i) == IF i = 0 THEN <<>>
                         ELSE IF rs[i].type = type /\ rs[i].name = m
                                THEN Append(f[i - 1], rs[i]) ELSE f[i - 1]
           Body(f) == [i \in 0 .. n |-> More(f, i)]
           upTo == CHOOSE f : f = Body(f)
           Good(k) == \E f : \A j \in 0 .. n : j <= k => f[j] = More(f, j)
           Bad == {k \in Nat : ~ Good(k)}
<1>a. At(rs, type, m) = upTo[n]
  BY DEF At
<1>r. ASSUME NEW e, NEW f, NEW j \in 0 .. n, j # 0 => e[j - 1] = f[j - 1]
      PROVE  More(e, j) = More(f, j)
  BY <1>r
<1>1. Good(0)
  <2> DEFINE f == [j \in 0 .. n |-> <<>>]
  <2>1. \A j \in 0 .. n : j <= 0 => f[j] = More(f, j)
    OBVIOUS
  <2> QED
    BY <2>1
<1> HIDE DEF More
<1>2. ASSUME NEW k \in Nat, Good(k) PROVE Good(k + 1)
  <2>1. PICK f : \A j \in 0 .. n : j <= k => f[j] = More(f, j)
    BY <1>2
  <2> DEFINE e == Body(f)
  <2>2. \A j \in 0 .. n : e[j] = More(f, j)
    OBVIOUS
  <2> HIDE DEF e
  <2>3. ASSUME NEW j \in 0 .. n, j <= k + 1
        PROVE  More(f, j) = More(e, j)
    <3>1. ASSUME j # 0 PROVE e[j - 1] = f[j - 1]
      <4>1. j - 1 \in 0 .. n /\ j - 1 <= k
        BY <2>3, <3>1
      <4> QED
        BY <2>1, <2>2, <4>1
    <3> QED
      BY <1>r, <3>1
  <2> QED
    BY <2>2, <2>3
<1> HIDE DEF Good
<1>3. Bad = {}
  <2> SUFFICES ASSUME Bad # {} PROVE FALSE
    OBVIOUS
  <2>1. PICK k \in Bad : \A y \in Bad : k <= y
    BY LeastExists
  <2>2. k # 0 /\ k \in Nat
    BY <1>1
  <2>3. k - 1 \in Nat /\ ~ (k - 1 \in Bad)
    BY <2>1, <2>2
  <2>4. Good(k - 1)
    BY <2>3
  <2>5. Good((k - 1) + 1)
    BY <1>2, <2>3, <2>4
  <2> QED
    BY <2>2, <2>5
<1>5. \E f : f = Body(f)
  <2>1. PICK f : \A j \in 0 .. n : j <= n => f[j] = More(f, j)
    <3>1. Good(n)
      BY <1>3
    <3> QED
      BY <3>1 DEF Good
  <2> DEFINE e == Body(f)
  <2>2. ASSUME NEW j \in 0 .. n PROVE e[j] = f[j]
    BY <2>1
  <2>3. ASSUME NEW j \in 0 .. n PROVE More(f, j) = More(e, j)
    <3>1. ASSUME j # 0 PROVE e[j - 1] = f[j - 1]
      BY <2>2, <3>1
    <3> HIDE DEF e
    <3> QED
      BY <1>r, <3>1
  <2>4. e = Body(e)
    BY <2>3
  <2> QED
    BY <2>4
<1>6. upTo = Body(upTo)
  BY <1>5
<1> HIDE DEF upTo
<1>7. \A j \in 0 .. n : upTo[j] = More(upTo, j)
  BY <1>6
<1>8. upTo[0] = <<>>
  BY <1>7 DEF More
<1>9. ASSUME NEW i \in 1 .. n
      PROVE  upTo[i] = IF rs[i].type = type /\ rs[i].name = m
                         THEN Append(upTo[i - 1], rs[i]) ELSE upTo[i - 1]
  <2>1. i \in 0 .. n /\ i # 0
    OBVIOUS
  <2> QED
    BY <1>7, <2>1, Zenon DEF More
<1> QED
  BY <1>a, <1>8, <1>9 DEF AtLoop

\* No records.
LEMMA AtNothing == ASSUME NEW type, NEW m PROVE At(<<>>, type, m) = <<>>
<1>1. Len(<<>>) = 0 /\ 0 \in Nat
  OBVIOUS
<1>2. PICK f : AtLoop(f, <<>>, 0, type, m) /\ At(<<>>, type, m) = f[0]
  BY <1>1, AtSteps
<1> QED
  BY <1>2 DEF AtLoop

\* One record more.
LEMMA AtAppend ==
    ASSUME NEW S, NEW rs \in Seq(S), NEW r \in S, NEW type, NEW m
    PROVE  At(Append(rs, r), type, m) = IF r.type = type /\ r.name = m
                                          THEN Append(At(rs, type, m), r)
                                          ELSE At(rs, type, m)
<1> DEFINE us == Append(rs, r)
           n == Len(rs)
<1>1. /\ n \in Nat /\ n + 1 \in Nat /\ Len(rs) = n /\ Len(us) = n + 1 /\ us[n + 1] = r
      /\ \A i \in 1 .. n : us[i] = rs[i]
  OBVIOUS
<1> HIDE DEF us, n
<1>2. PICK f : AtLoop(f, rs, n, type, m) /\ At(rs, type, m) = f[n]
  BY <1>1, AtSteps
<1>3. PICK g : AtLoop(g, us, n + 1, type, m) /\ At(us, type, m) = g[n + 1]
  BY <1>1, AtSteps
<1> DEFINE Bad == {i \in 0 .. n : f[i] # g[i]}
<1>4. Bad = {}
  <2> SUFFICES ASSUME Bad # {} PROVE FALSE
    OBVIOUS
  <2>0. Bad \subseteq Nat
    BY <1>1
  <2>1. PICK i \in Bad : \A j \in Bad : i <= j
    BY <2>0, LeastExists
  <2>2. i # 0
    BY <1>2, <1>3 DEF AtLoop
  <2>3. i \in 1 .. n /\ i \in 1 .. n + 1 /\ i - 1 \in 0 .. n /\ i - 1 < i
    BY <1>1, <2>2
  <2>4. f[i - 1] = g[i - 1]
    BY <2>1, <2>3
  <2>5. us[i] = rs[i]
    BY <1>1, <2>3
  <2>6. f[i] = g[i]
    BY <1>2, <1>3, <2>3, <2>4, <2>5 DEF AtLoop
  <2> QED
    BY <2>6
<1>5. n + 1 \in 1 .. n + 1 /\ (n + 1) - 1 = n /\ n \in 0 .. n
  BY <1>1
<1>6. g[n] = f[n]
  BY <1>4, <1>5
<1> QED
  BY <1>1, <1>2, <1>3, <1>5, <1>6 DEF us, AtLoop

\* One record more: what it adds.
LEMMA AppendFacts ==
    ASSUME NEW S, NEW rs \in Seq(S), NEW r \in S
    PROVE  /\ Append(rs, r) \in Seq(S)
           /\ DOMAIN rs = 1 .. Len(rs) /\ DOMAIN Append(rs, r) = 1 .. Len(rs) + 1
           /\ Len(rs) \in Nat
           /\ Append(rs, r)[Len(rs) + 1] = r
           /\ \A i \in DOMAIN rs : Append(rs, r)[i] = rs[i] /\ rs[i] \in S
  OBVIOUS

\* The earlier records of a plain zone are plain, and another of the same name and type
\* makes none of them a {{FORWARD}}.
LEMMA PlainPrefix ==
    ASSUME NEW rs \in Seq(Records), NEW r \in Records, Plain(Append(rs, r))
    PROVE  /\ Plain(rs)
           /\ ~ r.regex /\ r.type # "CNAME" /\ r.name # <<>>
           /\ IsAddress(r.type) => ~ IsArray(r.data)
           /\ ~ (r.name = <<"@">> /\ r.data = ForwardAll)
           /\ \A i \in DOMAIN rs : (rs[i].name = r.name /\ rs[i].type = r.type) =>
                 rs[i].data \notin {Forward, ForwardAll} /\ r.data \notin {Forward, ForwardAll}
<1> DEFINE us == Append(rs, r)
           n == Len(rs)
<1>1. /\ DOMAIN rs = 1 .. n /\ DOMAIN us = 1 .. n + 1 /\ n \in Nat
      /\ us[n + 1] = r /\ \A i \in DOMAIN rs : us[i] = rs[i]
  BY AppendFacts
<1>2. Plain(us)
  OBVIOUS
<1> HIDE DEF us, n
<1>3. n + 1 \in DOMAIN us /\ \A i \in DOMAIN rs : i \in DOMAIN us /\ i # n + 1
  BY <1>1
<1>4. Plain(rs)
  BY <1>1, <1>2, <1>3 DEF Plain
<1>5. /\ ~ r.regex /\ r.type # "CNAME" /\ r.name # <<>>
      /\ IsAddress(r.type) => ~ IsArray(r.data)
      /\ ~ (r.name = <<"@">> /\ r.data = ForwardAll)
  BY <1>1, <1>2, <1>3 DEF Plain
<1>6. ASSUME NEW i \in DOMAIN rs, rs[i].name = r.name, rs[i].type = r.type
      PROVE  rs[i].data \notin {Forward, ForwardAll} /\ r.data \notin {Forward, ForwardAll}
  BY <1>1, <1>2, <1>3, <1>6 DEF Plain
<1> QED
  BY <1>4, <1>5, <1>6

\* Of no records none are picked.
LEMMA PickedNothing == ASSUME NEW type, NEW n PROVE Picked(<<>>, type, n)
<1>1. At(<<>>, type, n) = <<>>
  BY AtNothing
<1>2. DOMAIN <<>> = {} /\ <<>> \in Seq(Records)
  OBVIOUS
<1> DEFINE none == <<>>
<1> HIDE DEF none
<1>3. At(none, type, n) = none /\ DOMAIN none = {} /\ none \in Seq(Records)
  BY <1>1, <1>2 DEF none
<1>4. Picked(none, type, n)
  BY <1>3 DEF Picked
<1> QED
  BY <1>4 DEF none

\* One record more is picked if it has the name.
LEMMA PickedAppend ==
    ASSUME NEW rs \in Seq(Records), NEW r \in Records, NEW type, NEW n, Picked(rs, type, n)
    PROVE  Picked(Append(rs, r), type, n)
<1> DEFINE us == Append(rs, r)
           m == Len(rs)
           at == At(rs, type, n)
           now == At(us, type, n)
           fwd == {Forward, ForwardAll}
<1>1. /\ DOMAIN rs = 1 .. m /\ DOMAIN us = 1 .. m + 1 /\ m \in Nat
      /\ us[m + 1] = r /\ \A i \in DOMAIN rs : us[i] = rs[i]
  BY AppendFacts
<1>2. now = IF r.type = type /\ r.name = n THEN Append(at, r) ELSE at
  BY AtAppend
<1>3. /\ at \in Seq(Records)
      /\ \A i \in DOMAIN rs : (rs[i].type = type /\ rs[i].name = n) => at # <<>>
      /\ \A j \in DOMAIN at : at[j].type = type /\ at[j].name = n
                              /\ \E i \in DOMAIN rs : rs[i] = at[j]
      /\ Plain(rs) /\ Len(at) # 1 => \A j \in DOMAIN at : at[j].data \notin fwd
  BY DEF Picked
<1>4. Plain(us) =>
        /\ Plain(rs)
        /\ \A i \in DOMAIN rs : (rs[i].name = r.name /\ rs[i].type = r.type) =>
                 rs[i].data \notin fwd /\ r.data \notin fwd
  BY PlainPrefix
<1> SUFFICES /\ now \in Seq(Records)
             /\ \A i \in DOMAIN us : (us[i].type = type /\ us[i].name = n) => now # <<>>
             /\ \A j \in DOMAIN now : now[j].type = type /\ now[j].name = n
                                      /\ \E i \in DOMAIN us : us[i] = now[j]
             /\ Plain(us) /\ Len(now) # 1 => \A j \in DOMAIN now : now[j].data \notin fwd
  BY DEF Picked
<1> HIDE DEF us, at, now, m, fwd
<1>5. CASE ~ (r.type = type /\ r.name = n)
  <2>1. now = at
    BY <1>2, <1>5
  <2>2. \A i \in DOMAIN us : i \in DOMAIN rs \/ us[i] = r
    BY <1>1
  <2>3. \A i \in DOMAIN rs : i \in DOMAIN us
    BY <1>1
  <2> QED
    BY <1>1, <1>3, <1>4, <1>5, <2>1, <2>2, <2>3
<1>6. CASE r.type = type /\ r.name = n
  <2>1. now = Append(at, r)
    BY <1>2, <1>6
  <2>2. /\ now \in Seq(Records) /\ Len(at) \in Nat /\ Len(now) = Len(at) + 1
        /\ now # <<>> /\ DOMAIN now = 1 .. Len(at) + 1 /\ DOMAIN at = 1 .. Len(at)
        /\ now[Len(at) + 1] = r /\ \A j \in DOMAIN at : now[j] = at[j]
    BY <1>3, <2>1
  <2>3. \A j \in DOMAIN now : j \in DOMAIN at \/ now[j] = r
    BY <2>2
  <2>4. (m + 1) \in DOMAIN us /\ us[m + 1] = r
    BY <1>1
  <2>5. \A i \in DOMAIN rs : i \in DOMAIN us /\ us[i] = rs[i]
    BY <1>1
  <2>6. ASSUME NEW j \in DOMAIN now
        PROVE  now[j].type = type /\ now[j].name = n /\ \E i \in DOMAIN us : us[i] = now[j]
    BY <1>3, <1>6, <2>2, <2>3, <2>4, <2>5
  <2>7. ASSUME Plain(us), Len(now) # 1, NEW j \in DOMAIN now
        PROVE  now[j].data \notin fwd
    <3>1. at # <<>> /\ 1 \in DOMAIN at
      BY <1>3, <2>2, <2>7
    <3>2. PICK i \in DOMAIN rs : rs[i] = at[1] /\ rs[i].name = r.name /\ rs[i].type = r.type
      BY <1>3, <1>6, <3>1
    <3>3. r.data \notin fwd
      BY <1>4, <2>7, <3>2
    <3>4. CASE j \in DOMAIN at
      <4>1. PICK k \in DOMAIN rs : rs[k] = at[j] /\ rs[k].name = r.name /\ rs[k].type = r.type
        BY <1>3, <1>6, <3>4
      <4> QED
        BY <1>4, <2>2, <2>7, <3>4, <4>1
    <3> QED
      BY <2>3, <3>3, <3>4
  <2> QED
    BY <2>2, <2>6, <2>7
<1> QED
  BY <1>5, <1>6

\* Records of one name have one key, unless some of them are {{FORWARD_ALL}}.
LEMMA SubKeyNames ==
    ASSUME NEW r, NEW s, ~ r.regex, ~ s.regex
    PROVE  /\ SubKey(r) = SubKey(s) => r.name = s.name
           /\ (r.name = s.name /\ r.data # ForwardAll /\ s.data # ForwardAll) => SubKey(r) = SubKey(s)
<1>1. ASSUME NEW u, ~ u.regex
      PROVE  SubKey(u) = IF u.name = <<"@">> THEN Root
                         ELSE IF u.name = <<"*">> THEN Wild
                         ELSE IF u.data = ForwardAll THEN Subtree(u.name) ELSE Exact(u.name)
  BY <1>1 DEF SubKey
<1>2. ASSUME NEW m, NEW n
      PROVE  /\ Root # Wild /\ Root # Subtree(m) /\ Root # Exact(m)
             /\ Wild # Subtree(m) /\ Wild # Exact(m) /\ Subtree(m) # Exact(n)
             /\ Subtree(m) = Subtree(n) => m = n
             /\ Exact(m) = Exact(n) => m = n
  BY DEF Root, Wild, Subtree, Exact
<1>3. SubKey(r) = SubKey(s) => r.name = s.name
  BY <1>1, <1>2
<1>4. (r.name = s.name /\ r.data # ForwardAll /\ s.data # ForwardAll) => SubKey(r) = SubKey(s)
  BY <1>1
<1> QED
  BY <1>3, <1>4

\* A record of another type changes nothing.
LEMMA ReflectsOther ==
    ASSUME NEW recs, NEW rs \in Seq(Records), NEW r \in Records, NEW type, r.type # type,
           NEW p, Reflects(recs, rs, type, p)
    PROVE  Reflects(recs, Append(rs, r), type, p)
<1> DEFINE us == Append(rs, r)
           n == Len(rs)
<1>1. /\ DOMAIN rs = 1 .. n /\ DOMAIN us = 1 .. n + 1 /\ n \in Nat
      /\ us[n + 1] = r /\ \A i \in DOMAIN rs : us[i] = rs[i]
  BY AppendFacts
<1>2. \A m : At(us, type, m) = At(rs, type, m)
  BY AtAppend
<1> HIDE DEF us, n
<1>3. \A i \in DOMAIN rs : i \in DOMAIN us
  BY <1>1
<1>4. \A i \in DOMAIN us : us[i].type = type => i \in DOMAIN rs
  BY <1>1
<1>5. Reflects(recs, us, type, p)
  BY <1>1, <1>2, <1>3, <1>4 DEF Reflects
<1> QED
  BY <1>5 DEF us

\* What is stored under a key after one record more (config_parser.cc:168-180).
LEMMA MergeStores ==
    ASSUME NEW recs, NEW rs \in Seq(Records), NEW r \in Records, Plain(Append(rs, r)),
           IsAddress(r.type), \A n : Picked(rs, r.type, n),
           NEW p, p # "ready", Reflects(recs, rs, r.type, p),
           NEW v, v = IF r.data = ForwardAll THEN Forward ELSE r.data
    PROVE  Merge(recs, SubKey(r), v) = Stored(At(Append(rs, r), r.type, r.name))
<1> DEFINE at == At(rs, r.type, r.name)
           k == SubKey(r)
<1>1. At(Append(rs, r), r.type, r.name) = Append(at, r)
  BY AtAppend
<1>2. Picked(rs, r.type, r.name)
  OBVIOUS
<1>3. /\ at \in Seq(Records)
      /\ \A i \in DOMAIN rs : (rs[i].type = r.type /\ rs[i].name = r.name) => at # <<>>
      /\ \A j \in DOMAIN at : at[j].type = r.type /\ at[j].name = r.name
                              /\ \E i \in DOMAIN rs : rs[i] = at[j]
  BY <1>2 DEF Picked
<1>4. /\ ~ r.regex
      /\ \A i \in DOMAIN rs : (rs[i].name = r.name /\ rs[i].type = r.type) =>
            rs[i].data \notin {Forward, ForwardAll} /\ r.data \notin {Forward, ForwardAll}
      /\ Plain(rs)
  BY PlainPrefix
<1>5. \A i \in DOMAIN rs : ~ rs[i].regex /\ (IsAddress(rs[i].type) => ~ IsArray(rs[i].data))
  BY <1>4 DEF Plain
<1>6. /\ \A j \in DOMAIN recs : \E i \in DOMAIN rs : rs[i].type = r.type /\ j = SubKey(rs[i])
      /\ \A i \in DOMAIN rs : rs[i].type = r.type =>
            /\ SubKey(rs[i]) \in DOMAIN recs
            /\ recs[SubKey(rs[i])] = Stored(At(rs, r.type, rs[i].name))
  BY DEF Reflects, Kept
<1> HIDE DEF at, k
<1>7. CASE k \notin DOMAIN recs
  <2>1. at = <<>>
    <3> SUFFICES ASSUME at # <<>> PROVE FALSE
      OBVIOUS
    <3>1. 1 \in DOMAIN at
      BY <1>3
    <3>2. PICK i \in DOMAIN rs : rs[i].name = r.name /\ rs[i].type = r.type
      BY <1>3, <3>1
    <3>3. SubKey(rs[i]) = k
      BY <1>4, <1>5, <3>2, SubKeyNames DEF k
    <3> QED
      BY <1>6, <1>7, <3>2, <3>3
  <2>2. Append(at, r) = <<r>>
    BY <2>1
  <2>3. Stored(<<r>>) = v
    BY DEF Stored
  <2>4. Merge(recs, k, v) = v
    BY <1>7 DEF Merge
  <2> QED
    BY <1>1, <2>2, <2>3, <2>4 DEF k
<1>8. CASE k \in DOMAIN recs
  <2>1. PICK i \in DOMAIN rs : rs[i].type = r.type /\ k = SubKey(rs[i])
    BY <1>6, <1>8
  <2>2. rs[i].name = r.name
    BY <1>4, <1>5, <2>1, SubKeyNames DEF k
  <2>3. recs[k] = Stored(at) /\ at # <<>>
    BY <1>3, <1>6, <2>1, <2>2 DEF at
  <2>4. v = r.data
    BY <1>4, <2>1, <2>2
  <2>5. \A j \in DOMAIN at : at[j].data # ForwardAll /\ ~ IsArray(at[j].data)
    <3> TAKE j \in DOMAIN at
    <3>1. PICK l \in DOMAIN rs : rs[l] = at[j] /\ rs[l].name = r.name /\ rs[l].type = r.type
      BY <1>3
    <3> QED
      BY <1>4, <1>5, <3>1
  <2> DEFINE m == Len(at)
             both == Append(at, r)
             old == [j \in 1 .. m |-> at[j].data]
             new == [j \in 1 .. m + 1 |-> both[j].data]
  <2>6. /\ m \in Nat /\ m # 0 /\ DOMAIN at = 1 .. m /\ Len(both) = m + 1
        /\ DOMAIN both = 1 .. m + 1 /\ both[m + 1] = r /\ \A j \in 1 .. m : both[j] = at[j]
    BY <1>3, <2>3
  <2> HIDE DEF m, both
  <2>7. Stored(both) = <<"array", new>>
    <3>1. Len(both) # 1
      BY <2>6
    <3>2. Stored(both) = Array([j \in DOMAIN both |-> both[j].data])
      BY <3>1, Zenon DEF Stored
    <3>3. [j \in DOMAIN both |-> both[j].data] = new
      BY <2>6, Zenon
    <3> QED
      BY <3>2, <3>3 DEF Array
  <2>8. new = Append(old, r.data)
    <3>1. old \in Seq({at[j].data : j \in 1 .. m}) /\ Len(old) = m
      BY <2>6
    <3>2. old \in Seq({at[j].data : j \in 1 .. m} \cup {r.data})
      BY <3>1
    <3>3. /\ DOMAIN Append(old, r.data) = 1 .. m + 1
          /\ Append(old, r.data)[m + 1] = r.data
          /\ \A j \in 1 .. m : Append(old, r.data)[j] = old[j]
          /\ Append(old, r.data) = [j \in 1 .. m + 1 |-> Append(old, r.data)[j]]
      BY <2>6, <3>1, <3>2
    <3>4. \A j \in 1 .. m + 1 : j = m + 1 \/ j \in 1 .. m
      BY <2>6
    <3>5. \A j \in 1 .. m : old[j] = at[j].data
      OBVIOUS
    <3> HIDE DEF old
    <3>6. \A j \in 1 .. m + 1 : new[j] = Append(old, r.data)[j]
      BY <2>6, <3>3, <3>4, <3>5
    <3> QED
      BY <3>3, <3>6
  <2>9. CASE m = 1
    <3>1. recs[k] = at[1].data /\ 1 \in DOMAIN at
      BY <2>3, <2>5, <2>6, <2>9 DEF Stored, m
    <3>2. Merge(recs, k, v) = <<"array", <<at[1].data, r.data>> >>
      BY <1>8, <2>4, <2>5, <3>1 DEF Merge, Array
    <3>3. new = <<at[1].data, r.data>>
      <4>1. new = [j \in 1 .. 2 |-> both[j].data] /\ both[1] = at[1] /\ both[2] = r
        BY <2>6, <2>9
      <4> HIDE DEF new
      <4> QED
        BY <4>1
    <3> QED
      BY <1>1, <2>7, <3>2, <3>3 DEF both, k
  <2>10. CASE m # 1
    <3>1. recs[k] = <<"array", old>>
      <4>1. Stored(at) = Array([j \in DOMAIN at |-> at[j].data])
        BY <2>10, Zenon DEF Stored, m
      <4>2. [j \in DOMAIN at |-> at[j].data] = old
        BY <2>6, Zenon
      <4> QED
        BY <2>3, <4>1, <4>2 DEF Array
    <3>2. Merge(recs, k, v) = <<"array", Append(old, r.data)>>
      <4> HIDE DEF old
      <4>1. recs[k][1] = "array" /\ recs[k][2] = old
        BY <3>1
      <4> QED
        BY <1>8, <2>4, <4>1, Zenon DEF Merge, Array, IsArray
    <3> QED
      BY <1>1, <2>7, <2>8, <3>2 DEF both, k
  <2> QED
    BY <2>9, <2>10
<1> QED
  BY <1>7, <1>8

\* One record more of the type: the table goes on reflecting the file.
LEMMA ReflectsAppend ==
    ASSUME NEW recs, NEW rs \in Seq(Records), NEW r \in Records, Plain(Append(rs, r)),
           IsAddress(r.type), \A n : Picked(rs, r.type, n),
           NEW p, p # "ready", Reflects(recs, rs, r.type, p)
    PROVE  Reflects(AddTo(recs, r), Append(rs, r), r.type, p)
<1> DEFINE us == Append(rs, r)
           n == Len(rs)
           k == SubKey(r)
           v == IF r.data = ForwardAll THEN Forward ELSE r.data
           new == AddTo(recs, r)
<1>1. /\ DOMAIN rs = 1 .. n /\ DOMAIN us = 1 .. n + 1 /\ n \in Nat
      /\ us[n + 1] = r /\ \A i \in DOMAIN rs : us[i] = rs[i]
  BY AppendFacts
<1>2. /\ ~ r.regex /\ ~ (r.name = <<"@">> /\ r.data = ForwardAll)
      /\ \A i \in DOMAIN rs : (rs[i].name = r.name /\ rs[i].type = r.type) =>
            rs[i].data \notin {Forward, ForwardAll} /\ r.data \notin {Forward, ForwardAll}
      /\ Plain(rs)
  BY PlainPrefix
<1>3. \A i \in DOMAIN rs : ~ rs[i].regex
  BY <1>2 DEF Plain
<1>4. new = With(recs, k, Merge(recs, k, v))
  BY <1>2 DEF AddTo
<1>5. Merge(recs, k, v) = Stored(At(us, r.type, r.name))
  BY MergeStores
<1>6. \A m : m # r.name => At(us, r.type, m) = At(rs, r.type, m)
  BY AtAppend
<1> HIDE DEF us, n, k, v, new
<1>7. /\ DOMAIN new = DOMAIN recs \cup {k}
      /\ new[k] = Stored(At(us, r.type, r.name))
      /\ \A j \in DOMAIN recs : j # k => new[j] = recs[j]
  BY <1>4, <1>5 DEF With
<1>8. /\ \A j \in DOMAIN recs : \E i \in DOMAIN rs : rs[i].type = r.type /\ j = SubKey(rs[i])
      /\ \A i \in DOMAIN rs : rs[i].type = r.type =>
            /\ SubKey(rs[i]) \in DOMAIN recs
            /\ recs[SubKey(rs[i])] = Stored(At(rs, r.type, rs[i].name))
  BY DEF Reflects, Kept
<1>9. n + 1 \in DOMAIN us /\ \A i \in DOMAIN rs : i \in DOMAIN us /\ us[i] = rs[i]
  BY <1>1
<1>10. \A i \in DOMAIN us : us[i] = r \/ (i \in DOMAIN rs /\ us[i] = rs[i])
  BY <1>1
<1>11. ASSUME NEW j \in DOMAIN new
       PROVE  \E i \in DOMAIN us : us[i].type = r.type /\ j = SubKey(us[i])
  BY <1>1, <1>7, <1>8, <1>9 DEF k
<1>12. ASSUME NEW i \in DOMAIN us, us[i].type = r.type
       PROVE  /\ SubKey(us[i]) \in DOMAIN new
              /\ new[SubKey(us[i])] = Stored(At(us, r.type, us[i].name))
  <2>1. CASE us[i] = r
    BY <1>7, <2>1 DEF k
  <2>2. CASE i \in DOMAIN rs /\ us[i] = rs[i] /\ SubKey(rs[i]) = k
    <3>1. rs[i].name = r.name
      BY <1>2, <1>3, <2>2, SubKeyNames DEF k
    <3> QED
      BY <1>7, <2>2, <3>1
  <2>3. CASE i \in DOMAIN rs /\ us[i] = rs[i] /\ SubKey(rs[i]) # k
    <3>1. rs[i].name # r.name
      BY <1>2, <1>3, <1>12, <2>3, SubKeyNames DEF k
    <3> QED
      BY <1>6, <1>7, <1>8, <1>12, <2>3, <3>1
  <2> QED
    BY <1>10, <2>1, <2>2, <2>3
<1>13. Reflects(new, us, r.type, p)
  BY <1>11, <1>12 DEF Reflects, Kept
<1> QED
  BY <1>13 DEF new, us

\* What conversion makes of what is stored at one name (config_parser.cc:202-276).
LEMMA ConvertStored ==
    ASSUME NEW rs \in Seq(Records), Plain(rs), NEW type, IsAddress(type), NEW n,
           Picked(rs, type, n), At(rs, type, n) # <<>>,
           NEW v, v = Stored(At(rs, type, n))
    PROVE  (IF Skipped(v) THEN v ELSE Convert(v)) = Final(At(rs, type, n))
<1> DEFINE at == At(rs, type, n)
           m == Len(at)
<1>1. /\ at \in Seq(Records)
      /\ \A j \in DOMAIN at : at[j].type = type /\ \E i \in DOMAIN rs : rs[i] = at[j]
      /\ Len(at) # 1 => \A j \in DOMAIN at : at[j].data \notin {Forward, ForwardAll}
  BY DEF Picked
<1>2. \A i \in DOMAIN rs : IsAddress(rs[i].type) => ~ IsArray(rs[i].data)
  BY DEF Plain
<1>3. \A j \in DOMAIN at : ~ IsArray(at[j].data)
  BY <1>1, <1>2
<1>4. m \in Nat /\ m # 0 /\ DOMAIN at = 1 .. m
  BY <1>1
<1>5. v = Stored(at)
  OBVIOUS
<1> HIDE DEF at, m
<1>6. CASE m = 1
  <2>0. 1 \in DOMAIN at
    BY <1>4, <1>6
  <2>1. CASE at[1].data \in {Forward, ForwardAll}
    <3>1. v = Forward /\ Final(at) = Forward
      BY <1>5, <1>6, <2>1 DEF Stored, Final, m
    <3> QED
      BY <3>1 DEF Skipped, IsForwardValue, at
  <2>2. CASE at[1].data \notin {Forward, ForwardAll}
    <3>1. v = at[1].data /\ Final(at) = Hex(at[1].data)
      BY <1>5, <1>6, <2>2 DEF Stored, Final, m
    <3>2. ~ Skipped(v) /\ ~ IsArray(v)
      BY <1>3, <2>0, <2>2, <3>1 DEF Skipped, IsForwardValue
    <3> QED
      BY <3>1, <3>2 DEF Convert, at
  <2> QED
    BY <2>1, <2>2
<1>7. CASE m # 1
  <2> DEFINE old == [j \in 1 .. m |-> at[j].data]
             new == [j \in 1 .. m |-> Hex(at[j].data)]
  <2>1. v = <<"array", old>>
    <3>1. Stored(at) = Array([j \in DOMAIN at |-> at[j].data])
      BY <1>7, Zenon DEF Stored, m
    <3>2. [j \in DOMAIN at |-> at[j].data] = old
      BY <1>4, Zenon
    <3> QED
      BY <1>5, <3>1, <3>2 DEF Array
  <2>2. Final(at) = <<"array", new>>
    <3>1. Final(at) = Array([j \in DOMAIN at |-> Hex(at[j].data)])
      BY <1>7, Zenon DEF Final, m
    <3>2. [j \in DOMAIN at |-> Hex(at[j].data)] = new
      BY <1>4, Zenon
    <3> QED
      BY <3>1, <3>2 DEF Array
  <2>3. \A j \in 1 .. m : old[j] = at[j].data /\ old[j] # Forward
    BY <1>1, <1>4, <1>7 DEF m
  <2>4. DOMAIN old = 1 .. m /\ Forward \notin Range(old)
    BY <2>3 DEF Range
  <2>5. [j \in DOMAIN old |-> Hex(old[j])] = new
    BY <2>3, <2>4
  <2> HIDE DEF old, new
  <2>6. v[1] = "array" /\ v[2] = old /\ v # Forward
    BY <2>1 DEF Forward
  <2>7. ~ Skipped(v)
    BY <2>4, <2>6 DEF Skipped, IsForwardValue
  <2>8. Convert(v) = Array([j \in DOMAIN old |-> Hex(old[j])])
    BY <2>6, Zenon DEF Convert, IsArray
  <2> QED
    BY <2>2, <2>5, <2>7, <2>8 DEF Array, at
<1> QED
  BY <1>6, <1>7

\* The whole zone, converted.
LEMMA ConvertReflects ==
    ASSUME NEW zone, ZoneOK(zone), NEW rs \in Seq(Records), Plain(rs),
           \A type, n : Picked(rs, type, n),
           NEW p, p # "ready", ZoneReflects(zone, rs, p)
    PROVE  ZoneReflects(ConvertZone(zone), rs, "ready")
<1> DEFINE c == ConvertZone(zone)
           now(t, k) == IF t \notin {"A", "AAAA"} \/ Skipped(zone.types[t][k])
                          THEN zone.types[t][k] ELSE Convert(zone.types[t][k])
<1>1. c.types = [t \in DOMAIN zone.types |-> [k \in DOMAIN zone.types[t] |-> now(t, k)]]
  BY DEF ConvertZone, ZoneOK
<1>2. \A t \in DOMAIN c.types : \E i \in DOMAIN rs : rs[i].type = t
  BY <1>1 DEF ZoneReflects
<1>3. ASSUME NEW t \in {"A", "AAAA"} PROVE Reflects(RecordsOf(c, t), rs, t, "ready")
  <2> DEFINE old == RecordsOf(zone, t)
             new == RecordsOf(c, t)
  <2>1. Reflects(old, rs, t, p)
    BY DEF ZoneReflects
  <2>2. /\ DOMAIN new = DOMAIN old
        /\ \A k \in DOMAIN old : new[k] = IF Skipped(old[k]) THEN old[k] ELSE Convert(old[k])
    <3>1. CASE t \in DOMAIN zone.types
      <4>1. old = zone.types[t] /\ new = [k \in DOMAIN zone.types[t] |-> now(t, k)]
        BY <1>1, <3>1 DEF RecordsOf
      <4>2. \A k \in DOMAIN old : now(t, k) = IF Skipped(old[k]) THEN old[k] ELSE Convert(old[k])
        BY <4>1
      <4> HIDE DEF now, old, new
      <4> QED
        BY <4>1, <4>2
    <3>2. CASE t \notin DOMAIN zone.types
      <4>1. old = NoTypes /\ new = NoTypes
        BY <1>1, <3>2 DEF RecordsOf
      <4> HIDE DEF old, new
      <4> QED
        BY <4>1 DEF NoTypes
    <3> QED
      BY <3>1, <3>2
  <2> HIDE DEF old, new
  <2>3. ASSUME NEW i \in DOMAIN rs, rs[i].type = t
        PROVE  SubKey(rs[i]) \in DOMAIN new /\ new[SubKey(rs[i])] = Final(At(rs, t, rs[i].name))
    <3>1. SubKey(rs[i]) \in DOMAIN old /\ old[SubKey(rs[i])] = Stored(At(rs, t, rs[i].name))
      BY <2>1, <2>3 DEF Reflects, Kept
    <3>2. Picked(rs, t, rs[i].name)
      OBVIOUS
    <3>3. At(rs, t, rs[i].name) # <<>>
      BY <2>3, <3>2 DEF Picked
    <3> QED
      BY <2>2, <3>1, <3>2, <3>3, ConvertStored DEF IsAddress
  <2>4. Reflects(new, rs, t, "ready")
    BY <2>1, <2>2, <2>3 DEF Reflects, Kept
  <2> QED
    BY <2>4 DEF new
<1> QED
  BY <1>2, <1>3 DEF ZoneReflects

\* A zone that begins.
LEMMA EmptyReflects ==
    ASSUME NEW b, NEW p
    PROVE  ZoneReflects([blocked |-> b, types |-> NoTypes], <<>>, p)
<1> DEFINE zone == [blocked |-> b, types |-> NoTypes]
<1>1. DOMAIN <<>> = {} /\ DOMAIN NoTypes = {} /\ zone.types = NoTypes
  BY DEF NoTypes
<1>2. \A t : RecordsOf(zone, t) = NoTypes
  BY <1>1 DEF RecordsOf
<1> HIDE DEF zone
<1>3. ZoneReflects(zone, <<>>, p)
  BY <1>1, <1>2 DEF ZoneReflects, Reflects
<1> QED
  BY <1>3 DEF zone

\* A zone with one record more.
LEMMA ReadReflects ==
    ASSUME NEW zone, NEW rs \in Seq(Records), NEW r \in Records,
           DOMAIN zone = {"blocked", "types"},
           Plain(Append(rs, r)), \A type, n : Picked(rs, type, n),
           NEW p, p # "ready", ZoneReflects(zone, rs, p),
           NEW types, types = With(zone.types, r.type, AddTo(RecordsOf(zone, r.type), r)),
           NEW new, new = [zone EXCEPT !.types = types]
    PROVE  ZoneReflects(new, Append(rs, r), p)
<1> DEFINE us == Append(rs, r)
<1>1. /\ DOMAIN rs = 1 .. Len(rs) /\ DOMAIN us = 1 .. Len(rs) + 1 /\ Len(rs) \in Nat
      /\ us[Len(rs) + 1] = r /\ \A i \in DOMAIN rs : us[i] = rs[i]
  BY AppendFacts
<1>2. new.types = types
  OBVIOUS
<1>3. /\ DOMAIN types = DOMAIN zone.types \cup {r.type}
      /\ types[r.type] = AddTo(RecordsOf(zone, r.type), r)
      /\ \A t \in DOMAIN zone.types : t # r.type => types[t] = zone.types[t]
  BY DEF With
<1>4. ASSUME NEW t \in DOMAIN new.types PROVE \E i \in DOMAIN us : us[i].type = t
  <2>1. CASE t = r.type
    <3>1. Len(rs) + 1 \in DOMAIN us
      BY <1>1
    <3> QED
      BY <1>1, <2>1, <3>1
  <2>2. CASE t \in DOMAIN zone.types
    <3>1. PICK i \in DOMAIN rs : rs[i].type = t
      BY <2>2 DEF ZoneReflects
    <3>2. i \in DOMAIN us
      BY <1>1
    <3> QED
      BY <1>1, <3>1, <3>2
  <2> QED
    BY <1>2, <1>3, <1>4, <2>1, <2>2
<1>5. ASSUME NEW t \in {"A", "AAAA"} PROVE Reflects(RecordsOf(new, t), us, t, p)
  <2>1. Reflects(RecordsOf(zone, t), rs, t, p)
    BY DEF ZoneReflects
  <2>2. CASE t = r.type
    <3>1. RecordsOf(new, t) = AddTo(RecordsOf(zone, t), r)
      BY <1>2, <1>3, <2>2 DEF RecordsOf
    <3>2. IsAddress(r.type)
      BY <2>2 DEF IsAddress
    <3> QED
      BY <2>1, <2>2, <3>1, <3>2, ReflectsAppend
  <2>3. CASE t # r.type
    <3>1. RecordsOf(new, t) = RecordsOf(zone, t)
      BY <1>2, <1>3, <2>3 DEF RecordsOf
    <3> QED
      BY <2>1, <2>3, <3>1, ReflectsOther
  <2> QED
    BY <2>2, <2>3
<1> QED
  BY <1>4, <1>5 DEF ZoneReflects

\* Nothing is read at first.
LEMMA FileInit == Init => FileInv
  BY DEF Init, FileInv

\* Reading the file and converting it keeps the table and the file in agreement.
LEMMA FileStep == TableOK /\ FileInv /\ [Next]_vars => FileInv'
<1> SUFFICES ASSUME TableOK, FileInv, [Next]_vars PROVE FileInv'
  OBVIOUS
<1>0. /\ DOMAIN source = DOMAIN zones
      /\ current = <<>> \/ current \in DOMAIN zones
      /\ \A z \in DOMAIN zones :
            /\ source[z] \in Seq(Records)
            /\ \A type, n : Picked(source[z], type, n)
            /\ ~ zones[z].blocked /\ Plain(source[z])
                  => ZoneReflects(zones[z], source[z], phase)
  BY DEF FileInv
<1>1. ASSUME NEW z \in ZoneNames, BeginZone(z) \/ BlockZone(z) PROVE FileInv'
  <2>1. PICK b \in BOOLEAN : zones' = With(zones, z, [blocked |-> b, types |-> NoTypes])
    BY <1>1 DEF BeginZone, BlockZone
  <2>2. source' = With(source, z, <<>>) /\ phase' = phase /\ (current' = z \/ current' = <<>>)
    BY <1>1 DEF BeginZone, BlockZone
  <2>3. /\ DOMAIN zones' = DOMAIN zones \cup {z} /\ DOMAIN source' = DOMAIN zones \cup {z}
        /\ zones'[z] = [blocked |-> b, types |-> NoTypes] /\ source'[z] = <<>>
        /\ \A y \in DOMAIN zones : y # z => zones'[y] = zones[y] /\ source'[y] = source[y]
    BY <1>0, <2>1, <2>2 DEF With
  <2>4. ZoneReflects(zones'[z], source'[z], phase)
    BY <2>3, EmptyReflects
  <2>5. \A type, n : Picked(source'[z], type, n)
    BY <2>3, PickedNothing
  <2>6. source'[z] \in Seq(Records)
    BY <2>3
  <2>7. ASSUME NEW y \in DOMAIN zones'
        PROVE  /\ source'[y] \in Seq(Records)
               /\ \A type, n : Picked(source'[y], type, n)
               /\ ~ zones'[y].blocked /\ Plain(source'[y])
                     => ZoneReflects(zones'[y], source'[y], phase')
    BY <1>0, <2>2, <2>3, <2>4, <2>5, <2>6
  <2> QED
    BY <2>2, <2>3, <2>7 DEF FileInv
<1>2. ASSUME NEW r \in Records, ReadRecord(r) PROVE FileInv'
  <2> DEFINE zone == zones[current]
             types == With(zone.types, r.type, AddTo(RecordsOf(zone, r.type), r))
             new == [zone EXCEPT !.types = types]
             us == Append(source[current], r)
  <2>1. /\ phase = "parse" /\ current \in DOMAIN zones /\ current' = current /\ phase' = phase
        /\ source' = [source EXCEPT ![current] = us]
    BY <1>0, <1>2 DEF ReadRecord
  <2>2. DOMAIN zone = {"blocked", "types"}
    BY <2>1 DEF TableOK, ZoneOK
  <2>3. zones' = [zones EXCEPT ![current] = new]
    <3>1. zones' = [zones EXCEPT ![current].types = types]
      BY <1>2 DEF ReadRecord, RecordsOf
    <3> HIDE DEF types
    <3> QED
      BY <2>1, <3>1
  <2>4. /\ source[current] \in Seq(Records) /\ us \in Seq(Records)
        /\ \A type, n : Picked(source[current], type, n)
        /\ ~ zone.blocked /\ Plain(source[current])
              => ZoneReflects(zone, source[current], phase)
    BY <1>0, <2>1
  <2>5. \A type, n : Picked(us, type, n)
    BY <2>4, PickedAppend
  <2>6. new.blocked = zone.blocked
    BY <2>2
  <2>7. ASSUME ~ new.blocked, Plain(us) PROVE ZoneReflects(new, us, phase)
    <3>1. Plain(source[current])
      BY <2>4, <2>7, PlainPrefix
    <3>2. ZoneReflects(zone, source[current], phase) /\ phase # "ready"
      BY <2>1, <2>4, <2>6, <2>7, <3>1
    <3> HIDE DEF zone
    <3> QED
      BY <2>2, <2>4, <2>7, <3>2, ReadReflects
  <2> HIDE DEF zone, types, new, us
  <2>8. /\ DOMAIN zones' = DOMAIN zones /\ DOMAIN source' = DOMAIN zones
        /\ zones'[current] = new /\ source'[current] = us
        /\ \A y \in DOMAIN zones : y # current => zones'[y] = zones[y] /\ source'[y] = source[y]
    BY <1>0, <2>1, <2>3
  <2>9. ASSUME NEW y \in DOMAIN zones'
        PROVE  /\ source'[y] \in Seq(Records)
               /\ \A type, n : Picked(source'[y], type, n)
               /\ ~ zones'[y].blocked /\ Plain(source'[y])
                     => ZoneReflects(zones'[y], source'[y], phase')
    BY <1>0, <2>1, <2>4, <2>5, <2>7, <2>8
  <2> QED
    BY <2>1, <2>8, <2>9 DEF FileInv
<1>3. CASE Validate
  <2>1. phase = "parse" /\ source' = source /\ current' = <<>>
    BY <1>3 DEF Validate
  <2>2. CASE phase' = "failed" /\ zones' = zones
    <3>1. \A rs : Kept(rs, "failed") = Kept(rs, "parse")
      BY DEF Kept
    <3>2. \A zone, rs : ZoneReflects(zone, rs, "parse") => ZoneReflects(zone, rs, "failed")
      BY <3>1 DEF ZoneReflects, Reflects
    <3> QED
      BY <1>0, <2>1, <2>2, <3>2 DEF FileInv
  <2>3. CASE phase' = "ready" /\ zones' = [z \in DOMAIN zones |-> ConvertZone(zones[z])]
    <3>1. ASSUME NEW z \in DOMAIN zones, ~ zones'[z].blocked, Plain(source'[z])
          PROVE  ZoneReflects(zones'[z], source'[z], phase')
      <4>1. ZoneOK(zones[z]) /\ zones'[z] = ConvertZone(zones[z])
        BY <2>3 DEF TableOK
      <4>2. ConvertZone(zones[z]).blocked = zones[z].blocked
        BY <4>1 DEF ConvertZone, ZoneOK
      <4>3. /\ source[z] \in Seq(Records) /\ \A type, n : Picked(source[z], type, n)
            /\ ZoneReflects(zones[z], source[z], phase)
        BY <1>0, <2>1, <3>1, <4>1, <4>2
      <4> QED
        BY <2>1, <2>3, <3>1, <4>1, <4>3, ConvertReflects
    <3>2. DOMAIN zones' = DOMAIN zones
      BY <2>3
    <3> QED
      BY <1>0, <2>1, <3>1, <3>2 DEF FileInv
  <2> QED
    BY <1>3, <2>2, <2>3 DEF Validate
<1>4. CASE UNCHANGED vars
  BY <1>0, <1>4 DEF vars, FileInv
<1> QED
  BY <1>1, <1>2, <1>3, <1>4 DEF Next

-----------------------------------------------------------------------------
(* What the search serves *)

\* What is served for the records chosen: nothing when there is none or one forwards.
Outcome(chosen) ==
    IF chosen = <<>> \/ \E i \in DOMAIN chosen : chosen[i].data \in {Forward, ForwardAll}
      THEN None ELSE Final(chosen)

\* The file and the table of one type, once addresses are converted.
Agree(recs, rs, type) ==
    /\ rs \in Seq(Records) /\ Plain(rs)
    /\ \A n : Picked(rs, type, n)
    /\ Reflects(recs, rs, type, "ready")

\* The key of a record that is no expression.
LEMMA PlainKey ==
    ASSUME NEW u, ~ u.regex
    PROVE  SubKey(u) = IF u.name = <<"@">> THEN Root
                       ELSE IF u.name = <<"*">> THEN Wild
                       ELSE IF u.data = ForwardAll THEN Subtree(u.name) ELSE Exact(u.name)
  BY DEF SubKey

\* A record at a name is picked, and what is picked is a record of the name.
LEMMA AtSome ==
    ASSUME NEW recs, NEW rs, NEW type, NEW n, Agree(recs, rs, type)
    PROVE  At(rs, type, n) # <<>> <=> \E i \in DOMAIN rs : rs[i].type = type /\ rs[i].name = n
<1> DEFINE at == At(rs, type, n)
<1>1. /\ at \in Seq(Records)
      /\ \A i \in DOMAIN rs : (rs[i].type = type /\ rs[i].name = n) => at # <<>>
      /\ \A j \in DOMAIN at : at[j].type = type /\ at[j].name = n
                              /\ \E i \in DOMAIN rs : rs[i] = at[j]
  <2>1. Picked(rs, type, n)
    BY DEF Agree
  <2> QED
    BY <2>1 DEF Picked
<1> HIDE DEF at
<1>2. at # <<>> => 1 \in DOMAIN at
  BY <1>1
<1>3. ASSUME at # <<>> PROVE \E i \in DOMAIN rs : rs[i].type = type /\ rs[i].name = n
  BY <1>1, <1>2, <1>3
<1> QED
  BY <1>1, <1>3 DEF at

\* What the table serves under the key of a record is what the records of its name make.
LEMMA KeyServes ==
    ASSUME NEW recs, NEW rs, NEW type, Agree(recs, rs, type), NEW i \in DOMAIN rs, rs[i].type = type
    PROVE  /\ SubKey(rs[i]) \in DOMAIN recs
           /\ Value(recs, SubKey(rs[i])) = Outcome(At(rs, type, rs[i].name))
<1> DEFINE at == At(rs, type, rs[i].name)
           k == SubKey(rs[i])
           fwd == {Forward, ForwardAll}
<1>1. Picked(rs, type, rs[i].name) /\ ~ rs[i].regex
  BY DEF Agree, Plain
<1>2. /\ at \in Seq(Records) /\ at # <<>>
      /\ Len(at) # 1 => \A j \in DOMAIN at : at[j].data \notin fwd
  BY <1>1 DEF Picked, Agree
<1>3. k \in DOMAIN recs /\ recs[k] = Final(at)
  BY DEF Agree, Reflects, Kept
<1>4. k # NoKey
  BY <1>1, PlainKey DEF Root, Wild, Subtree, Exact, NoKey
<1>5. Value(recs, k) = IF Final(at) = Forward THEN None ELSE Final(at)
  BY <1>3, <1>4 DEF Value, IsForwardValue
<1> HIDE DEF at, k
<1>6. DOMAIN at = 1 .. Len(at) /\ Len(at) \in Nat
  BY <1>2
<1>7. CASE Len(at) = 1
  <2>1. DOMAIN at = {1}
    BY <1>6, <1>7
  <2>2. CASE at[1].data \in fwd
    <3>1. Final(at) = Forward
      BY <1>7, <2>2 DEF Final
    <3>2. Outcome(at) = None
      BY <2>1, <2>2 DEF Outcome
    <3> QED
      BY <1>3, <1>5, <3>1, <3>2 DEF k, at
  <2>3. CASE at[1].data \notin fwd
    <3>1. Final(at) = Hex(at[1].data)
      BY <1>7, <2>3 DEF Final
    <3>2. Final(at) # Forward
      BY <3>1 DEF Hex, Forward
    <3>3. Outcome(at) = Final(at)
      BY <1>2, <2>1, <2>3 DEF Outcome
    <3> QED
      BY <1>3, <1>5, <3>2, <3>3 DEF k, at
  <2> QED
    BY <2>2, <2>3
<1>8. CASE Len(at) # 1
  <2> DEFINE vs == [j \in DOMAIN at |-> Hex(at[j].data)]
  <2>1. Final(at) = <<"array", vs>>
    BY <1>8, Zenon DEF Final, Array
  <2> HIDE DEF vs
  <2>2. Final(at) # Forward
    BY <2>1 DEF Forward
  <2>3. Outcome(at) = Final(at)
    BY <1>2, <1>8 DEF Outcome
  <2> QED
    BY <1>3, <1>5, <2>2, <2>3 DEF k, at
<1> QED
  BY <1>7, <1>8

\* The zone itself and the wildcard: the key is there if a record has the name.
LEMMA FallbackServes ==
    ASSUME NEW recs, NEW rs, NEW type, Agree(recs, rs, type),
           NEW n, NEW k, (n = <<"@">> /\ k = Root) \/ (n = <<"*">> /\ k = Wild)
    PROVE  Value(recs, FirstOf({}, k, recs)) = Outcome(At(rs, type, n))
<1>0. \A i \in DOMAIN rs : ~ rs[i].regex
  BY DEF Agree, Plain
<1>1. k # NoKey
  BY DEF Root, Wild, NoKey
<1>2. ASSUME NEW i \in DOMAIN rs PROVE SubKey(rs[i]) = k <=> rs[i].name = n
  <2>1. Root # Wild /\ \A m : /\ Root # Subtree(m) /\ Root # Exact(m)
                              /\ Wild # Subtree(m) /\ Wild # Exact(m)
    BY DEF Root, Wild, Subtree, Exact
  <2>2. <<"@">> # <<"*">>
    OBVIOUS
  <2> QED
    BY <1>0, <2>1, <2>2, PlainKey
<1>3. CASE \E i \in DOMAIN rs : rs[i].type = type /\ rs[i].name = n
  <2>1. PICK i \in DOMAIN rs : rs[i].type = type /\ rs[i].name = n
    BY <1>3
  <2>2. SubKey(rs[i]) = k
    BY <1>2, <2>1
  <2>3. k \in DOMAIN recs /\ Value(recs, k) = Outcome(At(rs, type, n))
    BY <2>1, <2>2, KeyServes
  <2> QED
    BY <2>3 DEF FirstOf
<1>4. CASE ~ \E i \in DOMAIN rs : rs[i].type = type /\ rs[i].name = n
  <2>1. At(rs, type, n) = <<>>
    BY <1>4, AtSome
  <2>2. k \notin DOMAIN recs
    BY <1>2, <1>4 DEF Agree, Reflects
  <2>3. FirstOf({}, k, recs) = NoKey
    BY <2>2 DEF FirstOf
  <2> QED
    BY <2>1, <2>3 DEF Value, Outcome
<1> QED
  BY <1>3, <1>4

\* The least place of Hits is before the others.
LEMMA MinLeast ==
    ASSUME NEW T, T \subseteq Nat, T # {}
    PROVE  Min(T) \in T /\ \A y \in T : Min(T) <= y
  BY LeastExists DEF Min

\* A name covers itself.
LEMMA SuffixSelf ==
    ASSUME NEW s, Len(s) \in Nat
    PROVE  IsSuffix(s, s)
<1> DEFINE t == Reverse(s)
<1>1. Len(t) \in Nat
  BY DEF Reverse
<1> HIDE DEF t
<1>2. IsPrefix(t, t)
  BY <1>1 DEF IsPrefix
<1> QED
  BY <1>2 DEF IsSuffix, t

\* A place that is hit holds the key of a record that is there for the subdomain: of
\* that name, or a {{FORWARD_ALL}} that covers it.
LEMMA HitIs ==
    ASSUME NEW recs, NEW rs, NEW type, Agree(recs, rs, type),
           NEW sub, sub # <<"@">>, NEW h \in Hits(recs, sub)
    PROVE  \E i \in DOMAIN rs :
              /\ rs[i].type = type /\ KeyOrder[h] = SubKey(rs[i])
              /\ \/ rs[i].name = sub /\ KeyOrder[h].kind \in {"exact", "*"}
                 \/ /\ rs[i].data = ForwardAll /\ rs[i].name # <<"*">>
                    /\ IsSuffix(rs[i].name, sub)
<1>1. KeyOrder[h] \in DOMAIN recs /\ Matches(sub, KeyOrder[h])
  BY DEF Hits
<1>2. PICK i \in DOMAIN rs : rs[i].type = type /\ KeyOrder[h] = SubKey(rs[i])
  BY <1>1 DEF Agree, Reflects
<1>3. ~ rs[i].regex
  BY DEF Agree, Plain
<1> DEFINE r == rs[i]
           k == KeyOrder[h]
<1>4. k = IF r.name = <<"@">> THEN Root
          ELSE IF r.name = <<"*">> THEN Wild
          ELSE IF r.data = ForwardAll THEN Subtree(r.name) ELSE Exact(r.name)
  BY <1>2, <1>3, PlainKey
<1> SUFFICES \/ r.name = sub /\ k.kind \in {"exact", "*"}
             \/ r.data = ForwardAll /\ r.name # <<"*">> /\ IsSuffix(r.name, sub)
  BY <1>2
<1>5. Matches(sub, k)
  BY <1>1
<1> HIDE DEF r, k
<1>6. CASE r.name = <<"@">>
  <2>1. k.kind = "@"
    BY <1>4, <1>6 DEF Root
  <2> QED
    BY <1>5, <2>1 DEF Matches
<1>7. CASE r.name = <<"*">>
  <2>1. k.kind = "*"
    BY <1>4, <1>7 DEF Wild
  <2> QED
    BY <1>5, <1>7, <2>1 DEF Matches
<1>8. CASE r.name \notin {<<"@">>, <<"*">>} /\ r.data = ForwardAll
  <2>1. k.kind = "subtree" /\ k.name = r.name
    BY <1>4, <1>8 DEF Subtree
  <2> QED
    BY <1>5, <1>8, <2>1 DEF Matches
<1>9. CASE r.name \notin {<<"@">>, <<"*">>} /\ r.data # ForwardAll
  <2>1. k.kind = "exact" /\ k.name = r.name
    BY <1>4, <1>9 DEF Exact
  <2> QED
    BY <1>5, <1>9, <2>1 DEF Matches
<1> QED
  BY <1>6, <1>7, <1>8, <1>9

\* The key of every record has a place.
LEMMA KeyPlaced ==
    ASSUME NEW recs, NEW rs, NEW type, Agree(recs, rs, type),
           NEW i \in DOMAIN rs, rs[i].type = type, NEW sub, Matches(sub, SubKey(rs[i]))
    PROVE  \E h \in Hits(recs, sub) : KeyOrder[h] = SubKey(rs[i])
<1>1. rs[i] \in Records
  BY DEF Agree
<1>2. PICK h \in DOMAIN KeyOrder : KeyOrder[h] = SubKey(rs[i])
  BY <1>1, OrderAssumption DEF Range
<1>3. SubKey(rs[i]) \in DOMAIN recs
  BY KeyServes
<1> QED
  BY <1>2, <1>3 DEF Hits

\* A name that is covered by a {{FORWARD_ALL}} is forwarded: the expression of the
\* subtree comes before those of the names and before the wildcard.
LEMMA CoveredForwards ==
    ASSUME NEW recs, NEW rs, NEW type, Agree(recs, rs, type),
           NEW sub, sub # <<>>, sub # <<"@">>, Covered(rs, type, sub)
    PROVE  Decide(recs, sub) = None
<1> DEFINE hits == Hits(recs, sub)
           m == Min(hits)
<1>0. hits \subseteq Nat /\ \A h \in hits : h \in DOMAIN KeyOrder
  BY FileAssumption DEF Hits
<1>1. PICK i \in DOMAIN rs : /\ rs[i].type = type /\ rs[i].data = ForwardAll
                             /\ rs[i].name # <<"*">> /\ IsSuffix(rs[i].name, sub)
  BY DEF Covered
<1>2. rs[i].name # <<"@">> /\ ~ rs[i].regex
  BY <1>1 DEF Agree, Plain
<1>3. SubKey(rs[i]) = Subtree(rs[i].name)
  BY <1>1, <1>2, PlainKey
<1>4. Subtree(rs[i].name).kind = "subtree" /\ Subtree(rs[i].name).name = rs[i].name
  BY DEF Subtree
<1>5. Matches(sub, SubKey(rs[i]))
  BY <1>1, <1>3, <1>4 DEF Matches
<1>6. PICK h \in hits : KeyOrder[h] = SubKey(rs[i])
  BY <1>1, <1>5, KeyPlaced
<1>7. m \in hits /\ m <= h
  BY <1>0, <1>6, MinLeast
<1> HIDE DEF m
<1>8. PICK j \in DOMAIN rs :
         /\ rs[j].type = type /\ KeyOrder[m] = SubKey(rs[j])
         /\ \/ rs[j].name = sub /\ KeyOrder[m].kind \in {"exact", "*"}
            \/ rs[j].data = ForwardAll /\ rs[j].name # <<"*">> /\ IsSuffix(rs[j].name, sub)
  BY <1>7, HitIs
<1>9. ~ KeyOrder[m].kind \in {"exact", "*"}
  <2> SUFFICES ASSUME KeyOrder[m].kind \in {"exact", "*"} PROVE FALSE
    OBVIOUS
  <2>1. h < m
    BY <1>0, <1>3, <1>4, <1>6, <1>7, OrderAssumption
  <2>2. h \in Nat /\ m \in Nat
    BY <1>0, <1>6, <1>7
  <2> QED
    BY <1>7, <2>1, <2>2
<1>10. rs[j].data = ForwardAll
  BY <1>8, <1>9
<1> DEFINE at == At(rs, type, rs[j].name)
<1>11. Picked(rs, type, rs[j].name)
  BY DEF Agree
<1>12. /\ at \in Seq(Records) /\ at # <<>>
       /\ \A l \in DOMAIN at : at[l].type = type /\ at[l].name = rs[j].name
                               /\ \E e \in DOMAIN rs : rs[e] = at[l]
  BY <1>8, <1>11 DEF Picked
<1> HIDE DEF at
<1>13. 1 \in DOMAIN at
  BY <1>12
<1>14. PICK e \in DOMAIN rs : rs[e] = at[1] /\ rs[e].name = rs[j].name /\ rs[e].type = rs[j].type
  BY <1>8, <1>12, <1>13
<1>15. rs[e].data = ForwardAll
  BY <1>10, <1>14 DEF Agree, Plain
<1>16. Outcome(at) = None
  BY <1>13, <1>14, <1>15 DEF Outcome
<1>17. FirstKey(recs, sub) = SubKey(rs[j])
  BY <1>6, <1>8 DEF FirstKey, FirstOf, m
<1> QED
  BY <1>8, <1>16, <1>17, KeyServes DEF Decide, at

\* Otherwise the records of the name are served, or those of the wildcard.
LEMMA NamedServed ==
    ASSUME NEW recs, NEW rs, NEW type, Agree(recs, rs, type),
           NEW sub, sub # <<>>, sub # <<"@">>, Len(sub) \in Nat, ~ Covered(rs, type, sub)
    PROVE  Decide(recs, sub) = Outcome(IF At(rs, type, sub) # <<>> THEN At(rs, type, sub)
                                       ELSE At(rs, type, <<"*">>))
<1> DEFINE hits == Hits(recs, sub)
<1>0. hits \subseteq Nat
  BY FileAssumption DEF Hits
<1>1. ASSUME NEW h \in hits
      PROVE  \E i \in DOMAIN rs : rs[i].type = type /\ KeyOrder[h] = SubKey(rs[i])
                                  /\ rs[i].name = sub
  BY HitIs DEF Covered
<1>2. CASE At(rs, type, sub) # <<>>
  <2>1. PICK i \in DOMAIN rs : rs[i].type = type /\ rs[i].name = sub
    BY <1>2, AtSome
  <2>2. ~ rs[i].regex
    BY DEF Agree, Plain
  <2>3. Matches(sub, SubKey(rs[i]))
    <3>1. CASE sub = <<"*">>
      <4>1. SubKey(rs[i]).kind = "*"
        BY <2>1, <2>2, <3>1, PlainKey DEF Wild
      <4> QED
        BY <3>1, <4>1 DEF Matches
    <3>2. CASE sub # <<"*">>
      <4>1. rs[i].data # ForwardAll
        BY <2>1, <3>2, SuffixSelf DEF Covered
      <4>2. SubKey(rs[i]) = Exact(sub)
        BY <2>1, <2>2, <3>2, <4>1, PlainKey
      <4>3. SubKey(rs[i]).kind = "exact" /\ SubKey(rs[i]).name = sub
        BY <4>2 DEF Exact
      <4> QED
        BY <4>3 DEF Matches
    <3> QED
      BY <3>1, <3>2
  <2>4. hits # {}
    BY <2>1, <2>3, KeyPlaced
  <2>5. Min(hits) \in hits
    BY <1>0, <2>4, MinLeast
  <2>6. PICK j \in DOMAIN rs : /\ rs[j].type = type /\ KeyOrder[Min(hits)] = SubKey(rs[j])
                               /\ rs[j].name = sub
    BY <1>1, <2>5
  <2>7. FirstKey(recs, sub) = SubKey(rs[j])
    BY <2>4, <2>6 DEF FirstKey, FirstOf
  <2>8. Decide(recs, sub) = Outcome(At(rs, type, sub))
    BY <2>6, <2>7, KeyServes DEF Decide
  <2> QED
    BY <1>2, <2>8
<1>3. CASE At(rs, type, sub) = <<>>
  <2>1. hits = {}
    BY <1>1, <1>3, AtSome
  <2>2. FirstKey(recs, sub) = FirstOf({}, Wild, recs)
    BY <2>1 DEF FirstKey
  <2>3. Decide(recs, sub) = Outcome(At(rs, type, <<"*">>))
    BY <2>2, FallbackServes DEF Decide
  <2> QED
    BY <1>3, <2>3
<1> QED
  BY <1>2, <1>3

\* What the search decides is what the documentation chooses.
LEMMA DecidesChosen ==
    ASSUME NEW recs, NEW rs, NEW type, Agree(recs, rs, type),
           NEW sub, sub # <<"@">>, Len(sub) \in Nat
    PROVE  Decide(recs, sub) = Outcome(Chosen(rs, type, sub))
<1>1. CASE sub = <<>>
  <2>1. Chosen(rs, type, sub) = At(rs, type, <<"@">>)
    BY <1>1 DEF Chosen
  <2>2. FirstKey(recs, sub) = FirstOf({}, Root, recs)
    BY <1>1 DEF FirstKey
  <2> QED
    BY <2>1, <2>2, FallbackServes DEF Decide
<1>2. CASE sub # <<>> /\ Covered(rs, type, sub)
  <2>1. Chosen(rs, type, sub) = <<>>
    BY <1>2 DEF Chosen
  <2>2. Outcome(<<>>) = None
    BY DEF Outcome
  <2> QED
    BY <1>2, <2>1, <2>2, CoveredForwards
<1>3. CASE sub # <<>> /\ ~ Covered(rs, type, sub)
  <2>1. Chosen(rs, type, sub) = IF At(rs, type, sub) # <<>> THEN At(rs, type, sub)
                                ELSE At(rs, type, <<"*">>)
    BY <1>3 DEF Chosen
  <2> QED
    BY <1>3, <2>1, NamedServed
<1> QED
  BY <1>1, <1>2, <1>3

\* The records chosen: of several, none forwards.
LEMMA ChosenPicked ==
    ASSUME NEW recs, NEW rs, NEW type, Agree(recs, rs, type), NEW sub
    PROVE  LET chosen == Chosen(rs, type, sub)
           IN  chosen = <<>>
               \/ /\ chosen \in Seq(Records)
                  /\ Len(chosen) # 1 =>
                        \A j \in DOMAIN chosen : chosen[j].data \notin {Forward, ForwardAll}
<1>1. Chosen(rs, type, sub) = <<>> \/ \E n : Chosen(rs, type, sub) = At(rs, type, n)
  BY DEF Chosen
<1>2. ASSUME NEW n
      PROVE  /\ At(rs, type, n) \in Seq(Records)
             /\ Len(At(rs, type, n)) # 1 =>
                   \A j \in DOMAIN At(rs, type, n) :
                      At(rs, type, n)[j].data \notin {Forward, ForwardAll}
  <2>1. Picked(rs, type, n) /\ Plain(rs)
    BY DEF Agree
  <2> QED
    BY <2>1 DEF Picked
<1> QED
  BY <1>1, <1>2

\* A message of several answers that are all accepted holds them all.
LEMMA AllAccepted ==
    ASSUME NEW ans, NEW k \in Nat, ans = [i \in 1 .. k |-> ans[i]],
           \A i \in 1 .. k : Accepts(ans[i].type, ans[i].data)
    PROVE  MultiAnswer(ans).answers = ans /\ MultiAnswer(ans).declared = k
<1> DEFINE T == {n \in 0 .. k : \A i \in 1 .. n : Accepts(ans[i].type, ans[i].data)}
<1>1. IsSeq(ans) /\ Len(ans) = k
  BY FunctionIsSeq
<1>2. MultiAnswer(ans).answers = SubSeq(ans, 1, Max(T)) /\ MultiAnswer(ans).declared = k
  BY <1>1 DEF MultiAnswer
<1>3. k \in T /\ T \subseteq 0 .. k
  OBVIOUS
<1> HIDE DEF T
<1>4. Max(T) = k
  BY <1>3 DEF Max
<1>5. SubSeq(ans, 1, k) = ans
  <2>1. ans \in Seq(Range(ans))
    BY <1>1 DEF IsSeq
  <2> QED
    BY <1>1, <2>1
<1> QED
  BY <1>2, <1>4, <1>5

\* The message a lookup builds for the records chosen.
LEMMA OutcomeGives ==
    ASSUME NEW chosen, NEW type, IsAddress(type),
           chosen = <<>> \/ (chosen \in Seq(Records) /\ (Len(chosen) # 1 =>
              \A j \in DOMAIN chosen : chosen[j].data \notin {Forward, ForwardAll}))
    PROVE  Gives(TypeFound(type, Outcome(chosen)), AnswersOf(chosen, type))
<1> DEFINE fwd == {Forward, ForwardAll}
           as1 == AnswersOf(chosen, type)
           v == Outcome(chosen)
           One(i) == Answer(type, Hex(chosen[i].data), <<>>)
<1>1. CASE chosen = <<>> \/ \E i \in DOMAIN chosen : chosen[i].data \in fwd
  <2>1. as1 = <<>>
    <3>1. CASE \E i \in DOMAIN chosen : chosen[i].data \in fwd
      BY <3>1 DEF AnswersOf
    <3>2. CASE chosen = <<>>
      BY <3>2 DEF AnswersOf
    <3> QED
      BY <1>1, <3>1, <3>2
  <2>2. TypeFound(type, v) = NotFound
    BY <1>1 DEF Outcome, TypeFound
  <2>3. Len(<<>>) = 0
    OBVIOUS
  <2> QED
    BY <2>1, <2>2, <2>3 DEF Gives, NotFound, NoOutput
<1>2. CASE chosen # <<>> /\ \A i \in DOMAIN chosen : chosen[i].data \notin fwd
  <2> DEFINE k == Len(chosen)
  <2>1. k \in Nat /\ k # 0 /\ DOMAIN chosen = 1 .. k
    BY <1>2
  <2>2. v = Final(chosen)
    BY <1>2 DEF Outcome
  <2>3. as1 = [i \in DOMAIN chosen |-> One(i)]
    BY <1>2, Zenon DEF AnswersOf
  <2> HIDE DEF k, v, as1
  <2>4. as1 = [i \in 1 .. k |-> One(i)]
    BY <2>1, <2>3, Zenon
  <2>5. as1 = [i \in 1 .. k |-> as1[i]] /\ \A i \in 1 .. k : as1[i] = One(i)
    BY <2>4
  <2>6. IsSeq(as1) /\ Len(as1) = k /\ as1 # <<>>
    <3>1. IsSeq(as1) /\ Len(as1) = k
      BY <2>1, <2>5, FunctionIsSeq
    <3> QED
      BY <2>1, <3>1
  <2>7. CASE k = 1
    <3>1. v = <<"hex", chosen[1].data>>
      BY <1>2, <2>1, <2>2, <2>7 DEF Final, Hex, k
    <3>2. v # None /\ ~ IsArray(v) /\ v = Hex(chosen[1].data)
      BY <3>1 DEF None, IsArray, Hex
    <3>3. Accepts(type, v)
      BY <3>1 DEF Accepts, AcceptsAddress, IsAddress
    <3>4. TypeFound(type, v) = Found(OneAnswer(type, v))
      BY <3>2, <3>3 DEF TypeFound, DispatchSingleOrMulti, CallResponseFunction
    <3>5. as1 = <<One(1)>>
      BY <2>4, <2>7
    <3>6. OneAnswer(type, v).answers = as1 /\ OneAnswer(type, v).declared = 1
      BY <3>2, <3>5 DEF OneAnswer
    <3> QED
      BY <2>6, <2>7, <3>4, <3>6 DEF Gives, Found, v, as1
  <2>8. CASE k # 1
    <3> DEFINE vs == [i \in DOMAIN chosen |-> Hex(chosen[i].data)]
    <3>1. v = <<"array", vs>>
      BY <2>2, <2>8, Zenon DEF Final, Array, k
    <3>2. DOMAIN vs = 1 .. k /\ \A i \in 1 .. k : vs[i] = Hex(chosen[i].data)
      BY <2>1
    <3> HIDE DEF vs
    <3>3. v # None /\ IsArray(v) /\ v[2] = vs
      BY <3>1 DEF None, IsArray
    <3>4. ExpandAnswerRecords(type, v, <<>>) = as1
      <4>1. ExpandAnswerRecords(type, v, <<>>) = [i \in DOMAIN vs |-> Answer(type, vs[i], <<>>)]
        BY <3>3, Zenon DEF ExpandAnswerRecords
      <4>2. [i \in DOMAIN vs |-> Answer(type, vs[i], <<>>)] = [i \in 1 .. k |-> One(i)]
        BY <3>2, Zenon
      <4> QED
        BY <2>4, <4>1, <4>2
    <3>5. TypeFound(type, v) = Found(MultiAnswer(as1))
      BY <3>3, <3>4 DEF TypeFound, DispatchSingleOrMulti
    <3>6. \A i \in 1 .. k : Accepts(as1[i].type, as1[i].data)
      <4> TAKE i \in 1 .. k
      <4>1. as1[i].type = type /\ as1[i].data = <<"hex", chosen[i].data>>
        BY <2>5 DEF Answer, Hex
      <4> QED
        BY <4>1 DEF Accepts, AcceptsAddress, IsAddress
    <3>7. MultiAnswer(as1).answers = as1 /\ MultiAnswer(as1).declared = k
      BY <2>1, <2>5, <3>6, AllAccepted
    <3> QED
      BY <2>6, <3>5, <3>7 DEF Gives, Found, v, as1
  <2> QED
    BY <2>7, <2>8
<1> QED
  BY <1>1, <1>2

\* A zone without CNAME records redirects nothing.
LEMMA NoRedirect ==
    ASSUME NEW zone, NEW sub, "CNAME" \notin DOMAIN zone.types
    PROVE  CnameTarget(zone, sub) = None
<1> DEFINE recs == Named(RecordsOf(zone, "CNAME"))
<1>1. DOMAIN recs = {}
  BY DEF Named, RecordsOf, NoTypes, Restrict
<1> HIDE DEF recs
<1>2. FirstKey(recs, sub) = NoKey
  BY <1>1, KeyFound
<1> QED
  BY <1>2 DEF CnameTarget, Decide, Value, recs

\* An address query the documentation settles is answered by the records of its type.
LEMMA SettledLookup ==
    ASSUME FileInv, phase = "ready", NEW q \in Queries, Settled(q)
    PROVE  Gives(CheckLocalMatch(q), DocumentedAnswer(q))
<1> DEFINE z == RootDomain(q.name)
           zone == zones[z]
           rs == source[z]
           sub == SubDomain(q.name)
           recs == RecordsOf(zone, q.type)
           chosen == Chosen(rs, q.type, sub)
<1>1. /\ q.type \in {"A", "AAAA"} /\ sub # <<"@">> /\ IsAddress(q.type)
      /\ z \in DOMAIN zones /\ ~ zone.blocked /\ Plain(rs)
  BY DEF Settled, IsAddress
<1>2. /\ rs \in Seq(Records) /\ \A type, n : Picked(rs, type, n)
      /\ ZoneReflects(zone, rs, "ready")
  BY <1>1 DEF FileInv
<1>3. Agree(recs, rs, q.type)
  BY <1>1, <1>2 DEF Agree, ZoneReflects
<1>4. Len(sub) \in Nat
  <2>1. q.name \in Seq(Range(q.name))
    BY QueryAssumption
  <2>2. CASE Len(q.name) < 2
    <3>1. sub = <<>>
      BY <2>2 DEF SubDomain
    <3> QED
      BY <3>1
  <2>3. CASE ~ Len(q.name) < 2
    <3>1. sub = SubSeq(q.name, 1, Len(q.name) - 2)
      BY <2>3 DEF SubDomain
    <3> QED
      BY <2>1, <2>3, <3>1
  <2> QED
    BY <2>2, <2>3
<1>5. "CNAME" \notin DOMAIN zone.types
  BY <1>1, <1>2 DEF ZoneReflects, Plain
<1>6. CheckLocalMatch(q) = CheckInZone(zone, CnameTarget(zone, sub), q)
  BY <1>1 DEF CheckLocalMatch
<1>7. DocumentedAnswer(q) = AnswersOf(chosen, q.type)
  BY DEF DocumentedAnswer
<1>8. CheckType(zone, q) = TypeFound(q.type, Decide(recs, sub))
  BY DEF CheckType
<1> HIDE DEF z, zone, rs, sub, recs
<1>9. CnameTarget(zone, sub) = None
  BY <1>5, NoRedirect
<1>10. CheckInZone(zone, None, q) = CheckType(zone, q)
  BY <1>1 DEF CheckInZone
<1>11. Decide(recs, sub) = Outcome(chosen)
  BY <1>1, <1>3, <1>4, DecidesChosen
<1>12. Gives(TypeFound(q.type, Outcome(chosen)), AnswersOf(chosen, q.type))
  BY <1>1, <1>3, ChosenPicked, OutcomeGives
<1> QED
  BY <1>6, <1>7, <1>8, <1>9, <1>10, <1>11, <1>12

\* Whatever zones.json holds, an address query in a plain zone is answered as README.md
\* describes it: all the records of the name, or of the wildcard, in file order, or
\* forwarding (local_dns.cc:483-537, config_parser.cc:118-276).
THEOREM DocumentationHolds == Spec => []MatchesDocumentation
<1>1. Init => TableOK /\ FileInv
  BY TableInit, FileInit
<1>2. TableOK /\ FileInv /\ [Next]_vars => (TableOK /\ FileInv)'
  BY TableStep, FileStep
<1>3. TableOK /\ FileInv => MatchesDocumentation
  BY SettledLookup DEF MatchesDocumentation
<1> QED
  BY <1>1, <1>2, <1>3, PTL DEF Spec

-----------------------------------------------------------------------------
(* The cache of compiled expressions *)

\* What stays behind a failed compilation is a null, and only for a pattern that
\* does not compile.
NullsInvalid == \A p \in DOMAIN cache : cache[p] = "null" => p \in Invalid

\* The cache is a finite map from patterns, never larger than its bound.
Bounded == /\ DOMAIN cache \subseteq Patterns
           /\ cache \in [DOMAIN cache -> {"null", "compiled"}]
           /\ IsFiniteSet(DOMAIN cache)
           /\ Cardinality(DOMAIN cache) <= DNS_REGEX_CACHE_SIZE

CallTyped == call \in [input : Inputs, pattern : Patterns, result : R!Results]
                      \cup {[result |-> "none"]}

CacheIInv == Bounded /\ CallTyped /\ NullsInvalid /\ R!CacheTransparent

\* The cardinality of FiniteSets, as RegexCache has it and as this module has it.
LEMMA SameCardinality == \A S : R!Cardinality(S) = Cardinality(S)
  BY DEF R!Cardinality, Cardinality

\* What Evict leaves is part of the cache and has room for one more pattern.
LEMMA EvictKeeps ==
    ASSUME DNS_REGEX_CACHE_SIZE \in Nat \ {0}, Bounded, NullsInvalid
    PROVE  /\ DOMAIN R!Evict(cache) \subseteq Patterns
           /\ R!Evict(cache) \in [DOMAIN R!Evict(cache) -> {"null", "compiled"}]
           /\ IsFiniteSet(DOMAIN R!Evict(cache))
           /\ Cardinality(DOMAIN R!Evict(cache)) + 1 <= DNS_REGEX_CACHE_SIZE
           /\ \A q \in DOMAIN R!Evict(cache) : R!Evict(cache)[q] = "null" => q \in Invalid
  <1>0. Cardinality(DOMAIN cache) \in Nat
    BY FS_CardinalityType DEF Bounded
  <1>1. CASE Cardinality(DOMAIN cache) >= DNS_REGEX_CACHE_SIZE
    <2>1. R!Evict(cache) = R!Empty /\ DOMAIN R!Empty = {}
      BY <1>1, SameCardinality DEF R!Evict, R!Empty
    <2>2. IsFiniteSet({}) /\ Cardinality({}) = 0
      BY FS_EmptySet
    <2> QED
      BY <2>1, <2>2, SMT DEF R!Empty
  <1>2. CASE ~ (Cardinality(DOMAIN cache) >= DNS_REGEX_CACHE_SIZE)
    <2>1. R!Evict(cache) = cache
      BY <1>2, SameCardinality DEF R!Evict
    <2>2. Cardinality(DOMAIN cache) + 1 <= DNS_REGEX_CACHE_SIZE
      BY <1>0, <1>2
    <2> QED
      BY <2>1, <2>2 DEF Bounded, NullsInvalid
  <1> QED
    BY <1>1, <1>2

\* A map with one pattern more is a map, with at most one entry more.
LEMMA EmplaceKeeps ==
    ASSUME NEW c, NEW p \in Patterns, DOMAIN c \subseteq Patterns,
           c \in [DOMAIN c -> {"null", "compiled"}], IsFiniteSet(DOMAIN c)
    PROVE  /\ DOMAIN R!Emplace(c, p) = DOMAIN c \cup {p}
           /\ R!Emplace(c, p) \in [DOMAIN R!Emplace(c, p) -> {"null", "compiled"}]
           /\ IsFiniteSet(DOMAIN R!Emplace(c, p))
           /\ Cardinality(DOMAIN R!Emplace(c, p)) <= Cardinality(DOMAIN c) + 1
           /\ \A q \in DOMAIN c : R!Emplace(c, p)[q] = c[q]
  <1>1. DOMAIN R!Emplace(c, p) = DOMAIN c \cup {p}
    BY DEF R!Emplace
  <1>2. R!Emplace(c, p) \in [DOMAIN R!Emplace(c, p) -> {"null", "compiled"}]
    BY DEF R!Emplace
  <1>3. IsFiniteSet(DOMAIN c \cup {p})
    BY FS_AddElement
  <1>4. Cardinality(DOMAIN c \cup {p}) <= Cardinality(DOMAIN c) + 1
    <2>1. Cardinality(DOMAIN c) \in Nat
      BY FS_CardinalityType
    <2>2. CASE p \in DOMAIN c
      <3>1. DOMAIN c \cup {p} = DOMAIN c
        BY <2>2
      <3> QED
        BY <2>1, <3>1
    <2>3. CASE p \notin DOMAIN c
      <3>1. Cardinality(DOMAIN c \cup {p}) = Cardinality(DOMAIN c) + 1
        BY <2>3, FS_AddElement, Zenon
      <3> QED
        BY <2>1, <3>1
    <2> QED
      BY <2>2, <2>3
  <1> QED
    BY <1>1, <1>2, <1>3, <1>4 DEF R!Emplace

\* Every call keeps the invariant: the patterns that match as they should are the
\* ones that compile, whichever of the three ways the call takes.
LEMMA SafeRegexMatchKeeps ==
    ASSUME DNS_REGEX_CACHE_SIZE \in Nat \ {0}, CacheIInv,
           NEW s \in Inputs, NEW p \in Patterns, R!SafeRegexMatch(s, p)
    PROVE  CacheIInv'
  <1> DEFINE kept == R!Evict(cache)
             more == R!Emplace(kept, p)
             matches == IF s \in MatchedBy[p] THEN "true" ELSE "false"
             Done(r) == call' = [input |-> s, pattern |-> p, result |-> r]
  <1>1. /\ DOMAIN kept \subseteq Patterns
        /\ kept \in [DOMAIN kept -> {"null", "compiled"}]
        /\ IsFiniteSet(DOMAIN kept)
        /\ Cardinality(DOMAIN kept) + 1 <= DNS_REGEX_CACHE_SIZE
        /\ \A q \in DOMAIN kept : kept[q] = "null" => q \in Invalid
    BY EvictKeeps DEF CacheIInv
  <1>2. /\ DOMAIN more = DOMAIN kept \cup {p}
        /\ more \in [DOMAIN more -> {"null", "compiled"}]
        /\ IsFiniteSet(DOMAIN more)
        /\ Cardinality(DOMAIN more) <= Cardinality(DOMAIN kept) + 1
        /\ \A q \in DOMAIN kept : more[q] = kept[q]
    BY <1>1, EmplaceKeeps
  <1>3. Cardinality(DOMAIN kept) \in Nat /\ Cardinality(DOMAIN more) \in Nat
    BY <1>1, <1>2, FS_CardinalityType
  <1>4. Cardinality(DOMAIN more) <= DNS_REGEX_CACHE_SIZE
    BY <1>1, <1>2, <1>3
  <1> HIDE DEF kept, more
  <1>8. ASSUME NEW r \in R!Results, Done(r)
        PROVE  CallTyped'
    BY <1>8 DEF CallTyped
  <1>9. matches \in R!Results /\ "false" \in R!Results /\ "undefined" \in R!Results
    BY DEF R!Results
  <1>5. CASE p \notin DOMAIN kept /\ p \notin Invalid
             /\ cache' = [more EXCEPT ![p] = "compiled"] /\ Done(matches)
    <2>1. DOMAIN cache' = DOMAIN more
      BY <1>5
    <2>2. Bounded'
      BY <1>1, <1>2, <1>4, <1>5, <2>1 DEF Bounded
    <2>3. NullsInvalid'
      BY <1>1, <1>2, <1>5, <2>1 DEF NullsInvalid
    <2>4. R!CacheTransparent'
      BY <1>5 DEF R!CacheTransparent
    <2>5. CallTyped'
      BY <1>5, <1>8, <1>9
    <2> QED
      BY <2>2, <2>3, <2>4, <2>5 DEF CacheIInv
  <1>6. CASE p \notin DOMAIN kept /\ p \in Invalid /\ cache' = more /\ Done("false")
    <2>1. Bounded'
      BY <1>1, <1>2, <1>4, <1>6 DEF Bounded
    <2>2. NullsInvalid'
      BY <1>1, <1>2, <1>6 DEF NullsInvalid
    <2>3. R!CacheTransparent'
      BY <1>6 DEF R!CacheTransparent
    <2>4. CallTyped'
      BY <1>6, <1>8, <1>9
    <2> QED
      BY <2>1, <2>2, <2>3, <2>4 DEF CacheIInv
  <1>7. CASE p \in DOMAIN kept /\ cache' = kept
             /\ Done(IF kept[p] = "compiled" THEN matches ELSE "undefined")
    <2>1. Bounded'
      BY <1>1, <1>3, <1>7 DEF Bounded
    <2>2. NullsInvalid'
      BY <1>1, <1>7 DEF NullsInvalid
    <2>3. kept[p] = "compiled" \/ p \in Invalid
      BY <1>1, <1>7
    <2>4. R!CacheTransparent'
      BY <1>7, <2>3 DEF R!CacheTransparent
    <2>5. (IF kept[p] = "compiled" THEN matches ELSE "undefined") \in R!Results
      BY <1>9
    <2>6. CallTyped'
      BY <1>7, <1>8, <2>5
    <2> QED
      BY <2>1, <2>2, <2>4, <2>6 DEF CacheIInv
  <1> QED
    BY <1>5, <1>6, <1>7 DEF R!SafeRegexMatch, kept, more

\* Caching compiled expressions changes no verdict on a valid pattern, whatever
\* earlier calls, evictions and failed compilations left in the cache
\* (local_dns.cc:64-82), and the cache is well typed and within its bound.
THEOREM RegexCacheTransparent ==
    ASSUME DNS_REGEX_CACHE_SIZE \in Nat \ {0}
    PROVE  R!Spec => [](R!CacheTransparent /\ R!TypeOK)
  <1>1. R!Init => CacheIInv
    <2> SUFFICES ASSUME R!Init PROVE CacheIInv
      OBVIOUS
    <2>1. cache = R!Empty /\ DOMAIN R!Empty = {}
      BY DEF R!Init, R!Empty
    <2>2. IsFiniteSet({}) /\ Cardinality({}) = 0
      BY FS_EmptySet
    <2>3. Bounded
      BY <2>1, <2>2, SMT DEF Bounded, R!Empty
    <2> QED
      BY <2>1, <2>3 DEF R!Init, CacheIInv, CallTyped, NullsInvalid, R!CacheTransparent
  <1>2. CacheIInv /\ [R!Next]_(R!vars) => CacheIInv'
    <2> SUFFICES ASSUME CacheIInv, [R!Next]_(R!vars) PROVE CacheIInv'
      OBVIOUS
    <2>1. CASE R!Next
      BY <2>1, SafeRegexMatchKeeps DEF R!Next
    <2>2. CASE UNCHANGED R!vars
      BY <2>2 DEF R!vars, CacheIInv, Bounded, CallTyped, NullsInvalid, R!CacheTransparent
    <2> QED
      BY <2>1, <2>2
  <1>3. CacheIInv => R!CacheTransparent /\ R!TypeOK
    BY SameCardinality DEF CacheIInv, Bounded, CallTyped, R!TypeOK
  <1> QED
    BY <1>1, <1>2, <1>3, PTL DEF R!Spec

==============================================================================
