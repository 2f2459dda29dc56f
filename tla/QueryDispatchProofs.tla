------------------------- MODULE QueryDispatchProofs -------------------------
(***************************************************************************)
(* What a query is answered with, for any queries, upstream answers, local *)
(* zones, capacity and clock.  The argument is compositional: every step   *)
(* of a handler is a step of DnsCache or leaves it alone, so what          *)
(* DnsCacheProofs shows of the cache holds inside the server as well.      *)
(***************************************************************************)
EXTENDS QueryDispatch, FiniteSetTheorems, SequenceTheorems, TLAPS

Message == [txn : Txn \cup {NoTxn}, shape : {"short", "badquestion", "ok"},
            rrs : Seq(RR), body : Body]

\* The cache with every message as a possible upstream response: the handler
\* inserts what Resolve returns.
P == INSTANCE DnsCacheProofs WITH Txn <- Txn \cup {NoTxn}, Bodies <- Body,
                                  Responses <- Message

LEMMA MessageTypes == C!Response = Message /\ P!Response = Message
BY DEF Message, C!Response, P!Response, C!RR, P!RR, RR

\* What DnsCacheProofs assumes of its constants.
LEMMA CacheAssumptions ==
    /\ P!CapacityAssumption /\ P!ClockAssumption
    /\ P!TtlAssumption /\ P!ResponsesAssumption
BY DispatchAssumption, MessageTypes DEF P!CapacityAssumption, P!ClockAssumption,
   P!TtlAssumption, P!ResponsesAssumption

-----------------------------------------------------------------------------
(* The two instances of the cache agree *)

LEMMA SameHelpers ==
    /\ \A n, t : C!KeyOf(n, t) = P!KeyOf(n, t)
    /\ \A r : C!ExtractMinTtl(r) = P!ExtractMinTtl(r)
    /\ \A e : C!Elapsed(e) = P!Elapsed(e)
    /\ \A e : C!Expired(e) <=> P!Expired(e)
    /\ \A r, n : C!AdjustTtls(r, n) = P!AdjustTtls(r, n)
    /\ \A f, S : C!Restrict(f, S) = P!Restrict(f, S)
<1>1. \A n, t : C!KeyOf(n, t) = P!KeyOf(n, t)
  BY DEF C!KeyOf, P!KeyOf, C!ToLower, P!ToLower
<1>2. \A r : C!Ttls(r) = P!Ttls(r)
  BY DEF C!Ttls, P!Ttls
<1>3. \A S : C!Min(S) = P!Min(S)
  BY DEF C!Min, P!Min
<1>4. \A r : C!ExtractMinTtl(r) = P!ExtractMinTtl(r)
  BY <1>2, <1>3 DEF C!ExtractMinTtl, P!ExtractMinTtl
<1>5. \A e : C!Elapsed(e) = P!Elapsed(e)
  BY DEF C!Elapsed, P!Elapsed
<1>6. \A e : C!Expired(e) <=> P!Expired(e)
  BY <1>5 DEF C!Expired, P!Expired
<1>7. \A r, n : C!AdjustTtls(r, n) = P!AdjustTtls(r, n)
  BY DEF C!AdjustTtls, P!AdjustTtls
<1>8. \A f, S : C!Restrict(f, S) = P!Restrict(f, S)
  BY DEF C!Restrict, P!Restrict
<1>9. QED
  BY <1>1, <1>4, <1>5, <1>6, <1>7, <1>8

LEMMA SameMakeRoom == \A c, k : C!MakeRoom(c, k) = P!MakeRoom(c, k)
<1> SUFFICES ASSUME NEW c, NEW k PROVE C!MakeRoom(c, k) = P!MakeRoom(c, k)
  OBVIOUS
<1>1. \A d : C!EvictExpired(d) = P!EvictExpired(d)
  BY SameHelpers DEF C!EvictExpired, P!EvictExpired
<1>2. \A d : C!Oldest(d) = P!Oldest(d)
  BY DEF C!Oldest, P!Oldest
<1> DEFINE live == C!EvictExpired(c)
<1>3. live = P!EvictExpired(c)
  BY <1>1
<1> HIDE DEF live
<1>4. {C!Restrict(live, DOMAIN live \ {o}) : o \in C!Oldest(live)}
        = {P!Restrict(live, DOMAIN live \ {o}) : o \in P!Oldest(live)}
  BY <1>2, SameHelpers
<1>5. \A S : C!Cardinality(S) = P!Cardinality(S)
  BY DEF C!Cardinality, P!Cardinality
<1>6. C!MakeRoom(c, k) =
        IF P!Cardinality(DOMAIN c) < MaxEntries \/ k \in DOMAIN c THEN {c}
        ELSE IF P!Cardinality(DOMAIN live) < MaxEntries THEN {live}
             ELSE {C!Restrict(live, DOMAIN live \ {o}) : o \in C!Oldest(live)}
  BY <1>5 DEF C!MakeRoom, live
<1>7. P!MakeRoom(c, k) =
        IF P!Cardinality(DOMAIN c) < MaxEntries \/ k \in DOMAIN c THEN {c}
        ELSE IF P!Cardinality(DOMAIN live) < MaxEntries THEN {live}
             ELSE {P!Restrict(live, DOMAIN live \ {o}) : o \in P!Oldest(live)}
  BY <1>3 DEF P!MakeRoom
<1>8. QED
  BY <1>4, <1>6, <1>7, Zenon

LEMMA SameActions ==
    /\ C!Init => P!Init
    /\ \A k : C!LookupAbsent(k) => P!LookupAbsent(k)
    /\ \A k : C!LookupExpired(k) => P!LookupExpired(k)
    /\ \A k, t : C!LookupHit(k, t) => P!LookupHit(k, t)
    /\ \A n, t, r : C!Insert(n, t, r) => P!Insert(n, t, r)
    /\ \A r : C!InsertRefused(r) => P!InsertRefused(r)
    /\ C!Tick => P!Tick
<1>0. C!NoReply = P!NoReply /\ C!Miss = P!Miss
  BY DEF C!NoReply, P!NoReply, C!Miss, P!Miss
<1>1. C!Init => P!Init
  BY <1>0 DEF C!Init, P!Init
<1>2. \A k : C!LookupAbsent(k) => P!LookupAbsent(k)
  BY <1>0 DEF C!LookupAbsent, P!LookupAbsent
<1>3. \A k : C!LookupExpired(k) => P!LookupExpired(k)
  BY <1>0, SameHelpers DEF C!LookupExpired, P!LookupExpired
<1>4. \A k, t : C!LookupHit(k, t) => P!LookupHit(k, t)
  BY SameHelpers DEF C!LookupHit, P!LookupHit
<1>5. \A n, t, r : C!Insert(n, t, r) => P!Insert(n, t, r)
  <2> SUFFICES ASSUME NEW n, NEW t, NEW r, C!Insert(n, t, r) PROVE P!Insert(n, t, r)
    OBVIOUS
  <2> DEFINE k == C!KeyOf(n, t)
             e == [response |-> r, insert_time |-> now, min_ttl |-> C!ExtractMinTtl(r)]
  <2>1. PICK c \in C!MakeRoom(cache, k) : cache' = C!Store(c, k, e)
    BY DEF C!Insert
  <2>2. k = P!KeyOf(n, t) /\ C!ExtractMinTtl(r) = P!ExtractMinTtl(r)
    BY SameHelpers
  <2>3. c \in P!MakeRoom(cache, k)
    BY <2>1, SameMakeRoom
  <2>4. C!Store(c, k, e) = P!Store(c, k, e)
    BY DEF C!Store, P!Store
  <2>5. C!ExtractMinTtl(r) # 0 /\ reply' = P!NoReply /\ UNCHANGED now
    BY <1>0 DEF C!Insert
  <2> HIDE DEF k
  <2>6. QED
    BY <2>1, <2>2, <2>3, <2>4, <2>5 DEF P!Insert
<1>6. \A r : C!InsertRefused(r) => P!InsertRefused(r)
  BY <1>0, SameHelpers DEF C!InsertRefused, P!InsertRefused
<1>7. C!Tick => P!Tick
  BY <1>0 DEF C!Tick, P!Tick
<1>8. QED
  BY <1>1, <1>2, <1>3, <1>4, <1>5, <1>6, <1>7

-----------------------------------------------------------------------------
(* Messages *)

\* An OPT record appended to a message: one more, after all the others.
LEMMA AppendOptFacts ==
    ASSUME NEW m \in Message
    PROVE  LET a == AppendOpt(m)
           IN  /\ a \in Message
               /\ a.txn = m.txn /\ a.shape = m.shape /\ a.body = m.body
               /\ DOMAIN m.rrs \subseteq DOMAIN a.rrs
               /\ \A i \in DOMAIN m.rrs : a.rrs[i] = m.rrs[i]
               /\ Opts(a) = Opts(m) + 1
<1> DEFINE s == m.rrs
           t == Append(s, Opt)
           a == AppendOpt(m)
<1>1. s \in Seq(RR) /\ Opt \in RR
  BY DispatchAssumption DEF Message, RR, Opt
<1>2. /\ t \in Seq(RR) /\ Len(s) \in Nat /\ DOMAIN s = 1 .. Len(s)
      /\ DOMAIN t = 1 .. Len(s) + 1 /\ t[Len(s) + 1] = Opt
      /\ \A i \in 1 .. Len(s) : t[i] = s[i]
  BY <1>1, SMT
<1> HIDE DEF s, t
<1>3. a = [m EXCEPT !.rrs = t]
  BY DEF AppendOpt, Message, s, t
<1> HIDE DEF a
<1>4. a \in Message /\ a.txn = m.txn /\ a.shape = m.shape /\ a.body = m.body
      /\ a.rrs = t
  BY <1>2, <1>3 DEF Message
<1> DEFINE S == {i \in DOMAIN s : s[i].opt}
           T == {i \in DOMAIN t : t[i].opt}
<1>5. T = S \cup {Len(s) + 1} /\ Len(s) + 1 \notin S
  BY <1>2, SMT DEF Opt
<1>6. IsFiniteSet(S)
  <2>1. S \subseteq 1 .. Len(s)
    BY <1>2
  <2>2. IsFiniteSet(1 .. Len(s))
    BY <1>2, FS_Interval
  <2>3. QED
    BY <2>1, <2>2, FS_Subset
<1>7. Cardinality(T) = Cardinality(S) + 1
  BY <1>5, <1>6, FS_AddElement
<1>8. Opts(a) = Cardinality(T) /\ Opts(m) = Cardinality(S)
  BY <1>4 DEF Opts, s
<1>9. DOMAIN s \subseteq DOMAIN t /\ \A i \in DOMAIN s : t[i] = s[i]
  BY <1>2, SMT
<1>10. QED
  BY <1>4, <1>7, <1>8, <1>9 DEF a, s

LEMMA OptsType == ASSUME NEW m \in Message PROVE Opts(m) \in Nat
<1>1. m.rrs \in Seq(RR)
  BY DEF Message
<1>2. DOMAIN m.rrs = 1 .. Len(m.rrs) /\ Len(m.rrs) \in Nat
  BY <1>1, SMT
<1>3. IsFiniteSet(DOMAIN m.rrs)
  BY <1>2, FS_Interval
<1>4. IsFiniteSet({i \in DOMAIN m.rrs : m.rrs[i].opt})
  BY <1>3, FS_Subset
<1>5. QED
  BY <1>4, FS_CardinalityType DEF Opts

LEMMA NoOpts == ASSUME NEW m, m.rrs = <<>> PROVE Opts(m) = 0
<1>1. {i \in DOMAIN m.rrs : m.rrs[i].opt} = {}
  <2>1. DOMAIN m.rrs = {}
    BY SMT
  <2>2. QED
    BY <2>1
<1>2. QED
  BY <1>1, FS_EmptySet DEF Opts

LEMMA AboutType ==
    ASSUME NEW q \in Queries
    PROVE  /\ About(q) \in Question
           /\ About(q)[1] = q.name[1] /\ About(q)[2] = q.qtype
<1>1. q.name \in Name /\ q.qtype \in Qtypes /\ q.form \in Forms
  BY DispatchAssumption DEF Query
<1>2. QED
  BY <1>1 DEF About, Name, Question

\* What a message made for q must satisfy.
OwnReply(q, m) ==
    /\ m.txn = q.txn
    /\ m.body.about = IF q.wellformed /\ Encodable(q) THEN About(q) ELSE Nothing
    /\ m.shape = "ok" \/ ~ Encodable(q)

\* Records of such a message, before anything is appended: none.
LEMMA OwnFacts ==
    ASSUME NEW q \in Queries, NEW source \in Sources \cup {"none"},
           NEW about \in Question \cup {Nothing},
           NEW txn \in Txn \cup {NoTxn}, NEW shape \in {"short", "badquestion", "ok"},
           NEW m, m = [txn |-> txn, shape |-> shape, rrs |-> <<>>,
                       body |-> OwnBody(source, about)]
    PROVE  /\ m \in Message
           /\ m.txn = txn /\ m.shape = shape
           /\ m.body.about = about /\ m.body.source = source
           /\ Opts(m) = 0 /\ Opts(m.body) = 0
<1> DEFINE e == <<>>
           b == [source |-> source, about |-> about, asked |-> Nothing, echoed |-> FALSE,
                 at |-> 0, rrs |-> e]
<1>1. m = [txn |-> txn, shape |-> shape, rrs |-> e, body |-> b]
  BY DEF OwnBody
<1>2. m.rrs = <<>> /\ m.body.rrs = <<>>
  BY <1>1
<1>3. Opts(m) = 0 /\ Opts(m.body) = 0
  BY <1>2, NoOpts
<1>4. e \in Seq(RR) /\ 0 \in 0 .. MaxTime
  BY DispatchAssumption, SMT
<1>5. b.about = about /\ b.source = source
  OBVIOUS
<1> HIDE DEF e
<1>6. b \in Body
  BY <1>4 DEF Body
<1> HIDE DEF b
<1>7. m \in Message
  BY <1>1, <1>4, <1>6 DEF Message
<1>8. QED
  BY <1>1, <1>3, <1>5, <1>7

\* Messages made here: the client's id and, if it can be written, its question;
\* no record, not from upstream.
LEMMA MadeFacts ==
    ASSUME NEW q \in Queries, q.wellformed, NEW source \in Sources
    PROVE  /\ Made(q, source) \in Message /\ OwnReply(q, Made(q, source))
           /\ Made(q, source).body.source = source
           /\ Opts(Made(q, source)) = 0 /\ Opts(Made(q, source).body) = 0
<1> DEFINE m == Made(q, source)
           shape == IF Encodable(q) THEN "ok" ELSE "badquestion"
           about == IF Encodable(q) THEN About(q) ELSE Nothing
<1>1. q.txn \in Txn \cup {NoTxn} /\ about \in Question \cup {Nothing}
      /\ shape \in {"short", "badquestion", "ok"}
  BY AboutType, DispatchAssumption DEF Query
<1>2. m = [txn |-> q.txn, shape |-> shape, rrs |-> <<>>, body |-> OwnBody(source, about)]
  BY DEF Made
<1> HIDE DEF m, shape, about
<1>3. /\ m \in Message /\ m.txn = q.txn /\ m.shape = shape
      /\ m.body.about = about /\ m.body.source = source
      /\ Opts(m) = 0 /\ Opts(m.body) = 0
  BY <1>1, <1>2, OwnFacts
<1>4. OwnReply(q, m)
  BY <1>3 DEF OwnReply, shape, about
<1>5. QED
  BY <1>3, <1>4 DEF m

LEMMA FormerrFacts ==
    ASSUME NEW q \in Queries
    PROVE  /\ FORMERR(q) \in Message /\ OwnReply(q, FORMERR(q))
           /\ FORMERR(q).body.source = "FORMERR"
           /\ Opts(FORMERR(q)) = 0 /\ Opts(FORMERR(q).body) = 0
<1>0. "FORMERR" \in Sources
  BY DEF Sources
<1>1. CASE q.wellformed /\ Encodable(q)
  BY <1>0, <1>1, MadeFacts DEF FORMERR
<1>2. CASE ~ (q.wellformed /\ Encodable(q))
  <2> DEFINE m == FORMERR(q)
  <2>1. q.txn \in Txn \cup {NoTxn}
    BY DispatchAssumption DEF Query
  <2>2. m = [txn |-> q.txn, shape |-> "ok", rrs |-> <<>>, body |-> OwnBody("FORMERR", Nothing)]
    BY <1>2 DEF FORMERR, Bare
  <2> HIDE DEF m
  <2>3. /\ m \in Message /\ m.txn = q.txn /\ m.shape = "ok"
        /\ m.body.about = Nothing /\ m.body.source = "FORMERR"
        /\ Opts(m) = 0 /\ Opts(m.body) = 0
    BY <1>0, <2>1, <2>2, OwnFacts
  <2>4. OwnReply(q, m)
    BY <1>2, <2>3 DEF OwnReply
  <2>5. QED
    BY <2>3, <2>4 DEF m
<1>3. QED
  BY <1>1, <1>2

LEMMA EmptyFacts ==
    ASSUME NEW q \in Queries
    PROVE  /\ Empty \in Message
           /\ Empty.shape = "short" /\ Empty.body.source = "none"
           /\ Opts(Empty) = 0 /\ Opts(Empty.body) = 0
<1> DEFINE m == Empty
<1>1. m = [txn |-> NoTxn, shape |-> "short", rrs |-> <<>>, body |-> OwnBody("none", Nothing)]
  BY DEF Empty
<1> HIDE DEF m
<1>2. /\ m \in Message /\ m.shape = "short" /\ m.body.source = "none"
      /\ Opts(m) = 0 /\ Opts(m.body) = 0
  BY <1>1, OwnFacts
<1>3. QED
  BY <1>2 DEF m

\* What a body from upstream says of the query it was got for.
Truthful(b, q) ==
    /\ b.source = "upstream" /\ b.asked = About(q)
    /\ b.echoed => b.about = About(q)

\* What Resolve may return with Success.
LEMMA AnswerFacts ==
    ASSUME NEW q \in Queries, now \in 0 .. MaxTime, NEW m \in Answers(q)
    PROVE  /\ m \in Message
           /\ \/ m = Empty
              \/ /\ Truthful(m.body, q)
                 /\ m.body.echoed => m.txn = q.txn
                 /\ m.body.at = now /\ m.body.rrs = m.rrs
<1>1. CASE m = Empty
  BY <1>1, EmptyFacts
<1>2. ASSUME NEW e \in [txn : Txn, about : Question \cup {Nothing}],
             NEW shape \in {"short", "badquestion", "ok"}, NEW rs \in Seq(RR),
             m = Got(q, e, shape, rs)
      PROVE  /\ m \in Message /\ Truthful(m.body, q)
             /\ m.body.echoed => m.txn = q.txn
             /\ m.body.at = now /\ m.body.rrs = m.rrs
  <2> DEFINE same == (e = Repeats(q))
             b == [source |-> "upstream", about |-> e.about, asked |-> About(q),
                   echoed |-> same, at |-> now, rrs |-> rs]
  <2>0. m = [txn |-> e.txn, shape |-> shape, rrs |-> rs, body |-> b]
    BY <1>2 DEF Got
  <2>a. same => e.txn = q.txn /\ e.about = About(q)
    BY DEF Repeats
  <2>b. same \in BOOLEAN
    OBVIOUS
  <2> HIDE DEF same
  <2>1. b \in Body
    <3>1. e.about \in Question \cup {Nothing} /\ About(q) \in Question \cup {Nothing}
          /\ "upstream" \in Sources
      BY AboutType DEF Sources
    <3>2. QED
      BY <2>b, <3>1 DEF Body
  <2>2. /\ b.source = "upstream" /\ b.asked = About(q) /\ b.at = now /\ b.rrs = rs
        /\ b.about = e.about /\ b.echoed = same
    OBVIOUS
  <2>3. b.echoed => e.txn = q.txn /\ e.about = About(q)
    BY <2>2, <2>a
  <2>4. m = [txn |-> e.txn, shape |-> shape, rrs |-> rs, body |-> b]
    BY <2>0
  <2> HIDE DEF b
  <2>5. m \in Message
    BY <2>1, <2>4 DEF Message
  <2>6. m.body = b /\ m.rrs = rs /\ m.txn = e.txn
    BY <2>4
  <2>7. QED
    BY <2>2, <2>3, <2>5, <2>6 DEF Truthful
<1>3. CASE m # Empty
  <2>1. Repeats(q) \in [txn : Txn, about : Question \cup {Nothing}]
    BY AboutType, DispatchAssumption DEF Repeats, Query
  <2>2. <<>> \in Seq(RR)
    BY SMT
  <2>3. \/ \E e \in {Repeats(q)} \cup Strays, rs \in RecordLists : m = Got(q, e, "ok", rs)
        \/ \E t \in Txn, shape \in {"badquestion", "short"} :
              m = Got(q, [txn |-> t, about |-> Nothing], shape, <<>>)
    <3>1. \/ m \in {Got(q, e, "ok", rs) : e \in {Repeats(q)} \cup Strays, rs \in RecordLists}
          \/ m \in {Got(q, [txn |-> t, about |-> Nothing], shape, <<>>) :
                      t \in Txn, shape \in {"badquestion", "short"}}
      BY <1>3 DEF Answers
    <3>2. QED
      BY <3>1, SMT
  <2>4. CASE \E e \in {Repeats(q)} \cup Strays, rs \in RecordLists : m = Got(q, e, "ok", rs)
    <3>1. PICK e \in {Repeats(q)} \cup Strays, rs \in RecordLists : m = Got(q, e, "ok", rs)
      BY <2>4
    <3>2. e \in [txn : Txn, about : Question \cup {Nothing}] /\ rs \in Seq(RR)
      BY <2>1, DispatchAssumption
    <3>3. QED
      BY <1>2, <3>1, <3>2
  <2>5. CASE \E t \in Txn, shape \in {"badquestion", "short"} :
                m = Got(q, [txn |-> t, about |-> Nothing], shape, <<>>)
    <3>1. PICK t \in Txn, shape \in {"badquestion", "short"} :
            m = Got(q, [txn |-> t, about |-> Nothing], shape, <<>>)
      BY <2>5
    <3>2. [txn |-> t, about |-> Nothing] \in [txn : Txn, about : Question \cup {Nothing}]
      OBVIOUS
    <3>3. QED
      BY <1>2, <2>2, <3>1, <3>2
  <2>6. QED
    BY <2>3, <2>4, <2>5
<1>4. QED
  BY <1>1, <1>3

-----------------------------------------------------------------------------
(* The inductive invariant *)

\* A query that is being resolved passed every check of the handler.
QuerySound == query = NoQuery \/ (query \in Queries /\ Standard(query))

\* The age of an entry is counted from the moment its answer was obtained.
CacheSound ==
    /\ CacheHoldsAnswers
    /\ \A k \in DOMAIN cache :
          LET b == cache[k].response.body
          IN  /\ b.at = cache[k].insert_time
              /\ b.echoed => b.about = b.asked

SentSound ==
    /\ sent \in {NotSent} \cup [query : Queries, message : Message, tc : BOOLEAN,
                                at : 0 .. MaxTime]
    /\ ReplyMatchesQuery /\ TtlHonest /\ OptAccounted

IInv == P!IInv /\ QuerySound /\ CacheSound /\ SentSound

\* The records of m let no client keep what upstream allowed for longer.
Timely(m) ==
    \A i \in DOMAIN m.body.rrs :
       ~ m.body.rrs[i].opt =>
          /\ i \in DOMAIN m.rrs
          /\ m.rrs[i].ttl * TicksPerSec + (now - m.body.at)
                < (m.body.rrs[i].ttl + 1) * TicksPerSec

\* A message that carries on what upstream answered to q's question.
FromUpstream(q, m) ==
    /\ SameKey(m.body.asked, q.name[1], q.qtype)
    /\ m.body.echoed => m.txn = q.txn /\ SameKey(m.body.about, q.name[1], q.qtype)
    /\ Timely(m)

\* What the message sent for q must satisfy, OPT records aside.
Fits(q, m) ==
    /\ m \in Message
    /\ m.body.source = "upstream" => FromUpstream(q, m)
    /\ m.body.source \in Sources \ {"upstream"} => OwnReply(q, m)

\* A message that may go to the tail of the handler for query q.
Good(q, m) == Fits(q, m) /\ Opts(m) = Opts(m.body)

\* What the last message sent must satisfy, whatever was sent before.
LEMMA SendSound ==
    ASSUME NEW q \in Queries, NEW m, NEW tc \in BOOLEAN, now \in 0 .. MaxTime,
           sent' = [query |-> q, message |-> m, tc |-> tc, at |-> now],
           Fits(q, m),
           Opts(m) = Opts(m.body) + (IF OwnOpt(q) THEN 1 ELSE 0)
    PROVE  SentSound'
<1>1. sent'.query = q /\ sent'.message = m /\ sent'.tc = tc /\ sent'.at = now
  OBVIOUS
<1>2. sent' \in [query : Queries, message : Message, tc : BOOLEAN, at : 0 .. MaxTime]
  BY DEF Fits
<1>3. ReplyMatchesQuery'
  BY <1>1 DEF ReplyMatchesQuery, Fits, FromUpstream, OwnReply
<1>4. TtlHonest'
  BY <1>1 DEF TtlHonest, Fits, FromUpstream, Timely
<1>5. OptAccounted'
  BY <1>1 DEF OptAccounted
<1>6. QED
  BY <1>2, <1>3, <1>4, <1>5 DEF SentSound

\* An OPT record appended changes nothing of that.
LEMMA AppendFits ==
    ASSUME NEW q \in Queries, NEW m, Fits(q, m)
    PROVE  /\ Fits(q, AppendOpt(m)) /\ AppendOpt(m).body = m.body
           /\ Opts(AppendOpt(m)) = Opts(m) + 1
<1> DEFINE a == AppendOpt(m)
<1>1. m \in Message
  BY DEF Fits
<1>2. /\ a \in Message
      /\ a.txn = m.txn /\ a.shape = m.shape /\ a.body = m.body
      /\ DOMAIN m.rrs \subseteq DOMAIN a.rrs
      /\ \A i \in DOMAIN m.rrs : a.rrs[i] = m.rrs[i]
      /\ Opts(a) = Opts(m) + 1
  BY <1>1, AppendOptFacts
<1> HIDE DEF a
<1>3. Timely(m) => Timely(a)
  BY <1>2 DEF Timely
<1>4. Fits(q, a)
  BY <1>2, <1>3 DEF Fits, FromUpstream, OwnReply
<1>5. QED
  BY <1>2, <1>4 DEF a

\* The tail of the handler.
LEMMA FinishSound ==
    ASSUME NEW q \in Queries, Standard(q), NEW m, Good(q, m), now \in 0 .. MaxTime,
           Finish(q, m)
    PROVE  SentSound' /\ query' = NoQuery
<1> DEFINE out == IF q.edns = "Ok" THEN AppendOpt(m) ELSE m
           tc == /\ Transport = "udp" /\ q.edns = "Ok"
                 /\ Len(out.rrs) > q.payload
<1>1. sent' = [query |-> q, message |-> out, tc |-> tc, at |-> now] /\ query' = NoQuery
  BY DEF Finish
<1>2. q.wellformed /\ q.edns \in {"None", "Ok"}
  BY DispatchAssumption DEF Standard, BadEdns, Query, EdnsParseStatus
<1>3. Fits(q, m) /\ Opts(m) = Opts(m.body) /\ Opts(m) \in Nat
  BY OptsType DEF Good, Fits
<1>4. Fits(q, out) /\ Opts(out) = Opts(out.body) + (IF OwnOpt(q) THEN 1 ELSE 0)
  <2>1. CASE q.edns = "Ok"
    <3>1. OwnOpt(q) /\ out = AppendOpt(m)
      BY <1>2, <2>1 DEF OwnOpt
    <3>2. QED
      BY <1>3, <3>1, AppendFits
  <2>2. CASE q.edns # "Ok"
    <3>1. ~ OwnOpt(q) /\ out = m
      BY <1>2, <2>2 DEF OwnOpt
    <3>2. QED
      BY <1>3, <3>1, SMT
  <2>3. QED
    BY <2>1, <2>2
<1>5. tc \in BOOLEAN
  OBVIOUS
<1> HIDE DEF out, tc
<1>6. QED
  BY <1>1, <1>4, <1>5, SendSound

\* The replies of the checks, each before any lookup.
LEMMA ErrorSound ==
    ASSUME NEW q \in Queries, now \in 0 .. MaxTime,
           FormErr(q) \/ EdnsError(q) \/ NotImp(q)
    PROVE  SentSound' /\ UNCHANGED <<cacheVars, query>>
<1>1. q.edns \in EdnsParseStatus /\ q.wellformed \in BOOLEAN
  BY DispatchAssumption DEF Query
<1>2. ASSUME NEW m, Fits(q, m), Opts(m) = 0, Opts(m.body) = 0, NEW out,
             \/ ~ OwnOpt(q) /\ out = m
             \/ OwnOpt(q) /\ out = AppendOpt(m),
             Error(q, out)
      PROVE  SentSound' /\ UNCHANGED <<cacheVars, query>>
  <2>1. Fits(q, out) /\ Opts(out) = Opts(out.body) + (IF OwnOpt(q) THEN 1 ELSE 0)
    <3>1. CASE ~ OwnOpt(q) /\ out = m
      BY <1>2, <3>1, SMT
    <3>2. CASE OwnOpt(q) /\ out = AppendOpt(m)
      BY <1>2, <3>2, AppendFits
    <3>3. QED
      BY <1>2, <3>1, <3>2
  <2>2. sent' = [query |-> q, message |-> out, tc |-> FALSE, at |-> now]
        /\ UNCHANGED <<cacheVars, query>>
    BY <1>2 DEF Error
  <2>3. SentSound'
    BY <2>1, <2>2, SendSound
  <2>4. QED
    BY <2>2, <2>3
<1>3. Fits(q, FORMERR(q)) /\ Opts(FORMERR(q)) = 0 /\ Opts(FORMERR(q).body) = 0
  BY FormerrFacts DEF Fits
<1>4. ASSUME q.wellformed, NEW source \in Sources \ {"upstream"}
      PROVE  /\ Fits(q, Made(q, source))
             /\ Opts(Made(q, source)) = 0 /\ Opts(Made(q, source).body) = 0
  BY <1>4, MadeFacts DEF Fits
<1>5. CASE FormErr(q)
  <2>1. ~ OwnOpt(q) /\ Error(q, FORMERR(q))
    BY <1>5 DEF FormErr, OwnOpt
  <2>2. QED
    BY <1>2, <1>3, <2>1
<1>6. CASE EdnsError(q) /\ q.edns # "BadVersion"
  <2>1. OwnOpt(q) /\ Error(q, AppendOpt(FORMERR(q)))
    BY <1>6 DEF EdnsError, BadEdns, FORMERR_OPT, OwnOpt
  <2>2. QED
    BY <1>2, <1>3, <2>1
<1>7. CASE EdnsError(q) /\ q.edns = "BadVersion"
  <2>1. q.wellformed /\ "BADVERS" \in Sources \ {"upstream"}
    BY <1>7 DEF EdnsError, Sources
  <2>2. OwnOpt(q) <=> Encodable(q)
    BY <1>7, <2>1 DEF OwnOpt
  <2>3. Error(q, IF Encodable(q) THEN AppendOpt(Made(q, "BADVERS")) ELSE Made(q, "BADVERS"))
    BY <1>7 DEF EdnsError, BADVERS
  <2>4. /\ Fits(q, Made(q, "BADVERS"))
        /\ Opts(Made(q, "BADVERS")) = 0 /\ Opts(Made(q, "BADVERS").body) = 0
    BY <1>4, <2>1
  <2>5. QED
    BY <1>2, <2>2, <2>3, <2>4
<1>8. CASE NotImp(q)
  <2>1. "NOTIMP" \in Sources \ {"upstream"} /\ q.wellformed
    BY <1>8 DEF Sources, NotImp
  <2>2. Fits(q, NOTIMP(q)) /\ Opts(NOTIMP(q)) = 0 /\ Opts(NOTIMP(q).body) = 0
    BY <1>4, <2>1 DEF NOTIMP
  <2>3. CASE q.edns = "Ok"
    <3>1. OwnOpt(q) /\ Error(q, AppendOpt(NOTIMP(q)))
      BY <1>8, <2>1, <2>3 DEF NotImp, OwnOpt
    <3>2. QED
      BY <1>2, <2>2, <3>1
  <2>4. CASE q.edns # "Ok"
    <3>1. q.edns = "None"
      BY <1>1, <1>8, <2>4 DEF NotImp, BadEdns, EdnsParseStatus
    <3>2. ~ OwnOpt(q) /\ Error(q, NOTIMP(q))
      BY <1>8, <3>1 DEF NotImp, OwnOpt
    <3>3. QED
      BY <1>2, <2>2, <3>2
  <2>5. QED
    BY <2>3, <2>4
<1>9. QED
  BY <1>5, <1>6, <1>7, <1>8

-----------------------------------------------------------------------------
(* The handler and the cache *)

LEMMA QueryTypes ==
    ASSUME NEW q \in Queries
    PROVE  /\ q.name \in P!Name /\ q.name \in Name
           /\ q.qtype \in Qtypes /\ q.txn \in Txn \cup {NoTxn}
<1>1. q.name \in Name /\ q.qtype \in Qtypes /\ q.txn \in Txn
  BY DispatchAssumption DEF Query
<1>2. QED
  BY <1>1 DEF Name, P!Name

\* No step of the server touches the cache but through its operations.
LEMMA CacheStep ==
    ASSUME P!IInv, QuerySound, [Next]_vars
    PROVE  [P!Next]_(P!vars)
<1>1. now \in 0 .. MaxTime
  BY DEF P!IInv, P!TypeOK
<1>2. ASSUME UNCHANGED cacheVars PROVE UNCHANGED P!vars
  BY <1>2 DEF cacheVars, P!vars
<1>3. ASSUME NEW q \in Queries, Receive(q)
      PROVE  P!Next \/ UNCHANGED cacheVars
  <2> DEFINE k == C!KeyOf(q.name, q.qtype)
  <2>1. CASE FormErr(q) \/ EdnsError(q) \/ NotImp(q)
    BY <1>1, <2>1, ErrorSound
  <2>2. CASE LocalMatch(q)
    BY <2>2 DEF LocalMatch
  <2>3. CASE CacheHit(q) \/ CacheMiss(q)
    <3>1. C!LookupHit(k, q.txn) \/ C!LookupAbsent(k) \/ C!LookupExpired(k)
      BY <2>3 DEF CacheHit, CacheMiss
    <3>2. k = P!KeyOf(q.name, q.qtype)
      BY SameHelpers
    <3> HIDE DEF k
    <3>3. P!LookupHit(k, q.txn) \/ P!LookupAbsent(k) \/ P!LookupExpired(k)
      BY <3>1, SameActions
    <3>4. P!Lookup(q.name, q.qtype, q.txn)
      BY <3>2, <3>3 DEF P!Lookup
    <3>5. QED
      BY <3>4, QueryTypes DEF P!Next
  <2>4. QED
    BY <1>3, <2>1, <2>2, <2>3 DEF Receive
<1>4. ASSUME query # NoQuery, NEW m \in Answers(query), ResolveSuccess(m)
      PROVE  P!Next
  <2>1. query \in Queries
    BY <1>4 DEF QuerySound
  <2>2. m \in Message
    BY <1>1, <1>4, <2>1, AnswerFacts
  <2>3. C!Insert(query.name, query.qtype, m) \/ C!InsertRefused(m)
    BY <1>4 DEF ResolveSuccess
  <2>4. P!Insert(query.name, query.qtype, m) \/ P!InsertRefused(m)
    BY <2>3, SameActions
  <2>5. query.name \in P!Name /\ query.qtype \in Qtypes
    BY <2>1, QueryTypes
  <2>6. QED
    BY <2>2, <2>4, <2>5 DEF P!Next
<1>5. ResolveFailure => UNCHANGED cacheVars
  BY DEF ResolveFailure
<1>6. Tick => P!Next
  BY SameActions DEF Tick, P!Next
<1>7. UNCHANGED vars => UNCHANGED cacheVars
  BY DEF vars, cacheVars
<1>8. P!Next \/ UNCHANGED cacheVars
  BY <1>3, <1>4, <1>5, <1>6, <1>7 DEF Next
<1>9. QED
  BY <1>2, <1>8

LEMMA ServedTtls ==
    ASSUME P!IInv, NEW k \in DOMAIN cache, ~ P!Expired(cache[k]),
           NEW txn \in Txn \cup {NoTxn}
    PROVE  LET r == cache[k].response
               a == P!Served(k, txn)
           IN  /\ a.txn = txn /\ a.body = r.body /\ DOMAIN a.rrs = DOMAIN r.rrs
               /\ \A i \in DOMAIN r.rrs : r.rrs[i].opt => a.rrs[i] = r.rrs[i]
               /\ \A i \in DOMAIN r.rrs :
                     ~ r.rrs[i].opt =>
                        /\ ~ a.rrs[i].opt
                        /\ a.rrs[i].ttl = r.rrs[i].ttl - P!Elapsed(cache[k])
                        /\ a.rrs[i].ttl >= 1
BY CacheAssumptions, P!ServedTtls
   DEF P!CapacityAssumption, P!ClockAssumption, P!TtlAssumption, P!ResponsesAssumption

\* A hit: the stored answer with the client's id and aged TTLs.
LEMMA HitGood ==
    ASSUME IInv, NEW q \in Queries, CacheHit(q)
    PROVE  Good(q, reply'.answer)
<1> DEFINE k == P!KeyOf(q.name, q.qtype)
           r == cache[k].response
           el == P!Elapsed(cache[k])
           a == P!Served(k, q.txn)
<1>1. P!LookupHit(k, q.txn)
  BY SameActions, SameHelpers DEF CacheHit
<1>2. k \in DOMAIN cache /\ ~ P!Expired(cache[k]) /\ reply'.answer = a
  BY <1>1 DEF P!LookupHit, P!Served
<1>3. q.txn \in Txn \cup {NoTxn}
  BY QueryTypes
<1>4. /\ P!IInv
      /\ r.body.source = "upstream" /\ SameKey(r.body.asked, k.domain[1], k.qtype)
      /\ r.rrs = r.body.rrs /\ r.body.at = cache[k].insert_time
      /\ r.body.echoed => r.body.about = r.body.asked
  BY <1>2 DEF IInv, CacheSound, CacheHoldsAnswers
<1>5. k.domain[1] = q.name[1] /\ k.qtype = q.qtype
  BY DEF P!KeyOf, P!ToLower
<1>6. /\ SameKey(r.body.asked, q.name[1], q.qtype)
      /\ r.body.echoed => SameKey(r.body.about, q.name[1], q.qtype)
  BY <1>4, <1>5
<1>7. a \in Message /\ r \in Message
  <2>1. a \in P!Response
    BY <1>2, <1>3, <1>4, CacheAssumptions, P!HitReplyType
       DEF P!CapacityAssumption, P!ClockAssumption, P!TtlAssumption, P!ResponsesAssumption,
           P!Served
  <2>2. r \in P!Response
    BY <1>2, <1>4 DEF P!IInv, P!TypeOK, P!Entry
  <2>3. QED
    BY <2>1, <2>2, MessageTypes
<1>8. /\ a.txn = q.txn /\ a.body = r.body /\ DOMAIN a.rrs = DOMAIN r.rrs
      /\ \A i \in DOMAIN r.rrs : r.rrs[i].opt => a.rrs[i] = r.rrs[i]
      /\ \A i \in DOMAIN r.rrs :
            ~ r.rrs[i].opt => /\ ~ a.rrs[i].opt
                              /\ a.rrs[i].ttl = r.rrs[i].ttl - el
                              /\ a.rrs[i].ttl >= 1
  BY <1>2, <1>3, <1>4, ServedTtls
<1>9. ASSUME NEW i \in DOMAIN r.rrs
      PROVE  r.rrs[i].opt \in BOOLEAN /\ r.rrs[i].ttl \in Nat
  <2>1. r.rrs \in Seq(RR)
    BY <1>7 DEF Message
  <2>2. r.rrs[i] \in RR
    BY <2>1
  <2>3. QED
    BY <2>2, DispatchAssumption, SMT DEF RR
<1>10. ASSUME NEW i \in DOMAIN r.rrs, ~ r.rrs[i].opt
       PROVE  now + (r.rrs[i].ttl - el) * TicksPerSec
                 < cache[k].insert_time + (r.rrs[i].ttl + 1) * TicksPerSec
  BY <1>2, <1>4, <1>9, CacheAssumptions, P!ServedDeadline
     DEF P!CapacityAssumption, P!ClockAssumption, P!TtlAssumption, P!ResponsesAssumption
<1>11. now \in Nat /\ cache[k].insert_time \in Nat /\ el \in Nat /\ TicksPerSec \in Nat
  <2>1. now \in 0 .. MaxTime /\ cache[k].insert_time \in 0 .. MaxTime
    BY <1>2, <1>4 DEF P!IInv, P!TypeOK, P!Entry
  <2>2. el \in Nat
    BY <1>2, <1>4, CacheAssumptions, P!ElapsedBounds
       DEF P!CapacityAssumption, P!ClockAssumption, P!TtlAssumption, P!ResponsesAssumption,
           P!IInv
  <2>3. QED
    BY <2>1, <2>2, DispatchAssumption, SMT
<1> DEFINE t == cache[k].insert_time
<1> HIDE DEF k, r, el, a, t
<1>12. Timely(a)
  <2> SUFFICES ASSUME NEW i \in DOMAIN r.rrs, ~ r.rrs[i].opt
               PROVE  /\ i \in DOMAIN a.rrs
                      /\ a.rrs[i].ttl * TicksPerSec + (now - t)
                            < (r.rrs[i].ttl + 1) * TicksPerSec
    BY <1>4, <1>8 DEF Timely, t
  <2> DEFINE w == r.rrs[i].ttl
  <2>1. w \in Nat /\ a.rrs[i].ttl = w - el /\ i \in DOMAIN a.rrs
    BY <1>8, <1>9
  <2>2. now + (w - el) * TicksPerSec < t + (w + 1) * TicksPerSec
    BY <1>10 DEF t
  <2>3. (w - el) * TicksPerSec \in Int /\ (w + 1) * TicksPerSec \in Int
        /\ now \in Int /\ t \in Int
    BY <1>11, <2>1, SMT DEF t
  <2> HIDE DEF w
  <2>4. (w - el) * TicksPerSec + (now - t) < (w + 1) * TicksPerSec
    BY <2>2, <2>3, SMT
  <2>5. QED
    BY <2>1, <2>4 DEF w
<1>13. Opts(a) = Opts(a.body)
  <2>1. ASSUME NEW i \in DOMAIN r.rrs PROVE a.rrs[i].opt <=> r.rrs[i].opt
    BY <1>8, <1>9
  <2>2. {i \in DOMAIN a.rrs : a.rrs[i].opt} = {i \in DOMAIN r.rrs : r.rrs[i].opt}
    BY <1>8, <2>1
  <2>3. a.body.rrs = r.rrs
    BY <1>4, <1>8
  <2>4. QED
    BY <2>2, <2>3 DEF Opts
<1>14. Fits(q, a)
  BY <1>4, <1>6, <1>7, <1>8, <1>12 DEF Fits, FromUpstream
<1>15. QED
  BY <1>2, <1>13, <1>14 DEF Good

\* An upstream answer goes on to the client as it arrived.
LEMMA AnswerGood ==
    ASSUME NEW q \in Queries, now \in 0 .. MaxTime, NEW m \in Answers(q)
    PROVE  Good(q, m)
<1>1. CASE m = Empty
  BY <1>1, EmptyFacts DEF Good, Fits, Sources
<1>2. CASE m # Empty
  <2>1. /\ m \in Message /\ Truthful(m.body, q) /\ (m.body.echoed => m.txn = q.txn)
        /\ m.body.at = now /\ m.body.rrs = m.rrs
    BY <1>2, AnswerFacts
  <2>2. ASSUME NEW i \in DOMAIN m.rrs
        PROVE  m.rrs[i].ttl * TicksPerSec + (now - now) < (m.rrs[i].ttl + 1) * TicksPerSec
    <3> DEFINE w == m.rrs[i].ttl
    <3>1. m.rrs \in Seq(RR)
      BY <2>1 DEF Message
    <3>2. m.rrs[i] \in RR
      BY <3>1
    <3>3. w \in Nat /\ now \in Int /\ TicksPerSec \in Nat /\ TicksPerSec > 0
      BY <3>2, DispatchAssumption, SMT DEF RR
    <3> HIDE DEF w
    <3>4. w * TicksPerSec + (now - now) < (w + 1) * TicksPerSec
      BY <3>3, SMT
    <3>5. QED
      BY <3>4 DEF w
  <2>3. Timely(m)
    BY <2>1, <2>2 DEF Timely
  <2>4. Opts(m) = Opts(m.body)
    BY <2>1 DEF Opts
  <2>5. FromUpstream(q, m)
    BY <2>1, <2>3, AboutType DEF FromUpstream, Truthful, SameKey
  <2>6. QED
    BY <2>1, <2>4, <2>5 DEF Good, Fits, Truthful
<1>3. QED
  BY <1>1, <1>2

\* What Insert stores is what Resolve returned, under its own question.
LEMMA InsertSound ==
    ASSUME IInv, query \in Queries, NEW m \in Answers(query),
           P!Insert(query.name, query.qtype, m)
    PROVE  CacheSound'
<1> DEFINE k == P!KeyOf(query.name, query.qtype)
           e == [response |-> m, insert_time |-> now, min_ttl |-> P!ExtractMinTtl(m)]
<1>1. PICK c \in P!MakeRoom(cache, k) : cache' = P!Store(c, k, e)
  BY DEF P!Insert
<1>2. m # Empty
  BY EmptyFacts DEF P!Insert, P!ExtractMinTtl
<1>3. now \in 0 .. MaxTime
  BY DEF IInv, P!IInv, P!TypeOK
<1>4. Truthful(m.body, query) /\ m.body.at = now /\ m.body.rrs = m.rrs
  BY <1>2, <1>3, AnswerFacts
<1>5. k.domain[1] = query.name[1] /\ k.qtype = query.qtype
      /\ e.response = m /\ e.insert_time = now
  BY DEF P!KeyOf, P!ToLower
<1>6. DOMAIN c \subseteq DOMAIN cache /\ \A j \in DOMAIN c : c[j] = cache[j]
  BY <1>1, CacheAssumptions, P!RoomKeeps
     DEF IInv, P!CapacityAssumption, P!ClockAssumption, P!TtlAssumption,
         P!ResponsesAssumption
<1> HIDE DEF k, e
<1>7. /\ DOMAIN cache' = DOMAIN c \cup {k} /\ cache'[k] = e
      /\ \A j \in DOMAIN c \ {k} : cache'[j] = cache[j]
  BY <1>1, <1>6 DEF P!Store
<1>8. ASSUME NEW j \in DOMAIN cache'
      PROVE  /\ cache'[j].response.body.source = "upstream"
             /\ SameKey(cache'[j].response.body.asked, j.domain[1], j.qtype)
             /\ cache'[j].response.body.echoed =>
                   cache'[j].response.body.about = cache'[j].response.body.asked
             /\ cache'[j].response.rrs = cache'[j].response.body.rrs
             /\ cache'[j].response.body.at = cache'[j].insert_time
  <2>1. CASE j = k
    BY <1>4, <1>5, <1>7, <2>1, AboutType DEF Truthful, SameKey
  <2>2. CASE j # k
    <3>1. j \in DOMAIN cache /\ cache'[j] = cache[j]
      BY <1>6, <1>7, <2>2
    <3>2. QED
      BY <3>1 DEF IInv, CacheSound, CacheHoldsAnswers
  <2>3. QED
    BY <2>1, <2>2
<1>9. QED
  BY <1>8 DEF CacheSound, CacheHoldsAnswers

LEMMA InitIInv == Init => IInv
<1> SUFFICES ASSUME Init PROVE IInv
  OBVIOUS
<1>1. P!Init
  BY SameActions DEF Init
<1>2. P!IInv
  BY <1>1, CacheAssumptions, P!InitIInv
     DEF P!CapacityAssumption, P!ClockAssumption, P!TtlAssumption, P!ResponsesAssumption
<1>3. CacheSound
  BY <1>1 DEF P!Init, CacheSound, CacheHoldsAnswers
<1>4. QuerySound /\ SentSound
  BY DEF Init, QuerySound, SentSound, ReplyMatchesQuery, TtlHonest, OptAccounted
<1>5. QED
  BY <1>2, <1>3, <1>4 DEF IInv

LEMMA StepIInv == IInv /\ [Next]_vars => IInv'
<1> SUFFICES ASSUME IInv, [Next]_vars PROVE IInv'
  OBVIOUS
<1>1. P!IInv'
  <2>1. P!IInv /\ [P!Next]_(P!vars)
    BY CacheStep DEF IInv
  <2>2. QED
    BY <2>1, CacheAssumptions, P!NextIInv
       DEF P!CapacityAssumption, P!ClockAssumption, P!TtlAssumption, P!ResponsesAssumption
<1>2. now \in 0 .. MaxTime
  BY DEF IInv, P!IInv, P!TypeOK
<1>3. UNCHANGED cache => CacheSound'
  BY DEF IInv, CacheSound, CacheHoldsAnswers
<1>4. UNCHANGED query => QuerySound'
  BY DEF IInv, QuerySound
<1>5. UNCHANGED sent => SentSound'
  BY DEF IInv, SentSound, ReplyMatchesQuery, TtlHonest, OptAccounted
<1>6. query' = NoQuery => QuerySound'
  BY DEF QuerySound
<1>7. ASSUME NEW q \in Queries, FormErr(q) \/ EdnsError(q) \/ NotImp(q)
      PROVE  CacheSound' /\ QuerySound' /\ SentSound'
  BY <1>2, <1>3, <1>4, <1>7, ErrorSound DEF cacheVars
<1>8. ASSUME NEW q \in Queries, LocalMatch(q)
      PROVE  CacheSound' /\ QuerySound' /\ SentSound'
  <2> DEFINE m == IF LocalOutcome(q) = "answer" THEN Made(q, "local") ELSE Empty
  <2>1. q.wellformed /\ "local" \in Sources \ {"upstream"} /\ "none" \notin Sources
    BY <1>8 DEF Sources, LocalMatch, Standard
  <2>2. Good(q, Made(q, "local")) /\ Good(q, Empty)
    BY <2>1, MadeFacts, EmptyFacts DEF Good, Fits
  <2>3. Good(q, m)
    BY <2>2
  <2>4. Standard(q) /\ Finish(q, m) /\ UNCHANGED cache
    BY <1>8 DEF LocalMatch, cacheVars
  <2> HIDE DEF m
  <2>5. QED
    BY <1>2, <1>3, <1>6, <2>3, <2>4, FinishSound
<1>9. ASSUME NEW q \in Queries, CacheHit(q)
      PROVE  CacheSound' /\ QuerySound' /\ SentSound'
  <2>1. Good(q, reply'.answer)
    BY <1>9, HitGood
  <2>2. Standard(q) /\ Finish(q, reply'.answer) /\ UNCHANGED cache
    BY <1>9 DEF CacheHit, C!LookupHit
  <2>3. QED
    BY <1>2, <1>3, <1>6, <2>1, <2>2, FinishSound
<1>10. ASSUME NEW q \in Queries, CacheMiss(q)
       PROVE  CacheSound' /\ QuerySound' /\ SentSound'
  <2> DEFINE k == C!KeyOf(q.name, q.qtype)
  <2>1. Standard(q) /\ query' = q /\ UNCHANGED sent
        /\ (C!LookupAbsent(k) \/ C!LookupExpired(k))
    BY <1>10 DEF CacheMiss
  <2> HIDE DEF k
  <2>2. QuerySound'
    BY <2>1 DEF QuerySound, Standard, BadEdns
  <2>3. CASE C!LookupAbsent(k)
    BY <1>3, <1>5, <2>1, <2>2, <2>3 DEF C!LookupAbsent
  <2>4. CASE C!LookupExpired(k)
    <3>1. cache' = P!Restrict(cache, DOMAIN cache \ {k})
      BY <2>4, SameHelpers DEF C!LookupExpired
    <3>2. DOMAIN cache' \subseteq DOMAIN cache
          /\ \A j \in DOMAIN cache' : cache'[j] = cache[j]
      BY <3>1 DEF P!Restrict
    <3>3. CacheSound'
      BY <3>2 DEF IInv, CacheSound, CacheHoldsAnswers
    <3>4. QED
      BY <1>5, <2>1, <2>2, <3>3
  <2>5. QED
    BY <2>1, <2>3, <2>4
<1>11. ASSUME query # NoQuery, NEW m \in Answers(query), ResolveSuccess(m)
       PROVE  CacheSound' /\ QuerySound' /\ SentSound'
  <2>1. query \in Queries /\ Standard(query)
    BY <1>11 DEF IInv, QuerySound
  <2>2. Good(query, m)
    BY <1>2, <1>11, <2>1, AnswerGood
  <2>3. SentSound' /\ query' = NoQuery
    BY <1>2, <1>11, <2>1, <2>2, FinishSound DEF ResolveSuccess
  <2>4. CASE C!Insert(query.name, query.qtype, m)
    BY <1>6, <1>11, <2>1, <2>3, <2>4, SameActions, InsertSound
  <2>5. CASE C!InsertRefused(m)
    BY <1>3, <1>6, <2>3, <2>5 DEF C!InsertRefused
  <2>6. QED
    BY <1>11, <2>4, <2>5 DEF ResolveSuccess
<1>12. CASE ResolveFailure
  <2>1. query \in Queries /\ Standard(query)
    BY <1>12 DEF IInv, QuerySound, ResolveFailure
  <2>2. query.wellformed /\ "SERVFAIL" \in Sources \ {"upstream"}
    BY <2>1 DEF Sources, Standard
  <2>3. Good(query, SERVFAIL(query))
    BY <2>1, <2>2, MadeFacts DEF Good, Fits, SERVFAIL
  <2>4. SentSound' /\ query' = NoQuery
    BY <1>2, <1>12, <2>1, <2>3, FinishSound DEF ResolveFailure
  <2>5. QED
    BY <1>1, <1>3, <1>6, <1>12, <2>4 DEF ResolveFailure, cacheVars, IInv
<1>13. CASE Tick
  BY <1>1, <1>3, <1>4, <1>5, <1>13 DEF Tick, C!Tick, IInv
<1>14. CASE UNCHANGED vars
  BY <1>1, <1>3, <1>4, <1>5, <1>14 DEF vars, IInv
<1>15. QED
  BY <1>1, <1>7, <1>8, <1>9, <1>10, <1>11, <1>12, <1>13, <1>14
     DEF Next, Receive, IInv

LEMMA IInvHolds == Spec => []IInv
BY InitIInv, StepIInv, PTL DEF Spec

-----------------------------------------------------------------------------

\* Every variable of the handler keeps its type.
THEOREM TypeCorrect == Spec => []TypeOK
<1>1. IInv => TypeOK
  <2> SUFFICES ASSUME IInv PROVE TypeOK
    OBVIOUS
  <2>1. P!TypeOK => C!TypeOK
    BY DEF P!TypeOK, C!TypeOK, P!Key, C!Key, P!Entry, C!Entry, P!Response, C!Response,
           P!RR, C!RR, P!HitReply, C!HitReply, P!NoReply, C!NoReply, P!Miss, C!Miss
  <2>2. QED
    BY <2>1, MessageTypes DEF IInv, P!IInv, QuerySound, SentSound, TypeOK
<1>2. QED
  BY <1>1, IInvHolds, PTL

\* A reply made here has the id of its query, and its question when the name can
\* be written; a reply from upstream was got for this name and type, whoever asked
\* first, and repeats id and question when the resolver did (udp_server.cc:68-205,
\* dns_response.cc:85-98, dns_cache.cc:28-52).
THEOREM ReplyMatches == Spec => []ReplyMatchesQuery
<1>1. IInv => ReplyMatchesQuery
  BY DEF IInv, SentSound
<1>2. QED
  BY <1>1, IInvHolds, PTL

\* The cache holds upstream answers, each under the name and type it was got for
\* and with the records it arrived with (udp_server.cc:166-170).
THEOREM CacheContents == Spec => []CacheHoldsAnswers
<1>1. IInv => CacheHoldsAnswers
  BY DEF IInv, CacheSound
<1>2. QED
  BY <1>1, IInvHolds, PTL

\* No client keeps a record a second longer than upstream allowed, over all
\* hits (dns_cache.cc:44-50, 219-274).
THEOREM TtlsHonest == Spec => []TtlHonest
<1>1. IInv => TtlHonest
  BY DEF IInv, SentSound
<1>2. QED
  BY <1>1, IInvHolds, PTL

\* A reply has the OPT records of the upstream answer, and one more for a
\* client that sent one, however often the answer was served before; BADVERS for
\* a name that cannot be written has none (udp_server.cc:112-137, 184-202,
\* dns_response.cc:1045-1047).
THEOREM OptsAccounted == Spec => []OptAccounted
<1>1. IInv => OptAccounted
  BY DEF IInv, SentSound
<1>2. QED
  BY <1>1, IInvHolds, PTL

\* The handlers use the cache as DnsCache specifies it, and so, inside the
\* server too, the cache keeps its contract (include/dns_cache.h:16-22).
THEOREM ServerCacheImplementsContract == Spec => P!Spec /\ P!ImplementsTtlCache
<1>1. Init => P!Init
  BY SameActions DEF Init
<1>2. IInv /\ [Next]_vars => [P!Next]_(P!vars)
  BY CacheStep DEF IInv
<1>3. Spec => P!Spec
  BY <1>1, <1>2, IInvHolds, PTL DEF Spec, P!Spec
<1>4. P!Spec => P!ImplementsTtlCache
  BY CacheAssumptions, P!CacheImplementsContract
     DEF P!CapacityAssumption, P!ClockAssumption, P!TtlAssumption, P!ResponsesAssumption
<1>5. QED
  BY <1>3, <1>4, PTL

=============================================================================
