---------------------------- MODULE QueryDispatch ----------------------------
(***************************************************************************)
(* What a server does with one query: the body of the handlers             *)
(* UdpServer::Receive and TcpSession::ReadMessage (src/udp_server.cc,      *)
(* src/tcp_server.cc), from the received bytes to the bytes given to Send. *)
(*                                                                         *)
(* The response cache is DnsCache itself.  LocalDns::CheckLocalMatch is    *)
(* the constant Local and DnsOverHttps::Resolve a choice of outcomes; both *)
(* have modules of their own.  The handler runs to its end before another  *)
(* starts (one thread, Resolve blocks), so the only state between its      *)
(* steps is the query being resolved, while the clock goes on.             *)
(*                                                                         *)
(* A message is DnsCache's: txn, shape, rrs and body.  The body says who   *)
(* made the message, which question it carries and, as history, when an    *)
(* upstream answer was obtained, for which question, with which records,   *)
(* and whether it repeats the id and the question it was asked with: the   *)
(* code looks at neither.                                                  *)
(***************************************************************************)
EXTENDS Integers, Sequences, FiniteSets

CONSTANTS Labels, Qtypes, Txn, MaxEntries, UINT32_MAX, TicksPerSec, MaxTime,
          Queries,      \* the messages clients send
          LongNames,    \* the labels of names over 255 bytes on the wire
          Forms,        \* what the cache key leaves out of a question: its class,
                        \* and which dots of the name separate labels
          RecordLists,  \* records an upstream answer may carry
          Strays,       \* ids and questions of upstream answers to another query
          Local,        \* CheckLocalMatch: "answer", "silent" or "none"
          DohOnly,      \* g_Config.DohOnly()
          Transport     \* "udp" or "tcp"

Name == Labels \X {"lower", "mixed"}
EdnsParseStatus == {"None", "Ok", "BadVersion", "DuplicateOpt", "Malformed"}

\* wellformed: the constructor of DnsParser does not throw.  payload: the UDP
\* payload size of the query's OPT record, in records.
Query == [name : Name, qtype : Qtypes, form : Forms, txn : Txn, wellformed : BOOLEAN,
          edns : EdnsParseStatus, opcode : {0, 2}, payload : Nat]

Question == Labels \X Qtypes \X Forms
Nothing == <<>>

RR == [opt : BOOLEAN, ttl : 0 .. UINT32_MAX]

ASSUME DispatchAssumption ==
    /\ Queries \subseteq Query
    /\ LongNames \subseteq Labels
    /\ RecordLists \subseteq Seq(RR)
    /\ Strays \subseteq [txn : Txn, about : Question \cup {Nothing}]
    /\ Local \in [Labels \X Qtypes -> {"answer", "silent", "none"}]
    /\ DohOnly \in BOOLEAN
    /\ Transport \in {"udp", "tcp"}
    /\ MaxEntries \in Nat \ {0} /\ UINT32_MAX \in Nat \ {0}
    /\ TicksPerSec \in Nat \ {0} /\ MaxTime \in Nat
    /\ Txn \subseteq Nat \ {0}

Sources == {"FORMERR", "BADVERS", "NOTIMP", "SERVFAIL", "local", "upstream"}

Body == [source : Sources \cup {"none"}, about : Question \cup {Nothing},
         asked : Question \cup {Nothing}, echoed : BOOLEAN,
         at : 0 .. MaxTime, rrs : Seq(RR)]

VARIABLES now, cache, reply,  \* the clock and the server's m_DnsCache_
          query,              \* the query whose Resolve is under way, if any
          sent                \* the last message given to Send, for which query
                              \* and when

cacheVars == <<now, cache, reply>>
vars == <<now, cache, reply, query, sent>>

NoTxn == 0
NoQuery == [txn |-> NoTxn]

C == INSTANCE DnsCache WITH Txn <- Txn \cup {NoTxn}, Bodies <- Body,
                            Responses <- {}

NotSent == [query |-> NoQuery]

TypeOK == /\ C!TypeOK
          /\ query \in Queries \cup {NoQuery}
          /\ sent \in {NotSent} \cup
                [query : Queries, message : C!Response, tc : BOOLEAN,
                 at : 0 .. MaxTime]

-----------------------------------------------------------------------------
(* Messages *)

Opt == [opt |-> TRUE, ttl |-> 0]

About(q) == <<q.name[1], q.qtype, q.form>>

\* DomainToQuestion, which WriteQuestion calls, refuses names over 255 bytes; the
\* parser does not.  The dots count as much as the length bytes they stand for.
Encodable(q) == q.name[1] \notin LongNames

OwnBody(source, about) ==
    [source |-> source, about |-> about, asked |-> Nothing, echoed |-> FALSE,
     at |-> 0, rrs |-> <<>>]

\* An output vector nothing was written to.
Empty == [txn |-> NoTxn, shape |-> "short", rrs |-> <<>>, body |-> OwnBody("none", Nothing)]

\* A header that announces no question.
Bare(q, source) == [txn |-> q.txn, shape |-> "ok", rrs |-> <<>>,
                    body |-> OwnBody(source, Nothing)]

\* WriteStandardHeader and WriteQuestion, without records.  When the question is
\* refused, the builder returns and the caller sends what is there: a header
\* that announces a question ("badquestion") and none.
Made(q, source) == [txn |-> q.txn, shape |-> IF Encodable(q) THEN "ok" ELSE "badquestion",
                    rrs |-> <<>>,
                    body |-> OwnBody(source, IF Encodable(q) THEN About(q) ELSE Nothing)]

\* The only builder that takes the announcement back.
FORMERR(q) == IF q.wellformed /\ Encodable(q) THEN Made(q, "FORMERR") ELSE Bare(q, "FORMERR")

NOTIMP(q) == Made(q, "NOTIMP")
SERVFAIL(q) == Made(q, "SERVFAIL")

\* The OPT record goes to the end of whatever the vector holds.
AppendOpt(m) == [m EXCEPT !.rrs = Append(@, Opt)]

FORMERR_OPT(q) == AppendOpt(FORMERR(q))

\* The builder returns before AppendOpt when the question is refused.
BADVERS(q) == IF Encodable(q) THEN AppendOpt(Made(q, "BADVERS")) ELSE Made(q, "BADVERS")

Opts(m) == Cardinality({i \in DOMAIN m.rrs : m.rrs[i].opt})

Repeats(q) == [txn |-> q.txn, about |-> About(q)]

\* A body of HTTP 200, got for query q: e is the id and the question it carries.
Got(q, e, shape, rs) ==
    [txn |-> e.txn, shape |-> shape, rrs |-> rs,
     body |-> [source |-> "upstream", about |-> e.about, asked |-> About(q),
               echoed |-> e = Repeats(q), at |-> now, rrs |-> rs]]

\* What Resolve may return with Success: any bytes, as nothing checks that they
\* are an answer to q.  An empty body is a success too.
Answers(q) ==
    {Got(q, e, "ok", rs) : e \in {Repeats(q)} \cup Strays, rs \in RecordLists}
    \cup {Got(q, [txn |-> t, about |-> Nothing], shape, <<>>) :
             t \in Txn, shape \in {"badquestion", "short"}}
    \cup {Empty}

-----------------------------------------------------------------------------
(* The handler *)

Init == C!Init /\ query = NoQuery /\ sent = NotSent

\* The tail of the handler: OPT for a query with valid EDNS0 and, over UDP, TC
\* when the message is larger than the client takes; then Send.
Finish(q, m) ==
    LET out == IF q.edns = "Ok" THEN AppendOpt(m) ELSE m
    IN  /\ query' = NoQuery
        /\ sent' = [query |-> q, message |-> out,
                    tc |-> /\ Transport = "udp" /\ q.edns = "Ok"
                           /\ Len(out.rrs) > q.payload,
                    at |-> now]

\* Replies sent before any lookup, in the order of the checks.
Error(q, m) == /\ sent' = [query |-> q, message |-> m, tc |-> FALSE, at |-> now]
               /\ UNCHANGED <<cacheVars, query>>

BadEdns(q) == q.edns \in {"DuplicateOpt", "Malformed", "BadVersion"}

FormErr(q) == /\ ~ q.wellformed
              /\ Error(q, FORMERR(q))

EdnsError(q) ==
    /\ q.wellformed /\ BadEdns(q)
    /\ Error(q, IF q.edns = "BadVersion" THEN BADVERS(q) ELSE FORMERR_OPT(q))

NotImp(q) ==
    /\ q.wellformed /\ ~ BadEdns(q) /\ q.opcode # 0
    /\ Error(q, IF q.edns = "Ok" THEN AppendOpt(NOTIMP(q)) ELSE NOTIMP(q))

Standard(q) == q.wellformed /\ ~ BadEdns(q) /\ q.opcode = 0

LocalOutcome(q) == IF DohOnly THEN "none" ELSE Local[<<q.name[1], q.qtype>>]

\* CheckLocalMatch returned 0: an answer, or nothing written at all.
LocalMatch(q) ==
    /\ Standard(q) /\ LocalOutcome(q) # "none"
    /\ Finish(q, IF LocalOutcome(q) = "answer" THEN Made(q, "local") ELSE Empty)
    /\ UNCHANGED cacheVars

CacheHit(q) ==
    /\ Standard(q) /\ LocalOutcome(q) = "none"
    /\ C!LookupHit(C!KeyOf(q.name, q.qtype), q.txn)
    /\ Finish(q, reply'.answer)

CacheMiss(q) ==
    /\ Standard(q) /\ LocalOutcome(q) = "none"
    /\ \/ C!LookupAbsent(C!KeyOf(q.name, q.qtype))
       \/ C!LookupExpired(C!KeyOf(q.name, q.qtype))
    /\ query' = q
    /\ UNCHANGED sent

Receive(q) == /\ query = NoQuery
              /\ \/ FormErr(q) \/ EdnsError(q) \/ NotImp(q)
                 \/ LocalMatch(q) \/ CacheHit(q) \/ CacheMiss(q)

\* Variant: the client's OPT is appended before the answer is cached.
ResolveSuccess_OptFirst(m) ==
    /\ query # NoQuery
    /\ LET out == IF query.edns = "Ok" THEN AppendOpt(m) ELSE m
       IN  /\ \/ C!Insert(query.name, query.qtype, out)
              \/ C!InsertRefused(out)
           /\ Finish(query, out)

ResolveSuccess(m) ==
    /\ query # NoQuery
    /\ \/ C!Insert(query.name, query.qtype, m)
       \/ C!InsertRefused(m)
    /\ Finish(query, m)

\* Any verdict but Success and InvalidInput; the latter needs a query of no
\* bytes, which neither server gives to Resolve.
ResolveFailure ==
    /\ query # NoQuery
    /\ Finish(query, SERVFAIL(query))
    /\ UNCHANGED cacheVars

Tick == C!Tick /\ UNCHANGED <<query, sent>>

Next == \/ \E q \in Queries : Receive(q)
        \/ query # NoQuery /\ \E m \in Answers(query) : ResolveSuccess(m)
        \/ ResolveFailure
        \/ Tick

Spec == Init /\ [][Next]_vars

-----------------------------------------------------------------------------
(* Properties *)

\* A question and a query, or a key, up to what the cache key leaves out.
SameKey(about, label, qtype) == about[1] = label /\ about[2] = qtype

\* A reply made here carries the id of the query it is sent for and its question,
\* or none when the query could not be parsed or its name cannot be written, and
\* announces a question it lacks in that case only.  A reply from upstream,
\* forwarded or cached, was got for a question with this query's name and type,
\* whoever asked it first and in whichever letter case; when the resolver repeated
\* the id and the question it was asked with, so does the reply
\* (udp_server.cc:88-177, dns_response.cc:85-98).
ReplyMatchesQuery ==
    sent # NotSent =>
       LET q == sent.query
           m == sent.message
           b == m.body
       IN  /\ b.source = "upstream" =>
                /\ SameKey(b.asked, q.name[1], q.qtype)
                /\ b.echoed => m.txn = q.txn /\ SameKey(b.about, q.name[1], q.qtype)
           /\ b.source \in Sources \ {"upstream"} =>
                /\ m.txn = q.txn
                /\ b.about = IF q.wellformed /\ Encodable(q) THEN About(q) ELSE Nothing
                /\ m.shape = "ok" \/ ~ Encodable(q)

\* The cache holds upstream answers only, each under the name and type it was got
\* for, with the records it arrived with: nothing made here, nor an OPT record
\* meant for one client, gets in (udp_server.cc:166-170).
CacheHoldsAnswers ==
    \A k \in DOMAIN cache :
       LET r == cache[k].response
       IN  /\ r.body.source = "upstream"
           /\ SameKey(r.body.asked, k.domain[1], k.qtype)
           /\ r.rrs = r.body.rrs

\* No client is told to keep a record longer, by a second or more, than the
\* upstream answer it comes from allows: age in the cache is counted from the
\* moment the answer was obtained, over all hits (README.md:70, "respects TTLs").
TtlHonest ==
    (sent # NotSent /\ sent.message.body.source = "upstream") =>
       LET b == sent.message.body
       IN  \A i \in DOMAIN b.rrs :
              ~ b.rrs[i].opt =>
                 sent.message.rrs[i].ttl * TicksPerSec + (sent.at - b.at)
                    < (b.rrs[i].ttl + 1) * TicksPerSec

\* Replies the handler adds an OPT record to: those to a query with one, except
\* BADVERS for a name that cannot be written (dns_response.cc:1045-1047).
OwnOpt(q) == /\ q.wellformed /\ q.edns # "None"
             /\ q.edns = "BadVersion" => Encodable(q)

\* Where the OPT records of a reply come from: those the upstream answer carries
\* (forwarded and cached as they are) and the one the handler adds for this
\* client, however often the answer was served from the cache before and to whom
\* (udp_server.cc:112-137, 184-202).
OptAccounted ==
    sent # NotSent =>
       Opts(sent.message) =
          Opts(sent.message.body) + (IF OwnOpt(sent.query) THEN 1 ELSE 0)

=============================================================================
