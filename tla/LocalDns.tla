------------------------------ MODULE LocalDns ------------------------------
(***************************************************************************)
(* Looking a query up in the local zones: LocalDns::CheckLocalMatch and    *)
(* LookupLocalRecord (src/local_dns.cc), the split of a name by DnsParser  *)
(* (src/dns_parser.cc) and the answers DnsResponse builds                  *)
(* (src/dns_response.cc).  The table does not change once it is "ready",   *)
(* so a lookup is a function of the query.                                 *)
(*                                                                         *)
(* A lookup returns code 0 (answered) or -1 (forward) and the output: an   *)
(* NXDOMAIN, an answer message with the number of answers its header       *)
(* declares and the answers it holds, or nothing at all.                   *)
(***************************************************************************)
EXTENDS ZoneTable

CONSTANTS Queries,             \* [name, type] of the queries asked
          DNS_MAX_CNAME_DEPTH  \* 8

ASSUME DepthAssumption == DNS_MAX_CNAME_DEPTH \in Nat

ASSUME QueryAssumption == \A q \in Queries : q.name \in Seq(Range(q.name))

-----------------------------------------------------------------------------
(* Names *)

\* The last two labels, however many labels the zone has.
RootDomain(d) == IF Len(d) < 2 THEN d ELSE SubSeq(d, Len(d) - 1, Len(d))

SubDomain(d) == IF Len(d) < 2 THEN <<>> ELSE SubSeq(d, 1, Len(d) - 2)

\* std::regex_match of a subdomain with a key; the keys of the zone itself and of
\* the wildcard are expressions like the others.
Matches(sub, k) ==
    CASE k.kind = ".*" -> TRUE
      [] k.kind = "@" -> sub = <<"@">>
      [] k.kind = "*" -> sub = <<"*">>
      [] k.kind = "exact" -> sub = k.name
      [] k.kind = "subtree" -> IsSuffix(k.name, sub)
      [] k.kind = "regex" -> sub \in Language[k.name]
      [] k.kind = "subregex" -> \E s \in Language[k.name] : IsSuffix(s, sub)
      [] OTHER -> FALSE

-----------------------------------------------------------------------------
(* Answers *)

Answer(type, data, name) == [type |-> type, data |-> data, name |-> name]

NoOutput == [kind |-> "empty", declared |-> 0, answers |-> <<>>]
NxDomain == [kind |-> "nxdomain", declared |-> 0, answers |-> <<>>]

Found(out) == [code |-> 0, out |-> out]
NotFound == [code |-> -1, out |-> NoOutput]

\* What AppendAnswer and the builders accept: addresses that were converted;
\* names, which are strings that can be encoded (IsValidDnsName takes
\* "{{FORWARD}}" for one); objects, which have all their fields; arrays of texts.
AcceptsAddress(v) == v[1] = "hex"
AcceptsDomain(v) == ~ IsArray(v)
AcceptsObject(v) == v[1] = "object"
AcceptsText(v) == IsArray(v) /\ \A i \in DOMAIN v[2] : v[2][i][1] = "text"

Accepts(type, v) ==
    CASE type \in {"A", "AAAA"} -> AcceptsAddress(v)
      [] type \in {"CNAME", "NS", "PTR"} -> AcceptsDomain(v)
      [] type \in {"SOA", "MX", "SRV"} -> AcceptsObject(v)
      [] type = "TXT" -> AcceptsText(v)
      [] OTHER -> FALSE

\* The header is written first; the first value refused ends the message.
MultiAnswer(as) ==
    [kind |-> "answers", declared |-> Len(as),
     answers |-> SubSeq(as, 1, Max({n \in 0 .. Len(as) :
                    \A i \in 1 .. n : Accepts(as[i].type, as[i].data)}))]

\* A header that announces one record, and the record, owned by the question.
OneAnswer(type, v) ==
    [kind |-> "answers", declared |-> 1, answers |-> <<Answer(type, v, <<>>)>>]

\* A builder refuses before it writes anything.
CallResponseFunction(type, v) == IF Accepts(type, v) THEN OneAnswer(type, v) ELSE NoOutput

\* Variant: every answer is owned by the question's name.
ExpandAnswerRecords_AtQuestion(type, v, name) ==
    IF IsArray(v) THEN [i \in DOMAIN v[2] |-> Answer(type, v[2][i], <<>>)]
    ELSE <<Answer(type, v, <<>>)>>

ExpandAnswerRecords(type, v, name) ==
    IF IsArray(v) THEN [i \in DOMAIN v[2] |-> Answer(type, v[2][i], name)]
    ELSE <<Answer(type, v, name)>>

DispatchSingleOrMulti(type, v) ==
    IF IsArray(v) THEN MultiAnswer(ExpandAnswerRecords(type, v, <<>>))
    ELSE CallResponseFunction(type, v)

-----------------------------------------------------------------------------
(* Lookups *)

NoKey == [kind |-> "none", name |-> <<>>]

\* The places in map order of the expressions of recs that match.
Hits(recs, sub) ==
    {i \in DOMAIN KeyOrder : KeyOrder[i] \in DOMAIN recs /\ Matches(sub, KeyOrder[i])}

\* The first of the hits, or else the fallback if recs has it.
FirstOf(hits, fallback, recs) ==
    IF hits # {} THEN KeyOrder[Min(hits)]
    ELSE IF fallback \in DOMAIN recs THEN fallback ELSE NoKey

\* Variant: the wildcard before the expressions.
FirstKey_WildFirst(recs, sub) ==
    IF sub = <<>> THEN FirstOf({}, Root, recs)
    ELSE IF Wild \in DOMAIN recs THEN Wild
    ELSE FirstOf(Hits(recs, sub), NoKey, recs)

\* The key that decides: "@" for the zone itself; for a subdomain the first
\* expression that matches, in map order, or else the wildcard.
FirstKey(recs, sub) ==
    IF sub = <<>> THEN FirstOf({}, Root, recs)
    ELSE FirstOf(Hits(recs, sub), Wild, recs)

None == <<"none">>

\* What is served for a key: None for {{FORWARD}} and for no key.
Value(recs, k) ==
    IF k = NoKey THEN None
    ELSE IF IsForwardValue(recs[k]) THEN None ELSE recs[k]

Decide(recs, sub) == Value(recs, FirstKey(recs, sub))

RecordsOf(zone, type) ==
    IF type \in DOMAIN zone.types THEN zone.types[type] ELSE NoTypes

LookupLocalRecord(d, type) ==
    IF Len(d) < 2 \/ RootDomain(d) \notin DOMAIN zones THEN None
    ELSE Decide(RecordsOf(zones[RootDomain(d)], type), SubDomain(d))

\* One step of the chain p, whose end has the CNAME cname or the records final.
\* A CNAME array is not a name: the exception is caught by CheckLocalMatch.
Follow(p, cname, final, type) ==
    CASE ~ p.more -> p
      [] p.more /\ cname # None /\ IsArray(cname) ->
           [p EXCEPT !.more = FALSE, !.thrown = TRUE]
      [] p.more /\ cname # None /\ ~ IsArray(cname) ->
           [p EXCEPT !.at = cname[2],
                     !.answers = Append(@, Answer("CNAME", cname, p.at))]
      [] p.more /\ cname = None /\ type # "*" /\ final # None ->
           [p EXCEPT !.more = FALSE,
                     !.answers = @ \o ExpandAnswerRecords(type, final, p.at)]
      [] OTHER -> [p EXCEPT !.more = FALSE]

Step(p, type) == Follow(p, LookupLocalRecord(p.at, "CNAME"),
                        LookupLocalRecord(p.at, type), type)

\* Follow the chain from target, at most DNS_MAX_CNAME_DEPTH lookups, and
\* resolve where it ends.
Chain(target, type) ==
    LET walk[n \in 0 .. DNS_MAX_CNAME_DEPTH] ==
          IF n = 0
            THEN [at |-> target, more |-> TRUE, thrown |-> FALSE,
                  answers |-> <<Answer("CNAME", <<"name", target>>, <<>>)>>]
            ELSE Step(walk[n - 1], type)
    IN  walk[DNS_MAX_CNAME_DEPTH]

\* Records of a type without the {{FORWARD}} ones.
Named(recs) == Restrict(recs, {k \in DOMAIN recs : ~ IsForwardValue(recs[k])})

\* The CNAME that redirects the query, {{FORWARD}} entries passed over.
CnameTarget(zone, sub) == Decide(Named(RecordsOf(zone, "CNAME")), sub)

AnyTypes == <<"A", "AAAA", "CNAME", "NS", "MX", "TXT", "SRV", "SOA">>

\* The answers of one type, if any.
Served(type, v) == IF v = None THEN <<>> ELSE ExpandAnswerRecords(type, v, <<>>)

AnyAnswers(zone, sub) ==
    FlattenSeq([i \in DOMAIN AnyTypes |->
        Served(AnyTypes[i], Decide(RecordsOf(zone, AnyTypes[i]), sub))])

\* The reversed address of a PTR query, the key looked for in the zone.  The
\* zone's keys are record types, and no record type is spelled like one.
ReversedAddress(sub) == "address"

ReverseZones == {<<"in-addr", "arpa">>, <<"ip6", "arpa">>}

CheckPtr(zone, q) ==
    IF RootDomain(q.name) \in ReverseZones
       /\ ReversedAddress(SubDomain(q.name)) \in DOMAIN zone.types
      THEN Found(CallResponseFunction("PTR", zone.types["address"]))
      ELSE NotFound

Redirected(chain) == IF chain.thrown THEN NotFound ELSE Found(MultiAnswer(chain.answers))

CheckCname(target, q) ==
    IF IsArray(target) THEN NotFound ELSE Redirected(Chain(target[2], q.type))

AnyFound(as) == IF as = <<>> THEN NotFound ELSE Found(MultiAnswer(as))

CheckAny(zone, q) == AnyFound(AnyAnswers(zone, SubDomain(q.name)))

TypeFound(type, v) == IF v = None THEN NotFound ELSE Found(DispatchSingleOrMulti(type, v))

CheckType(zone, q) ==
    TypeFound(q.type, Decide(RecordsOf(zone, q.type), SubDomain(q.name)))

\* The query in its zone; target is the CNAME of its name, if any.
CheckInZone(zone, target, q) ==
    CASE zone.blocked -> Found(NxDomain)
      [] ~ zone.blocked /\ q.type = "PTR" -> CheckPtr(zone, q)
      [] ~ zone.blocked /\ q.type \notin {"PTR", "CNAME"} /\ target # None ->
           CheckCname(target, q)
      [] ~ zone.blocked /\ q.type = "*" /\ target = None -> CheckAny(zone, q)
      [] OTHER -> CheckType(zone, q)

CheckLocalMatch(q) ==
    IF RootDomain(q.name) \notin DOMAIN zones THEN NotFound
    ELSE CheckInZone(zones[RootDomain(q.name)],
                     CnameTarget(zones[RootDomain(q.name)], SubDomain(q.name)), q)

-----------------------------------------------------------------------------
(* What the documentation says *)

\* The records of a type at a name, in file order.
At(rs, type, n) ==
    LET upTo[i \in 0 .. Len(rs)] ==
          IF i = 0 THEN <<>>
          ELSE IF rs[i].type = type /\ rs[i].name = n THEN Append(upTo[i - 1], rs[i])
          ELSE upTo[i - 1]
    IN  upTo[Len(rs)]

IsAddress(type) == type \in {"A", "AAAA"}

\* Records whose meaning the documentation settles: a zone with no CNAME, no
\* expression, no nameless record, no array for an address, no {{FORWARD_ALL}} of
\* the root and no name both forwarded and something else.
Plain(rs) ==
    /\ \A i \in DOMAIN rs :
          /\ rs[i].type # "CNAME" /\ ~ rs[i].regex /\ rs[i].name # <<>>
          /\ IsAddress(rs[i].type) => ~ IsArray(rs[i].data)
          /\ ~ (rs[i].name = <<"@">> /\ rs[i].data = ForwardAll)
    /\ \A i, j \in DOMAIN rs :
          (i # j /\ rs[i].name = rs[j].name /\ rs[i].type = rs[j].type)
          => rs[i].data \notin {Forward, ForwardAll}

\* A name is covered by a {{FORWARD_ALL}} of the type.
Covered(rs, type, sub) ==
    \E i \in DOMAIN rs :
       /\ rs[i].type = type /\ rs[i].data = ForwardAll
       /\ rs[i].name # <<"*">> /\ IsSuffix(rs[i].name, sub)

\* README.md:150-203: {{FORWARD_ALL}} covers a name and all below it, then the
\* name itself, then the wildcard, which never stands for the root.
Chosen(rs, type, sub) ==
    CASE sub = <<>> -> At(rs, type, <<"@">>)
      [] sub # <<>> /\ Covered(rs, type, sub) -> <<>>
      [] OTHER -> IF At(rs, type, sub) # <<>> THEN At(rs, type, sub)
                  ELSE At(rs, type, <<"*">>)

\* The answers the chosen records make; none when the query is forwarded.
AnswersOf(chosen, type) ==
    IF \E i \in DOMAIN chosen : chosen[i].data \in {Forward, ForwardAll} THEN <<>>
    ELSE [i \in DOMAIN chosen |-> Answer(type, Hex(chosen[i].data), <<>>)]

DocumentedAnswer(q) ==
    AnswersOf(Chosen(source[RootDomain(q.name)], q.type, SubDomain(q.name)), q.type)

-----------------------------------------------------------------------------
(* Properties *)

\* Address queries the documentation settles.  (A subdomain that is called "@" gets
\* the zone's own records.)
Settled(q) == LET z == RootDomain(q.name)
              IN  /\ IsAddress(q.type) /\ SubDomain(q.name) # <<"@">>
                  /\ z \in DOMAIN zones /\ ~ zones[z].blocked /\ Plain(source[z])

\* The match m is these answers, or forwarding when there are none.
Gives(m, answers) == /\ m.code = IF answers = <<>> THEN -1 ELSE 0
                     /\ m.out.answers = answers
                     /\ m.out.declared = Len(answers)

\* For address queries in a plain zone the sorted-map regular-expression search
\* does what the documentation says of names, wildcards and forwarding: the same
\* records, all of them, in file order, or forwarding.
MatchesDocumentation ==
    phase = "ready" =>
       \A q \in Queries : Settled(q) => Gives(CheckLocalMatch(q), DocumentedAnswer(q))

\* The first n answers are CNAMEs and every record is owned by the target of the
\* last CNAME before it.
Connected(as, n, type) ==
    /\ n <= DNS_MAX_CNAME_DEPTH + 1
    /\ as[1].name = <<>>
    /\ \A i \in 2 .. Len(as) : as[i].name = as[Min({i - 1, n})].data[2]
    /\ \A i \in DOMAIN as : as[i].type = IF i <= n THEN "CNAME" ELSE type

IsChain(as, type) ==
    LET n == Cardinality({i \in DOMAIN as : as[i].type = "CNAME"})
    IN  n > 0 => Connected(as, n, type)

\* An answer that redirects is a connected chain: every record after the first
\* is owned by the target of the last CNAME before it, there are at most
\* DNS_MAX_CNAME_DEPTH further CNAMEs, loops included, and what follows them is
\* of the type asked for (local_dns.cc:404-439).
ChainConnected ==
    phase = "ready" =>
       \A q \in Queries :
          q.type \notin {"CNAME", "*"} => IsChain(CheckLocalMatch(q).out.answers, q.type)

=============================================================================
