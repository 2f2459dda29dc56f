--------------------------- MODULE ResponsePacket ----------------------------
(***************************************************************************)
(* Responses as objects: DnsResponsePacket (src/dns_packet.cc), its        *)
(* records DnsAnswer (src/dns_packet_answer.cc), its questions DnsQuestion *)
(* (src/dns_packet_question.cc) and the counts of its header.  A response  *)
(* is made from a request that RequestPacket has parsed and then edited,   *)
(* or it is parsed from a message, whose names may be compressed.  Cells   *)
(* are RequestPacket's; a label is a sequence of cells, a name one of      *)
(* labels, and CLASS and TTL are one field, ttl.                           *)
(***************************************************************************)
EXTENDS RequestPacket, SequencesExt

CONSTANTS Answered,      \* bound: the cells of the requests a response is made for
          MaxEdits,      \* bound: the edits of an object, by where it came from
          Headers,       \* what SetHeader is called with
          Names,         \* the names records are made for and point to, as given
          Addresses,     \* addresses as text: groups left and right of a "::"
          Letters,       \* the cells that are letters, digits and underscores
          Hyphen,        \* "-"
          NS, SOA, MX, SRV, A, AAAA, TXT, \* record types; NS is CNAME and PTR too
          Ascii,         \* the cell of the character "0"
          Arpa,          \* the labels that end a reverse name, as one
          MaxName,       \* 255
          MaxText,       \* 255
          OctetsPerIpv4, \* 4
          Octet,         \* 0 .. 255
          Ipv6Groups,    \* 8
          GroupDigits,   \* 4
          RdlengthWidth  \* 16

ASSUME ResponseAssumption ==
    /\ MaxEdits \in [{"made", "received"} -> Nat]
    /\ Headers \subseteq Header
    /\ RdlengthWidth \in Nat \ {0}
    /\ Hyphen \notin Letters

\* Texts are cells, and so are the fields of a record.
ASSUME TextAssumption ==
    /\ \A n \in Names : n \in Seq(Seq(Nat))
    /\ \A a \in Addresses : a \in [left : Seq(Seq(Nat)), gap : BOOLEAN, right : Seq(Seq(Nat))]
    /\ {NS, SOA, MX, SRV, A, AAAA, TXT, Ascii} \subseteq Nat /\ Arpa \in Seq(Nat)
    /\ Octet \subseteq Nat
    /\ {OctetsPerIpv4, Ipv6Groups, GroupDigits} \subseteq Nat

VARIABLES object,  \* the DnsResponsePacket
          origin,  \* "none", or where it came from: "made", "received"
          edits    \* how often it was edited

responseVars == <<object, origin, edits>>
allVars == <<vars, responseVars>>

\* The sum of a sequence of numbers.
Total(sizes) ==
    LET sum[i \in 0 .. Len(sizes)] == IF i = 0 THEN 0 ELSE sum[i - 1] + sizes[i]
    IN  sum[Len(sizes)]

-----------------------------------------------------------------------------
(* Names *)

IsValidLabel(l) == /\ Len(l) \in 1 .. MaxLabel
                   /\ l[1] # Hyphen /\ l[Len(l)] # Hyphen
                   /\ \A i \in DOMAIN l : l[i] \in Letters \cup {Hyphen}

\* SetName and SetNameFromString: labels that are not valid are left out.
SetName(labels) ==
    FlattenSeq([i \in DOMAIN labels |->
        IF IsValidLabel(labels[i]) THEN <<labels[i]>> ELSE <<>>])

EncodeLabel(l) == <<Len(l)>> \o l

EncodeDomainLabels(labels) ==
    FlattenSeq([i \in DOMAIN labels |-> EncodeLabel(labels[i])]) \o <<0>>

\* The name part of ToWire: a label too long for its length byte is skipped.
NameToWire(labels) ==
    FlattenSeq([i \in DOMAIN labels |->
        IF Len(labels[i]) <= MaxLabel THEN EncodeLabel(labels[i]) ELSE <<>>]) \o <<0>>

NoParse == [ok |-> FALSE, end |-> 0, labels |-> <<>>]

\* DnsAnswer::ParseDomainName and DnsQuestion::ParseDomainName in the cells c from
\* an offset on: the labels, and where the part there ends.
ParseDomainName(c, from) ==
    LET parse[spot \in Nat \X (0 .. DNS_MAX_POINTER_HOPS)] ==
          LET at == spot[1]
              hops == spot[2]
          IN  CASE at >= Len(c) -> NoParse
                [] at < Len(c) /\ c[at + 1] = 0 ->
                     [ok |-> TRUE, end |-> at + 1, labels |-> <<>>]
                [] at < Len(c) /\ c[at + 1] = Pointer ->
                     IF at + 1 >= Len(c) \/ hops = DNS_MAX_POINTER_HOPS THEN NoParse
                     ELSE [parse[<<c[at + 2], hops + 1>>] EXCEPT !.end = at + 2]
                [] OTHER ->
                     IF c[at + 1] > MaxLabel \/ at + 1 + c[at + 1] > Len(c) THEN NoParse
                     ELSE [parse[<<at + 1 + c[at + 1], hops>>] EXCEPT
                             !.labels = <<SubSeq(c, at + 2, at + 1 + c[at + 1])>> \o @]
    IN  parse[<<from, 0>>]

-----------------------------------------------------------------------------
(* Records *)

\* Every way to set the data ends in UpdateRDLENGTH.
Answer(labels, type, ttl, rdata) ==
    [name |-> labels, type |-> type, ttl |-> ttl, rdata |-> rdata,
     rdlength |-> Len(rdata) % 2 ^ RdlengthWidth]

\* The factories.  MakeNsRecord is MakeCnameRecord and MakePtrRecord too.
MakeNsRecord(n, target) == Answer(SetName(n), NS, 0, EncodeDomainLabels(SetName(target)))

MakeMxRecord(n, server, priority) ==
    Answer(SetName(n), MX, 0, <<priority>> \o EncodeDomainLabels(SetName(server)))

\* What throws makes no record: octets that are none or not four, a text too long,
\* an address that is not eight groups.
MakeARecords(n, octets) ==
    IF octets \in [1 .. OctetsPerIpv4 -> Octet]
      THEN {Answer(SetName(n), A, 0, octets)} ELSE {}

MakeTxtRecords(n, text) ==
    IF Len(text) <= MaxText
      THEN {Answer(SetName(n), TXT, 0, <<Len(text)>> \o text)} ELSE {}

\* The groups of an address; without "::" all of them are left.  None if they are
\* too many or too few.
Groups(a) ==
    LET missing == Ipv6Groups - Len(a.left) - Len(a.right)
        all == a.left \o (IF a.gap THEN [i \in 1 .. missing |-> <<0>>] ELSE <<>>) \o a.right
    IN  IF (a.gap /\ missing < 0) \/ Len(all) # Ipv6Groups THEN <<>> ELSE all

\* A group's last digits, filled up on the left; an empty group is zero.
Digits(g) == LET filled == [i \in 1 .. GroupDigits |-> 0] \o g
             IN  SubSeq(filled, Len(filled) - GroupDigits + 1, Len(filled))

\* A group's value has no more digits; it may be written with zeros before them.
MakeAaaaRecords(n, a) ==
    IF /\ Groups(a) # <<>>
       /\ \A i \in 1 .. Ipv6Groups : \A j \in 1 .. Len(Groups(a)[i]) - GroupDigits :
             Groups(a)[i][j] = 0
      THEN {Answer(SetName(n), AAAA, 0,
                   FlattenSeq([i \in 1 .. Ipv6Groups |-> Digits(Groups(a)[i])]))}
      ELSE {}

\* SetPTRFromIp: the digits backwards, each a label.  An address it cannot read
\* leaves the root's name.
MakePtrQuery(a) ==
    LET digits == FlattenSeq([i \in DOMAIN Groups(a) |-> Digits(Groups(a)[i])])
    IN  [name |-> IF Groups(a) = <<>>
                     \/ \E i \in DOMAIN Groups(a) : Len(Groups(a)[i]) > GroupDigits
                    THEN <<>>
                    ELSE Reverse([i \in DOMAIN digits |-> <<Ascii + digits[i]>>]) \o <<Arpa>>,
         tail |-> NS]

MakeQuery(n, type) == [name |-> SetName(n), tail |-> type]

\* Where the names in a record's data are, by its type.
Layout(t) == [prefix |-> CASE t = MX -> 1 [] t = SRV -> 2 [] OTHER -> 0,
              names  |-> CASE t = SOA -> 2 [] t \in {NS, MX, SRV} -> 1 [] OTHER -> 0,
              tail   |-> IF t = SOA THEN 1 ELSE 0]

\* The name first and, if there are two, the one behind it.
NamesFrom(c, first, count) ==
    LET second == ParseDomainName(c, first.end)
    IN  IF count < 2 \/ ~ first.ok
          THEN [ok |-> first.ok, end |-> first.end, names |-> <<first.labels>>]
          ELSE [ok |-> second.ok, end |-> second.end,
                names |-> <<first.labels, second.labels>>]

\* The one or two names from an offset on, and the end of the last.
ParseNames(c, from, count) == NamesFrom(c, ParseDomainName(c, from), count)

\* The names p written out, between the cells of c before and behind them.
WrittenOut(c, start, l, p) ==
    SubSeq(c, start + 1, start + l.prefix)
    \o FlattenSeq([i \in DOMAIN p.names |-> EncodeDomainLabels(p.names[i])])
    \o SubSeq(c, p.end + 1, p.end + l.tail)

\* Variant: a pointer is taken to lead into the record's own data.
DecompressRDATA_Local(c, start, t, raw) ==
    LET l == Layout(t)
        p == ParseNames(raw, l.prefix, l.names)
    IN  IF l.names = 0 \/ ~ p.ok \/ p.end + l.tail > Len(raw) THEN raw
        ELSE WrittenOut(raw, 0, l, p)

\* The data that begins at start, raw as it stands, its names written out.  They are
\* read in the whole message, beyond the data too.  If they cannot be, it stays raw.
DecompressRDATA(c, start, t, raw) ==
    LET l == Layout(t)
        p == ParseNames(c, start + l.prefix, l.names)
    IN  IF l.names = 0 \/ ~ p.ok \/ p.end + l.tail > Len(c) THEN raw
        ELSE WrittenOut(c, start, l, p)

NoItem == [ok |-> FALSE, end |-> 0, item |-> 0]

QuestionFromWire(c, from) ==
    LET n == ParseDomainName(c, from)
    IN  IF ~ n.ok \/ n.end + QuestionTail > Len(c) THEN NoItem
        ELSE [ok |-> TRUE, end |-> n.end + QuestionTail,
              item |-> [name |-> n.labels, tail |-> c[n.end + 1]]]

\* The record with the name n, from its fields behind it.
RecordBehind(c, n) ==
    LET type == c[n.end + 1]
        rdata == n.end + RecordTail
        end == rdata + c[n.end + 3]
    IN  IF ~ n.ok \/ rdata > Len(c) \/ end > Len(c) THEN NoItem
        ELSE [ok |-> TRUE, end |-> end,
              item |-> Answer(n.labels, type, c[n.end + 2],
                              DecompressRDATA(c, rdata, type, SubSeq(c, rdata + 1, end)))]

AnswerFromWire(c, from) == RecordBehind(c, ParseDomainName(c, from))

QuestionToWire(q) == NameToWire(q.name) \o <<q.tail>>
AnswerToWire(r) == NameToWire(r.name) \o <<r.type, r.ttl, r.rdlength>> \o r.rdata

-----------------------------------------------------------------------------
(* Packets *)

\* A default-constructed packet, and one after clear().
NoObject ==
    [header |-> [response |-> FALSE, z |-> FALSE, qdcount |-> 0, ancount |-> 0,
                 nscount |-> 0, arcount |-> 0],
     questions |-> <<>>, answers |-> <<>>, authority |-> <<>>, additional |-> <<>>]

\* UpdateHeaderCounts
Counted(x) == [x EXCEPT !.header = [@ EXCEPT !.qdcount = Len(x.questions),
                                             !.ancount = Len(x.answers),
                                             !.nscount = Len(x.authority),
                                             !.arcount = Len(x.additional)]]

Extended(before, one) ==
    [ok |-> one.ok, end |-> one.end, items |-> Append(before.items, one.item)]

\* One question or record more, at the end of those before.
ReadItem(c, before, kind) ==
    IF ~ before.ok THEN before
    ELSE Extended(before, IF kind = "question" THEN QuestionFromWire(c, before.end)
                          ELSE AnswerFromWire(c, before.end))

\* Parses count questions or records one after the other.
Section(c, from, count, kind) ==
    LET read[k \in 0 .. count] ==
          IF k = 0 THEN [ok |-> TRUE, end |-> from, items |-> <<>>]
          ELSE ReadItem(c, read[k - 1], kind)
    IN  read[count]

\* DnsResponsePacket::FromWire: the header, then section after section, each from
\* the end of the one before.  NoObject if it returns false.
FromWire(h, c) ==
    LET qd == Section(c, HeaderSize, h.qdcount, "question")
        an == Section(c, qd.end, h.ancount, "record")
        ns == Section(c, an.end, h.nscount, "record")
        ar == Section(c, ns.end, h.arcount, "record")
    IN  IF \/ Len(c) < HeaderSize \/ h.z \/ ~ h.response
           \/ ~ qd.ok \/ ~ an.ok \/ ~ ns.ok \/ ~ ar.ok
          THEN NoObject
          ELSE [header |-> h, questions |-> qd.items, answers |-> an.items,
                authority |-> ns.items, additional |-> ar.items]

\* The header's cells.
HeaderToWire == [i \in 1 .. HeaderSize |-> 0]

\* Variant: the last two sections change places.
ToWire_Swapped(x) ==
    HeaderToWire
    \o FlattenSeq([i \in DOMAIN x.questions |-> QuestionToWire(x.questions[i])])
    \o FlattenSeq([i \in DOMAIN x.answers |-> AnswerToWire(x.answers[i])])
    \o FlattenSeq([i \in DOMAIN x.additional |-> AnswerToWire(x.additional[i])])
    \o FlattenSeq([i \in DOMAIN x.authority |-> AnswerToWire(x.authority[i])])

\* DnsResponsePacket::ToWire, into a buffer of the WireSize it asks for.
ToWire(x) ==
    HeaderToWire
    \o FlattenSeq([i \in DOMAIN x.questions |-> QuestionToWire(x.questions[i])])
    \o FlattenSeq([i \in DOMAIN x.answers |-> AnswerToWire(x.answers[i])])
    \o FlattenSeq([i \in DOMAIN x.authority |-> AnswerToWire(x.authority[i])])
    \o FlattenSeq([i \in DOMAIN x.additional |-> AnswerToWire(x.additional[i])])

NameSize(labels) ==
    1 + Total([i \in DOMAIN labels |-> IF Len(labels[i]) <= MaxLabel
                                         THEN 1 + Len(labels[i]) ELSE 0])

QuestionSize(q) == NameSize(q.name) + QuestionTail
AnswerSize(r) == NameSize(r.name) + RecordTail + Len(r.rdata)
AnswerSizes(records) == Total([i \in DOMAIN records |-> AnswerSize(records[i])])

WireSize(x) ==
    HeaderSize
    + Total([i \in DOMAIN x.questions |-> QuestionSize(x.questions[i])])
    + AnswerSizes(x.answers) + AnswerSizes(x.authority) + AnswerSizes(x.additional)

ValidName(labels) == /\ \A i \in DOMAIN labels : IsValidLabel(labels[i])
                     /\ NameSize(labels) <= MaxName

\* The root's name is valid whatever else the record has.
ValidAnswer(r) == r.name = <<>> \/ (ValidName(r.name) /\ r.rdlength = Len(r.rdata))

Records(x) == x.answers \o x.authority \o x.additional

\* DnsResponsePacket::Valid
Valid(x) == /\ ~ x.header.z /\ x.header.response
            /\ x = Counted(x)
            /\ \A i \in DOMAIN x.questions :
                  x.questions[i].name = <<>> \/ ValidName(x.questions[i].name)
            /\ \A i \in DOMAIN Records(x) : ValidAnswer(Records(x)[i])

-----------------------------------------------------------------------------
(* Operations *)

ResponseInit == Init /\ object = NoObject /\ origin = "none" /\ edits = 0

\* DnsRequestPacket::FromWire, which has no response yet.
ReadRequest == Next /\ UNCHANGED responseVars

\* The request's question: the labels ParseDomainName kept, and its tail.
Question == [name |-> [i \in DOMAIN name.labels |->
                         SubSeq(packet.cells, name.labels[i] + 2,
                                name.labels[i] + 1 + Cell(name.labels[i]))],
             tail |-> Cell(NameEnd(name.start))]

\* The constructor, which counts.
Made(h) == object' = Counted([NoObject EXCEPT !.header = h, !.questions = <<Question>>])

\* MakeResponseHeader begins with an empty header, MakeErrorResponse with the
\* request's and no counts.
MakeResponse == Made([NoObject.header EXCEPT !.response = TRUE, !.z = FALSE])
MakeErrorResponse ==
    Made([packet.header EXCEPT !.response = TRUE, !.qdcount = 0, !.ancount = 0,
                               !.nscount = 0, !.arcount = 0])

Respond == /\ origin = "none" /\ phase = "accepted" /\ packet.cells \in Answered
           /\ MakeResponse \/ MakeErrorResponse
           /\ origin' = "made"
           /\ UNCHANGED <<edits, vars>>

\* A message that is no request is parsed as a response.
ReceiveResponse == /\ origin = "none" /\ phase = "rejected" /\ packet.header.response
                   /\ object' = FromWire(packet.header, packet.cells)
                   /\ object' # NoObject
                   /\ origin' = "received"
                   /\ UNCHANGED <<edits, vars>>

Edit(x) == /\ origin # "none" /\ edits < MaxEdits[origin]
           /\ object' = x
           /\ edits' = edits + 1
           /\ UNCHANGED <<origin, vars>>

AddQuestion(q) == Edit(Counted([object EXCEPT !.questions = Append(@, q)]))
AddAnswer(r) == Edit(Counted([object EXCEPT !.answers = Append(@, r)]))
AddAuthority(r) == Edit(Counted([object EXCEPT !.authority = Append(@, r)]))
AddAdditional(r) == Edit(Counted([object EXCEPT !.additional = Append(@, r)]))
ClearQuestions == Edit(Counted([object EXCEPT !.questions = <<>>]))
ClearAnswers == Edit(Counted([object EXCEPT !.answers = <<>>]))
ClearAuthority == Edit(Counted([object EXCEPT !.authority = <<>>]))
ClearAdditional == Edit(Counted([object EXCEPT !.additional = <<>>]))

\* The counts are the new header's.
SetHeader(h) == Edit([object EXCEPT !.header = h])

Clear == Edit(NoObject)

\* What the factories make of the texts, and what the constructors take unchecked.
MadeRecords ==
    UNION ({{MakeNsRecord(n, m), MakeMxRecord(n, m, 0), Answer(n, MX, 1, <<>>),
             Answer(n, SOA, 1, <<0, 0, 1>>), Answer(n, A, 1, [i \in 1 .. 2 ^ RdlengthWidth |-> 0])}
            : n \in Names, m \in Names}
           \cup {MakeAaaaRecords(n, a) : n \in Names, a \in Addresses}
           \cup {MakeARecords(n, m[1]) \cup MakeTxtRecords(n, m[1])
                 : n \in Names, m \in Names \ {<<>>}})

ResponseNext ==
    \/ ReadRequest \/ Respond \/ ReceiveResponse
    \/ \E n \in Names : AddQuestion(MakeQuery(n, A)) \/ AddQuestion([name |-> n, tail |-> A])
    \/ \E a \in Addresses : AddQuestion(MakePtrQuery(a))
    \/ \E r \in MadeRecords : AddAnswer(r) \/ AddAuthority(r) \/ AddAdditional(r)
    \/ ClearQuestions \/ ClearAnswers \/ ClearAuthority \/ ClearAdditional \/ Clear
    \/ \E h \in Headers : SetHeader(h)

\* The parser is sequential code; a response need not be asked for.
ResponseSpec == ResponseInit /\ [][ResponseNext]_allVars /\ WF_allVars(ReadRequest)

-----------------------------------------------------------------------------
(* Properties *)

\* The data of a record of such a type, read on its own.
SelfContained(r) ==
    Layout(r.type).names > 0 =>
       /\ ParseNames(r.rdata, Layout(r.type).prefix, Layout(r.type).names).ok
       /\ DecompressRDATA(r.rdata, 0, r.type, <<>>) = r.rdata

\* A response that Valid() approves of, or that was parsed, is read back unchanged
\* from what ToWire writes, and that fills exactly the buffer WireSize() asked
\* for: whatever was added, cleared and counted in between, and wherever the names
\* were in the message it was parsed from (dns_packet.cc:699-830).  Except where
\* RDLENGTH cannot hold the length, and where data was left compressed.
RoundTrip ==
    (/\ \/ origin = "received" /\ edits = 0
        \/ origin # "none" /\ Valid(object)
     /\ \A i \in DOMAIN Records(object) :
           /\ Len(Records(object)[i].rdata) < 2 ^ RdlengthWidth
           /\ SelfContained(Records(object)[i]))
    => LET c == ToWire(object)
       IN  Len(c) = WireSize(object) /\ FromWire(object.header, c) = object

\* Where the records of the message begin, by the cache's walk over it.
Starts(h) ==
    LET question[i \in 0 .. h.qdcount] ==
          IF i = 0 THEN HeaderSize ELSE SkipDnsName(question[i - 1]) + QuestionTail
        Behind(i) == LET end == SkipDnsName(i) IN end + RecordTail + Cell(end + 2)
        start[i \in 1 .. h.ancount + h.nscount + h.arcount] ==
          IF i = 1 THEN question[h.qdcount] ELSE Behind(start[i - 1])
    IN  start

\* The record r is the one that begins at from, and its data has the names that the
\* message has there.
TakenFrom(r, from) ==
    LET l == Layout(r.type)
        at == SkipDnsName(from) + RecordTail
        p == ParseNames(packet.cells, at + l.prefix, l.names)
    IN  /\ r.type = Cell(at - 3) /\ r.ttl = Cell(at - 2)
        /\ l.names > 0 /\ p.ok /\ p.end + l.tail <= Size =>
              /\ SelfContained(r)
              /\ ParseNames(r.rdata, l.prefix, l.names).names = p.names

\* The records of a parsed message are those at the places where the cache looks
\* for them, to rewrite their TTLs; and the names in a record's data, read from the
\* record alone, are those the message has there, pointers followed in the whole
\* message: "self-contained and safe for later use" (dns_packet_answer.cc:911-914).
Decompressed ==
    (origin = "received" /\ edits = 0) =>
       LET starts == Starts(packet.header)
       IN  \A i \in DOMAIN starts : TakenFrom(Records(object)[i], starts[i])

=============================================================================
