--------------------------- MODULE RequestPacket ----------------------------
(***************************************************************************)
(* Parsing a query: DnsRequestPacket::FromWire with its EDNS0 section      *)
(* (src/dns_packet.cc), DnsQuestion::FromWire and ParseDomainName          *)
(* (src/dns_packet_question.cc) and the constructor of DnsParser.          *)
(*                                                                         *)
(* A packet is its header's fields and a sequence of cells at offsets from *)
(* 0, of which the first HeaderSize are the header (a compression pointer  *)
(* may lead there).  A cell is a byte of a name, or one of the fixed-size  *)
(* fields: QTYPE and QCLASS; TYPE; CLASS and TTL, of which the version     *)
(* counts; RDLENGTH; an option's code and length; a byte of its data.  So  *)
(* offsets are the code's with shorter fields: 4, 10 and 4 bytes are the   *)
(* QuestionTail, RecordTail and OptionHeader below.                        *)
(***************************************************************************)
EXTENDS Integers, Sequences, FiniteSets

CONSTANTS Packets,              \* the packets received: for each header, the cells
          HeaderSize,           \* 12 bytes
          MaxLabel,             \* 63
          Pointer,              \* 0xC0: the first byte of a pointer
          OptType,              \* DNS_TYPE_OPT
          DNS_MAX_POINTER_HOPS  \* 16

QuestionTail == 1   \* QTYPE and QCLASS
RecordTail == 3     \* TYPE, CLASS and TTL, RDLENGTH
OptionHeader == 1   \* code and length

Header == [response : BOOLEAN, z : BOOLEAN, qdcount : Nat, ancount : Nat,
           nscount : Nat, arcount : Nat]

ASSUME PacketAssumption ==
    /\ \A h \in DOMAIN Packets : h \in Header /\ \A c \in Packets[h] : c \in Seq(Nat)
    /\ HeaderSize \in Nat \ {0} /\ MaxLabel \in Nat \ {0}
    /\ Pointer \in Nat /\ Pointer > MaxLabel
    /\ DNS_MAX_POINTER_HOPS \in Nat \ {0}

Statuses == {"None", "Ok", "BadVersion", "DuplicateOpt", "Malformed"}

VARIABLES packet,    \* p_Data and p_Size
          phase,     \* where FromWire is: "header", "name", "tail", "record"
          offset,    \* s_Offset
          name,      \* ParseDomainName: where it began, s_ReadOffset, hops taken,
                     \* and the labels' offsets
          questions, \* how many questions have been parsed
          opt        \* additional records read, s_OptCount, m_EdnsStatus_, and
                     \* where the record in m_Edns_ begins

vars == <<packet, phase, offset, name, questions, opt>>

Size == Len(packet.cells)
Cell(i) == packet.cells[i + 1]

NoRecord == 0
NoName == [start |-> 0, at |-> 0, hops |-> 0, labels |-> <<>>]

Ended == {"accepted", "rejected"}

\* The state is well typed: every label, pointer and record read lies inside the
\* packet, and the counts stay within the header's.
TypeOK == /\ phase \in {"header", "name", "tail", "record"} \cup Ended
          /\ offset \in Nat
          /\ phase \in {"name", "tail"} => offset <= Size
          /\ name.hops \in 0 .. DNS_MAX_POINTER_HOPS
          /\ \A i \in DOMAIN name.labels :
                name.labels[i] + Cell(name.labels[i]) < Size
          /\ questions \in 0 .. packet.header.qdcount
          /\ opt.read \in 0 .. packet.header.arcount
          /\ opt.count \in 0 .. opt.read + 1
          /\ opt.status \in Statuses
          /\ opt.edns \in Nat /\ (opt.edns # NoRecord => opt.edns < Size)

Init == /\ \E h \in DOMAIN Packets : \E c \in Packets[h] : packet = [header |-> h, cells |-> c]
        /\ phase = "header"
        /\ offset = 0
        /\ name = NoName
        /\ questions = 0
        /\ opt = [read |-> 0, count |-> 0, status |-> "None", edns |-> NoRecord]

Reject == phase' = "rejected" /\ UNCHANGED <<packet, offset, name, questions, opt>>

\* Go on with the next question, or with the records after the last one.
BeginQuestion(n) ==
    /\ questions' = n
    /\ IF n < packet.header.qdcount
         THEN /\ phase' = "name"
              /\ name' = [NoName EXCEPT !.start = offset', !.at = offset']
         ELSE phase' = "record" /\ UNCHANGED name

\* DnsHeader::FromWire; the reserved bit Z is zero.
ValidHeader == Size >= HeaderSize /\ ~ packet.header.z

ReadHeader ==
    /\ phase = "header"
    /\ IF ~ ValidHeader \/ packet.header.response
         THEN Reject
         ELSE /\ offset' = HeaderSize
              /\ BeginQuestion(0)
              /\ UNCHANGED <<packet, opt>>

-----------------------------------------------------------------------------
(* ParseDomainName: one action per way through its loop *)

Reading == phase = "name" /\ name.at < Size

\* Only the end of the part at the question moves the caller's offset.
Past(end) == IF name.hops = 0 THEN end ELSE offset

NameEnds ==
    /\ Reading /\ Cell(name.at) = 0
    /\ offset' = Past(name.at + 1)
    /\ phase' = "tail"
    /\ UNCHANGED <<packet, name, questions, opt>>

\* Variant: every pointer moves the caller's offset.
FollowPointer_Each ==
    /\ Reading /\ Cell(name.at) = Pointer
    /\ IF name.at + 1 >= Size \/ name.hops = DNS_MAX_POINTER_HOPS
         THEN Reject
         ELSE /\ offset' = name.at + 2
              /\ name' = [name EXCEPT !.at = Cell(name.at + 1), !.hops = @ + 1]
              /\ UNCHANGED <<packet, phase, questions, opt>>

\* Variant: hops are counted only as far as the first.
FollowPointer_Endless ==
    /\ Reading /\ Cell(name.at) = Pointer
    /\ IF name.at + 1 >= Size
         THEN Reject
         ELSE /\ offset' = Past(name.at + 2)
              /\ name' = [name EXCEPT !.at = Cell(name.at + 1), !.hops = 1,
                                      !.labels = <<>>]
              /\ UNCHANGED <<packet, phase, questions, opt>>

FollowPointer ==
    /\ Reading /\ Cell(name.at) = Pointer
    /\ IF name.at + 1 >= Size \/ name.hops = DNS_MAX_POINTER_HOPS
         THEN Reject
         ELSE /\ offset' = Past(name.at + 2)
              /\ name' = [name EXCEPT !.at = Cell(name.at + 1), !.hops = @ + 1]
              /\ UNCHANGED <<packet, phase, questions, opt>>

\* Variant: the label may end one byte behind the packet.
ReadLabel_TooFar ==
    /\ Reading /\ Cell(name.at) \in 1 .. Pointer - 1
    /\ IF Cell(name.at) > MaxLabel \/ name.at + Cell(name.at) > Size
         THEN Reject
         ELSE /\ name' = [name EXCEPT !.at = @ + 1 + Cell(name.at),
                                      !.labels = Append(@, name.at)]
              /\ UNCHANGED <<packet, phase, offset, questions, opt>>

ReadLabel ==
    /\ Reading /\ Cell(name.at) \in 1 .. Pointer - 1
    /\ IF Cell(name.at) > MaxLabel \/ name.at + 1 + Cell(name.at) > Size
         THEN Reject
         ELSE /\ name' = [name EXCEPT !.at = @ + 1 + Cell(name.at),
                                      !.labels = Append(@, name.at)]
              /\ UNCHANGED <<packet, phase, offset, questions, opt>>

NameRunsOut == phase = "name" /\ name.at >= Size /\ Reject

\* QTYPE and QCLASS.
QuestionEnds ==
    /\ phase = "tail"
    /\ IF offset + QuestionTail > Size THEN Reject
       ELSE /\ offset' = offset + QuestionTail
            /\ BeginQuestion(questions + 1)
            /\ UNCHANGED <<packet, opt>>

-----------------------------------------------------------------------------
(* The additional section *)

\* Where a name that begins at i ends, read as labels up to a pointer or the
\* empty label: the walk over an additional record's name.
NameEnd(i) ==
    LET end[j \in Nat] == IF j >= Size THEN j
                          ELSE CASE Cell(j) = 0 -> j + 1
                                 [] Cell(j) = Pointer -> j + 2
                                 [] OTHER -> end[j + 1 + Cell(j)]
    IN  end[i]

\* DnsCache::SkipDnsName: the same walk in the cache, 0 for an error.
SkipDnsName(i) ==
    LET skip[j \in Nat] == IF j >= Size THEN 0
                           ELSE CASE Cell(j) = 0 -> j + 1
                                  [] Cell(j) = Pointer -> j + 2
                                  [] OTHER -> skip[j + 1 + Cell(j)]
    IN  skip[i]

\* The fields of the record that begins at i.
Type(i) == Cell(NameEnd(i))
Version(i) == Cell(NameEnd(i) + 1)
RdataStart(i) == NameEnd(i) + RecordTail
RdataEnd(i) == RdataStart(i) + Cell(NameEnd(i) + 2)

\* The fixed-size fields are in the packet.  No more is asked of a record that is
\* not OPT: when it is the last one, its data may run past the packet's end and
\* nothing says so.
Framed(i) == /\ i + 1 + RecordTail <= Size
             /\ NameEnd(i) <= Size
             /\ RdataStart(i) <= Size

\* The loop over the options from j to end: none reaches beyond it.  What is too
\* short for an option's header is passed over.
OptionsFit(first, end) ==
    LET fit[j \in Nat] == IF j + OptionHeader > end THEN TRUE
                          ELSE IF j + OptionHeader + Cell(j) > end THEN FALSE
                          ELSE fit[j + OptionHeader + Cell(j)]
    IN  fit[first]

\* FromWire returns true with the status it has come to; the constructor of
\* DnsParser wants one question.
Accept(status) == /\ phase' = IF packet.header.qdcount = 1 THEN "accepted" ELSE "rejected"
                  /\ opt' = [opt EXCEPT !.status = status]
                  /\ UNCHANGED <<packet, offset, name, questions>>

\* Go on behind the record at offset, with what it changed.
Skip(o) == /\ opt' = [o EXCEPT !.read = @ + 1]
           /\ offset' = RdataEnd(offset)
           /\ UNCHANGED <<packet, phase, name, questions>>

InRecords == /\ phase = "record"
             /\ packet.header.ancount = 0 /\ packet.header.nscount = 0
             /\ opt.read < packet.header.arcount

\* Answers or authority records in a query.
NotAQuery == /\ phase = "record"
             /\ packet.header.ancount # 0 \/ packet.header.nscount # 0
             /\ Reject

RecordCut == InRecords /\ ~ Framed(offset) /\ Accept("Malformed")

OtherRecord == InRecords /\ Framed(offset) /\ Type(offset) # OptType /\ Skip(opt)

AnOpt == InRecords /\ Framed(offset) /\ Type(offset) = OptType

\* A second OPT record is not looked into.
SecondOpt == /\ AnOpt /\ opt.count >= 1
             /\ Skip([opt EXCEPT !.count = @ + 1, !.status = "DuplicateOpt"])

\* Variant: skipped like a record of another type.
NamedOpt_Uncounted == /\ AnOpt /\ opt.count = 0 /\ Cell(offset) # 0
                      /\ Skip(opt)

\* An OPT record of a name other than the root.
NamedOpt == /\ AnOpt /\ opt.count = 0 /\ Cell(offset) # 0
            /\ Skip([opt EXCEPT !.count = 1, !.status = "Malformed"])

FirstOpt == AnOpt /\ opt.count = 0 /\ Cell(offset) = 0

\* The data of the record at i is in the packet, and its options in the data.
WholeRdata(i) == RdataEnd(i) <= Size /\ OptionsFit(RdataStart(i), RdataEnd(i))

\* Its data is cut off, or one of its options is.
BadRdata == FirstOpt /\ ~ WholeRdata(offset) /\ Accept("Malformed")

GoodOpt ==
    /\ FirstOpt /\ WholeRdata(offset)
    /\ Skip([opt EXCEPT !.count = 1, !.edns = offset,
                        !.status = IF Version(offset) > 0 THEN "BadVersion"
                                   ELSE IF @ = "None" THEN "Ok" ELSE @])

\* All records read.
RecordsEnd ==
    /\ phase = "record"
    /\ packet.header.ancount = 0 /\ packet.header.nscount = 0
    /\ opt.read = packet.header.arcount
    /\ Accept(opt.status)

Next == \/ ReadHeader
        \/ NameEnds \/ FollowPointer \/ ReadLabel \/ NameRunsOut
        \/ QuestionEnds
        \/ NotAQuery \/ RecordCut \/ OtherRecord
        \/ SecondOpt \/ NamedOpt \/ BadRdata \/ GoodOpt
        \/ RecordsEnd

Spec == Init /\ [][Next]_vars

\* The parser is sequential code.
FairSpec == Spec /\ WF_vars(Next)

-----------------------------------------------------------------------------
(* Properties *)

\* Every packet is accepted or rejected in the end, pointers that lead back
\* included (dns_packet_question.cc:562).
Terminates == <>(phase \in Ended)

\* The three walks over a name agree where it ends: ParseDomainName, which follows
\* pointers, SkipDnsName in the cache and the loop over additional records, which
\* do not.  Else the cache would rewrite bytes that are no TTL, and an OPT record
\* would be looked for in the middle of another record.
WalkersAgree ==
    phase = "tail" => /\ offset = SkipDnsName(name.start)
                      /\ offset = NameEnd(name.start)

\* Where the additional records begin; nowhere in the packet after one that is cut.
RecordStarts ==
    LET start[i \in 1 .. packet.header.arcount] ==
          IF i = 1 THEN NameEnd(HeaderSize) + QuestionTail
          ELSE IF Framed(start[i - 1]) THEN RdataEnd(start[i - 1]) ELSE Size
    IN  start

\* An OPT record at i that has the root's name and whole options.
SoundOpt(i) == Cell(i) = 0 /\ WholeRdata(i)

\* The records at starts are all there and have one OPT record, of such a version.
OneSoundOpt(starts, versions) ==
    /\ \A i \in DOMAIN starts : Framed(starts[i])
    /\ \E i \in DOMAIN starts :
          /\ {j \in DOMAIN starts : Type(starts[j]) = OptType} = {i}
          /\ SoundOpt(starts[i]) /\ Version(starts[i]) \in versions

\* The verdict on the additional section, come to record by record with some
\* statuses overwriting others, is the one its records deserve together: no OPT
\* record, exactly one and sound, or an error (include/dns_edns0.h:19-25); and
\* the data the servers use is that record's.
StatusHonest ==
    phase = "accepted" =>
       /\ opt.status = "None" <=>
             \A i \in DOMAIN RecordStarts :
                Framed(RecordStarts[i]) /\ Type(RecordStarts[i]) # OptType
       /\ opt.status = "Ok" <=> OneSoundOpt(RecordStarts, {0})
       /\ opt.status = "BadVersion" <=> OneSoundOpt(RecordStarts, Nat \ {0})
       /\ opt.status \in {"Ok", "BadVersion"} =>
             \E i \in DOMAIN RecordStarts :
                opt.edns = RecordStarts[i] /\ Type(opt.edns) = OptType

=============================================================================
