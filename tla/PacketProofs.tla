---------------------------- MODULE PacketProofs -----------------------------
(***************************************************************************)
(* Packets, for any set of messages, names and widths.  The query parser:  *)
(* what it reads lies inside the packet, the three walks over a name       *)
(* agree, and the EDNS status is the one the additional section deserves.  *)
(* Responses: what Valid approves of or was parsed is read back from what  *)
(* ToWire writes, and the records of a parsed message are those that stand *)
(* where the cache looks for them, with the names the message has there.   *)
(*                                                                         *)
(* NameEnd and SkipDnsName are recursive functions, and so are             *)
(* ParseDomainName, Section, Total and FlattenSeq.  Their equations are    *)
(* proved first: a function that satisfies them exists, built step by      *)
(* step, and no other does, by the least distance from the end (for        *)
(* ParseDomainName the hops left, then that distance) at which two could   *)
(* differ.                                                                 *)
(***************************************************************************)
EXTENDS ResponsePacket, NaturalsInduction, WellFoundedInduction, TLAPS

-----------------------------------------------------------------------------
(* The inductive invariant *)

NoOpt == [read |-> 0, count |-> 0, status |-> "None", edns |-> NoRecord]

PacketsOK == /\ packet \in [header : Header, cells : Seq(Nat)]
             /\ name \in [start : Nat, at : Nat, hops : Nat, labels : Seq(Nat)]
             /\ opt \in [read : Nat, count : Nat, status : Statuses, edns : Nat]

\* The parser has not come to the additional section.
Before == /\ phase \in {"header", "name", "tail"} => opt = NoOpt
          /\ phase \in {"name", "tail"} =>
                /\ questions < packet.header.qdcount
                /\ questions = 0 => name.start = HeaderSize

\* Up to the first pointer the rest of the name ends where the name ends; after it
\* the caller's offset is there already.
Walking ==
    phase = "name" =>
       IF name.hops = 0
         THEN /\ NameEnd(name.start) = NameEnd(name.at)
              /\ SkipDnsName(name.start) = SkipDnsName(name.at)
         ELSE /\ offset = NameEnd(name.start)
              /\ offset = SkipDnsName(name.start)

\* The OPT records among the first n.
Opts(n) == {i \in 1 .. n : Type(RecordStarts[i]) = OptType}

\* What the state o of the section says of the n records read.
Verdict(o, n) ==
    /\ \A i \in 1 .. n : Framed(RecordStarts[i])
    /\ o.count = 0 <=> o.status = "None"
    /\ o.status = "None" <=> Opts(n) = {}
    /\ o.status \in {"Ok", "BadVersion"} =>
          \E i \in 1 .. n : /\ Opts(n) = {i} /\ SoundOpt(RecordStarts[i])
                            /\ o.edns = RecordStarts[i]
                            /\ Version(RecordStarts[i]) \in Nat
                            /\ o.status = "Ok" <=> Version(RecordStarts[i]) = 0
    /\ o.status \in {"DuplicateOpt", "Malformed"} =>
          \E i, j \in Opts(n) : i # j \/ ~ SoundOpt(RecordStarts[i])

InSection ==
    phase = "record" /\ packet.header.qdcount = 1 =>
       /\ opt.read < packet.header.arcount => offset = RecordStarts[opt.read + 1]
       /\ Verdict(opt, opt.read)

IInv == /\ PacketsOK /\ TypeOK
        /\ opt.count <= opt.read
        /\ Before
        /\ Walking /\ WalkersAgree
        /\ InSection /\ StatusHonest

-----------------------------------------------------------------------------
(* The walks over a name *)

\* A nonempty set of numbers has a least member.
LEMMA LeastExists ==
    ASSUME NEW T, T \subseteq Nat, T # {}
    PROVE  \E x \in T : \A y \in T : x <= y
<1> DEFINE R == {ss \in Nat \X Nat : ss[1] < ss[2]}
<1>1. IsWellFoundedOn(R, Nat)
  BY NatLessThanWellFounded DEF OpToRel
<1>2. PICK x \in T : \A y \in T : ~ <<y, x>> \in R
  BY <1>1, WFMin
<1>3. ASSUME NEW y \in T PROVE x <= y
  <2>1. x \in Nat /\ y \in Nat /\ <<y, x>> \in Nat \X Nat
    OBVIOUS
  <2>2. y < x => <<y, x>> \in R
    BY <2>1
  <2> QED
    BY <1>2, <2>1, <2>2
<1> QED
  BY <1>3

\* One step of a walk at j that f continues and that is past[j] behind the packet.
WalkStep(f, past, j) == IF j >= Size THEN past[j]
                        ELSE CASE Cell(j) = 0 -> j + 1
                               [] Cell(j) = Pointer -> j + 2
                               [] OTHER -> f[j + 1 + Cell(j)]

CellsOK == packet.cells \in Seq(Nat)

LEMMA CellType ==
    ASSUME CellsOK, NEW j \in Nat, j < Size
    PROVE  Cell(j) \in Nat
  BY DEF CellsOK, Size, Cell

LEMMA SizeType ==
    ASSUME CellsOK
    PROVE  Size \in Nat
  BY DEF CellsOK, Size

LEMMA WalkStepType ==
    ASSUME CellsOK, NEW past \in [Nat -> Nat], NEW f \in [Nat -> Nat], NEW j \in Nat
    PROVE  WalkStep(f, past, j) \in Nat
  BY CellType, SizeType DEF WalkStep

\* Every step but the last moves towards the packet's end, so a walk ends.
LEMMA WalkExists ==
    ASSUME CellsOK, NEW past \in [Nat -> Nat]
    PROVE  \E f \in [Nat -> Nat] : \A j \in Nat : f[j] = WalkStep(f, past, j)
<1> DEFINE Good(k) == \E f \in [Nat -> Nat] :
                         \A j \in Nat : j + k >= Size => f[j] = WalkStep(f, past, j)
           Bad == {k \in Nat : ~ Good(k)}
<1>0. Size \in Nat
  BY SizeType
<1>1. Good(0)
  BY <1>0 DEF WalkStep
<1>2. ASSUME NEW k \in Nat, Good(k) PROVE Good(k + 1)
  <2>1. PICK f \in [Nat -> Nat] :
           \A j \in Nat : j + k >= Size => f[j] = WalkStep(f, past, j)
    BY <1>2
  <2> DEFINE g == [j \in Nat |-> WalkStep(f, past, j)]
  <2>2. g \in [Nat -> Nat]
    BY WalkStepType
  <2>3. ASSUME NEW j \in Nat, j + k >= Size PROVE g[j] = f[j]
    BY <2>1, <2>3
  <2>4. ASSUME NEW j \in Nat, j + (k + 1) >= Size
        PROVE  g[j] = WalkStep(g, past, j)
    <3>1. g[j] = WalkStep(f, past, j)
      OBVIOUS
    <3>2. CASE j >= Size
      BY <3>1, <3>2 DEF WalkStep
    <3>3. CASE j < Size
      <4>1. Cell(j) \in Nat
        BY <3>3, CellType
      <4>2. j + 1 + Cell(j) \in Nat /\ (j + 1 + Cell(j)) + k >= Size
        BY <1>0, <2>4, <4>1
      <4>3. g[j + 1 + Cell(j)] = f[j + 1 + Cell(j)]
        BY <2>3, <4>2
      <4> HIDE DEF g
      <4> QED
        BY <3>1, <3>3, <4>3, <1>0 DEF WalkStep
    <3> QED
      BY <1>0, <3>2, <3>3
  <2> HIDE DEF g
  <2> QED
    BY <2>2, <2>4
<1> HIDE DEF Good
<1>3. Bad = {}
  <2> SUFFICES ASSUME Bad # {} PROVE FALSE
    OBVIOUS
  <2>1. PICK k \in Bad : \A y \in Bad : k <= y
    BY LeastExists
  <2>2. k # 0 /\ k \in Nat
    BY <1>1
  <2>3. k - 1 \in Nat /\ ~ (k - 1 \in Bad)
    BY <2>1, <2>2
  <2>4. Good(k - 1)
    BY <2>3
  <2>5. Good((k - 1) + 1)
    BY <1>2, <2>3, <2>4
  <2> QED
    BY <2>2, <2>5
<1>4. Good(Size)
  BY <1>0, <1>3
<1> QED
  BY <1>0, <1>4 DEF Good

\* Whatever function takes these steps, its values are offsets.
LEMMA WalkType ==
    ASSUME CellsOK, NEW past \in [Nat -> Nat], NEW f,
           \A j \in Nat : f[j] = WalkStep(f, past, j), NEW i \in Nat
    PROVE  f[i] \in Nat
<1> DEFINE Bad == {k \in Nat : \E j \in Nat : j + k >= Size /\ ~ (f[j] \in Nat)}
<1>0. Size \in Nat
  BY SizeType
<1>1. Bad = {}
  <2> SUFFICES ASSUME Bad # {} PROVE FALSE
    OBVIOUS
  <2>1. PICK k \in Bad : \A y \in Bad : k <= y
    BY LeastExists
  <2>2. PICK j \in Nat : j + k >= Size /\ ~ (f[j] \in Nat)
    OBVIOUS
  <2>3. f[j] = WalkStep(f, past, j)
    OBVIOUS
  <2>4. j < Size
    BY <2>2, <2>3, <1>0 DEF WalkStep
  <2>5. Cell(j) \in Nat
    BY <2>4, CellType
  <2>6. f[j] = f[j + 1 + Cell(j)]
    BY <2>2, <2>3, <2>4, <2>5, <1>0 DEF WalkStep
  <2>7. k \in Nat /\ k # 0 /\ k - 1 \in Nat
    BY <2>2, <2>4, <1>0
  <2>8. k - 1 \in Bad
    <3>1. j + 1 + Cell(j) \in Nat /\ (j + 1 + Cell(j)) + (k - 1) >= Size
      BY <2>2, <2>5, <2>7, <1>0
    <3> QED
      BY <2>2, <2>6, <2>7, <3>1
  <2> HIDE DEF Bad
  <2> QED
    BY <2>1, <2>7, <2>8
<1>2. i + Size >= Size
  BY <1>0
<1> QED
  BY <1>0, <1>1, <1>2

\* The loop over additional records takes the steps of a walk (dns_packet.cc:263-302).
LEMMA NameEndStep ==
    ASSUME CellsOK, NEW i \in Nat
    PROVE  /\ NameEnd(i) \in Nat
           /\ NameEnd(i) = IF i >= Size THEN i
                           ELSE CASE Cell(i) = 0 -> i + 1
                                  [] Cell(i) = Pointer -> i + 2
                                  [] OTHER -> NameEnd(i + 1 + Cell(i))
<1> DEFINE past == [j \in Nat |-> j]
           Body(f) == [j \in Nat |-> IF j >= Size THEN j
                                     ELSE CASE Cell(j) = 0 -> j + 1
                                            [] Cell(j) = Pointer -> j + 2
                                            [] OTHER -> f[j + 1 + Cell(j)]]
           end == CHOOSE f : f = Body(f)
<1>0. past \in [Nat -> Nat]
  OBVIOUS
<1>1. PICK f \in [Nat -> Nat] : \A j \in Nat : f[j] = WalkStep(f, past, j)
  <2> HIDE DEF past
  <2> QED
    BY <1>0, WalkExists
<1>2. \A g : \A j \in Nat : Body(g)[j] = WalkStep(g, past, j)
  <2> TAKE g
  <2> TAKE j \in Nat
  <2>1. past[j] = j
    OBVIOUS
  <2> HIDE DEF past
  <2> QED
    BY <2>1 DEF WalkStep
<1>3. f = Body(f)
  <2>1. DOMAIN f = Nat /\ DOMAIN Body(f) = Nat
    OBVIOUS
  <2>2. \A j \in Nat : f[j] = Body(f)[j]
    BY <1>1, <1>2
  <2> QED
    BY <2>1, <2>2
<1>4. end = Body(end)
  BY <1>3
<1>5. \A j : NameEnd(j) = end[j]
  BY DEF NameEnd
<1> HIDE DEF end
<1>6. \A j \in Nat : end[j] = WalkStep(end, past, j)
  BY <1>2, <1>4
<1> HIDE DEF past
<1>7. end[i] \in Nat
  BY <1>0, <1>6, WalkType
<1>8. past[i] = i
  BY DEF past
<1> QED
  BY <1>5, <1>6, <1>7, <1>8 DEF WalkStep

\* So does the cache's SkipDnsName (dns_cache.cc:116-136).
LEMMA SkipStep ==
    ASSUME CellsOK, NEW i \in Nat
    PROVE  SkipDnsName(i) = IF i >= Size THEN 0
                            ELSE CASE Cell(i) = 0 -> i + 1
                                   [] Cell(i) = Pointer -> i + 2
                                   [] OTHER -> SkipDnsName(i + 1 + Cell(i))
<1> DEFINE past == [j \in Nat |-> 0]
           Body(f) == [j \in Nat |-> IF j >= Size THEN 0
                                     ELSE CASE Cell(j) = 0 -> j + 1
                                            [] Cell(j) = Pointer -> j + 2
                                            [] OTHER -> f[j + 1 + Cell(j)]]
           skip == CHOOSE f : f = Body(f)
<1>0. past \in [Nat -> Nat]
  OBVIOUS
<1>1. PICK f \in [Nat -> Nat] : \A j \in Nat : f[j] = WalkStep(f, past, j)
  <2> HIDE DEF past
  <2> QED
    BY <1>0, WalkExists
<1>2. \A g : \A j \in Nat : Body(g)[j] = WalkStep(g, past, j)
  <2> TAKE g
  <2> TAKE j \in Nat
  <2>1. past[j] = 0
    OBVIOUS
  <2> HIDE DEF past
  <2> QED
    BY <2>1 DEF WalkStep
<1>3. f = Body(f)
  <2>1. DOMAIN f = Nat /\ DOMAIN Body(f) = Nat
    OBVIOUS
  <2>2. \A j \in Nat : f[j] = Body(f)[j]
    BY <1>1, <1>2
  <2> QED
    BY <2>1, <2>2
<1>4. skip = Body(skip)
  BY <1>3
<1>5. \A j : SkipDnsName(j) = skip[j]
  BY DEF SkipDnsName
<1> HIDE DEF skip
<1>6. skip[i] = WalkStep(skip, past, i)
  BY <1>2, <1>4
<1> HIDE DEF past
<1>7. past[i] = 0
  BY DEF past
<1> QED
  BY <1>5, <1>6, <1>7 DEF WalkStep

\* Inside the packet both walks take the same steps.
LEMMA SameSteps ==
    ASSUME CellsOK, NEW i \in Nat, i < Size
    PROVE  /\ Cell(i) = 0 => NameEnd(i) = i + 1 /\ SkipDnsName(i) = i + 1
           /\ Cell(i) = Pointer => NameEnd(i) = i + 2 /\ SkipDnsName(i) = i + 2
           /\ Cell(i) # 0 /\ Cell(i) # Pointer =>
                 /\ NameEnd(i) = NameEnd(i + 1 + Cell(i))
                 /\ SkipDnsName(i) = SkipDnsName(i + 1 + Cell(i))
<1>1. ~ (i >= Size) /\ Pointer # 0
  BY SizeType, PacketAssumption
<1>2. NameEnd(i) = CASE Cell(i) = 0 -> i + 1
                     [] Cell(i) = Pointer -> i + 2
                     [] OTHER -> NameEnd(i + 1 + Cell(i))
  BY <1>1, NameEndStep
<1>3. SkipDnsName(i) = CASE Cell(i) = 0 -> i + 1
                         [] Cell(i) = Pointer -> i + 2
                         [] OTHER -> SkipDnsName(i + 1 + Cell(i))
  BY <1>1, SkipStep
<1> QED
  BY <1>1, <1>2, <1>3

\* The fixed-size fields of a record that is not cut are in the packet.
LEMMA FramedFacts ==
    ASSUME CellsOK, NEW i \in Nat, Framed(i)
    PROVE  /\ i < Size
           /\ Version(i) \in Nat
           /\ RdataEnd(i) \in Nat
<1>1. Size \in Nat /\ NameEnd(i) \in Nat
  BY SizeType, NameEndStep
<1>2. NameEnd(i) + 2 < Size /\ i < Size
  BY <1>1 DEF Framed, RdataStart, RecordTail
<1>3. Cell(NameEnd(i) + 1) \in Nat /\ Cell(NameEnd(i) + 2) \in Nat
  BY <1>1, <1>2, CellType
<1> QED
  BY <1>1, <1>2, <1>3 DEF Version, RdataEnd, RdataStart, RecordTail

\* Where the records begin: the equations of the recursive function.
LEMMA StartsStep ==
    ASSUME packet.header.arcount \in Nat,
           NEW i \in 1 .. packet.header.arcount
    PROVE  /\ DOMAIN RecordStarts = 1 .. packet.header.arcount
           /\ RecordStarts[i] =
                IF i = 1 THEN NameEnd(HeaderSize) + QuestionTail
                ELSE IF Framed(RecordStarts[i - 1]) THEN RdataEnd(RecordStarts[i - 1])
                ELSE Size
<1> DEFINE n == packet.header.arcount
           Step(f, j) == IF j = 1 THEN NameEnd(HeaderSize) + QuestionTail
                         ELSE IF Framed(f[j - 1]) THEN RdataEnd(f[j - 1]) ELSE Size
           Body(f) == [j \in 1 .. n |-> Step(f, j)]
           start == CHOOSE f : f = Body(f)
           Good(m) == \E f : \A j \in 1 .. n : j <= m => f[j] = Step(f, j)
           Bad == {m \in Nat : ~ Good(m)}
<1>0. n \in Nat
  OBVIOUS
<1>1. Good(0)
  BY <1>0
<1>2. ASSUME NEW m \in Nat, Good(m) PROVE Good(m + 1)
  <2>1. PICK f : \A j \in 1 .. n : j <= m => f[j] = Step(f, j)
    BY <1>2
  <2> DEFINE g == Body(f)
  <2> HIDE DEF n, Step
  <2>2. \A j \in 1 .. n : g[j] = Step(f, j)
    OBVIOUS
  <2> HIDE DEF g
  <2>3. ASSUME NEW j \in 1 .. n, j <= m + 1
        PROVE  Step(f, j) = Step(g, j)
    <3>1. CASE j = 1
      BY <3>1 DEF Step
    <3>2. CASE j # 1
      <4>1. j - 1 \in 1 .. n /\ j - 1 <= m
        BY <1>0, <2>3, <3>2
      <4>2. g[j - 1] = f[j - 1]
        BY <2>1, <2>2, <4>1
      <4> QED
        BY <4>2 DEF Step
    <3> QED
      BY <3>1, <3>2
  <2> QED
    BY <2>2, <2>3
<1> HIDE DEF Good
<1>3. Bad = {}
  <2> SUFFICES ASSUME Bad # {} PROVE FALSE
    OBVIOUS
  <2>1. PICK m \in Bad : \A y \in Bad : m <= y
    BY LeastExists
  <2>2. m # 0 /\ m \in Nat
    BY <1>1
  <2>3. m - 1 \in Nat /\ ~ (m - 1 \in Bad)
    BY <2>1, <2>2
  <2>4. Good(m - 1)
    BY <2>3
  <2>5. Good((m - 1) + 1)
    BY <1>2, <2>3, <2>4
  <2> QED
    BY <2>2, <2>5
<1>4. Good(n)
  BY <1>0, <1>3
<1>5. \E f : f = Body(f)
  <2>1. PICK f : \A j \in 1 .. n : j <= n => f[j] = Step(f, j)
    BY <1>4 DEF Good
  <2> HIDE DEF n, Step
  <2> DEFINE g == Body(f)
  <2>2. ASSUME NEW j \in 1 .. n PROVE g[j] = f[j]
    BY <1>0, <2>1
  <2>3. ASSUME NEW j \in 1 .. n PROVE Step(f, j) = Step(g, j)
    <3>1. CASE j = 1
      BY <3>1 DEF Step
    <3>2. CASE j # 1
      <4>1. j - 1 \in 1 .. n
        BY <1>0, <3>2
      <4>2. g[j - 1] = f[j - 1]
        BY <2>2, <4>1
      <4> HIDE DEF g
      <4> QED
        BY <4>2 DEF Step
    <3> QED
      BY <3>1, <3>2
  <2>4. g = Body(g)
    BY <2>3
  <2> QED
    BY <2>4
<1>6. start = Body(start)
  BY <1>5
<1>7. RecordStarts = start
  BY DEF RecordStarts
<1> HIDE DEF start, Step, n
<1>8. DOMAIN start = 1 .. n /\ \A j \in 1 .. n : start[j] = Step(start, j)
  BY <1>6
<1>9. i \in 1 .. n
  BY DEF n
<1> QED
  BY <1>7, <1>8, <1>9 DEF Step, n

\* Without records there are no starts.
LEMMA NoRecords ==
    ASSUME packet.header.arcount = 0
    PROVE  DOMAIN RecordStarts = 1 .. 0
<1> DEFINE none == [i \in 1 .. 0 |-> 0]
           Body(f) == [i \in 1 .. packet.header.arcount |->
                         IF i = 1 THEN NameEnd(HeaderSize) + QuestionTail
                         ELSE IF Framed(f[i - 1]) THEN RdataEnd(f[i - 1]) ELSE Size]
           start == CHOOSE f : f = Body(f)
<1>1. none = Body(none)
  OBVIOUS
<1>2. start = Body(start)
  BY <1>1
<1>3. RecordStarts = start
  BY DEF RecordStarts
<1> HIDE DEF start
<1> QED
  BY <1>2, <1>3

\* Nothing but the packet decides what the walks and the records are.
LEMMA SamePacket ==
    ASSUME packet' = packet
    PROVE  /\ Size' = Size
           /\ \A i : Cell(i)' = Cell(i)
           /\ \A i : NameEnd(i)' = NameEnd(i)
           /\ \A i : SkipDnsName(i)' = SkipDnsName(i)
           /\ \A i : Type(i)' = Type(i)
           /\ \A i : Version(i)' = Version(i)
           /\ \A i : Framed(i)' = Framed(i)
           /\ \A i : SoundOpt(i)' = SoundOpt(i)
           /\ RecordStarts' = RecordStarts
<1>1. Size' = Size /\ \A i : Cell(i)' = Cell(i)
  BY DEF Size, Cell
<1>2. \A i : NameEnd(i)' = NameEnd(i)
  BY DEF NameEnd, Size, Cell
<1>3. \A i : SkipDnsName(i)' = SkipDnsName(i)
  BY DEF SkipDnsName, Size, Cell
<1>4. \A i : Type(i)' = Type(i)
  BY <1>1, <1>2 DEF Type, Cell
<1>5. \A i : Version(i)' = Version(i)
  BY <1>1, <1>2 DEF Version, Cell
<1>6. \A i : Framed(i)' = Framed(i)
  BY <1>1, <1>2 DEF Framed, RdataStart
<1>7. \A i : RdataEnd(i)' = RdataEnd(i)
  BY <1>1, <1>2 DEF RdataEnd, RdataStart, Cell
<1>8. \A i, j : OptionsFit(i, j)' = OptionsFit(i, j)
  BY DEF OptionsFit, Cell
<1>9. \A i : SoundOpt(i)' = SoundOpt(i)
  BY <1>1, <1>2, <1>7, <1>8 DEF SoundOpt, WholeRdata, RdataStart
<1>10. RecordStarts' = RecordStarts
  BY <1>1, <1>2, <1>6, <1>7 DEF RecordStarts
<1> QED
  BY <1>1, <1>2, <1>3, <1>4, <1>5, <1>6, <1>9, <1>10

-----------------------------------------------------------------------------
(* The steps of the parser *)

LEMMA HeaderFacts ==
    ASSUME PacketsOK
    PROVE  /\ CellsOK
           /\ Size \in Nat
           /\ packet.header \in Header
           /\ packet.header.qdcount \in Nat
           /\ packet.header.arcount \in Nat
           /\ \A j \in Nat : j < Size => Cell(j) \in Nat
<1>1. CellsOK /\ packet.header \in Header
  BY DEF PacketsOK, CellsOK
<1> QED
  BY <1>1, SizeType, CellType DEF Header

LEMMA InitInv == Init => IInv
<1> SUFFICES ASSUME Init PROVE IInv
  OBVIOUS
<1>1. PICK h \in DOMAIN Packets : \E c \in Packets[h] : packet = [header |-> h, cells |-> c]
  BY DEF Init
<1>2. PICK c \in Packets[h] : packet = [header |-> h, cells |-> c]
  BY <1>1
<1>3. h \in Header /\ c \in Seq(Nat)
  BY PacketAssumption
<1>4. PacketsOK
  BY <1>2, <1>3 DEF Init, PacketsOK, NoName, NoRecord, Statuses
<1>5. packet.header.qdcount \in Nat /\ packet.header.arcount \in Nat
  BY <1>4, HeaderFacts
<1>6. TypeOK
  BY <1>5, PacketAssumption DEF Init, TypeOK, NoName, NoRecord, Statuses
<1> QED
  BY <1>4, <1>6 DEF Init, IInv, Before, NoOpt, NoName, Walking, WalkersAgree, InSection,
                    StatusHonest

\* A rejected packet keeps what was found out about it.
LEMMA RejectStep == ASSUME IInv, Reject PROVE IInv'
<1>1. packet' = packet
  BY DEF Reject
<1>2. Size' = Size /\ \A i : Cell(i)' = Cell(i)
  BY <1>1, SamePacket
<1>3. PacketsOK'
  BY DEF IInv, PacketsOK, Reject
<1>4. TypeOK'
  BY <1>2 DEF IInv, TypeOK, Reject, Ended, Cell
<1> QED
  BY <1>3, <1>4 DEF IInv, Reject, Before, Walking, WalkersAgree, InSection, StatusHonest

\* A question begins where the last one or the header ended.
LEMMA BeginStep ==
    ASSUME IInv, NEW n \in 0 .. packet.header.qdcount, BeginQuestion(n),
           UNCHANGED <<packet, opt>>, opt = NoOpt,
           offset' \in 0 .. Size, n = 0 => offset' = HeaderSize,
           n >= 1 /\ packet.header.qdcount = 1 =>
              offset' = NameEnd(HeaderSize) + QuestionTail
    PROVE  IInv'
<1>1. Size' = Size /\ \A i : Cell(i)' = Cell(i)
  BY SamePacket
<1>2. /\ CellsOK /\ Size \in Nat /\ packet.header.qdcount \in Nat
      /\ packet.header.arcount \in Nat /\ HeaderSize \in Nat
      /\ PacketsOK
  BY HeaderFacts, PacketAssumption DEF IInv
<1> DEFINE begun == [start |-> offset', at |-> offset', hops |-> 0, labels |-> <<>>]
<1>a. name' = begun \/ name' = name
  BY DEF BeginQuestion, NoName
<1>3. PacketsOK'
  <2>1. packet' = packet /\ opt' = opt /\ offset' \in Nat
    BY <1>2
  <2>2. begun \in [start : Nat, at : Nat, hops : Nat, labels : Seq(Nat)]
    BY <2>1
  <2>3. name \in [start : Nat, at : Nat, hops : Nat, labels : Seq(Nat)]
    BY <1>2 DEF PacketsOK
  <2> HIDE DEF begun
  <2> QED
    BY <1>2, <1>a, <2>1, <2>2, <2>3 DEF PacketsOK
<1>4. TypeOK'
  <2>1. questions' \in 0 .. packet'.header.qdcount /\ phase' \in {"name", "record"}
    BY DEF BeginQuestion
  <2>2. /\ name'.hops \in 0 .. DNS_MAX_POINTER_HOPS
        /\ \A i \in DOMAIN name'.labels : name'.labels[i] + Cell(name.labels[i])' < Size'
    <3>1. CASE name' = begun
      BY <3>1, PacketAssumption
    <3>2. CASE name' = name
      BY <3>2, <1>1 DEF IInv, TypeOK, Cell
    <3> QED
      BY <1>a, <3>1, <3>2
  <2>3. /\ opt'.read \in 0 .. packet'.header.arcount
        /\ opt'.count \in 0 .. opt'.read + 1
        /\ opt'.status \in Statuses
        /\ opt'.edns \in Nat /\ (opt'.edns # NoRecord => opt'.edns < Size')
    BY <1>1 DEF IInv, TypeOK
  <2> QED
    BY <1>1, <1>2, <2>1, <2>2, <2>3 DEF TypeOK
<1>5. opt'.count <= opt'.read
  BY <1>2 DEF NoOpt
<1>6. Before'
  BY <1>2 DEF BeginQuestion, Before, NoName
<1>7. Walking'
  BY <1>2 DEF BeginQuestion, Walking, NoName
<1>8. WalkersAgree' /\ StatusHonest'
  BY DEF BeginQuestion, WalkersAgree, StatusHonest
<1>9. InSection'
  <2> SUFFICES ASSUME phase' = "record", packet.header.qdcount = 1
               PROVE  /\ opt'.read < packet'.header.arcount =>
                            offset' = RecordStarts'[opt'.read + 1]
                      /\ Verdict(opt, opt.read)'
    BY DEF InSection
  <2>1. n >= 1
    BY DEF BeginQuestion
  <2>2. opt'.read = 0 /\ opt.read = 0
    BY DEF NoOpt
  <2>3. opt'.read < packet'.header.arcount => offset' = RecordStarts'[opt'.read + 1]
    <3> SUFFICES ASSUME 0 < packet.header.arcount
                 PROVE  offset' = RecordStarts'[1]
      BY <2>2
    <3>1. 1 \in 1 .. packet.header.arcount
      BY <1>2
    <3>2. RecordStarts[1] = NameEnd(HeaderSize) + QuestionTail
      BY <1>2, <3>1, StartsStep
    <3> QED
      BY <2>1, <3>2, SamePacket
  <2>4. Verdict(opt, opt.read)'
    BY <2>2 DEF Verdict, Opts, NoOpt
  <2> QED
    BY <2>3, <2>4
<1> QED
  BY <1>3, <1>4, <1>5, <1>6, <1>7, <1>8, <1>9 DEF IInv

LEMMA HeaderStep == ASSUME IInv, ReadHeader PROVE IInv'
<1>1. CASE Reject
  BY <1>1, RejectStep
<1>2. CASE /\ ValidHeader /\ offset' = HeaderSize
           /\ BeginQuestion(0) /\ UNCHANGED <<packet, opt>>
  <2>1. Size \in Nat /\ packet.header.qdcount \in Nat /\ HeaderSize \in Nat
    BY HeaderFacts, PacketAssumption DEF IInv
  <2>2. offset' \in 0 .. Size /\ 0 \in 0 .. packet.header.qdcount
    BY <1>2, <2>1 DEF ValidHeader
  <2>3. opt = NoOpt
    BY DEF ReadHeader, IInv, Before
  <2> QED
    BY <1>2, <2>2, <2>3, BeginStep
<1> QED
  BY <1>1, <1>2 DEF ReadHeader

\* What is left to show of a step that stays with the question.
LEMMA QuestionStep ==
    ASSUME IInv, UNCHANGED <<packet, questions, opt>>, PacketsOK', TypeOK',
           phase \in {"name", "tail"}, phase' \in {"name", "tail"},
           name'.start = name.start, Walking', WalkersAgree'
    PROVE  IInv'
  BY DEF IInv, Before, InSection, StatusHonest

\* A step inside a name, to at with the given hops and labels.
LEMMA NameStep ==
    ASSUME IInv, Reading, UNCHANGED <<packet, questions, opt>>,
           NEW at \in Nat, NEW hops \in 0 .. DNS_MAX_POINTER_HOPS, NEW labels \in Seq(Nat),
           name' = [name EXCEPT !.at = at, !.hops = hops, !.labels = labels],
           \A i \in DOMAIN labels : labels[i] + Cell(labels[i]) < Size,
           phase' \in {"name", "tail"}, offset' \in 0 .. Size
    PROVE  /\ PacketsOK' /\ TypeOK'
           /\ name'.start = name.start /\ name'.at = at /\ name'.hops = hops
<1>1. Size' = Size /\ \A i : Cell(i)' = Cell(i)
  BY SamePacket
<1>2. Size \in Nat /\ PacketsOK
  BY HeaderFacts DEF IInv
<1>3. /\ name'.start = name.start /\ name'.at = at /\ name'.hops = hops
      /\ name'.labels = labels
      /\ name' \in [start : Nat, at : Nat, hops : Nat, labels : Seq(Nat)]
  <2>1. name \in [start : Nat, at : Nat, hops : Nat, labels : Seq(Nat)]
    BY <1>2 DEF PacketsOK
  <2>2. hops \in Nat
    BY PacketAssumption
  <2> QED
    BY <2>1, <2>2
<1>4. PacketsOK'
  BY <1>2, <1>3 DEF PacketsOK
<1>5. TypeOK'
  <2>1. \A i \in DOMAIN labels : labels[i] + Cell(labels[i])' < Size'
    BY <1>1 DEF Cell
  <2>2. \A i \in DOMAIN name'.labels : name'.labels[i] + Cell(name.labels[i])' < Size'
    BY <1>3, <2>1 DEF Cell
  <2>3. /\ offset' \in Nat /\ offset' <= Size'
        /\ name'.hops \in 0 .. DNS_MAX_POINTER_HOPS
    BY <1>1, <1>2, <1>3
  <2> QED
    BY <1>1, <2>2, <2>3 DEF IInv, TypeOK
<1> QED
  BY <1>3, <1>4, <1>5

LEMMA NameEndsStep == ASSUME IInv, NameEnds PROVE IInv'
<1>1. /\ phase = "name" /\ name.at < Size /\ Cell(name.at) = 0
      /\ offset' = Past(name.at + 1) /\ phase' = "tail"
      /\ packet' = packet /\ name' = name /\ questions' = questions /\ opt' = opt
  BY DEF NameEnds, Reading
<1>2. /\ CellsOK /\ Size \in Nat /\ name.at \in Nat /\ name.start \in Nat /\ PacketsOK
      /\ offset \in Nat /\ offset <= Size
  BY <1>1, HeaderFacts DEF IInv, PacketsOK, TypeOK
<1>3. NameEnd(name.at) = name.at + 1 /\ SkipDnsName(name.at) = name.at + 1
  BY <1>1, <1>2, SameSteps
<1>4. offset' = NameEnd(name.start) /\ offset' = SkipDnsName(name.start)
  BY <1>1, <1>3 DEF Past, IInv, Walking
<1>5. offset' \in Nat /\ offset' <= Size
  BY <1>1, <1>2 DEF Past
<1>6. PacketsOK'
  BY <1>1, <1>2 DEF PacketsOK
<1>7. Size' = Size /\ \A i : Cell(i)' = Cell(i)
  BY <1>1, SamePacket
<1>8. TypeOK'
  BY <1>1, <1>5, <1>7 DEF IInv, TypeOK, Cell
<1>9. WalkersAgree'
  <2>1. NameEnd(name.start)' = NameEnd(name.start)
    BY <1>1 DEF NameEnd, Size, Cell
  <2>2. SkipDnsName(name.start)' = SkipDnsName(name.start)
    BY <1>1 DEF SkipDnsName, Size, Cell
  <2> QED
    BY <1>4, <2>1, <2>2 DEF WalkersAgree
<1> QED
  BY <1>1, <1>6, <1>8, <1>9, QuestionStep DEF Walking

LEMMA FollowStep == ASSUME IInv, FollowPointer PROVE IInv'
<1>1. phase = "name" /\ name.at < Size /\ Cell(name.at) = Pointer /\ Reading
  BY DEF FollowPointer, Reading
<1>2. /\ CellsOK /\ Size \in Nat /\ PacketsOK
      /\ name.at \in Nat /\ name.start \in Nat /\ name.labels \in Seq(Nat)
      /\ name.hops \in 0 .. DNS_MAX_POINTER_HOPS
      /\ offset \in Nat /\ offset <= Size
      /\ \A i \in DOMAIN name.labels : name.labels[i] + Cell(name.labels[i]) < Size
  BY <1>1, HeaderFacts DEF IInv, PacketsOK, TypeOK
<1>3. CASE Reject
  BY <1>3, RejectStep
<1>4. CASE /\ name.at + 1 < Size /\ name.hops # DNS_MAX_POINTER_HOPS
           /\ offset' = Past(name.at + 2)
           /\ name' = [name EXCEPT !.at = Cell(name.at + 1), !.hops = @ + 1]
           /\ UNCHANGED <<packet, phase, questions, opt>>
  <2> DEFINE at == Cell(name.at + 1)
             hops == name.hops + 1
  <2>0. /\ name.at + 1 \in Nat /\ name.at + 1 < Size /\ CellsOK
        /\ name.hops \in 0 .. DNS_MAX_POINTER_HOPS /\ name.hops # DNS_MAX_POINTER_HOPS
    BY <1>2, <1>4
  <2>1. at \in Nat
    BY <2>0, CellType
  <2>2. hops \in 0 .. DNS_MAX_POINTER_HOPS
    BY <2>0, PacketAssumption
  <2>3. name' = [name EXCEPT !.at = at, !.hops = hops, !.labels = name.labels]
    BY <1>2, <1>4 DEF PacketsOK
  <2>4. offset' \in 0 .. Size
    BY <1>2, <1>4 DEF Past
  <2>5. phase' = "name" /\ packet' = packet /\ questions' = questions /\ opt' = opt
    BY <1>1, <1>4
  <2>6. PacketsOK' /\ TypeOK' /\ name'.start = name.start /\ name'.hops = hops
    <3> HIDE DEF at, hops
    <3> QED
      BY <1>1, <1>2, <2>1, <2>2, <2>3, <2>4, <2>5, NameStep
  <2>7. NameEnd(name.at) = name.at + 2 /\ SkipDnsName(name.at) = name.at + 2
    BY <1>1, <1>2, SameSteps
  <2>8. offset' = NameEnd(name.start) /\ offset' = SkipDnsName(name.start)
    BY <1>1, <1>4, <2>7 DEF Past, IInv, Walking
  <2>9. /\ NameEnd(name.start)' = NameEnd(name.start)
        /\ SkipDnsName(name.start)' = SkipDnsName(name.start)
    BY <2>5, <2>6, SamePacket DEF NameEnd, SkipDnsName, Size, Cell
  <2>10. name'.hops # 0
    BY <1>2, <2>6, PacketAssumption
  <2>11. Walking' /\ WalkersAgree'
    BY <2>5, <2>8, <2>9, <2>10 DEF Walking, WalkersAgree
  <2> QED
    BY <1>1, <2>5, <2>6, <2>11, QuestionStep
<1> QED
  BY <1>2, <1>3, <1>4 DEF FollowPointer

LEMMA LabelStep == ASSUME IInv, ReadLabel PROVE IInv'
<1>1. /\ phase = "name" /\ name.at < Size /\ Reading
      /\ Cell(name.at) # 0 /\ Cell(name.at) # Pointer
  BY PacketAssumption DEF ReadLabel, Reading
<1>2. /\ CellsOK /\ Size \in Nat /\ PacketsOK
      /\ name.at \in Nat /\ name.start \in Nat /\ name.labels \in Seq(Nat)
      /\ name.hops \in 0 .. DNS_MAX_POINTER_HOPS
      /\ offset \in Nat /\ offset <= Size
      /\ \A i \in DOMAIN name.labels : name.labels[i] + Cell(name.labels[i]) < Size
  BY <1>1, HeaderFacts DEF IInv, PacketsOK, TypeOK
<1>3. CASE Reject
  BY <1>3, RejectStep
<1>4. CASE /\ name.at + 1 + Cell(name.at) <= Size
           /\ name' = [name EXCEPT !.at = @ + 1 + Cell(name.at),
                                   !.labels = Append(@, name.at)]
           /\ UNCHANGED <<packet, phase, offset, questions, opt>>
  <2> DEFINE labels == Append(name.labels, name.at)
             at == name.at + 1 + Cell(name.at)
  <2>1. Cell(name.at) \in Nat /\ at \in Nat
    BY <1>1, <1>2, CellType
  <2>2. labels \in Seq(Nat)
    BY <1>2
  <2>3. name' = [name EXCEPT !.at = at, !.hops = name.hops, !.labels = labels]
    BY <1>2, <1>4 DEF PacketsOK
  <2>4. \A i \in DOMAIN labels : labels[i] + Cell(labels[i]) < Size
    <3>1. name.at + Cell(name.at) < Size
      BY <1>2, <1>4, <2>1
    <3>2. \A i \in DOMAIN labels :
             labels[i] = name.at \/ (i \in DOMAIN name.labels /\ labels[i] = name.labels[i])
      BY <1>2
    <3> HIDE DEF labels
    <3> QED
      BY <1>2, <3>1, <3>2
  <2>5. /\ phase' = "name" /\ packet' = packet /\ questions' = questions /\ opt' = opt
        /\ offset' = offset /\ offset' \in 0 .. Size
    BY <1>1, <1>2, <1>4
  <2> HIDE DEF labels, at
  <2>6. /\ PacketsOK' /\ TypeOK' /\ name'.start = name.start
        /\ name'.at = at /\ name'.hops = name.hops
    BY <1>1, <1>2, <2>1, <2>2, <2>3, <2>4, <2>5, NameStep
  <2>7. NameEnd(name.at) = NameEnd(at) /\ SkipDnsName(name.at) = SkipDnsName(at)
    BY <1>1, <1>2, SameSteps DEF at
  <2>8. /\ NameEnd(name.start)' = NameEnd(name.start)
        /\ SkipDnsName(name.start)' = SkipDnsName(name.start)
        /\ NameEnd(name.at)' = NameEnd(at)
        /\ SkipDnsName(name.at)' = SkipDnsName(at)
    BY <2>5, <2>6, SamePacket DEF NameEnd, SkipDnsName, Size, Cell
  <2>9. Walking'
    BY <1>1, <2>5, <2>6, <2>7, <2>8 DEF Walking, IInv
  <2>10. WalkersAgree'
    BY <2>5 DEF WalkersAgree
  <2> QED
    BY <1>1, <2>5, <2>6, <2>9, <2>10, QuestionStep
<1>5. Cell(name.at) \in Nat
  BY <1>1, <1>2, CellType
<1>6. CASE ~ Reject
  <2>1. /\ ~ (name.at + 1 + Cell(name.at) > Size)
        /\ name' = [name EXCEPT !.at = @ + 1 + Cell(name.at),
                                !.labels = Append(@, name.at)]
        /\ UNCHANGED <<packet, phase, offset, questions, opt>>
    BY <1>6 DEF ReadLabel
  <2> QED
    BY <1>2, <1>4, <1>5, <2>1
<1> QED
  BY <1>3, <1>6

LEMMA TailStep == ASSUME IInv, QuestionEnds PROVE IInv'
<1>1. phase = "tail"
  BY DEF QuestionEnds
<1>2. /\ CellsOK /\ Size \in Nat /\ offset \in Nat
      /\ questions \in 0 .. packet.header.qdcount /\ packet.header.qdcount \in Nat
  BY HeaderFacts DEF IInv, TypeOK
<1>3. CASE Reject
  BY <1>3, RejectStep
<1>4. CASE ~ Reject
  <2>1. /\ ~ (offset + QuestionTail > Size) /\ offset' = offset + QuestionTail
        /\ BeginQuestion(questions + 1) /\ UNCHANGED <<packet, opt>>
    BY <1>4 DEF QuestionEnds
  <2>2. offset' \in 0 .. Size
    BY <1>2, <2>1 DEF QuestionTail
  <2>3. /\ opt = NoOpt /\ questions < packet.header.qdcount
        /\ questions = 0 => name.start = HeaderSize
        /\ offset = NameEnd(name.start)
    BY <1>1 DEF IInv, Before, WalkersAgree
  <2>4. questions + 1 \in 0 .. packet.header.qdcount /\ questions + 1 # 0
    BY <1>2, <2>3
  <2>5. packet.header.qdcount = 1 => offset' = NameEnd(HeaderSize) + QuestionTail
    BY <1>2, <2>1, <2>3
  <2> QED
    BY <2>1, <2>2, <2>3, <2>4, <2>5, BeginStep
<1> QED
  BY <1>3, <1>4

-----------------------------------------------------------------------------
(* The additional section *)

\* What StatusHonest says of an accepted packet, for the state o of the section.
Deserved(o) ==
    /\ o.status = "None" <=>
          \A i \in DOMAIN RecordStarts :
             Framed(RecordStarts[i]) /\ Type(RecordStarts[i]) # OptType
    /\ o.status = "Ok" <=> OneSoundOpt(RecordStarts, {0})
    /\ o.status = "BadVersion" <=> OneSoundOpt(RecordStarts, Nat \ {0})
    /\ o.status \in {"Ok", "BadVersion"} =>
          \E i \in DOMAIN RecordStarts :
             o.edns = RecordStarts[i] /\ Type(o.edns) = OptType

\* Accepting the packet with the status it deserves.
LEMMA AcceptStep ==
    ASSUME IInv, phase = "record", NEW st \in Statuses, Accept(st),
           packet.header.qdcount = 1 => Deserved([opt EXCEPT !.status = st])
    PROVE  IInv'
<1> DEFINE o == [opt EXCEPT !.status = st]
<1>1. /\ packet' = packet /\ offset' = offset /\ name' = name /\ questions' = questions
      /\ opt' = o /\ phase' \in Ended
      /\ phase' = "accepted" => packet.header.qdcount = 1
  BY DEF Accept, Ended
<1>2. Size' = Size /\ \A i : Cell(i)' = Cell(i)
  BY <1>1, SamePacket
<1>3. /\ o \in [read : Nat, count : Nat, status : Statuses, edns : Nat]
      /\ o.read = opt.read /\ o.count = opt.count /\ o.edns = opt.edns
      /\ o.status \in Statuses
  BY DEF IInv, PacketsOK
<1> HIDE DEF o
<1>4. PacketsOK'
  BY <1>1, <1>3 DEF IInv, PacketsOK
<1>5. TypeOK' /\ opt'.count <= opt'.read
  BY <1>1, <1>2, <1>3 DEF IInv, TypeOK, Ended, Cell
<1>6. StatusHonest'
  <2> SUFFICES ASSUME phase' = "accepted" PROVE Deserved(opt)'
    BY DEF StatusHonest, Deserved
  <2>1. Deserved(o)
    BY <1>1 DEF o
  <2>2. /\ RecordStarts' = RecordStarts
        /\ \A i : Framed(i)' = Framed(i) /\ Type(i)' = Type(i)
        /\ \A i : SoundOpt(i)' = SoundOpt(i) /\ Version(i)' = Version(i)
    BY <1>1, SamePacket
  <2> QED
    BY <1>1, <2>1, <2>2 DEF Deserved, OneSoundOpt
<1> QED
  BY <1>1, <1>4, <1>5, <1>6 DEF IInv, Ended, Before, Walking, WalkersAgree, InSection

\* Going on behind the record at offset with a verdict that counts it.
LEMMA SkipRecord ==
    ASSUME IInv, InRecords, Framed(offset),
           NEW o \in [read : Nat, count : Nat, status : Statuses, edns : Nat],
           o.read = opt.read, o.count <= opt.read + 1,
           o.edns # NoRecord => o.edns < Size, Skip(o),
           packet.header.qdcount = 1 => Verdict(o, opt.read + 1)
    PROVE  IInv'
<1>1. /\ packet' = packet /\ phase' = "record" /\ name' = name /\ questions' = questions
      /\ offset' = RdataEnd(offset)
      /\ opt' = [o EXCEPT !.read = @ + 1]
      /\ opt.read < packet.header.arcount
  BY DEF Skip, InRecords
<1>2. /\ CellsOK /\ Size \in Nat /\ PacketsOK /\ offset \in Nat
      /\ packet.header.arcount \in Nat
      /\ opt.read \in 0 .. packet.header.arcount
  BY HeaderFacts DEF IInv, TypeOK
<1>3. Size' = Size /\ \A i : Cell(i)' = Cell(i)
  BY <1>1, SamePacket
<1>4. /\ opt' \in [read : Nat, count : Nat, status : Statuses, edns : Nat]
      /\ opt'.read = opt.read + 1 /\ opt'.count = o.count /\ opt'.status = o.status
      /\ opt'.edns = o.edns
  BY <1>1
<1>5. PacketsOK'
  BY <1>1, <1>2, <1>4 DEF PacketsOK
<1>6. offset' \in Nat
  BY <1>1, <1>2, FramedFacts
<1>7. TypeOK' /\ opt'.count <= opt'.read
  <2>1. /\ opt'.read \in 0 .. packet'.header.arcount
        /\ opt'.count \in 0 .. opt'.read + 1 /\ opt'.count <= opt'.read
        /\ opt'.status \in Statuses
        /\ opt'.edns \in Nat /\ (opt'.edns # NoRecord => opt'.edns < Size')
    BY <1>1, <1>2, <1>3, <1>4
  <2>2. /\ name'.hops \in 0 .. DNS_MAX_POINTER_HOPS
        /\ \A i \in DOMAIN name'.labels : name'.labels[i] + Cell(name.labels[i])' < Size'
        /\ questions' \in 0 .. packet'.header.qdcount
    BY <1>1, <1>3 DEF IInv, TypeOK, Cell
  <2> QED
    BY <1>1, <1>6, <2>1, <2>2 DEF TypeOK
<1>8. InSection'
  <2> SUFFICES ASSUME packet.header.qdcount = 1
               PROVE  /\ opt'.read < packet'.header.arcount =>
                            offset' = RecordStarts'[opt'.read + 1]
                      /\ Verdict(opt, opt.read)'
    BY <1>1 DEF InSection
  <2>1. offset = RecordStarts[opt.read + 1]
    BY <1>1 DEF IInv, InSection, InRecords
  <2>2. opt'.read < packet'.header.arcount => offset' = RecordStarts'[opt'.read + 1]
    <3> SUFFICES ASSUME opt.read + 1 < packet.header.arcount
                 PROVE  offset' = RecordStarts'[opt.read + 2]
      BY <1>1, <1>2, <1>4
    <3> DEFINE i == opt.read + 2
    <3>1. i \in 1 .. packet.header.arcount /\ i # 1 /\ i - 1 = opt.read + 1
      BY <1>2
    <3>2. RecordStarts[i] = RdataEnd(RecordStarts[i - 1])
      BY <1>2, <2>1, <3>1, StartsStep
    <3> QED
      BY <1>1, <2>1, <3>1, <3>2, SamePacket
  <2>3. Verdict(opt, opt.read)'
    <3>1. Verdict(o, opt.read + 1)
      OBVIOUS
    <3>2. /\ RecordStarts' = RecordStarts
          /\ \A i : Framed(i)' = Framed(i) /\ Type(i)' = Type(i)
          /\ \A i : SoundOpt(i)' = SoundOpt(i) /\ Version(i)' = Version(i)
      BY <1>1, SamePacket
    <3>3. Opts(opt.read)' = Opts(opt.read + 1)
      BY <1>4, <3>2 DEF Opts
    <3> QED
      BY <1>4, <3>1, <3>2, <3>3 DEF Verdict
  <2> QED
    BY <2>2, <2>3
<1> QED
  BY <1>1, <1>5, <1>7, <1>8
     DEF IInv, Before, Walking, WalkersAgree, StatusHonest

\* Where the parser is in the section, and what it knows of the record before it.
LEMMA AtRecord ==
    ASSUME IInv, InRecords, packet.header.qdcount = 1
    PROVE  /\ opt.read \in Nat /\ opt.read + 1 \in 1 .. packet.header.arcount
           /\ RecordStarts[opt.read + 1] = offset
           /\ DOMAIN RecordStarts = 1 .. packet.header.arcount
           /\ Verdict(opt, opt.read)
           /\ Framed(offset) => \A i \in 1 .. opt.read + 1 : Framed(RecordStarts[i])
           /\ Type(offset) = OptType => Opts(opt.read + 1) = Opts(opt.read) \cup {opt.read + 1}
           /\ Type(offset) # OptType => Opts(opt.read + 1) = Opts(opt.read)
           /\ ~ (opt.read + 1 \in Opts(opt.read))
<1>1. /\ opt.read \in Nat /\ packet.header.arcount \in Nat /\ opt.read < packet.header.arcount
      /\ RecordStarts[opt.read + 1] = offset /\ Verdict(opt, opt.read)
  BY HeaderFacts DEF IInv, PacketsOK, InSection, InRecords
<1>2. opt.read + 1 \in 1 .. packet.header.arcount
  BY <1>1
<1>3. DOMAIN RecordStarts = 1 .. packet.header.arcount
  BY <1>1, <1>2, StartsStep
<1>4. \A i \in 1 .. opt.read + 1 : i \in 1 .. opt.read \/ i = opt.read + 1
  BY <1>1
<1>5. Framed(offset) => \A i \in 1 .. opt.read + 1 : Framed(RecordStarts[i])
  BY <1>1, <1>4 DEF Verdict
<1>6. ~ (opt.read + 1 \in 1 .. opt.read) /\ 1 .. opt.read \subseteq 1 .. opt.read + 1
      /\ opt.read + 1 \in 1 .. opt.read + 1
  BY <1>1
<1>7. /\ Type(offset) = OptType => Opts(opt.read + 1) = Opts(opt.read) \cup {opt.read + 1}
      /\ Type(offset) # OptType => Opts(opt.read + 1) = Opts(opt.read)
      /\ ~ (opt.read + 1 \in Opts(opt.read))
  BY <1>1, <1>4, <1>6 DEF Opts
<1> QED
  BY <1>1, <1>2, <1>3, <1>5, <1>7

LEMMA OtherRecordStep == ASSUME IInv, OtherRecord PROVE IInv'
<1>1. InRecords /\ Framed(offset) /\ Type(offset) # OptType /\ Skip(opt)
  BY DEF OtherRecord
<1>2. /\ opt \in [read : Nat, count : Nat, status : Statuses, edns : Nat]
      /\ opt.count <= opt.read + 1 /\ (opt.edns # NoRecord => opt.edns < Size)
  BY DEF IInv, PacketsOK, TypeOK
<1>3. ASSUME packet.header.qdcount = 1 PROVE Verdict(opt, opt.read + 1)
  <2>1. /\ \A i \in 1 .. opt.read + 1 : Framed(RecordStarts[i])
        /\ Opts(opt.read + 1) = Opts(opt.read)
        /\ Verdict(opt, opt.read)
    BY <1>1, <1>3, AtRecord
  <2>2. 1 .. opt.read \subseteq 1 .. opt.read + 1
    BY <1>2
  <2> QED
    BY <2>1, <2>2 DEF Verdict
<1> QED
  BY <1>1, <1>2, <1>3, SkipRecord

LEMMA SecondOptStep == ASSUME IInv, SecondOpt PROVE IInv'
<1> DEFINE o == [opt EXCEPT !.count = @ + 1, !.status = "DuplicateOpt"]
<1>1. /\ InRecords /\ Framed(offset) /\ Type(offset) = OptType /\ opt.count >= 1 /\ Skip(o)
  BY DEF SecondOpt, AnOpt
<1>2. /\ opt \in [read : Nat, count : Nat, status : Statuses, edns : Nat]
      /\ opt.count <= opt.read /\ (opt.edns # NoRecord => opt.edns < Size)
  BY DEF IInv, PacketsOK, TypeOK
<1>3. /\ o \in [read : Nat, count : Nat, status : Statuses, edns : Nat]
      /\ o.read = opt.read /\ o.count = opt.count + 1 /\ o.edns = opt.edns
      /\ o.status = "DuplicateOpt"
  <2>1. opt.count + 1 \in Nat /\ "DuplicateOpt" \in Statuses
    BY <1>2 DEF Statuses
  <2> QED
    BY <1>2, <2>1
<1> HIDE DEF o
<1>4. ASSUME packet.header.qdcount = 1 PROVE Verdict(o, opt.read + 1)
  <2>1. /\ \A i \in 1 .. opt.read + 1 : Framed(RecordStarts[i])
        /\ Opts(opt.read + 1) = Opts(opt.read) \cup {opt.read + 1}
        /\ ~ (opt.read + 1 \in Opts(opt.read))
        /\ Verdict(opt, opt.read)
    BY <1>1, <1>4, AtRecord
  <2>2. opt.count # 0 /\ o.count # 0
    BY <1>1, <1>2, <1>3
  <2>3. PICK i \in Opts(opt.read) : TRUE
    BY <2>1, <2>2 DEF Verdict
  <2>4. /\ i \in Opts(opt.read + 1) /\ opt.read + 1 \in Opts(opt.read + 1)
        /\ i # opt.read + 1
    BY <2>1, <2>3
  <2> QED
    BY <1>3, <2>1, <2>2, <2>4 DEF Verdict
<1>5. o.count <= opt.read + 1
  BY <1>2, <1>3
<1> QED
  BY <1>1, <1>2, <1>3, <1>4, <1>5, SkipRecord

LEMMA NamedOptStep == ASSUME IInv, NamedOpt PROVE IInv'
<1> DEFINE o == [opt EXCEPT !.count = 1, !.status = "Malformed"]
<1>1. /\ InRecords /\ Framed(offset) /\ Type(offset) = OptType /\ opt.count = 0
      /\ Cell(offset) # 0 /\ Skip(o)
  BY DEF NamedOpt, AnOpt
<1>2. /\ opt \in [read : Nat, count : Nat, status : Statuses, edns : Nat]
      /\ (opt.edns # NoRecord => opt.edns < Size)
  BY DEF IInv, PacketsOK, TypeOK
<1>3. /\ o \in [read : Nat, count : Nat, status : Statuses, edns : Nat]
      /\ o.read = opt.read /\ o.count = 1 /\ o.edns = opt.edns
      /\ o.status = "Malformed"
  BY <1>2 DEF Statuses
<1> HIDE DEF o
<1>4. ASSUME packet.header.qdcount = 1 PROVE Verdict(o, opt.read + 1)
  <2>1. /\ \A i \in 1 .. opt.read + 1 : Framed(RecordStarts[i])
        /\ opt.read + 1 \in Opts(opt.read + 1)
        /\ RecordStarts[opt.read + 1] = offset
    BY <1>1, <1>4, AtRecord
  <2>2. ~ SoundOpt(RecordStarts[opt.read + 1])
    BY <1>1, <2>1 DEF SoundOpt
  <2> QED
    BY <1>3, <2>1, <2>2 DEF Verdict
<1>5. o.count <= opt.read + 1
  BY <1>2, <1>3
<1> QED
  BY <1>1, <1>2, <1>3, <1>4, <1>5, SkipRecord

LEMMA GoodOptStep == ASSUME IInv, GoodOpt PROVE IInv'
<1> DEFINE o == [opt EXCEPT !.count = 1, !.edns = offset,
                            !.status = IF Version(offset) > 0 THEN "BadVersion"
                                       ELSE IF @ = "None" THEN "Ok" ELSE @]
<1>1. /\ InRecords /\ Framed(offset) /\ Type(offset) = OptType /\ opt.count = 0
      /\ Cell(offset) = 0 /\ WholeRdata(offset) /\ Skip(o)
  BY DEF GoodOpt, FirstOpt, AnOpt
<1>2. /\ opt \in [read : Nat, count : Nat, status : Statuses, edns : Nat]
      /\ CellsOK /\ offset \in Nat
  BY HeaderFacts DEF IInv, PacketsOK, TypeOK
<1>3. offset < Size /\ Version(offset) \in Nat
  BY <1>1, <1>2, FramedFacts
<1>4. /\ o \in [read : Nat, count : Nat, status : Statuses, edns : Nat]
      /\ o.read = opt.read /\ o.count = 1 /\ o.edns = offset
      /\ o.status = IF Version(offset) > 0 THEN "BadVersion"
                    ELSE IF opt.status = "None" THEN "Ok" ELSE opt.status
  BY <1>2 DEF Statuses
<1> HIDE DEF o
<1>5. ASSUME packet.header.qdcount = 1 PROVE Verdict(o, opt.read + 1)
  <2>1. /\ \A i \in 1 .. opt.read + 1 : Framed(RecordStarts[i])
        /\ Opts(opt.read + 1) = Opts(opt.read) \cup {opt.read + 1}
        /\ RecordStarts[opt.read + 1] = offset
        /\ opt.read + 1 \in 1 .. opt.read + 1
        /\ Verdict(opt, opt.read)
    BY <1>1, <1>2, <1>5, AtRecord
  <2>2. opt.status = "None" /\ Opts(opt.read + 1) = {opt.read + 1}
    BY <1>1, <2>1 DEF Verdict
  <2>3. o.status = IF Version(offset) = 0 THEN "Ok" ELSE "BadVersion"
    BY <1>3, <1>4, <2>2
  <2>4. SoundOpt(offset)
    BY <1>1 DEF SoundOpt
  <2> QED
    BY <1>3, <1>4, <2>1, <2>2, <2>3, <2>4 DEF Verdict
<1>6. o.count <= opt.read + 1 /\ (o.edns # NoRecord => o.edns < Size)
  BY <1>2, <1>3, <1>4
<1> QED
  BY <1>1, <1>4, <1>5, <1>6, SkipRecord

LEMMA RecordCutStep == ASSUME IInv, RecordCut PROVE IInv'
<1> DEFINE o == [opt EXCEPT !.status = "Malformed"]
<1>1. InRecords /\ ~ Framed(offset) /\ Accept("Malformed") /\ phase = "record"
  BY DEF RecordCut, InRecords
<1>2. o.status = "Malformed" /\ "Malformed" \in Statuses
  BY DEF IInv, PacketsOK, Statuses
<1>3. ASSUME packet.header.qdcount = 1 PROVE Deserved(o)
  <2>1. opt.read + 1 \in DOMAIN RecordStarts /\ ~ Framed(RecordStarts[opt.read + 1])
    BY <1>1, <1>3, AtRecord
  <2> HIDE DEF o
  <2> QED
    BY <1>2, <2>1 DEF Deserved, OneSoundOpt
<1> QED
  BY <1>1, <1>2, <1>3, AcceptStep

LEMMA BadRdataStep == ASSUME IInv, BadRdata PROVE IInv'
<1> DEFINE o == [opt EXCEPT !.status = "Malformed"]
<1>1. /\ InRecords /\ Type(offset) = OptType /\ ~ WholeRdata(offset)
      /\ Accept("Malformed") /\ phase = "record"
  BY DEF BadRdata, FirstOpt, AnOpt, InRecords
<1>2. o.status = "Malformed" /\ "Malformed" \in Statuses
  BY DEF IInv, PacketsOK, Statuses
<1>3. ASSUME packet.header.qdcount = 1 PROVE Deserved(o)
  <2> DEFINE k == opt.read + 1
  <2>1. /\ k \in DOMAIN RecordStarts /\ RecordStarts[k] = offset
    BY <1>1, <1>3, AtRecord
  <2>2. Type(RecordStarts[k]) = OptType /\ ~ SoundOpt(RecordStarts[k])
    BY <1>1, <2>1 DEF SoundOpt
  <2> HIDE DEF o, k
  <2>3. \A versions : ~ OneSoundOpt(RecordStarts, versions)
    <3> SUFFICES ASSUME NEW versions, OneSoundOpt(RecordStarts, versions) PROVE FALSE
      OBVIOUS
    <3>1. PICK i \in DOMAIN RecordStarts :
             /\ {j \in DOMAIN RecordStarts : Type(RecordStarts[j]) = OptType} = {i}
             /\ SoundOpt(RecordStarts[i])
      BY DEF OneSoundOpt
    <3>2. k = i
      BY <2>1, <2>2, <3>1
    <3> QED
      BY <2>2, <3>1, <3>2
  <2> QED
    BY <1>2, <2>1, <2>2, <2>3 DEF Deserved
<1> QED
  BY <1>1, <1>2, <1>3, AcceptStep

LEMMA RecordsEndStep == ASSUME IInv, RecordsEnd PROVE IInv'
<1> DEFINE o == [opt EXCEPT !.status = opt.status]
<1>1. phase = "record" /\ opt.read = packet.header.arcount /\ Accept(opt.status)
  BY DEF RecordsEnd
<1>2. o = opt /\ opt.status \in Statuses
  BY DEF IInv, PacketsOK
<1>3. ASSUME packet.header.qdcount = 1 PROVE Deserved(opt)
  <2> DEFINE n == packet.header.arcount
             S == RecordStarts
  <2>1. n \in Nat /\ Verdict(opt, n)
    BY <1>1, <1>3, HeaderFacts DEF IInv, InSection
  <2>2. DOMAIN S = 1 .. n
    <3>1. CASE n = 0
      BY <3>1, NoRecords
    <3>2. CASE n # 0
      <4>1. 1 \in 1 .. n
        BY <2>1, <3>2
      <4> QED
        BY <2>1, <4>1, StartsStep
    <3> QED
      BY <3>1, <3>2
  <2> HIDE DEF n, S
  <2>3. \A i \in DOMAIN S : Framed(S[i])
    BY <2>1, <2>2 DEF Verdict, S
  <2>4. Opts(n) = {j \in DOMAIN S : Type(S[j]) = OptType}
    BY <2>2 DEF Opts, S
  <2>5. opt.status = "None" <=> Opts(n) = {}
    BY <2>1 DEF Verdict
  <2>6. CASE opt.status = "None"
    <3>1. \A versions : ~ OneSoundOpt(S, versions)
      BY <2>4, <2>5, <2>6 DEF OneSoundOpt
    <3> QED
      BY <2>3, <2>4, <2>5, <2>6, <3>1 DEF Deserved, S
  <2>7. CASE opt.status \in {"Ok", "BadVersion"}
    <3>1. PICK i \in DOMAIN S :
             /\ Opts(n) = {i} /\ SoundOpt(S[i])
             /\ opt.edns = S[i] /\ Version(S[i]) \in Nat
             /\ opt.status = "Ok" <=> Version(S[i]) = 0
      BY <2>1, <2>2, <2>7 DEF Verdict, S
    <3>2. Type(S[i]) = OptType
      BY <2>4, <3>1
    <3>3. ASSUME NEW versions
          PROVE  OneSoundOpt(S, versions) <=> Version(S[i]) \in versions
      <4>1. ASSUME OneSoundOpt(S, versions) PROVE Version(S[i]) \in versions
        <5>1. PICK k \in DOMAIN S :
                 /\ {j \in DOMAIN S : Type(S[j]) = OptType} = {k}
                 /\ Version(S[k]) \in versions
          BY <4>1 DEF OneSoundOpt
        <5> QED
          BY <2>4, <3>1, <5>1
      <4>2. ASSUME Version(S[i]) \in versions PROVE OneSoundOpt(S, versions)
        BY <2>3, <2>4, <3>1, <4>2 DEF OneSoundOpt
      <4> QED
        BY <4>1, <4>2
    <3>4. /\ OneSoundOpt(S, {0}) <=> Version(S[i]) = 0
          /\ OneSoundOpt(S, Nat \ {0}) <=> Version(S[i]) # 0
      BY <3>1, <3>3
    <3>5. /\ opt.status # "None"
          /\ opt.status = "Ok" <=> Version(S[i]) = 0
          /\ opt.status = "BadVersion" <=> Version(S[i]) # 0
      BY <2>7, <3>1
    <3> QED
      BY <2>4, <3>1, <3>2, <3>4, <3>5 DEF Deserved, S
  <2>8. CASE opt.status \in {"DuplicateOpt", "Malformed"}
    <3>1. PICK i \in Opts(n), j \in Opts(n) : i # j \/ ~ SoundOpt(S[i])
      BY <2>1, <2>8 DEF Verdict, S
    <3>2. \A versions : ~ OneSoundOpt(S, versions)
      <4> SUFFICES ASSUME NEW versions, OneSoundOpt(S, versions) PROVE FALSE
        OBVIOUS
      <4>1. PICK k \in DOMAIN S : Opts(n) = {k} /\ SoundOpt(S[k])
        BY <2>4 DEF OneSoundOpt
      <4> QED
        BY <3>1, <4>1
    <3> QED
      BY <2>4, <2>8, <3>1, <3>2 DEF Deserved, S
  <2> QED
    BY <1>2, <2>6, <2>7, <2>8 DEF Statuses
<1> QED
  BY <1>1, <1>2, <1>3, AcceptStep

-----------------------------------------------------------------------------
(* The theorems *)

LEMMA NextInv == IInv /\ [Next]_vars => IInv'
<1> SUFFICES ASSUME IInv, [Next]_vars PROVE IInv'
  OBVIOUS
<1>1. CASE ReadHeader
  BY <1>1, HeaderStep
<1>2. CASE NameEnds
  BY <1>2, NameEndsStep
<1>3. CASE FollowPointer
  BY <1>3, FollowStep
<1>4. CASE ReadLabel
  BY <1>4, LabelStep
<1>5. CASE NameRunsOut
  BY <1>5, RejectStep DEF NameRunsOut
<1>6. CASE QuestionEnds
  BY <1>6, TailStep
<1>7. CASE NotAQuery
  BY <1>7, RejectStep DEF NotAQuery
<1>8. CASE RecordCut
  BY <1>8, RecordCutStep
<1>9. CASE OtherRecord
  BY <1>9, OtherRecordStep
<1>10. CASE SecondOpt
  BY <1>10, SecondOptStep
<1>11. CASE NamedOpt
  BY <1>11, NamedOptStep
<1>12. CASE BadRdata
  BY <1>12, BadRdataStep
<1>13. CASE GoodOpt
  BY <1>13, GoodOptStep
<1>14. CASE RecordsEnd
  BY <1>14, RecordsEndStep
<1>15. CASE UNCHANGED vars
  <2>1. packet' = packet
    BY <1>15 DEF vars
  <2>2. /\ Size' = Size /\ \A i : Cell(i)' = Cell(i)
        /\ \A i : NameEnd(i)' = NameEnd(i) /\ SkipDnsName(i)' = SkipDnsName(i)
        /\ \A i : Framed(i)' = Framed(i) /\ Type(i)' = Type(i)
        /\ \A i : SoundOpt(i)' = SoundOpt(i) /\ Version(i)' = Version(i)
        /\ RecordStarts' = RecordStarts
    BY <2>1, SamePacket
  <2>3. PacketsOK' /\ TypeOK' /\ Before' /\ opt'.count <= opt'.read
    BY <1>15, <2>2 DEF IInv, PacketsOK, TypeOK, Before, vars, Cell
  <2>4. Walking' /\ WalkersAgree'
    BY <1>15, <2>2 DEF IInv, Walking, WalkersAgree, vars
  <2>5. InSection' /\ StatusHonest'
    BY <1>15, <2>2 DEF IInv, InSection, StatusHonest, Verdict, Opts, OneSoundOpt, vars
  <2> QED
    BY <2>3, <2>4, <2>5 DEF IInv
<1> QED
  BY <1>1, <1>2, <1>3, <1>4, <1>5, <1>6, <1>7, <1>8, <1>9, <1>10, <1>11, <1>12, <1>13,
     <1>14, <1>15 DEF Next

LEMMA Invariant == Spec => []IInv
  BY InitInv, NextInv, PTL DEF Spec

\* Whatever the packet holds, FromWire reads labels, pointers and records inside it
\* only, and its counts stay within the header's (dns_packet.cc:207-417,
\* dns_packet_question.cc:540-591).
THEOREM ReadsInside == Spec => []TypeOK
<1>1. IInv => TypeOK
  BY DEF IInv
<1> QED
  BY <1>1, Invariant, PTL

\* ParseDomainName, the cache's SkipDnsName and the loop over additional records
\* agree where the question's name ends, with any chain of pointers
\* (dns_packet_question.cc:540-591, dns_cache.cc:116-136, dns_packet.cc:263-302).
THEOREM WalksEndTogether == Spec => []WalkersAgree
<1>1. IInv => WalkersAgree
  BY DEF IInv
<1> QED
  BY <1>1, Invariant, PTL

\* The status of an accepted query, come to record by record, is the one its
\* additional section deserves as a whole (dns_packet.cc:248-417).
THEOREM StatusDeserved == Spec => []StatusHonest
<1>1. IInv => StatusHonest
  BY DEF IInv
<1> QED
  BY <1>1, Invariant, PTL

-----------------------------------------------------------------------------
(* Sequences and loops *)

\* What the provers know of one sequence behind another.
LEMMA ConcatFacts ==
    ASSUME NEW T, NEW s \in Seq(T), NEW t \in Seq(T)
    PROVE  /\ s \o t \in Seq(T)
           /\ Len(s) \in Nat /\ Len(t) \in Nat /\ Len(s \o t) = Len(s) + Len(t)
           /\ \A k \in 1 .. Len(s) : (s \o t)[k] = s[k]
           /\ \A k \in 1 .. Len(t) : (s \o t)[Len(s) + k] = t[k]
  OBVIOUS

\* And of one sequence alone.
LEMMA EmptyFacts ==
    ASSUME NEW T, NEW s \in Seq(T)
    PROVE  /\ Len(s) \in Nat /\ DOMAIN s = 1 .. Len(s) /\ \A i \in 1 .. Len(s) : s[i] \in T
           /\ Len(s) = 0 => s = <<>>
           /\ <<>> \o s = s /\ s \o <<>> = s /\ <<>> \in Seq(T)
  OBVIOUS

\* What holds at first and after each step holds throughout.
LEMMA StepByStep ==
    ASSUME NEW n \in Nat, NEW P, 0 \in P, \A i \in 1 .. n : i - 1 \in P => i \in P
    PROVE  \A i \in 0 .. n : i \in P
<1> DEFINE Bad == {i \in 0 .. n : i \notin P}
<1> SUFFICES ASSUME Bad # {} PROVE FALSE
  OBVIOUS
<1>1. Bad \subseteq Nat
  OBVIOUS
<1>2. PICK i \in Bad : \A j \in Bad : i <= j
  BY <1>1, LeastExists
<1>3. i \in 0 .. n /\ i # 0
  BY <1>2
<1>4. i \in 1 .. n /\ i - 1 \in 0 .. n /\ i - 1 < i
  BY <1>3
<1>5. i - 1 \in P
  BY <1>2, <1>4
<1> QED
  BY <1>4, <1>5

\* f is a loop over 1 .. n from base on, its state in S.
Loop(f, n, S, base, step) ==
    /\ f \in [0 .. n -> S] /\ f[0] = base
    /\ \A i \in 1 .. n : f[i] = step[i][f[i - 1]]

\* Such a loop can be run.
LEMMA LoopExists ==
    ASSUME NEW n \in Nat, NEW S, NEW base \in S, NEW step \in [1 .. n -> [S -> S]]
    PROVE  \E f : Loop(f, n, S, base, step)
<1> DEFINE Runs(f, m) == f[0] = base /\ \A i \in 1 .. m : f[i] = step[i][f[i - 1]]
           P == {m \in 0 .. n : \E f \in [0 .. n -> S] : Runs(f, m)}
<1>1. 0 \in P
  <2> DEFINE f == [i \in 0 .. n |-> base]
  <2>1. f \in [0 .. n -> S] /\ Runs(f, 0) /\ 0 \in 0 .. n
    OBVIOUS
  <2> HIDE DEF f
  <2> QED
    BY <2>1
<1>2. ASSUME NEW m \in 1 .. n, m - 1 \in P PROVE m \in P
  <2>1. PICK f \in [0 .. n -> S] : Runs(f, m - 1)
    BY <1>2
  <2> DEFINE next == step[m][f[m - 1]]
             g == [f EXCEPT ![m] = next]
  <2>2. m - 1 \in 0 .. n /\ m \in 0 .. n /\ 0 \in 0 .. n
    OBVIOUS
  <2>3. next \in S
    BY <2>2
  <2> HIDE DEF next
  <2>4. g \in [0 .. n -> S] /\ g[0] = base /\ g[m] = next
    BY <2>1, <2>2, <2>3
  <2>5. \A i \in 0 .. m - 1 : g[i] = f[i]
    BY <2>2
  <2> HIDE DEF g
  <2>6. ASSUME NEW i \in 1 .. m PROVE g[i] = step[i][g[i - 1]]
    <3>1. g[i - 1] = f[i - 1]
      BY <2>5
    <3>2. CASE i = m
      BY <2>4, <3>1, <3>2 DEF next
    <3>3. CASE i # m
      <4>1. i \in 1 .. m - 1 /\ i \in 0 .. m - 1
        BY <3>3
      <4> QED
        BY <2>1, <2>5, <3>1, <4>1
    <3> QED
      BY <3>2, <3>3
  <2>7. Runs(g, m)
    BY <2>4, <2>6
  <2> QED
    BY <2>2, <2>4, <2>7
<1> HIDE DEF P
<1>3. \A i \in 0 .. n : i \in P
  BY <1>1, <1>2, StepByStep
<1>4. n \in P
  BY <1>3
<1> QED
  BY <1>4 DEF P, Loop

\* The cells w are in c from the offset at on.
Holds(c, at, w) == /\ at + Len(w) <= Len(c)
                   /\ \A k \in 1 .. Len(w) : c[at + k] = w[k]

\* The sequences in ss are in c one behind the other, from at to end.
Laid(place, c, at, ss, end) ==
    /\ place \in [0 .. Len(ss) -> Nat] /\ place[0] = at /\ place[Len(ss)] = end
    /\ \A i \in 1 .. Len(ss) : /\ place[i] = place[i - 1] + Len(ss[i])
                               /\ Holds(c, place[i - 1], ss[i])

\* FlattenSeq puts each part at the place where those before it end.
LEMMA FlattenFacts ==
    ASSUME NEW T, NEW ss \in Seq(Seq(T))
    PROVE  /\ FlattenSeq(ss) \in Seq(T)
           /\ \E place : Laid(place, FlattenSeq(ss), 0, ss, Len(FlattenSeq(ss)))
<1> DEFINE n == Len(ss)
<1>k. n \in Nat /\ n = Len(ss)
  OBVIOUS
<1> HIDE DEF n
<1> DEFINE S == Seq(T)
           none == <<>>
           step == [i \in 1 .. n |-> [s \in S |-> s \o ss[i]]]
<1>0. n \in Nat /\ n \in 0 .. n /\ 0 \in 0 .. n
      /\ \A i \in 1 .. n : ss[i] \in Seq(T) /\ Len(ss[i]) \in Nat
  BY <1>k
<1>n. n = 0 => ss = <<>>
  BY <1>k, EmptyFacts
<1>1. step \in [1 .. n -> [S -> S]] /\ none \in S
  BY <1>0
<1>2. ASSUME NEW i \in 1 .. n, NEW s \in S PROVE step[i][s] = s \o ss[i]
  OBVIOUS
<1>a. PICK g : Loop(g, n, S, none, step)
  <2> HIDE DEF step, S, none
  <2> QED
    BY <1>k, <1>1, LoopExists
<1> HIDE DEF step
<1>3. g \in [0 .. n -> Seq(T)] /\ g[0] = <<>>
  BY <1>a DEF Loop
<1>4. \A i \in 1 .. n : i - 1 \in 0 .. n /\ i \in 0 .. n
                        /\ g[i - 1] \in Seq(T) /\ g[i] = g[i - 1] \o ss[i]
  <2> TAKE i \in 1 .. n
  <2>1. i - 1 \in 0 .. n /\ i \in 0 .. n
    BY <1>k
  <2>2. g[i - 1] \in S /\ g[i] = step[i][g[i - 1]]
    BY <1>a, <2>1 DEF Loop
  <2> QED
    BY <1>2, <2>1, <2>2
<1> HIDE DEF S, none
<1>5. FlattenSeq(ss) = g[n]
  <2>1. CASE n = 0
    <3>1. ss = <<>> /\ FlattenSeq(ss) = ss
      BY <1>n, <2>1 DEF FlattenSeq
    <3> QED
      BY <1>3, <2>1, <3>1
  <2>2. CASE n # 0
    <3> DEFINE More(f, i) == IF i = 1 THEN ss[i] ELSE f[i - 1] \o ss[i]
               Body(f) == [i \in 1 .. n |-> More(f, i)]
               flatten == CHOOSE f : f = Body(f)
               e == [i \in 1 .. n |-> g[i]]
    <3>1. FlattenSeq(ss) = flatten[n]
      BY <1>k, <2>2 DEF FlattenSeq
    <3>2. ASSUME NEW i \in 1 .. n PROVE e[i] = More(e, i)
      <4>1. CASE i = 1
        <5>1. 1 \in 1 .. n /\ 1 - 1 = 0
          BY <4>1
        <5>a. g[1] = g[0] \o ss[1] /\ ss[1] \in Seq(T)
          BY <1>0, <1>4, <5>1
        <5>2. g[1] = ss[1]
          BY <1>3, <5>a, EmptyFacts
        <5> QED
          BY <4>1, <5>2
      <4>2. CASE i # 1
        <5>1. i - 1 \in 1 .. n /\ e[i - 1] = g[i - 1]
          BY <1>k, <4>2
        <5> HIDE DEF e
        <5>2. e[i] = g[i]
          BY DEF e
        <5> QED
          BY <1>4, <4>2, <5>1, <5>2
      <4> QED
        BY <4>1, <4>2
    <3>3. e = Body(e)
      BY <3>2
    <3>4. flatten = Body(flatten)
      BY <3>3
    <3> HIDE DEF flatten
    <3>5. \A i \in 1 .. n : flatten[i] = More(flatten, i)
      BY <3>4
    <3> DEFINE P == {i \in 0 .. n : i = 0 \/ flatten[i] = g[i]}
    <3>6. 0 \in P
      BY <1>0
    <3>7. ASSUME NEW i \in 1 .. n, i - 1 \in P PROVE i \in P
      <4>1. CASE i = 1
        <5>1. 1 \in 1 .. n /\ 1 - 1 = 0
          BY <4>1
        <5>a. g[1] = g[0] \o ss[1] /\ ss[1] \in Seq(T)
          BY <1>0, <1>4, <5>1
        <5>2. g[1] = ss[1]
          BY <1>3, <5>a, EmptyFacts
        <5> QED
          BY <3>5, <4>1, <5>2
      <4>2. CASE i # 1
        <5>1. flatten[i - 1] = g[i - 1]
          BY <3>7, <4>2
        <5>2. flatten[i] = flatten[i - 1] \o ss[i]
          BY <3>5, <4>2
        <5> QED
          BY <1>4, <5>1, <5>2
      <4> QED
        BY <4>1, <4>2
    <3> HIDE DEF P
    <3>8. n \in P
      BY <1>0, <3>6, <3>7, StepByStep
    <3> QED
      BY <2>2, <3>1, <3>8 DEF P
  <2> QED
    BY <2>1, <2>2
<1> DEFINE place == [i \in 0 .. n |-> Len(g[i])]
           Found(m) == \A i \in 1 .. m : /\ Len(g[i]) <= Len(g[m])
                                         /\ \A k \in 1 .. Len(ss[i]) :
                                               g[m][Len(g[i - 1]) + k] = ss[i][k]
           P == {m \in 0 .. n : Found(m)}
<1>6. \A i \in 1 .. n : Len(g[i]) = Len(g[i - 1]) + Len(ss[i]) /\ Len(g[i - 1]) \in Nat
                        /\ Len(g[i]) \in Nat
  <2> TAKE i \in 1 .. n
  <2>1. g[i - 1] \in Seq(T) /\ ss[i] \in Seq(T) /\ g[i] = g[i - 1] \o ss[i]
    BY <1>0, <1>4
  <2>2. /\ Len(g[i - 1] \o ss[i]) = Len(g[i - 1]) + Len(ss[i])
        /\ Len(g[i - 1]) \in Nat /\ Len(ss[i]) \in Nat
    BY <2>1, ConcatFacts
  <2>3. Len(g[i]) = Len(g[i - 1]) + Len(ss[i])
    BY <2>1, <2>2, Zenon
  <2> DEFINE a == Len(g[i - 1])
             b == Len(ss[i])
             d == Len(g[i])
  <2>4. a \in Nat /\ b \in Nat /\ d = a + b
    BY <2>2, <2>3
  <2> HIDE DEF a, b, d
  <2>5. d \in Nat
    BY <2>4
  <2> QED
    BY <2>4, <2>5 DEF a, b, d
<1>7. 0 \in P
  BY <1>0
<1>8. ASSUME NEW m \in 1 .. n, m - 1 \in P PROVE m \in P
  <2>1. g[m] = g[m - 1] \o ss[m] /\ g[m - 1] \in Seq(T) /\ ss[m] \in Seq(T)
    BY <1>0, <1>4
  <2>a. /\ Len(g[m]) = Len(g[m - 1]) + Len(ss[m]) /\ Len(g[m - 1]) \in Nat /\ Len(ss[m]) \in Nat
        /\ \A k \in 1 .. Len(g[m - 1]) : g[m][k] = g[m - 1][k]
        /\ \A k \in 1 .. Len(ss[m]) : g[m][Len(g[m - 1]) + k] = ss[m][k]
    <3> DEFINE u == g[m - 1]
               v == ss[m]
    <3>a. u \in Seq(T) /\ v \in Seq(T)
      BY <2>1
    <3> HIDE DEF u, v
    <3>1. /\ Len(u \o v) = Len(u) + Len(v) /\ Len(u) \in Nat /\ Len(v) \in Nat
          /\ \A k \in 1 .. Len(u) : (u \o v)[k] = u[k]
          /\ \A k \in 1 .. Len(v) : (u \o v)[Len(u) + k] = v[k]
      BY <3>a, ConcatFacts
    <3>2. g[m] = u \o v
      BY <2>1 DEF u, v
    <3> QED
      BY <3>1, <3>2, Zenon DEF u, v
  <2>2. ASSUME NEW i \in 1 .. m
        PROVE  /\ Len(g[i]) <= Len(g[m])
               /\ \A k \in 1 .. Len(ss[i]) : g[m][Len(g[i - 1]) + k] = ss[i][k]
    <3>1. CASE i = m
      <4>1. Len(g[m]) \in Nat /\ Len(g[m]) <= Len(g[m])
        BY <1>6
      <4> QED
        BY <2>a, <3>1, <4>1
    <3>2. CASE i # m
      <4>1. i \in 1 .. m - 1 /\ i \in 1 .. n
        BY <1>k, <3>2
      <4>2. /\ Len(g[i]) <= Len(g[m - 1])
            /\ \A k \in 1 .. Len(ss[i]) : g[m - 1][Len(g[i - 1]) + k] = ss[i][k]
        BY <1>8, <4>1
      <4>3. /\ Len(g[i]) = Len(g[i - 1]) + Len(ss[i]) /\ Len(g[i - 1]) \in Nat
            /\ Len(ss[i]) \in Nat /\ Len(g[m]) = Len(g[m - 1]) + Len(ss[m])
            /\ Len(ss[m]) \in Nat /\ Len(g[m - 1]) \in Nat
        BY <1>0, <1>6, <4>1
      <4>4. ASSUME NEW k \in 1 .. Len(ss[i]) PROVE g[m][Len(g[i - 1]) + k] = ss[i][k]
        <5> DEFINE a == Len(g[i - 1])
                   b == Len(g[m - 1])
                   d == Len(ss[i])
        <5>1. a + k \in 1 .. b
          <6>1. a \in Nat /\ b \in Nat /\ d \in Nat /\ k \in 1 .. d /\ a + d <= b
            BY <4>2, <4>3
          <6> HIDE DEF a, b, d
          <6> QED
            BY <6>1
        <5>2. g[m][a + k] = g[m - 1][a + k]
          BY <2>a, <5>1
        <5> QED
          BY <4>2, <5>2
      <4>5. Len(g[i]) <= Len(g[m])
        <5> DEFINE a == Len(g[i])
                   b == Len(g[m - 1])
                   d == Len(ss[m])
        <5>1. a \in Nat /\ b \in Nat /\ d \in Nat /\ a <= b /\ Len(g[m]) = b + d
          BY <1>6, <4>1, <4>2, <4>3
        <5> HIDE DEF a, b, d
        <5>2. a <= Len(g[m])
          BY <5>1
        <5> QED
          BY <5>2 DEF a
      <4> QED
        BY <4>4, <4>5
    <3> QED
      BY <3>1, <3>2
  <2> QED
    BY <2>2
<1> HIDE DEF P
<1>9. n \in P
  BY <1>0, <1>7, <1>8, StepByStep
<1>10. n \in 0 .. n /\ g[n] \in Seq(T) /\ Found(n)
  BY <1>0, <1>3, <1>9 DEF P
<1>11. place \in [0 .. n -> Nat] /\ place[0] = 0 /\ place[n] = Len(g[n])
  BY <1>0, <1>3
<1>12. ASSUME NEW i \in 1 .. n
       PROVE  /\ place[i] = place[i - 1] + Len(ss[i]) /\ place[i] <= place[n]
              /\ \A k \in 1 .. Len(ss[i]) : g[n][place[i - 1] + k] = ss[i][k]
  <2>1. place[i] = Len(g[i]) /\ place[i - 1] = Len(g[i - 1])
    BY <1>4
  <2> HIDE DEF place
  <2> QED
    BY <1>6, <1>10, <1>11, <2>1
<1> HIDE DEF place
<1>13. /\ place[n] = Len(FlattenSeq(ss)) /\ FlattenSeq(ss) \in Seq(T)
       /\ \A i \in 1 .. n : \A k \in 1 .. Len(ss[i]) :
             FlattenSeq(ss)[place[i - 1] + k] = ss[i][k]
  BY <1>5, <1>10, <1>11, <1>12, Zenon
<1>14. ASSUME NEW i \in 1 .. n PROVE Holds(FlattenSeq(ss), place[i - 1], ss[i])
  <2>1. place[i - 1] + Len(ss[i]) <= Len(FlattenSeq(ss))
    BY <1>12, <1>13, Zenon
  <2> QED
    BY <1>13, <2>1, Zenon DEF Holds
<1>15. Laid(place, FlattenSeq(ss), 0, ss, Len(FlattenSeq(ss)))
  BY <1>k, <1>11, <1>12, <1>13, <1>14, Zenon DEF Laid
<1> QED
  BY <1>13, <1>15, Zenon

\* A sequence is where it is.
LEMMA HoldsAll ==
    ASSUME NEW T, NEW c \in Seq(T)
    PROVE  Holds(c, 0, c)
  BY DEF Holds

\* Where two sequences stand together, the second stands behind the first.
LEMMA HoldsConcat ==
    ASSUME NEW T, NEW c \in Seq(T), NEW at \in Nat, NEW u \in Seq(T), NEW v \in Seq(T),
           Holds(c, at, u \o v)
    PROVE  /\ Len(u) \in Nat /\ Len(v) \in Nat
           /\ Holds(c, at, u) /\ Holds(c, at + Len(u), v)
<1> DEFINE a == Len(u)
           b == Len(v)
           n == Len(c)
<1>1. /\ a \in Nat /\ b \in Nat /\ n \in Nat /\ Len(u \o v) = a + b
      /\ \A k \in 1 .. a : (u \o v)[k] = u[k]
      /\ \A k \in 1 .. b : (u \o v)[a + k] = v[k]
  BY ConcatFacts
<1>2. at + (a + b) <= n /\ \A k \in 1 .. a + b : c[at + k] = (u \o v)[k]
  BY <1>1 DEF Holds
<1> HIDE DEF a, b, n
<1>3. at + a <= n /\ (at + a) + b <= n
  BY <1>1, <1>2
<1>4. ASSUME NEW k \in 1 .. a PROVE c[at + k] = u[k]
  <2>1. k \in 1 .. a + b
    BY <1>1
  <2> QED
    BY <1>1, <1>2, <2>1
<1>5. ASSUME NEW k \in 1 .. b PROVE c[(at + a) + k] = v[k]
  <2>1. a + k \in 1 .. a + b /\ (at + a) + k = at + (a + k)
    BY <1>1
  <2> QED
    BY <1>1, <1>2, <2>1
<1> QED
  BY <1>1, <1>3, <1>4, <1>5 DEF Holds, a, b, n

\* Where a flattened sequence stands, its parts stand one behind the other.
LEMMA FlattenHolds ==
    ASSUME NEW T, NEW c \in Seq(T), NEW at \in Nat, NEW ss \in Seq(Seq(T)),
           Holds(c, at, FlattenSeq(ss))
    PROVE  /\ FlattenSeq(ss) \in Seq(T) /\ Len(FlattenSeq(ss)) \in Nat
           /\ \E place : Laid(place, c, at, ss, at + Len(FlattenSeq(ss)))
<1> DEFINE n == Len(ss)
           w == FlattenSeq(ss)
           m == Len(w)
<1>1. n \in Nat /\ \A i \in 1 .. n : Len(ss[i]) \in Nat
  OBVIOUS
<1>2. PICK p : Laid(p, w, 0, ss, m)
  BY FlattenFacts
<1>3. w \in Seq(T)
  BY FlattenFacts
<1>4. at + m <= Len(c) /\ \A k \in 1 .. m : c[at + k] = w[k]
  BY DEF Holds
<1> HIDE DEF w
<1>5. m \in Nat /\ Len(c) \in Nat
  BY <1>3
<1>6. /\ p \in [0 .. n -> Nat] /\ p[0] = 0 /\ p[n] = m
      /\ \A i \in 1 .. n : p[i] = p[i - 1] + Len(ss[i]) /\ Holds(w, p[i - 1], ss[i])
  BY <1>2 DEF Laid
<1> HIDE DEF n, m
<1> DEFINE place == [i \in 0 .. n |-> at + p[i]]
<1>7. place \in [0 .. n -> Nat] /\ place[0] = at /\ place[n] = at + m
  BY <1>1, <1>6
<1>8. ASSUME NEW i \in 1 .. n
      PROVE  place[i] = place[i - 1] + Len(ss[i]) /\ Holds(c, place[i - 1], ss[i])
  <2> DEFINE a == p[i - 1]
             b == Len(ss[i])
  <2>1. place[i] = at + p[i] /\ place[i - 1] = at + a
    BY <1>1
  <2>2. a \in Nat /\ b \in Nat /\ p[i] = a + b
    BY <1>1, <1>6
  <2>3. a + b <= m /\ \A k \in 1 .. b : w[a + k] = ss[i][k]
    BY <1>6 DEF Holds, m
  <2> HIDE DEF place, a, b
  <2>4. (at + a) + b <= Len(c)
    BY <1>4, <1>5, <2>2, <2>3
  <2>5. ASSUME NEW k \in 1 .. b PROVE c[(at + a) + k] = ss[i][k]
    <3>1. a + k \in 1 .. m /\ (at + a) + k = at + (a + k)
      BY <1>5, <2>2, <2>3
    <3> QED
      BY <1>4, <2>3, <3>1
  <2>6. Holds(c, at + a, ss[i])
    BY <2>4, <2>5 DEF Holds, b
  <2>7. place[i] = (at + a) + b
    BY <2>1, <2>2
  <2> QED
    BY <2>1, <2>6, <2>7 DEF b
<1> HIDE DEF place
<1>9. Laid(place, c, at, ss, at + m)
  BY <1>7, <1>8 DEF Laid, n
<1> QED
  BY <1>3, <1>5, <1>9 DEF w, m

\* A sum is what a running sum comes to.
LEMMA TotalIs ==
    ASSUME NEW n \in Nat, NEW sizes, Len(sizes) = n, NEW place \in [0 .. n -> Nat],
           place[0] = 0, \A i \in 1 .. n : place[i] = place[i - 1] + sizes[i]
    PROVE  Total(sizes) = place[n]
<1> DEFINE Body(f) == [i \in 0 .. n |-> IF i = 0 THEN 0 ELSE f[i - 1] + sizes[i]]
           sum == CHOOSE f : f = Body(f)
<1>1. Total(sizes) = sum[n]
  BY Zenon DEF Total
<1>2. place = Body(place)
  <2>1. \A i \in 0 .. n : i # 0 => i \in 1 .. n
    OBVIOUS
  <2>2. \A i \in 0 .. n : place[i] = IF i = 0 THEN 0 ELSE place[i - 1] + sizes[i]
    BY <2>1
  <2> QED
    BY <2>2
<1>3. sum = Body(sum)
  BY <1>2, Zenon
<1> HIDE DEF sum
<1>4. \A i \in 0 .. n : sum[i] = IF i = 0 THEN 0 ELSE sum[i - 1] + sizes[i]
  BY <1>3
<1> DEFINE P == {i \in 0 .. n : sum[i] = place[i]}
<1>5. 0 \in P
  BY <1>4
<1>6. ASSUME NEW i \in 1 .. n, i - 1 \in P PROVE i \in P
  BY <1>4, <1>6
<1> HIDE DEF P
<1>7. \A i \in 0 .. n : i \in P
  BY <1>5, <1>6, StepByStep
<1>8. n \in P
  BY <1>7
<1> QED
  BY <1>1, <1>8 DEF P

\* A flattened sequence is as long as its parts together.
LEMMA FlattenLen ==
    ASSUME NEW T, NEW ss \in Seq(Seq(T)), NEW sizes, Len(sizes) = Len(ss),
           \A i \in 1 .. Len(ss) : sizes[i] = Len(ss[i])
    PROVE  /\ FlattenSeq(ss) \in Seq(T) /\ Len(FlattenSeq(ss)) \in Nat
           /\ Len(FlattenSeq(ss)) = Total(sizes)
<1> DEFINE n == Len(ss)
           w == FlattenSeq(ss)
<1>1. n \in Nat
  OBVIOUS
<1>2. PICK p : Laid(p, w, 0, ss, Len(w))
  BY FlattenFacts
<1>3. w \in Seq(T)
  BY FlattenFacts
<1> HIDE DEF w
<1>4. /\ p \in [0 .. n -> Nat] /\ p[0] = 0 /\ p[n] = Len(w)
      /\ \A i \in 1 .. n : p[i] = p[i - 1] + sizes[i]
  BY <1>2 DEF Laid
<1>5. Len(w) \in Nat /\ Len(sizes) = n
  BY <1>3
<1> HIDE DEF n
<1>6. Total(sizes) = p[n]
  BY <1>1, <1>4, <1>5, TotalIs
<1> QED
  BY <1>3, <1>4, <1>5, <1>6 DEF w

\* One part, and two.
LEMMA FlattenOne ==
    ASSUME NEW T, NEW u \in Seq(T)
    PROVE  FlattenSeq(<<u>>) = u
  BY DEF FlattenSeq

\* Sequences of one length and the same elements.
LEMMA SameSeq ==
    ASSUME NEW T, NEW s \in Seq(T), NEW t \in Seq(T), Len(s) = Len(t),
           \A k \in 1 .. Len(s) : s[k] = t[k]
    PROVE  s = t
  OBVIOUS

LEMMA FlattenTwo ==
    ASSUME NEW T, NEW u \in Seq(T), NEW v \in Seq(T)
    PROVE  FlattenSeq(<<u, v>>) = u \o v
<1> DEFINE ss == <<u, v>>
           w == FlattenSeq(ss)
           a == Len(u)
           b == Len(v)
<1>1. ss \in Seq(Seq(T)) /\ Len(ss) = 2 /\ ss[1] = u /\ ss[2] = v
  OBVIOUS
<1> HIDE DEF ss
<1>2. w \in Seq(T) /\ \E p : Laid(p, w, 0, ss, Len(w))
  BY <1>1, FlattenFacts
<1> HIDE DEF w
<1>3. PICK p : Laid(p, w, 0, ss, Len(w))
  BY <1>2
<1>4. /\ p[0] = 0 /\ p[2] = Len(w) /\ p[1] = p[0] + a /\ p[2] = p[1] + b
      /\ Holds(w, p[0], u) /\ Holds(w, p[1], v)
  <2>1. 1 \in 1 .. 2 /\ 2 \in 1 .. 2 /\ 1 - 1 = 0 /\ 2 - 1 = 1
    OBVIOUS
  <2>2. p[0] = 0 /\ p[2] = Len(w)
    BY <1>1, <1>3 DEF Laid
  <2>3. p[1] = p[1 - 1] + Len(ss[1]) /\ Holds(w, p[1 - 1], ss[1])
    BY <1>1, <1>3, <2>1, Zenon DEF Laid
  <2>4. p[2] = p[2 - 1] + Len(ss[2]) /\ Holds(w, p[2 - 1], ss[2])
    BY <1>1, <1>3, <2>1, Zenon DEF Laid
  <2> QED
    BY <1>1, <2>1, <2>2, <2>3, <2>4, Zenon
<1>5. /\ a \in Nat /\ b \in Nat /\ u \o v \in Seq(T) /\ Len(u \o v) = a + b
      /\ \A k \in 1 .. a : (u \o v)[k] = u[k]
      /\ \A k \in 1 .. b : (u \o v)[a + k] = v[k]
  BY ConcatFacts
<1>6. /\ \A k \in 1 .. a : w[0 + k] = u[k]
      /\ \A k \in 1 .. b : w[(0 + a) + k] = v[k]
  BY <1>4, Zenon DEF Holds
<1> HIDE DEF a, b
<1>7. Len(w) = a + b /\ 0 + a = a
  BY <1>4, <1>5
<1>8. ASSUME NEW k \in 1 .. a + b PROVE w[k] = (u \o v)[k]
  <2>1. CASE k \in 1 .. a
    <3>1. 0 + k = k
      OBVIOUS
    <3> QED
      BY <1>5, <1>6, <2>1, <3>1
  <2>2. CASE k \notin 1 .. a
    <3>1. k - a \in 1 .. b /\ a + (k - a) = k
      BY <1>5, <2>2
    <3> QED
      BY <1>5, <1>6, <1>7, <3>1
  <2> QED
    BY <2>1, <2>2
<1>9. w = u \o v
  BY <1>2, <1>5, <1>7, <1>8, SameSeq
<1> QED
  BY <1>9 DEF w, ss

\* Induction on a rank.
LEMMA RankInduction ==
    ASSUME NEW X, NEW rank \in [X -> Nat], NEW P,
           \A x \in X : (\A y \in X : rank[y] < rank[x] => y \in P) => x \in P
    PROVE  \A x \in X : x \in P
<1> DEFINE Bad == {rank[x] : x \in {y \in X : y \notin P}}
<1> SUFFICES ASSUME NEW z \in X, z \notin P PROVE FALSE
  OBVIOUS
<1>1. Bad \subseteq Nat /\ Bad # {}
  OBVIOUS
<1>2. PICK m \in Bad : \A j \in Bad : m <= j
  BY <1>1, LeastExists
<1>3. PICK x \in X : x \notin P /\ m = rank[x]
  BY <1>2
<1>4. ASSUME NEW y \in X, rank[y] < rank[x] PROVE y \in P
  <2> SUFFICES ASSUME y \notin P PROVE FALSE
    OBVIOUS
  <2>1. rank[y] \in Bad
    OBVIOUS
  <2>2. m <= rank[y] /\ rank[y] \in Nat /\ rank[x] \in Nat
    BY <1>2, <2>1
  <2> QED
    BY <1>3, <1>4, <2>2
<1> QED
  BY <1>3, <1>4

\* f solves a recursion in which each value depends on one other, if on any.
Solves(f, X, R, next, step) ==
    f \in [X -> R] /\ \A x \in X : f[x] = step[x][f[next[x]]]

\* Such a recursion has a solution where the rank falls or nothing else matters.
LEMMA RankRecursion ==
    ASSUME NEW X, NEW R, NEW out \in R, NEW F \in Nat, NEW rank \in [X -> 0 .. F],
           NEW next \in [X -> X], NEW step \in [X -> [R -> R]],
           \A x \in X : \/ rank[next[x]] < rank[x]
                        \/ \A r \in R : step[x][r] = step[x][out]
    PROVE  \E f : Solves(f, X, R, next, step)
<1> DEFINE S == [X -> R]
           base == [x \in X |-> out]
           Once(f) == [x \in X |-> step[x][f[next[x]]]]
           turn == [i \in 1 .. F + 2 |-> [f \in S |-> Once(f)]]
<1>1. F + 2 \in Nat /\ base \in S
  OBVIOUS
<1>2. turn \in [1 .. F + 2 -> [S -> S]]
  OBVIOUS
<1>3. PICK g : Loop(g, F + 2, S, base, turn)
  <2> HIDE DEF S, base, turn
  <2> QED
    BY <1>1, <1>2, LoopExists
<1>4. /\ \A i \in 0 .. F + 2 : g[i] \in S
      /\ \A i \in 1 .. F + 2 : g[i] = turn[i][g[i - 1]]
  BY <1>3 DEF Loop
<1>5. \A i \in 1 .. F + 2 : \A x \in X : g[i][x] = step[x][g[i - 1][next[x]]]
  <2> TAKE i \in 1 .. F + 2
  <2>1. i - 1 \in 0 .. F + 2
    OBVIOUS
  <2>2. g[i - 1] \in S /\ g[i] = turn[i][g[i - 1]]
    BY <1>4, <2>1
  <2>3. g[i] = Once(g[i - 1])
    BY <2>2
  <2> QED
    BY <2>3
<1> HIDE DEF base, turn
<1>6. \A i \in 0 .. F + 2 : \A x \in X : g[i][x] \in R
  BY <1>4
<1> DEFINE Q == {k \in 0 .. F + 1 : \A x \in X : rank[x] < k => g[k + 1][x] = g[k][x]}
<1>7. 0 \in Q
  <2>1. \A x \in X : ~ (rank[x] < 0)
    OBVIOUS
  <2> QED
    BY <2>1
<1>8. ASSUME NEW k \in 1 .. F + 1, k - 1 \in Q PROVE k \in Q
  <2>1. k \in 1 .. F + 2 /\ k + 1 \in 1 .. F + 2 /\ (k + 1) - 1 = k /\ (k - 1) + 1 = k
        /\ k \in 0 .. F + 2 /\ k - 1 \in 0 .. F + 2
    OBVIOUS
  <2>2. ASSUME NEW x \in X, rank[x] < k PROVE g[k + 1][x] = g[k][x]
    <3>1. next[x] \in X
      OBVIOUS
    <3>2. g[k + 1][x] = step[x][g[k][next[x]]]
      BY <1>5, <2>1
    <3>3. g[k][x] = step[x][g[k - 1][next[x]]]
      BY <1>5, <2>1
    <3>4. CASE rank[next[x]] < rank[x]
      <4>1. rank[next[x]] < k - 1
        <5>1. rank[next[x]] \in Nat /\ rank[x] \in Nat
          BY <3>1
        <5> QED
          BY <2>2, <3>4, <5>1
      <4>2. g[(k - 1) + 1][next[x]] = g[k - 1][next[x]]
        BY <1>8, <3>1, <4>1
      <4> QED
        BY <2>1, <3>2, <3>3, <4>2
    <3>5. CASE \A r \in R : step[x][r] = step[x][out]
      <4>1. g[k][next[x]] \in R /\ g[k - 1][next[x]] \in R
        BY <1>6, <2>1, <3>1
      <4> QED
        BY <3>2, <3>3, <3>5, <4>1
    <3> QED
      BY <3>4, <3>5
  <2> QED
    BY <2>2
<1> HIDE DEF Q
<1>9. \A k \in 0 .. F + 1 : k \in Q
  <2>1. F + 1 \in Nat
    OBVIOUS
  <2> QED
    BY <1>7, <1>8, <2>1, StepByStep
<1>10. F + 1 \in 0 .. F + 1 /\ (F + 1) + 1 = F + 2 /\ F + 2 \in 1 .. F + 2
       /\ (F + 2) - 1 = F + 1 /\ F + 1 \in 0 .. F + 2
  OBVIOUS
<1>11. F + 1 \in Q
  BY <1>9, <1>10
<1>12. \A x \in X : rank[x] < F + 1 /\ g[F + 2][x] = g[F + 1][x]
  BY <1>10, <1>11 DEF Q
<1>13. \A x \in X : g[F + 2][x] = step[x][g[F + 1][next[x]]]
  BY <1>5, <1>10
<1>14. g[F + 1] \in [X -> R]
  BY <1>4, <1>10
<1>15. Solves(g[F + 1], X, R, next, step)
  BY <1>12, <1>13, <1>14 DEF Solves
<1> QED
  BY <1>15

-----------------------------------------------------------------------------
(* ParseDomainName *)

Parses == [ok : BOOLEAN, end : Nat, labels : Seq(Seq(Nat))]
Spots == Nat \X (0 .. DNS_MAX_POINTER_HOPS)

\* A pointer that is followed at an offset, and a label that is read there.
Follows(c, at, hops) == /\ at + 1 < Len(c) /\ c[at + 1] = Pointer
                        /\ hops < DNS_MAX_POINTER_HOPS
Reads(c, at) == /\ at < Len(c) /\ c[at + 1] \in 1 .. MaxLabel
                /\ at + 1 + c[at + 1] <= Len(c)

Onward(c, at, hops) == IF Follows(c, at, hops) THEN <<c[at + 2], hops + 1>>
                       ELSE IF Reads(c, at) THEN <<at + 1 + c[at + 1], hops>>
                       ELSE <<at, hops>>

\* What is read at an offset, before what is read further on.
ParseStep(c, at, hops, rest) ==
    IF Follows(c, at, hops) THEN [rest EXCEPT !.end = at + 2]
    ELSE IF Reads(c, at)
           THEN [rest EXCEPT !.labels = <<SubSeq(c, at + 2, at + 1 + c[at + 1])>> \o @]
    ELSE IF at < Len(c) /\ c[at + 1] = 0
           THEN [ok |-> TRUE, end |-> at + 1, labels |-> <<>>]
    ELSE NoParse

\* f is ParseDomainName's function in the cells c.
Parser(f, c) ==
    /\ f \in [Spots -> Parses]
    /\ \A at \in Nat, hops \in 0 .. DNS_MAX_POINTER_HOPS :
          f[<<at, hops>>] = ParseStep(c, at, hops, f[Onward(c, at, hops)])

\* The recursion as ParseDomainName writes it.
ParseBody(c, f) ==
    [spot \in Nat \X (0 .. DNS_MAX_POINTER_HOPS) |->
       LET at == spot[1]
           hops == spot[2]
       IN  CASE at >= Len(c) -> NoParse
             [] at < Len(c) /\ c[at + 1] = 0 ->
                  [ok |-> TRUE, end |-> at + 1, labels |-> <<>>]
             [] at < Len(c) /\ c[at + 1] = Pointer ->
                  IF at + 1 >= Len(c) \/ hops = DNS_MAX_POINTER_HOPS THEN NoParse
                  ELSE [f[<<c[at + 2], hops + 1>>] EXCEPT !.end = at + 2]
             [] OTHER ->
                  IF c[at + 1] > MaxLabel \/ at + 1 + c[at + 1] > Len(c) THEN NoParse
                  ELSE [f[<<at + 1 + c[at + 1], hops>>] EXCEPT
                          !.labels = <<SubSeq(c, at + 2, at + 1 + c[at + 1])>> \o @]]

\* The types of a step.
LEMMA OnwardType ==
    ASSUME NEW c \in Seq(Nat), NEW at \in Nat, NEW hops \in 0 .. DNS_MAX_POINTER_HOPS
    PROVE  Onward(c, at, hops) \in Spots
<1>1. /\ DNS_MAX_POINTER_HOPS \in Nat /\ Len(c) \in Nat
      /\ \A i \in 1 .. Len(c) : c[i] \in Nat
  BY PacketAssumption
<1>2. CASE Follows(c, at, hops)
  <2>1. at + 2 \in 1 .. Len(c) /\ hops + 1 \in 0 .. DNS_MAX_POINTER_HOPS
    BY <1>1, <1>2 DEF Follows
  <2> QED
    BY <1>1, <1>2, <2>1 DEF Onward, Spots
<1>3. CASE Reads(c, at) /\ ~ Follows(c, at, hops)
  <2>1. at + 1 \in 1 .. Len(c)
    BY <1>1, <1>3 DEF Reads
  <2> QED
    BY <1>1, <1>3, <2>1 DEF Onward, Spots
<1>4. CASE ~ Reads(c, at) /\ ~ Follows(c, at, hops)
  BY <1>4 DEF Onward, Spots
<1> QED
  BY <1>2, <1>3, <1>4

LEMMA LabelType ==
    ASSUME NEW c \in Seq(Nat), NEW at \in Nat, Reads(c, at)
    PROVE  /\ SubSeq(c, at + 2, at + 1 + c[at + 1]) \in Seq(Nat)
           /\ Len(SubSeq(c, at + 2, at + 1 + c[at + 1])) = c[at + 1]
           /\ c[at + 1] \in 1 .. MaxLabel /\ c[at + 1] \in Nat
  BY PacketAssumption DEF Reads

LEMMA StepType ==
    ASSUME NEW c \in Seq(Nat), NEW at \in Nat, NEW hops \in 0 .. DNS_MAX_POINTER_HOPS,
           NEW r \in Parses
    PROVE  ParseStep(c, at, hops, r) \in Parses
<1>1. CASE Follows(c, at, hops)
  <2>1. ParseStep(c, at, hops, r) = [r EXCEPT !.end = at + 2] /\ at + 2 \in Nat
    BY <1>1 DEF ParseStep
  <2> QED
    BY <2>1 DEF Parses
<1>2. CASE Reads(c, at) /\ ~ Follows(c, at, hops)
  <2> DEFINE l == SubSeq(c, at + 2, at + 1 + c[at + 1])
  <2>1. l \in Seq(Nat)
    BY <1>2, LabelType
  <2> HIDE DEF l
  <2>2. <<l>> \o r.labels \in Seq(Seq(Nat))
    BY <2>1 DEF Parses
  <2>3. ParseStep(c, at, hops, r) = [r EXCEPT !.labels = <<l>> \o r.labels]
    BY <1>2 DEF ParseStep, l
  <2> QED
    BY <2>2, <2>3 DEF Parses
<1>3. CASE ~ Reads(c, at) /\ ~ Follows(c, at, hops)
  BY <1>3 DEF ParseStep, Parses, NoParse
<1> QED
  BY <1>1, <1>2, <1>3

\* The recursion's form, case by case, is ParseStep.
LEMMA BodyStep ==
    ASSUME NEW c \in Seq(Nat), NEW f, NEW at \in Nat, NEW hops \in 0 .. DNS_MAX_POINTER_HOPS
    PROVE  ParseBody(c, f)[<<at, hops>>] = ParseStep(c, at, hops, f[Onward(c, at, hops)])
<1> DEFINE v == ParseBody(c, f)[<<at, hops>>]
<1>1. /\ DNS_MAX_POINTER_HOPS \in Nat /\ Len(c) \in Nat /\ MaxLabel \in Nat /\ Pointer \in Nat
      /\ Pointer > MaxLabel /\ \A i \in 1 .. Len(c) : c[i] \in Nat
  BY PacketAssumption
<1>2. v = CASE at >= Len(c) -> NoParse
            [] at < Len(c) /\ c[at + 1] = 0 ->
                 [ok |-> TRUE, end |-> at + 1, labels |-> <<>>]
            [] at < Len(c) /\ c[at + 1] = Pointer ->
                 IF at + 1 >= Len(c) \/ hops = DNS_MAX_POINTER_HOPS THEN NoParse
                 ELSE [f[<<c[at + 2], hops + 1>>] EXCEPT !.end = at + 2]
            [] OTHER ->
                 IF c[at + 1] > MaxLabel \/ at + 1 + c[at + 1] > Len(c) THEN NoParse
                 ELSE [f[<<at + 1 + c[at + 1], hops>>] EXCEPT
                         !.labels = <<SubSeq(c, at + 2, at + 1 + c[at + 1])>> \o @]
  BY DEF ParseBody
<1> HIDE DEF v
<1>3. CASE at >= Len(c)
  <2>1. ~ Follows(c, at, hops) /\ ~ Reads(c, at) /\ ~ (at < Len(c))
    BY <1>1, <1>3 DEF Follows, Reads
  <2>2. v = NoParse
    BY <1>2, <1>3
  <2> QED
    BY <2>1, <2>2 DEF ParseStep, v
<1>4. CASE at < Len(c) /\ c[at + 1] = 0
  <2>1. ~ Follows(c, at, hops) /\ ~ Reads(c, at) /\ ~ (at >= Len(c))
    BY <1>1, <1>4 DEF Follows, Reads
  <2>2. v = [ok |-> TRUE, end |-> at + 1, labels |-> <<>>]
    BY <1>1, <1>2, <1>4, <2>1
  <2> QED
    BY <1>4, <2>1, <2>2 DEF ParseStep, v
<1>5. CASE at < Len(c) /\ c[at + 1] = Pointer
  <2>1. ~ Reads(c, at) /\ ~ (at >= Len(c)) /\ c[at + 1] # 0
    BY <1>1, <1>5 DEF Reads
  <2>2. v = IF at + 1 >= Len(c) \/ hops = DNS_MAX_POINTER_HOPS THEN NoParse
            ELSE [f[<<c[at + 2], hops + 1>>] EXCEPT !.end = at + 2]
    BY <1>2, <1>5, <2>1
  <2>3. Follows(c, at, hops) <=> ~ (at + 1 >= Len(c) \/ hops = DNS_MAX_POINTER_HOPS)
    BY <1>1, <1>5 DEF Follows
  <2> QED
    BY <2>1, <2>2, <2>3 DEF ParseStep, Onward, v
<1>6. CASE at < Len(c) /\ c[at + 1] # 0 /\ c[at + 1] # Pointer
  <2>1. ~ Follows(c, at, hops) /\ ~ (at >= Len(c))
    BY <1>1, <1>6 DEF Follows
  <2>2. v = IF c[at + 1] > MaxLabel \/ at + 1 + c[at + 1] > Len(c) THEN NoParse
            ELSE [f[<<at + 1 + c[at + 1], hops>>] EXCEPT
                    !.labels = <<SubSeq(c, at + 2, at + 1 + c[at + 1])>> \o @]
    BY <1>2, <1>6, <2>1
  <2>3. Reads(c, at) <=> ~ (c[at + 1] > MaxLabel \/ at + 1 + c[at + 1] > Len(c))
    BY <1>1, <1>6 DEF Reads
  <2> QED
    BY <1>6, <2>1, <2>2, <2>3 DEF ParseStep, Onward, v
<1> QED
  BY <1>1, <1>3, <1>4, <1>5, <1>6

\* How much of a parse is left at an offset.
Rank(c, at, hops) == (DNS_MAX_POINTER_HOPS - hops) * (Len(c) + 1)
                     + (IF at < Len(c) THEN Len(c) - at ELSE 0)

\* The rank is bounded, and both a pointer and a label make it smaller.
LEMMA RankFacts ==
    ASSUME NEW c \in Seq(Nat), NEW at \in Nat, NEW hops \in 0 .. DNS_MAX_POINTER_HOPS
    PROVE  /\ Rank(c, at, hops) \in 0 .. (DNS_MAX_POINTER_HOPS + 1) * (Len(c) + 1)
           /\ Follows(c, at, hops) => Rank(c, c[at + 2], hops + 1) < Rank(c, at, hops)
           /\ Reads(c, at) => Rank(c, at + 1 + c[at + 1], hops) < Rank(c, at, hops)
<1> DEFINE H == DNS_MAX_POINTER_HOPS
           L == Len(c)
           k == H - hops
           d == IF at < L THEN L - at ELSE 0
<1>1. H \in Nat /\ L \in Nat /\ MaxLabel \in Nat /\ \A i \in 1 .. L : c[i] \in Nat
  BY PacketAssumption
<1>2. k \in 0 .. H /\ d \in 0 .. L
  BY <1>1
<1>3. Rank(c, at, hops) = k * (L + 1) + d
  BY DEF Rank
<1> HIDE DEF d
<1>4. k * (L + 1) + d \in 0 .. (H + 1) * (L + 1)
  <2>1. k \in Nat /\ k <= H /\ d <= L
    BY <1>1, <1>2
  <2> HIDE DEF k, H, L
  <2>2. (H + 1) * (L + 1) = H * (L + 1) + (L + 1)
    BY <1>1
  <2>3. k * (L + 1) <= H * (L + 1) /\ k * (L + 1) \in Nat /\ H * (L + 1) \in Nat
    BY <1>1, <2>1
  <2> QED
    BY <1>1, <1>2, <2>2, <2>3
<1>5. ASSUME Follows(c, at, hops) PROVE Rank(c, c[at + 2], hops + 1) < Rank(c, at, hops)
  <2> DEFINE e == IF c[at + 2] < L THEN L - c[at + 2] ELSE 0
  <2>1. at + 2 \in 1 .. L /\ hops < H /\ at < L
    BY <1>1, <1>5 DEF Follows
  <2>2. e \in 0 .. L /\ d >= 1
    BY <1>1, <2>1 DEF d
  <2>3. Rank(c, c[at + 2], hops + 1) = (H - (hops + 1)) * (L + 1) + e
    BY DEF Rank
  <2> HIDE DEF e
  <2>4. H - (hops + 1) = k - 1 /\ k >= 1
    BY <1>1, <2>1
  <2> HIDE DEF k, H, L
  <2>5. (k - 1) * (L + 1) = k * (L + 1) - (L + 1) /\ k * (L + 1) \in Int
    BY <1>1, <1>2
  <2> QED
    BY <1>1, <1>2, <1>3, <2>2, <2>3, <2>4, <2>5
<1>6. ASSUME Reads(c, at) PROVE Rank(c, at + 1 + c[at + 1], hops) < Rank(c, at, hops)
  <2> DEFINE a == at + 1 + c[at + 1]
             e == IF a < L THEN L - a ELSE 0
  <2>1. at + 1 \in 1 .. L /\ c[at + 1] \in Nat /\ at < L
    BY <1>1, <1>6 DEF Reads
  <2>2. e \in Nat /\ e < d
    BY <1>1, <2>1 DEF d
  <2>3. Rank(c, a, hops) = k * (L + 1) + e
    BY DEF Rank
  <2> HIDE DEF e
  <2>4. k * (L + 1) \in Int
    BY <1>1, <1>2
  <2> QED
    BY <1>2, <1>3, <2>2, <2>3, <2>4
<1> QED
  BY <1>1, <1>3, <1>4, <1>5, <1>6

\* Two functions that solve the recursion are one.
LEMMA ParserUnique ==
    ASSUME NEW c \in Seq(Nat), NEW f, Parser(f, c), NEW g, g = ParseBody(c, g),
           NEW at \in Nat, NEW hops \in 0 .. DNS_MAX_POINTER_HOPS
    PROVE  g[<<at, hops>>] = f[<<at, hops>>]
<1> DEFINE X == Spots
           rank == [x \in X |-> Rank(c, x[1], x[2])]
           P == {x \in X : g[x] = f[x]}
<1>0. \A x \in X : x[1] \in Nat /\ x[2] \in 0 .. DNS_MAX_POINTER_HOPS /\ x = <<x[1], x[2]>>
  BY DEF Spots
<1>1. rank \in [X -> Nat]
  <2>1. ASSUME NEW x \in X PROVE Rank(c, x[1], x[2]) \in Nat
    <3>1. Rank(c, x[1], x[2]) \in 0 .. (DNS_MAX_POINTER_HOPS + 1) * (Len(c) + 1)
      BY <1>0, RankFacts
    <3> QED
      BY <3>1
  <2> QED
    BY <2>1
<1>2. ASSUME NEW x \in X, \A y \in X : rank[y] < rank[x] => y \in P PROVE x \in P
  <2> DEFINE a == x[1]
             h == x[2]
             o == Onward(c, a, h)
  <2>1. a \in Nat /\ h \in 0 .. DNS_MAX_POINTER_HOPS /\ x = <<a, h>> /\ rank[x] = Rank(c, a, h)
    BY <1>0
  <2> HIDE DEF a, h
  <2>2. o \in X
    BY <2>1, OnwardType
  <2>3. g[x] = ParseStep(c, a, h, g[o])
    BY <2>1, BodyStep
  <2>4. f[x] = ParseStep(c, a, h, f[o])
    BY <2>1 DEF Parser
  <2>5. CASE Follows(c, a, h)
    <3>1. o = <<c[a + 2], h + 1>>
      BY <2>5 DEF Onward
    <3>2. rank[o] = Rank(c, c[a + 2], h + 1)
      BY <2>2, <3>1
    <3>3. rank[o] < rank[x]
      BY <2>1, <2>5, <3>2, RankFacts
    <3>4. g[o] = f[o]
      BY <1>2, <2>2, <3>3
    <3> QED
      BY <2>3, <2>4, <3>4
  <2>6. CASE Reads(c, a) /\ ~ Follows(c, a, h)
    <3>1. o = <<a + 1 + c[a + 1], h>>
      BY <2>6 DEF Onward
    <3>2. rank[o] = Rank(c, a + 1 + c[a + 1], h)
      BY <2>2, <3>1
    <3>3. rank[o] < rank[x]
      BY <2>1, <2>6, <3>2, RankFacts
    <3>4. g[o] = f[o]
      BY <1>2, <2>2, <3>3
    <3> QED
      BY <2>3, <2>4, <3>4
  <2>7. CASE ~ Reads(c, a) /\ ~ Follows(c, a, h)
    <3>1. g[x] = f[x]
      BY <2>3, <2>4, <2>7 DEF ParseStep
    <3> QED
      BY <3>1
  <2> QED
    BY <2>5, <2>6, <2>7
<1> HIDE DEF rank, P
<1>3. \A x \in X : x \in P
  BY <1>1, <1>2, RankInduction
<1>4. <<at, hops>> \in X
  BY DEF Spots
<1> QED
  BY <1>3, <1>4 DEF P

\* So there is such a function, it solves the recursion as written, and it is the one
\* ParseDomainName takes.
LEMMA ParserExists ==
    ASSUME NEW c \in Seq(Nat)
    PROVE  \E f : Parser(f, c)
<1> DEFINE X == Spots
           R == Parses
           F == (DNS_MAX_POINTER_HOPS + 1) * (Len(c) + 1)
           rank == [x \in X |-> Rank(c, x[1], x[2])]
           next == [x \in X |-> Onward(c, x[1], x[2])]
           step == [x \in X |-> [r \in R |-> ParseStep(c, x[1], x[2], r)]]
<1>0. \A x \in X : x[1] \in Nat /\ x[2] \in 0 .. DNS_MAX_POINTER_HOPS /\ x = <<x[1], x[2]>>
  BY DEF Spots
<1>1. NoParse \in R
  BY DEF Parses, NoParse
<1>2. F \in Nat
  BY PacketAssumption
<1>3. rank \in [X -> 0 .. F]
  BY <1>0, RankFacts
<1>4. next \in [X -> X]
  BY <1>0, OnwardType
<1>5. step \in [X -> [R -> R]]
  <2>1. \A x \in X : \A r \in R : ParseStep(c, x[1], x[2], r) \in R
    BY <1>0, StepType
  <2> HIDE DEF R
  <2> QED
    BY <2>1
<1>6. ASSUME NEW x \in X
      PROVE  \/ rank[next[x]] < rank[x]
             \/ \A r \in R : step[x][r] = step[x][NoParse]
  <2> DEFINE a == x[1]
             h == x[2]
             o == Onward(c, a, h)
  <2>1. a \in Nat /\ h \in 0 .. DNS_MAX_POINTER_HOPS /\ rank[x] = Rank(c, a, h)
        /\ next[x] = o
    BY <1>0
  <2>s. \A r \in R : step[x][r] = ParseStep(c, a, h, r)
    OBVIOUS
  <2>2. o \in X
    BY <2>1, OnwardType
  <2>r. \A y \in X : rank[y] = Rank(c, y[1], y[2])
    OBVIOUS
  <2> HIDE DEF a, h, next, step, rank
  <2>5. CASE Follows(c, a, h)
    <3>1. o = <<c[a + 2], h + 1>>
      BY <2>5 DEF Onward
    <3>2. rank[o] = Rank(c, c[a + 2], h + 1)
      BY <2>2, <2>r, <3>1
    <3> QED
      BY <2>1, <2>5, <3>2, RankFacts
  <2>6. CASE Reads(c, a) /\ ~ Follows(c, a, h)
    <3>1. o = <<a + 1 + c[a + 1], h>>
      BY <2>6 DEF Onward
    <3>2. rank[o] = Rank(c, a + 1 + c[a + 1], h)
      BY <2>2, <2>r, <3>1
    <3> QED
      BY <2>1, <2>6, <3>2, RankFacts
  <2>7. CASE ~ Reads(c, a) /\ ~ Follows(c, a, h)
    <3>1. \A r \in R : ParseStep(c, a, h, r) = ParseStep(c, a, h, NoParse)
      BY <2>7 DEF ParseStep
    <3> QED
      BY <1>1, <2>s, <3>1, Zenon
  <2> QED
    BY <2>5, <2>6, <2>7
<1>7. \A at \in Nat, hops \in 0 .. DNS_MAX_POINTER_HOPS :
         /\ <<at, hops>> \in X /\ next[<<at, hops>>] = Onward(c, at, hops)
         /\ Onward(c, at, hops) \in X
         /\ \A r \in R : step[<<at, hops>>][r] = ParseStep(c, at, hops, r)
  <2> TAKE at \in Nat, hops \in 0 .. DNS_MAX_POINTER_HOPS
  <2>1. <<at, hops>> \in X
    BY DEF Spots
  <2> QED
    BY <2>1, OnwardType
<1> HIDE DEF X, R, F, rank, next, step
<1>8. PICK f : Solves(f, X, R, next, step)
  BY <1>1, <1>2, <1>3, <1>4, <1>5, <1>6, RankRecursion
<1>9. ASSUME NEW at \in Nat, NEW hops \in 0 .. DNS_MAX_POINTER_HOPS
      PROVE  f[<<at, hops>>] = ParseStep(c, at, hops, f[Onward(c, at, hops)])
  <2> DEFINE x == <<at, hops>>
             o == Onward(c, at, hops)
  <2>1. x \in X /\ next[x] = o /\ o \in X /\ \A r \in R : step[x][r] = ParseStep(c, at, hops, r)
    BY <1>7
  <2> HIDE DEF x, o
  <2>2. f[x] = step[x][f[next[x]]] /\ f[o] \in R
    BY <1>8, <2>1 DEF Solves
  <2>3. f[x] = ParseStep(c, at, hops, f[o])
    BY <2>1, <2>2
  <2> QED
    BY <2>3 DEF x, o
<1>10. f \in [Spots -> Parses]
  BY <1>8 DEF Solves, X, R
<1>11. Parser(f, c)
  BY <1>9, <1>10 DEF Parser
<1> QED
  BY <1>11

LEMMA ParserSolves ==
    ASSUME NEW c \in Seq(Nat), NEW f, Parser(f, c)
    PROVE  f = ParseBody(c, f)
<1>1. f \in [Spots -> Parses]
  BY DEF Parser
<1>2. ASSUME NEW x \in Spots PROVE f[x] = ParseBody(c, f)[x]
  <2> DEFINE a == x[1]
             h == x[2]
  <2>1. a \in Nat /\ h \in 0 .. DNS_MAX_POINTER_HOPS /\ x = <<a, h>>
    BY DEF Spots
  <2> HIDE DEF a, h
  <2>2. f[<<a, h>>] = ParseStep(c, a, h, f[Onward(c, a, h)])
    BY <2>1 DEF Parser
  <2>3. ParseBody(c, f)[<<a, h>>] = ParseStep(c, a, h, f[Onward(c, a, h)])
    BY <2>1, BodyStep
  <2> QED
    BY <2>1, <2>2, <2>3
<1> DEFINE g == ParseBody(c, f)
<1>3. DOMAIN f = Spots /\ f = [x \in Spots |-> f[x]]
  BY <1>1
<1>4. DOMAIN g = Spots /\ g = [x \in Spots |-> g[x]]
  BY DEF ParseBody, Spots
<1> HIDE DEF g
<1>5. \A x \in Spots : f[x] = g[x]
  BY <1>2 DEF g
<1>6. f = g
  BY <1>3, <1>4, <1>5
<1> QED
  BY <1>6 DEF g

\* ParseDomainName is that function.
LEMMA ParseIs ==
    ASSUME NEW c \in Seq(Nat)
    PROVE  \E f : Parser(f, c) /\ \A from \in Nat : ParseDomainName(c, from) = f[<<from, 0>>]
<1>1. PICK f : Parser(f, c)
  BY ParserExists
<1>2. f = ParseBody(c, f)
  BY <1>1, ParserSolves
<1> DEFINE g == CHOOSE g : g = ParseBody(c, g)
<1>3. g = ParseBody(c, g)
  BY <1>2, Zenon
<1>4. \A from : ParseDomainName(c, from) = g[<<from, 0>>]
  BY Zenon DEF ParseDomainName, ParseBody
<1> HIDE DEF g
<1>5. \A from \in Nat : g[<<from, 0>>] = f[<<from, 0>>]
  <2>1. 0 \in 0 .. DNS_MAX_POINTER_HOPS
    BY PacketAssumption
  <2> QED
    BY <1>1, <1>3, <2>1, ParserUnique
<1> QED
  BY <1>1, <1>4, <1>5

\* Labels of a length that a length byte can say.
Labelled(labels) == \A i \in 1 .. Len(labels) : Len(labels[i]) \in 1 .. MaxLabel

\* What a parse that succeeds has read.
LEMMA ParsedName ==
    ASSUME NEW c \in Seq(Nat), NEW from \in Nat
    PROVE  /\ ParseDomainName(c, from) \in Parses
           /\ ParseDomainName(c, from).ok =>
                 /\ from < ParseDomainName(c, from).end
                 /\ ParseDomainName(c, from).end <= Len(c)
                 /\ Labelled(ParseDomainName(c, from).labels)
<1>1. PICK f : Parser(f, c) /\ \A at \in Nat : ParseDomainName(c, at) = f[<<at, 0>>]
  BY ParseIs
<1> DEFINE X == Spots
           rank == [x \in X |-> Rank(c, x[1], x[2])]
           Good(x) == f[x].ok => /\ x[1] < f[x].end /\ f[x].end <= Len(c)
                                 /\ Labelled(f[x].labels)
           P == {x \in X : Good(x)}
<1>0. \A x \in X : x[1] \in Nat /\ x[2] \in 0 .. DNS_MAX_POINTER_HOPS /\ x = <<x[1], x[2]>>
  BY DEF Spots
<1>t. Len(c) \in Nat /\ MaxLabel \in Nat /\ \A i \in 1 .. Len(c) : c[i] \in Nat
  BY PacketAssumption
<1>f. f \in [X -> Parses]
  BY <1>1 DEF Parser
<1>2. rank \in [X -> Nat]
  <2>1. ASSUME NEW x \in X PROVE Rank(c, x[1], x[2]) \in Nat
    <3>1. Rank(c, x[1], x[2]) \in 0 .. (DNS_MAX_POINTER_HOPS + 1) * (Len(c) + 1)
      BY <1>0, RankFacts
    <3> QED
      BY <3>1
  <2> QED
    BY <2>1
<1>3. ASSUME NEW x \in X, \A y \in X : rank[y] < rank[x] => y \in P PROVE x \in P
  <2> DEFINE a == x[1]
             h == x[2]
             o == Onward(c, a, h)
  <2>1. a \in Nat /\ h \in 0 .. DNS_MAX_POINTER_HOPS /\ x = <<a, h>> /\ rank[x] = Rank(c, a, h)
    BY <1>0
  <2>g. Good(x) => x \in P
    OBVIOUS
  <2>h. Good(x) <=> (f[x].ok => /\ a < f[x].end /\ f[x].end <= Len(c) /\ Labelled(f[x].labels))
    OBVIOUS
  <2> HIDE DEF a, h
  <2>2. o \in X
    BY <2>1, OnwardType
  <2>3. f[x] = ParseStep(c, a, h, f[o])
    BY <1>1, <2>1 DEF Parser
  <2>4. f[o] \in Parses
    BY <1>f, <2>2
  <2> HIDE DEF o
  <2>5. CASE Follows(c, a, h)
    <3>1. o = <<c[a + 2], h + 1>>
      BY <2>5 DEF Onward, o
    <3>2. rank[o] = Rank(c, c[a + 2], h + 1)
      BY <2>2, <3>1
    <3>3. rank[o] < rank[x]
      BY <2>1, <2>5, <3>2, RankFacts
    <3>4. f[o].ok => Labelled(f[o].labels)
      BY <1>3, <2>2, <3>3
    <3>5. f[x] = [f[o] EXCEPT !.end = a + 2]
      BY <2>3, <2>5 DEF ParseStep
    <3>6. f[x].ok = f[o].ok /\ f[x].labels = f[o].labels /\ f[x].end = a + 2
      BY <2>4, <3>5 DEF Parses
    <3>7. a < a + 2 /\ a + 2 <= Len(c)
      BY <1>t, <2>1, <2>5 DEF Follows
    <3> QED
      BY <2>g, <2>h, <3>4, <3>6, <3>7
  <2>6. CASE Reads(c, a) /\ ~ Follows(c, a, h)
    <3> DEFINE b == a + 1 + c[a + 1]
               l == SubSeq(c, a + 2, b)
    <3>0. c[a + 1] \in Nat /\ l \in Seq(Nat) /\ Len(l) \in 1 .. MaxLabel
      BY <2>1, <2>6, LabelType
    <3> HIDE DEF l
    <3>a. b \in Nat /\ a < b
      <4>1. c[a + 1] \in Nat
        BY <3>0
      <4> QED
        BY <2>1, <4>1
    <3>1. o = <<b, h>>
      BY <2>6 DEF Onward, o
    <3>2. rank[o] = Rank(c, b, h)
      BY <2>2, <3>1
    <3>3. rank[o] < rank[x]
      BY <2>1, <2>6, <3>2, RankFacts
    <3>4. f[o].ok => /\ o[1] < f[o].end /\ f[o].end <= Len(c) /\ Labelled(f[o].labels)
      BY <1>3, <2>2, <3>3
    <3>5. f[x] = [f[o] EXCEPT !.labels = <<l>> \o f[o].labels]
      BY <2>3, <2>6 DEF ParseStep, l
    <3>6. f[x].ok = f[o].ok /\ f[x].labels = <<l>> \o f[o].labels /\ f[x].end = f[o].end
      BY <2>4, <3>5 DEF Parses
    <3>7. o[1] = b /\ f[o].end \in Nat
      BY <2>4, <3>1 DEF Parses
    <3>8. ASSUME f[o].ok PROVE Labelled(<<l>> \o f[o].labels)
      <4> DEFINE s == f[o].labels
                 t == <<l>> \o s
      <4>1. s \in Seq(Seq(Nat)) /\ <<l>> \in Seq(Seq(Nat)) /\ Len(<<l>>) = 1 /\ <<l>>[1] = l
        BY <2>4, <3>0 DEF Parses
      <4> HIDE DEF s
      <4>2. /\ Len(s) \in Nat /\ Len(t) = 1 + Len(s) /\ t[1] = l
            /\ \A k \in 1 .. Len(s) : t[1 + k] = s[k]
        BY <4>1
      <4>3. \A i \in 1 .. Len(s) : Len(s[i]) \in 1 .. MaxLabel
        BY <3>4, <3>8 DEF Labelled, s
      <4> HIDE DEF t
      <4>4. ASSUME NEW i \in 1 .. Len(t) PROVE Len(t[i]) \in 1 .. MaxLabel
        <5>1. CASE i = 1
          BY <3>0, <4>2, <5>1
        <5>2. CASE i # 1
          <6>1. i - 1 \in 1 .. Len(s) /\ 1 + (i - 1) = i
            BY <4>2, <5>2
          <6>2. t[i] = s[i - 1]
            BY <4>2, <6>1
          <6> QED
            BY <4>3, <6>1, <6>2
        <5> QED
          BY <5>1, <5>2
      <4>5. Labelled(t)
        BY <4>4 DEF Labelled
      <4> QED
        BY <4>5 DEF t, s
    <3>9. f[o].ok => a < f[o].end
      BY <2>1, <3>4, <3>7, <3>a
    <3> QED
      BY <2>g, <2>h, <3>4, <3>6, <3>8, <3>9
  <2>7. CASE ~ Reads(c, a) /\ ~ Follows(c, a, h)
    <3>1. CASE a < Len(c) /\ c[a + 1] = 0
      <4>1. f[x].end = a + 1 /\ f[x].labels = <<>>
        BY <2>3, <2>7, <3>1 DEF ParseStep
      <4>2. Labelled(<<>>)
        BY DEF Labelled
      <4> QED
        BY <1>t, <2>1, <2>g, <2>h, <3>1, <4>1, <4>2
    <3>2. CASE ~ (a < Len(c) /\ c[a + 1] = 0)
      <4>1. f[x].ok = FALSE
        BY <2>3, <2>7, <3>2 DEF ParseStep, NoParse
      <4> QED
        BY <2>g, <2>h, <4>1
    <3> QED
      BY <3>1, <3>2
  <2> QED
    BY <2>5, <2>6, <2>7
<1> HIDE DEF rank, P
<1>4. \A x \in X : x \in P
  BY <1>2, <1>3, RankInduction
<1> DEFINE x == <<from, 0>>
<1>5. x \in X /\ x[1] = from
  BY PacketAssumption DEF Spots
<1>6. ParseDomainName(c, from) = f[x]
  BY <1>1
<1> HIDE DEF x
<1>7. f[x] \in Parses
  BY <1>5, <1>f
<1>8. Good(x)
  BY <1>4, <1>5 DEF P
<1> QED
  BY <1>5, <1>6, <1>7, <1>8

\* Encoded labels are cells.
LEMMA EncodeType ==
    ASSUME NEW labels \in Seq(Seq(Nat))
    PROVE  /\ [i \in DOMAIN labels |-> EncodeLabel(labels[i])] \in Seq(Seq(Nat))
           /\ Len([i \in DOMAIN labels |-> EncodeLabel(labels[i])]) = Len(labels)
           /\ \A i \in 1 .. Len(labels) :
                 /\ [j \in DOMAIN labels |-> EncodeLabel(labels[j])][i] = EncodeLabel(labels[i])
                 /\ EncodeLabel(labels[i]) \in Seq(Nat)
                 /\ Len(EncodeLabel(labels[i])) = 1 + Len(labels[i])
                 /\ labels[i] \in Seq(Nat) /\ Len(labels[i]) \in Nat
<1>1. Len(labels) \in Nat /\ DOMAIN labels = 1 .. Len(labels)
  OBVIOUS
<1>2. ASSUME NEW i \in 1 .. Len(labels)
      PROVE  /\ EncodeLabel(labels[i]) \in Seq(Nat)
             /\ Len(EncodeLabel(labels[i])) = 1 + Len(labels[i])
             /\ labels[i] \in Seq(Nat) /\ Len(labels[i]) \in Nat
  <2> DEFINE l == labels[i]
  <2>1. l \in Seq(Nat)
    OBVIOUS
  <2> HIDE DEF l
  <2>2. Len(l) \in Nat /\ <<Len(l)>> \o l \in Seq(Nat) /\ Len(<<Len(l)>> \o l) = 1 + Len(l)
    BY <2>1
  <2> QED
    BY <2>1, <2>2 DEF EncodeLabel, l
<1> QED
  BY <1>1, <1>2

LEMMA EncodedType ==
    ASSUME NEW labels \in Seq(Seq(Nat))
    PROVE  /\ EncodeDomainLabels(labels) \in Seq(Nat)
           /\ Len(EncodeDomainLabels(labels)) \in Nat
<1> DEFINE w == FlattenSeq([i \in DOMAIN labels |-> EncodeLabel(labels[i])])
<1>1. w \in Seq(Nat)
  BY EncodeType, FlattenFacts
<1> HIDE DEF w
<1>2. w \o <<0>> \in Seq(Nat) /\ Len(w \o <<0>>) \in Nat
  BY <1>1
<1> QED
  BY <1>2 DEF w, EncodeDomainLabels

\* What holds at last and before each step holds throughout.
LEMMA Backwards ==
    ASSUME NEW n \in Nat, NEW P, n \in P, \A i \in 1 .. n : i \in P => i - 1 \in P
    PROVE  0 \in P
<1> DEFINE Q == {k \in 0 .. n : n - k \in P}
<1>1. 0 \in Q
  <2>1. n - 0 = n /\ 0 \in 0 .. n
    OBVIOUS
  <2> QED
    BY <2>1
<1>2. ASSUME NEW k \in 1 .. n, k - 1 \in Q PROVE k \in Q
  <2>1. n - (k - 1) \in 1 .. n /\ (n - (k - 1)) - 1 = n - k /\ k \in 0 .. n
    OBVIOUS
  <2>2. n - (k - 1) \in P
    BY <1>2
  <2>3. n - k \in P
    BY <2>1, <2>2
  <2> QED
    BY <2>1, <2>3
<1> HIDE DEF Q
<1>3. \A k \in 0 .. n : k \in Q
  BY <1>1, <1>2, StepByStep
<1>4. n \in 0 .. n /\ n - n = 0
  OBVIOUS
<1>5. n \in Q
  BY <1>3, <1>4
<1> QED
  BY <1>4, <1>5 DEF Q

\* What is left of a sequence, step by step.
LEMMA SubSeqSteps ==
    ASSUME NEW T, NEW s \in Seq(T)
    PROVE  /\ SubSeq(s, Len(s) + 1, Len(s)) = <<>>
           /\ SubSeq(s, 1, Len(s)) = s
           /\ \A i \in 1 .. Len(s) : <<s[i]>> \o SubSeq(s, i + 1, Len(s)) = SubSeq(s, i, Len(s))
<1>1. SubSeq(s, Len(s) + 1, Len(s)) = <<>>
  OBVIOUS
<1>2. SubSeq(s, 1, Len(s)) = s
  OBVIOUS
<1>3. ASSUME NEW i \in 1 .. Len(s)
      PROVE  <<s[i]>> \o SubSeq(s, i + 1, Len(s)) = SubSeq(s, i, Len(s))
  <2> DEFINE u == <<s[i]>>
             v == SubSeq(s, i + 1, Len(s))
             w == SubSeq(s, i, Len(s))
             n == Len(s)
  <2>0. n \in Nat /\ i \in 1 .. n
    OBVIOUS
  <2>1. u \in Seq(T) /\ Len(u) = 1 /\ u[1] = s[i]
    OBVIOUS
  <2>2. v \in Seq(T) /\ Len(v) = n - i /\ \A k \in 1 .. n - i : v[k] = s[i + k]
    OBVIOUS
  <2>3. w \in Seq(T) /\ Len(w) = n - i + 1 /\ \A k \in 1 .. n - i + 1 : w[k] = s[i + k - 1]
    OBVIOUS
  <2> HIDE DEF u, v, w, n
  <2>4. u \o v \in Seq(T) /\ Len(u \o v) = n - i + 1 /\ (u \o v)[1] = s[i]
        /\ \A k \in 1 .. n - i : (u \o v)[1 + k] = s[i + k]
    <3>0. u \in Seq(T) /\ v \in Seq(T)
      BY <2>1, <2>2
    <3>1. /\ u \o v \in Seq(T) /\ Len(u \o v) = Len(u) + Len(v)
          /\ \A k \in 1 .. Len(u) : (u \o v)[k] = u[k]
          /\ \A k \in 1 .. Len(v) : (u \o v)[Len(u) + k] = v[k]
      BY <3>0, ConcatFacts
    <3>2. 1 + (n - i) = n - i + 1 /\ 1 \in 1 .. 1
      BY <2>0
    <3> QED
      BY <2>1, <2>2, <3>1, <3>2
  <2>5. ASSUME NEW k \in 1 .. n - i + 1 PROVE (u \o v)[k] = w[k]
    <3>1. CASE k = 1
      BY <2>0, <2>3, <2>4, <3>1
    <3>2. CASE k # 1
      <4>1. k - 1 \in 1 .. n - i /\ 1 + (k - 1) = k /\ i + (k - 1) = i + k - 1
        BY <2>0, <3>2
      <4> QED
        BY <2>3, <2>4, <4>1
    <3> QED
      BY <3>1, <3>2
  <2>6. u \o v = w
    BY <2>3, <2>4, <2>5, SameSeq
  <2> QED
    BY <2>6 DEF u, v, w, n
<1> QED
  BY <1>1, <1>2, <1>3

\* A label written at an offset is read there.
LEMMA LabelRead ==
    ASSUME NEW c \in Seq(Nat), NEW at \in Nat, NEW l \in Seq(Nat), Len(l) \in 1 .. MaxLabel,
           Holds(c, at, EncodeLabel(l))
    PROVE  /\ Reads(c, at) /\ c[at + 1] = Len(l) /\ c[at + 1] # Pointer
           /\ SubSeq(c, at + 2, at + 1 + c[at + 1]) = l
<1> DEFINE n == Len(l)
           w == EncodeLabel(l)
<1>1. /\ n \in Nat /\ n >= 1 /\ n <= MaxLabel /\ MaxLabel \in Nat /\ Pointer \in Nat
      /\ Pointer > MaxLabel /\ Len(c) \in Nat
  BY PacketAssumption
<1>2. Len(w) = 1 + n /\ w[1] = n /\ \A k \in 1 .. n : w[1 + k] = l[k]
  BY DEF EncodeLabel
<1>3. at + Len(w) <= Len(c) /\ \A k \in 1 .. Len(w) : c[at + k] = w[k]
  BY DEF Holds
<1> HIDE DEF n, w
<1>4. at + (1 + n) <= Len(c) /\ c[at + 1] = n
  <2>1. 1 \in 1 .. 1 + n
    BY <1>1
  <2> QED
    BY <1>2, <1>3, <2>1
<1>5. \A k \in 1 .. n : c[at + (1 + k)] = l[k]
  <2> TAKE k \in 1 .. n
  <2>1. 1 + k \in 1 .. 1 + n
    BY <1>1
  <2> QED
    BY <1>2, <1>3, <2>1
<1>6. Reads(c, at)
  BY <1>1, <1>4 DEF Reads
<1> DEFINE s == SubSeq(c, at + 2, at + 1 + n)
<1>7. s \in Seq(Nat) /\ Len(s) = n /\ \A k \in 1 .. n : s[k] = c[(at + 2) + k - 1]
  BY <1>1, <1>4
<1> HIDE DEF s
<1>8. ASSUME NEW k \in 1 .. n PROVE s[k] = l[k]
  <2>1. (at + 2) + k - 1 = at + (1 + k)
    BY <1>1
  <2> QED
    BY <1>5, <1>7, <2>1
<1>9. s = l
  BY <1>7, <1>8, SameSeq DEF n
<1> QED
  BY <1>1, <1>4, <1>6, <1>9 DEF n, s

\* Labels put before those that were read.
LEMMA Relabel ==
    ASSUME NEW t, NEW x, NEW e, NEW s, NEW more, x = [ok |-> t, end |-> e, labels |-> s]
    PROVE  [x EXCEPT !.labels = more] = [ok |-> t, end |-> e, labels |-> more]
  OBVIOUS

\* A name written out at an offset is read back.
LEMMA EncodedParses ==
    ASSUME NEW c \in Seq(Nat), NEW at \in Nat, NEW labels \in Seq(Seq(Nat)), Labelled(labels),
           Holds(c, at, EncodeDomainLabels(labels))
    PROVE  ParseDomainName(c, at) =
              [ok |-> TRUE, end |-> at + Len(EncodeDomainLabels(labels)), labels |-> labels]
<1> DEFINE ss == [i \in DOMAIN labels |-> EncodeLabel(labels[i])]
           n == Len(labels)
           w == FlattenSeq(ss)
           e == at + Len(w)
<1>1. /\ n \in Nat /\ ss \in Seq(Seq(Nat)) /\ Len(ss) = n
      /\ \A i \in 1 .. n : /\ ss[i] = EncodeLabel(labels[i])
                           /\ Len(EncodeLabel(labels[i])) = 1 + Len(labels[i])
                           /\ labels[i] \in Seq(Nat) /\ Len(labels[i]) \in Nat
  <2>1. n \in Nat
    OBVIOUS
  <2> QED
    BY <2>1, EncodeType, Zenon
<1>2. EncodeDomainLabels(labels) = w \o <<0>>
  BY DEF EncodeDomainLabels
<1> HIDE DEF ss
<1>3. w \in Seq(Nat)
  BY <1>1, FlattenFacts
<1> HIDE DEF w
<1>4. <<0>> \in Seq(Nat) /\ Len(<<0>>) = 1 /\ <<0>>[1] = 0
  OBVIOUS
<1>5. Len(w) \in Nat /\ Holds(c, at, w) /\ Holds(c, at + Len(w), <<0>>)
  <2>1. Holds(c, at, w \o <<0>>)
    BY <1>2
  <2> DEFINE z == <<0>>
  <2>2. z \in Seq(Nat) /\ Holds(c, at, w \o z)
    BY <1>4, <2>1
  <2> HIDE DEF z
  <2>3. Len(w) \in Nat /\ Holds(c, at, w) /\ Holds(c, at + Len(w), z)
    BY <1>3, <2>2, HoldsConcat
  <2> QED
    BY <2>3 DEF z
<1>6. e \in Nat /\ Len(w \o <<0>>) = Len(w) + 1 /\ at + (Len(w) + 1) = e + 1
  BY <1>3, <1>5
<1>7. e + 1 <= Len(c) /\ c[e + 1] = 0
  BY <1>4, <1>5 DEF Holds
<1>8. PICK p : Laid(p, c, at, ss, e)
  BY <1>1, <1>5, FlattenHolds DEF w
<1>9. /\ p \in [0 .. n -> Nat] /\ p[0] = at /\ p[n] = e
      /\ \A i \in 1 .. n : p[i] = p[i - 1] + Len(ss[i]) /\ Holds(c, p[i - 1], ss[i])
  BY <1>1, <1>8 DEF Laid
<1>10. PICK f : Parser(f, c) /\ \A j \in Nat : ParseDomainName(c, j) = f[<<j, 0>>]
  BY ParseIs
<1>11. \A j \in Nat : f[<<j, 0>>] = ParseStep(c, j, 0, f[Onward(c, j, 0)])
  <2>1. 0 \in 0 .. DNS_MAX_POINTER_HOPS
    BY PacketAssumption
  <2> QED
    BY <1>10, <2>1, Zenon DEF Parser
<1> HIDE DEF e, n
<1> DEFINE Rest(i) == [ok |-> TRUE, end |-> e + 1, labels |-> SubSeq(labels, i + 1, n)]
           P == {i \in 0 .. n : f[<<p[i], 0>>] = Rest(i)}
<1>12. /\ SubSeq(labels, n + 1, n) = <<>> /\ SubSeq(labels, 0 + 1, n) = labels
       /\ \A i \in 1 .. n : <<labels[i]>> \o SubSeq(labels, i + 1, n) = SubSeq(labels, i, n)
  <2>1. 0 + 1 = 1
    OBVIOUS
  <2> QED
    BY <2>1, SubSeqSteps DEF n
<1>13. n \in P
  <2>1. ~ Follows(c, e, 0) /\ ~ Reads(c, e) /\ e < Len(c)
    <3>1. Pointer # 0 /\ Len(c) \in Nat
      BY PacketAssumption
    <3> QED
      BY <1>6, <1>7, <3>1 DEF Follows, Reads
  <2>2. f[<<e, 0>>] = [ok |-> TRUE, end |-> e + 1, labels |-> <<>>]
    BY <1>6, <1>7, <1>11, <2>1 DEF ParseStep
  <2>3. n \in 0 .. n
    BY <1>1
  <2> QED
    BY <1>9, <1>12, <2>2, <2>3
<1>14. ASSUME NEW i \in 1 .. n, i \in P PROVE i - 1 \in P
  <2> DEFINE a == p[i - 1]
             l == labels[i]
             b == a + 1 + c[a + 1]
  <2>1. i - 1 \in 0 .. n /\ (i - 1) + 1 = i
    BY <1>1
  <2>2. a \in Nat
    BY <1>9, <2>1
  <2>3. /\ l \in Seq(Nat) /\ Len(l) \in 1 .. MaxLabel /\ Holds(c, a, EncodeLabel(l))
        /\ p[i] = a + (1 + Len(l)) /\ Len(l) \in Nat
    BY <1>1, <1>9 DEF Labelled, n
  <2>h. <<l>> \o SubSeq(labels, i + 1, n) = SubSeq(labels, i, n)
    BY <1>12
  <2> HIDE DEF a, l
  <2>4. /\ Reads(c, a) /\ c[a + 1] = Len(l) /\ c[a + 1] # Pointer
        /\ SubSeq(c, a + 2, a + 1 + c[a + 1]) = l
    BY <2>2, <2>3, LabelRead
  <2>5. ~ Follows(c, a, 0)
    BY <2>4 DEF Follows
  <2>6. b = p[i]
    BY <2>2, <2>3, <2>4
  <2> DEFINE rest == f[<<b, 0>>]
  <2>7. f[<<a, 0>>] = [rest EXCEPT !.labels = <<l>> \o rest.labels]
    BY <1>11, <2>2, <2>4, <2>5 DEF ParseStep, Onward
  <2>8. rest = Rest(i)
    BY <1>14, <2>6
  <2> DEFINE more == SubSeq(labels, i, n)
             s == SubSeq(labels, i + 1, n)
  <2>a. rest = [ok |-> TRUE, end |-> e + 1, labels |-> s] /\ <<l>> \o s = more
    BY <2>8, <2>h
  <2> HIDE DEF rest, more, s
  <2>b. <<l>> \o rest.labels = more
    BY <2>a
  <2>c. [rest EXCEPT !.labels = more] = [ok |-> TRUE, end |-> e + 1, labels |-> more]
    <3> DEFINE t == TRUE
    <3>1. rest = [ok |-> t, end |-> e + 1, labels |-> s]
      BY <2>a
    <3> HIDE DEF t
    <3>2. [rest EXCEPT !.labels = more] = [ok |-> t, end |-> e + 1, labels |-> more]
      BY <3>1, Relabel
    <3> QED
      BY <3>2 DEF t
  <2>9. f[<<a, 0>>] = [ok |-> TRUE, end |-> e + 1, labels |-> SubSeq(labels, i, n)]
    BY <2>7, <2>b, <2>c, Zenon DEF more
  <2> QED
    BY <2>1, <2>9 DEF a
<1> HIDE DEF P
<1>15. 0 \in P
  BY <1>1, <1>13, <1>14, Backwards
<1>16. f[<<at, 0>>] = Rest(0)
  BY <1>9, <1>15 DEF P
<1>17. ParseDomainName(c, at) = [ok |-> TRUE, end |-> e + 1, labels |-> labels]
  BY <1>10, <1>12, <1>16
<1> QED
  BY <1>2, <1>6, <1>17

-----------------------------------------------------------------------------
(* The names in a record's data *)

LabelSeqs == {labels \in Seq(Seq(Nat)) : Labelled(labels)}

\* One or two names.
IsNames(names, count) ==
    \/ count = 1 /\ \E a \in LabelSeqs : names = <<a>>
    \/ count = 2 /\ \E a, b \in LabelSeqs : names = <<a, b>>

Written(names) == FlattenSeq([i \in DOMAIN names |-> EncodeDomainLabels(names[i])])

\* The data d of a record of type t: names written out, and what is around them.
Shape(t, d, pre, names, tail) ==
    /\ pre \in Seq(Nat) /\ Len(pre) = Layout(t).prefix
    /\ tail \in Seq(Nat) /\ Len(tail) = Layout(t).tail
    /\ IsNames(names, Layout(t).names)
    /\ d = pre \o Written(names) \o tail

\* The numbers of a layout.
LEMMA LayoutType ==
    ASSUME NEW t
    PROVE  /\ Layout(t).prefix \in Nat /\ Layout(t).tail \in Nat
           /\ Layout(t).names \in {0, 1, 2}
  BY DEF Layout

\* The cells at a place are those that stand there.
LEMMA HeldSubSeq ==
    ASSUME NEW c \in Seq(Nat), NEW at \in Nat, NEW w \in Seq(Nat), Holds(c, at, w)
    PROVE  SubSeq(c, at + 1, at + Len(w)) = w
<1> DEFINE n == Len(w)
           s == SubSeq(c, at + 1, at + n)
<1>1. n \in Nat /\ Len(c) \in Nat
  OBVIOUS
<1>2. at + n <= Len(c) /\ \A k \in 1 .. n : c[at + k] = w[k]
  BY DEF Holds
<1> HIDE DEF n
<1>3. s \in Seq(Nat) /\ Len(s) = n /\ \A k \in 1 .. n : s[k] = c[(at + 1) + k - 1]
  BY <1>1, <1>2
<1> HIDE DEF s
<1>4. ASSUME NEW k \in 1 .. n PROVE s[k] = w[k]
  <2>1. (at + 1) + k - 1 = at + k
    BY <1>1
  <2> QED
    BY <1>2, <1>3, <2>1
<1>5. s = w
  BY <1>3, <1>4, SameSeq DEF n
<1> QED
  BY <1>5 DEF s, n

\* One name written out, and two.
LEMMA WrittenOne ==
    ASSUME NEW a \in Seq(Seq(Nat))
    PROVE  Written(<<a>>) = EncodeDomainLabels(a)
<1> DEFINE u == EncodeDomainLabels(a)
<1>1. u \in Seq(Nat)
  BY EncodedType
<1>2. [i \in DOMAIN <<a>> |-> EncodeDomainLabels(<<a>>[i])] = <<u>>
  OBVIOUS
<1> HIDE DEF u
<1>3. FlattenSeq(<<u>>) = u
  BY <1>1, FlattenOne
<1> QED
  BY <1>2, <1>3 DEF Written, u

LEMMA WrittenTwo ==
    ASSUME NEW a \in Seq(Seq(Nat)), NEW b \in Seq(Seq(Nat))
    PROVE  Written(<<a, b>>) = EncodeDomainLabels(a) \o EncodeDomainLabels(b)
<1> DEFINE u == EncodeDomainLabels(a)
           v == EncodeDomainLabels(b)
<1>1. u \in Seq(Nat) /\ v \in Seq(Nat)
  BY EncodedType
<1>2. [i \in DOMAIN <<a, b>> |-> EncodeDomainLabels(<<a, b>>[i])] = <<u, v>>
  OBVIOUS
<1> HIDE DEF u, v
<1>3. FlattenSeq(<<u, v>>) = u \o v
  BY <1>1, FlattenTwo
<1> QED
  BY <1>2, <1>3 DEF Written, u, v

LEMMA WrittenType ==
    ASSUME NEW names, NEW count, IsNames(names, count)
    PROVE  Written(names) \in Seq(Nat)
<1>1. CASE count = 1 /\ \E a \in LabelSeqs : names = <<a>>
  <2>1. PICK a \in LabelSeqs : names = <<a>>
    BY <1>1
  <2>2. a \in Seq(Seq(Nat))
    BY DEF LabelSeqs
  <2>3. Written(names) = EncodeDomainLabels(a)
    BY <2>1, <2>2, WrittenOne
  <2> QED
    BY <2>2, <2>3, EncodedType
<1>2. CASE count = 2 /\ \E a, b \in LabelSeqs : names = <<a, b>>
  <2>1. PICK a \in LabelSeqs, b \in LabelSeqs : names = <<a, b>>
    BY <1>2
  <2>2. a \in Seq(Seq(Nat)) /\ b \in Seq(Seq(Nat))
    BY DEF LabelSeqs
  <2>3. Written(names) = EncodeDomainLabels(a) \o EncodeDomainLabels(b)
    BY <2>1, <2>2, WrittenTwo
  <2>4. EncodeDomainLabels(a) \in Seq(Nat) /\ EncodeDomainLabels(b) \in Seq(Nat)
    BY <2>2, EncodedType
  <2> QED
    BY <2>3, <2>4
<1> QED
  BY <1>1, <1>2 DEF IsNames

\* What is read as names are names.
LEMMA NamesParsed ==
    ASSUME NEW c \in Seq(Nat), NEW from \in Nat, NEW count \in {1, 2},
           ParseNames(c, from, count).ok
    PROVE  /\ IsNames(ParseNames(c, from, count).names, count)
           /\ ParseNames(c, from, count).end \in Nat
           /\ from < ParseNames(c, from, count).end
           /\ ParseNames(c, from, count).end <= Len(c)
<1> DEFINE p == ParseNames(c, from, count)
           first == ParseDomainName(c, from)
           second == ParseDomainName(c, first.end)
<1>1. /\ first \in Parses
      /\ first.ok => /\ from < first.end /\ first.end <= Len(c) /\ Labelled(first.labels)
  BY ParsedName
<1>2. first.end \in Nat /\ first.labels \in Seq(Seq(Nat)) /\ first.ok \in BOOLEAN
  BY <1>1 DEF Parses
<1>3. /\ second \in Parses
      /\ second.ok => /\ first.end < second.end /\ second.end <= Len(c)
                      /\ Labelled(second.labels)
  BY <1>2, ParsedName
<1>4. second.end \in Nat /\ second.labels \in Seq(Seq(Nat)) /\ second.ok \in BOOLEAN
  BY <1>3 DEF Parses
<1>5. p = IF count < 2 \/ ~ first.ok
            THEN [ok |-> first.ok, end |-> first.end, names |-> <<first.labels>>]
            ELSE [ok |-> second.ok, end |-> second.end,
                  names |-> <<first.labels, second.labels>>]
  BY DEF ParseNames, NamesFrom
<1>6. p.ok
  OBVIOUS
<1> HIDE DEF p, first, second
<1>7. CASE count < 2 \/ ~ first.ok
  <2>1. p.ok = first.ok /\ p.end = first.end /\ p.names = <<first.labels>>
    BY <1>5, <1>7
  <2>2. count = 1 /\ first.ok
    BY <1>6, <1>7, <2>1
  <2>3. first.labels \in LabelSeqs
    BY <1>1, <1>2, <2>2 DEF LabelSeqs
  <2>4. IsNames(p.names, count)
    BY <2>1, <2>2, <2>3 DEF IsNames
  <2> QED
    BY <1>1, <1>2, <2>1, <2>2, <2>4 DEF p
<1>8. CASE ~ (count < 2 \/ ~ first.ok)
  <2>1. p.ok = second.ok /\ p.end = second.end /\ p.names = <<first.labels, second.labels>>
    BY <1>5, <1>8
  <2>2. count = 2 /\ first.ok /\ second.ok
    BY <1>6, <1>8, <2>1
  <2>3. first.labels \in LabelSeqs /\ second.labels \in LabelSeqs
    BY <1>1, <1>2, <1>3, <1>4, <2>2 DEF LabelSeqs
  <2>4. IsNames(p.names, count)
    BY <2>1, <2>2, <2>3 DEF IsNames
  <2>5. from < second.end
    BY <1>1, <1>2, <1>3, <1>4, <2>2
  <2> QED
    BY <1>3, <1>4, <2>1, <2>2, <2>4, <2>5 DEF p
<1> QED
  BY <1>7, <1>8

\* Names written out are read back.
LEMMA WrittenParses ==
    ASSUME NEW c \in Seq(Nat), NEW at \in Nat, NEW names, NEW count, IsNames(names, count),
           Holds(c, at, Written(names))
    PROVE  /\ ParseNames(c, at, count).ok
           /\ ParseNames(c, at, count).end = at + Len(Written(names))
           /\ ParseNames(c, at, count).names = names
<1> DEFINE p == ParseNames(c, at, count)
           first == ParseDomainName(c, at)
           second == ParseDomainName(c, first.end)
<1>0. p = IF count < 2 \/ ~ first.ok
            THEN [ok |-> first.ok, end |-> first.end, names |-> <<first.labels>>]
            ELSE [ok |-> second.ok, end |-> second.end,
                  names |-> <<first.labels, second.labels>>]
  BY DEF ParseNames, NamesFrom
<1>1. CASE count = 1 /\ \E a \in LabelSeqs : names = <<a>>
  <2>1. PICK a \in LabelSeqs : names = <<a>>
    BY <1>1
  <2>2. a \in Seq(Seq(Nat)) /\ Labelled(a)
    BY DEF LabelSeqs
  <2>3. Written(names) = EncodeDomainLabels(a)
    BY <2>1, <2>2, WrittenOne
  <2>4. first = [ok |-> TRUE, end |-> at + Len(EncodeDomainLabels(a)), labels |-> a]
    BY <2>2, <2>3, EncodedParses
  <2> HIDE DEF first, second, p
  <2>5. first.ok /\ first.end = at + Len(Written(names)) /\ first.labels = a
    BY <2>3, <2>4
  <2>6. p = [ok |-> first.ok, end |-> first.end, names |-> <<first.labels>>]
    BY <1>0, <1>1
  <2>7. p.ok = first.ok /\ p.end = first.end /\ p.names = <<first.labels>>
    BY <2>6
  <2> QED
    BY <2>1, <2>5, <2>7 DEF p
<1>2. CASE count = 2 /\ \E a, b \in LabelSeqs : names = <<a, b>>
  <2>1. PICK a \in LabelSeqs, b \in LabelSeqs : names = <<a, b>>
    BY <1>2
  <2>2. a \in Seq(Seq(Nat)) /\ b \in Seq(Seq(Nat)) /\ Labelled(a) /\ Labelled(b)
    BY DEF LabelSeqs
  <2> DEFINE u == EncodeDomainLabels(a)
             v == EncodeDomainLabels(b)
  <2>3. Written(names) = u \o v
    BY <2>1, <2>2, WrittenTwo
  <2>4. u \in Seq(Nat) /\ v \in Seq(Nat)
    BY <2>2, EncodedType
  <2> HIDE DEF u, v
  <2>5. Len(u) \in Nat /\ Len(v) \in Nat /\ Holds(c, at, u) /\ Holds(c, at + Len(u), v)
    BY <2>3, <2>4, HoldsConcat
  <2>6. first = [ok |-> TRUE, end |-> at + Len(u), labels |-> a]
    BY <2>2, <2>5, EncodedParses DEF u
  <2> DEFINE e == at + Len(u)
  <2>7. first.ok /\ first.end = e /\ first.labels = a /\ e \in Nat
    BY <2>5, <2>6
  <2>8. ParseDomainName(c, e) = [ok |-> TRUE, end |-> e + Len(v), labels |-> b]
    BY <2>2, <2>5, <2>7, EncodedParses DEF v
  <2>9. second.ok /\ second.end = e + Len(v) /\ second.labels = b
    BY <2>7, <2>8
  <2> HIDE DEF first, second, p
  <2>10. p = [ok |-> second.ok, end |-> second.end, names |-> <<first.labels, second.labels>>]
    BY <1>0, <1>2, <2>7
  <2>11. p.ok = second.ok /\ p.end = second.end /\ p.names = <<first.labels, second.labels>>
    BY <2>10
  <2>12. Len(u \o v) = Len(u) + Len(v)
    BY <2>4
  <2>13. e + Len(v) = at + Len(Written(names))
    BY <2>3, <2>5, <2>12
  <2> QED
    BY <2>1, <2>7, <2>9, <2>11, <2>13 DEF p
<1> QED
  BY <1>1, <1>2 DEF IsNames

\* A part of a sequence is one, and as long as it is cut.
LEMMA SubSeqType ==
    ASSUME NEW T, NEW c \in Seq(T), NEW a \in Nat, NEW k \in Nat, a + k <= Len(c)
    PROVE  SubSeq(c, a + 1, a + k) \in Seq(T) /\ Len(SubSeq(c, a + 1, a + k)) = k
  OBVIOUS

\* What DecompressRDATA writes out has that shape.
LEMMA DecompressShape ==
    ASSUME NEW c \in Seq(Nat), NEW start \in Nat, NEW t, NEW raw, Layout(t).names > 0,
           ParseNames(c, start + Layout(t).prefix, Layout(t).names).ok,
           ParseNames(c, start + Layout(t).prefix, Layout(t).names).end + Layout(t).tail
              <= Len(c)
    PROVE  \E pre, tail :
              Shape(t, DecompressRDATA(c, start, t, raw), pre,
                    ParseNames(c, start + Layout(t).prefix, Layout(t).names).names, tail)
<1> DEFINE l == Layout(t)
           from == start + l.prefix
           p == ParseNames(c, from, l.names)
           pre == SubSeq(c, start + 1, from)
           tail == SubSeq(c, p.end + 1, p.end + l.tail)
<1>1. l.prefix \in Nat /\ l.tail \in Nat /\ l.names \in {1, 2} /\ from \in Nat
  <2>1. l.prefix \in Nat /\ l.tail \in Nat /\ l.names \in {0, 1, 2}
    BY LayoutType
  <2> QED
    BY <2>1
<1>2. DecompressRDATA(c, start, t, raw) = WrittenOut(c, start, l, p)
  <2>1. l.names # 0 /\ p.ok /\ ~ (p.end + l.tail > Len(c))
    <3>1. l.names # 0 /\ p.ok
      BY <1>1
    <3>2. p.end \in Nat
      BY <1>1, <3>1, NamesParsed
    <3>3. p.end + l.tail <= Len(c) /\ Len(c) \in Nat
      OBVIOUS
    <3> HIDE DEF p, l
    <3> QED
      BY <1>1, <3>1, <3>2, <3>3
  <2> QED
    BY <2>1, Zenon DEF DecompressRDATA
<1>3. WrittenOut(c, start, l, p) = pre \o Written(p.names) \o tail
  BY Zenon DEF WrittenOut, Written
<1>4. p.ok /\ p.end + l.tail <= Len(c)
  OBVIOUS
<1> HIDE DEF l
<1>5. IsNames(p.names, l.names) /\ p.end \in Nat /\ from < p.end /\ p.end <= Len(c)
  BY <1>1, <1>4, NamesParsed
<1> HIDE DEF p
<1>6. pre \in Seq(Nat) /\ Len(pre) = l.prefix
  <2>1. start + l.prefix <= Len(c)
    BY <1>1, <1>5
  <2> DEFINE k == l.prefix
  <2>2. k \in Nat /\ start + k <= Len(c) /\ from = start + k
    BY <1>1, <2>1
  <2> HIDE DEF k
  <2>3. SubSeq(c, start + 1, start + k) \in Seq(Nat) /\ Len(SubSeq(c, start + 1, start + k)) = k
    BY <2>2, SubSeqType
  <2> QED
    BY <2>3 DEF k
<1>7. tail \in Seq(Nat) /\ Len(tail) = l.tail
  <2> DEFINE e == p.end
             k == l.tail
  <2>1. e \in Nat /\ k \in Nat /\ e + k <= Len(c)
    BY <1>1, <1>4, <1>5
  <2> HIDE DEF e, k
  <2>2. SubSeq(c, e + 1, e + k) \in Seq(Nat) /\ Len(SubSeq(c, e + 1, e + k)) = k
    BY <2>1, SubSeqType
  <2> QED
    BY <2>2 DEF e, k
<1> HIDE DEF pre, tail
<1>8. Shape(t, DecompressRDATA(c, start, t, raw), pre, p.names, tail)
  BY <1>2, <1>3, <1>5, <1>6, <1>7 DEF Shape, l
<1> QED
  BY <1>8 DEF p, l

\* Data of that shape is read back from wherever it is put.
LEMMA ShapeDecompress ==
    ASSUME NEW c \in Seq(Nat), NEW start \in Nat, NEW t, NEW raw, NEW d, NEW pre, NEW names,
           NEW tail, Shape(t, d, pre, names, tail), Holds(c, start, d)
    PROVE  /\ Layout(t).names > 0
           /\ ParseNames(c, start + Layout(t).prefix, Layout(t).names).ok
           /\ ParseNames(c, start + Layout(t).prefix, Layout(t).names).names = names
           /\ DecompressRDATA(c, start, t, raw) = d
<1> DEFINE l == Layout(t)
           from == start + l.prefix
           p == ParseNames(c, from, l.names)
           w == Written(names)
<1>1. l.prefix \in Nat /\ l.tail \in Nat /\ from \in Nat /\ Len(c) \in Nat
  <2>1. l.prefix \in Nat /\ l.tail \in Nat
    BY LayoutType
  <2> QED
    BY <2>1
<1>2. /\ pre \in Seq(Nat) /\ Len(pre) = l.prefix /\ tail \in Seq(Nat) /\ Len(tail) = l.tail
      /\ IsNames(names, l.names) /\ d = pre \o w \o tail
  BY DEF Shape
<1>3. l.names \in {1, 2}
  BY <1>2 DEF IsNames
<1>4. w \in Seq(Nat)
  BY <1>2, WrittenType
<1>5. DecompressRDATA(c, start, t, raw)
         = IF l.names = 0 \/ ~ p.ok \/ p.end + l.tail > Len(c) THEN raw
           ELSE WrittenOut(c, start, l, p)
  BY Zenon DEF DecompressRDATA
<1>6. WrittenOut(c, start, l, p)
         = SubSeq(c, start + 1, start + l.prefix) \o Written(p.names)
           \o SubSeq(c, p.end + 1, p.end + l.tail)
  BY Zenon DEF WrittenOut, Written
<1> HIDE DEF l, w
<1>7. /\ Holds(c, start, pre) /\ Holds(c, from, w)
      /\ Len(w) \in Nat /\ Holds(c, from + Len(w), tail)
  <2> DEFINE u == pre \o w
  <2>1. u \in Seq(Nat) /\ Len(u) = l.prefix + Len(w) /\ Len(w) \in Nat
    <3>1. u \in Seq(Nat) /\ Len(u) = Len(pre) + Len(w) /\ Len(w) \in Nat
      BY <1>2, <1>4, ConcatFacts
    <3> QED
      BY <1>2, <3>1, Zenon
  <2>2. d = u \o tail
    BY <1>2
  <2>3. Holds(c, start, u \o tail)
    BY <2>2
  <2> HIDE DEF u
  <2>4. Holds(c, start, u) /\ Holds(c, start + Len(u), tail)
    BY <1>2, <2>1, <2>3, HoldsConcat
  <2>5. Holds(c, start, pre) /\ Holds(c, start + Len(pre), w)
    BY <1>2, <1>4, <2>4, HoldsConcat DEF u
  <2>6. start + Len(u) = from + Len(w)
    BY <1>1, <2>1
  <2> QED
    BY <1>2, <2>1, <2>4, <2>5, <2>6
<1>8. p.ok /\ p.end = from + Len(w) /\ p.names = names
  BY <1>1, <1>2, <1>7, WrittenParses DEF w
<1> HIDE DEF p
<1>9. p.end \in Nat /\ p.end + l.tail <= Len(c)
  BY <1>1, <1>2, <1>7, <1>8 DEF Holds
<1>10. DecompressRDATA(c, start, t, raw) = WrittenOut(c, start, l, p)
  BY <1>1, <1>3, <1>5, <1>8, <1>9
<1>11. SubSeq(c, start + 1, start + l.prefix) = pre
  BY <1>1, <1>2, <1>7, HeldSubSeq
<1>12. SubSeq(c, p.end + 1, p.end + l.tail) = tail
  BY <1>1, <1>2, <1>7, <1>8, <1>9, HeldSubSeq
<1>13. DecompressRDATA(c, start, t, raw) = d
  BY <1>2, <1>6, <1>8, <1>10, <1>11, <1>12, Zenon DEF w
<1>14. l.names > 0
  BY <1>3
<1> QED
  BY <1>8, <1>13, <1>14 DEF l, p

\* Data that is self-contained has that shape, and the other way round.
LEMMA SelfContainedShape ==
    ASSUME NEW r, r.rdata \in Seq(Nat), SelfContained(r), Layout(r.type).names > 0
    PROVE  \E pre, names, tail : Shape(r.type, r.rdata, pre, names, tail)
<1> DEFINE d == r.rdata
           t == r.type
           l == Layout(t)
           from == 0 + l.prefix
           p == ParseNames(d, from, l.names)
<1>1. l.prefix \in Nat /\ l.tail \in Nat /\ l.names \in {1, 2} /\ from = l.prefix
      /\ from \in Nat
  <2>1. l.prefix \in Nat /\ l.tail \in Nat /\ l.names \in {0, 1, 2}
    BY LayoutType
  <2> QED
    BY <2>1
<1>2. p.ok /\ DecompressRDATA(d, 0, t, <<>>) = d
  <2>1. ParseNames(d, l.prefix, l.names).ok /\ DecompressRDATA(d, 0, t, <<>>) = d
    BY DEF SelfContained
  <2> QED
    BY <1>1, <2>1, Zenon
<1>3. d \in Seq(Nat) /\ Len(d) \in Nat /\ 0 \in Nat /\ l.names > 0
  OBVIOUS
<1>a. DecompressRDATA(d, 0, t, <<>>)
         = IF l.names = 0 \/ ~ p.ok \/ p.end + l.tail > Len(d) THEN <<>>
           ELSE WrittenOut(d, 0, l, p)
  BY Zenon DEF DecompressRDATA
<1> HIDE DEF d, t, l
<1>4. p.end \in Nat /\ from < p.end /\ p.end <= Len(d)
  BY <1>1, <1>2, <1>3, NamesParsed
<1>5. p.end + l.tail <= Len(d)
  <2> SUFFICES ASSUME ~ (p.end + l.tail <= Len(d)) PROVE FALSE
    OBVIOUS
  <2> HIDE DEF p
  <2>1. p.end + l.tail > Len(d)
    BY <1>1, <1>3, <1>4
  <2>2. d = <<>>
    BY <1>2, <1>a, <2>1
  <2>3. Len(d) = 0
    BY <2>2
  <2> QED
    BY <1>1, <1>4, <2>3
<1>6. \E pre, tail : Shape(t, DecompressRDATA(d, 0, t, <<>>), pre, p.names, tail)
  BY <1>2, <1>3, <1>5, DecompressShape, Zenon DEF l
<1> QED
  BY <1>2, <1>6 DEF d, t

\* Data of that shape is self-contained.
LEMMA ShapeSelfContained ==
    ASSUME NEW r, NEW pre, NEW names, NEW tail, r.rdata \in Seq(Nat),
           Shape(r.type, r.rdata, pre, names, tail)
    PROVE  /\ SelfContained(r)
           /\ ParseNames(r.rdata, Layout(r.type).prefix, Layout(r.type).names).names = names
<1> DEFINE d == r.rdata
           t == r.type
           l == Layout(t)
<1>1. l.prefix \in Nat /\ 0 + l.prefix = l.prefix
  <2>1. l.prefix \in Nat
    BY LayoutType
  <2> QED
    BY <2>1
<1>2. Holds(d, 0, d) /\ d \in Seq(Nat) /\ 0 \in Nat /\ Shape(t, d, pre, names, tail)
  BY HoldsAll
<1> HIDE DEF d, t
<1>3. /\ ParseNames(d, 0 + l.prefix, l.names).ok
      /\ ParseNames(d, 0 + l.prefix, l.names).names = names
      /\ DecompressRDATA(d, 0, t, <<>>) = d
  BY <1>2, ShapeDecompress
<1>4. /\ ParseNames(d, l.prefix, l.names).ok
      /\ ParseNames(d, l.prefix, l.names).names = names
      /\ DecompressRDATA(d, 0, t, <<>>) = d
  BY <1>1, <1>3, Zenon
<1> QED
  BY <1>4, Zenon DEF SelfContained, d, t

-----------------------------------------------------------------------------
(* Questions and records *)

QuestionSet == [name : Seq(Seq(Nat)), tail : Nat]
AnswerSet == {Answer(labels, t, k, d) : labels \in Seq(Seq(Nat)), t \in Nat, k \in Nat,
                                        d \in Seq(Nat)}
ItemSet == QuestionSet \cup AnswerSet \cup {0}
Items == [ok : BOOLEAN, end : Nat, item : ItemSet]

\* What a record is made of, and its type.
LEMMA AnswerFields ==
    ASSUME NEW r \in AnswerSet
    PROVE  /\ r = Answer(r.name, r.type, r.ttl, r.rdata)
           /\ r.name \in Seq(Seq(Nat)) /\ r.type \in Nat /\ r.ttl \in Nat
           /\ r.rdata \in Seq(Nat) /\ r.rdlength = Len(r.rdata) % 2 ^ RdlengthWidth
<1>1. PICK l \in Seq(Seq(Nat)), t \in Nat, k \in Nat, d \in Seq(Nat) : r = Answer(l, t, k, d)
  BY DEF AnswerSet
<1>2. r.name = l /\ r.type = t /\ r.ttl = k /\ r.rdata = d
      /\ r.rdlength = Len(d) % 2 ^ RdlengthWidth
  BY <1>1 DEF Answer
<1> QED
  BY <1>1, <1>2

LEMMA AnswerType ==
    ASSUME NEW l \in Seq(Seq(Nat)), NEW t \in Nat, NEW k \in Nat, NEW d \in Seq(Nat)
    PROVE  /\ Answer(l, t, k, d) \in AnswerSet
           /\ Answer(l, t, k, d).name = l /\ Answer(l, t, k, d).type = t
           /\ Answer(l, t, k, d).ttl = k /\ Answer(l, t, k, d).rdata = d
<1>1. Answer(l, t, k, d) \in AnswerSet
  BY DEF AnswerSet
<1> QED
  BY <1>1 DEF Answer

\* Decompressed data is data.
LEMMA DecompressType ==
    ASSUME NEW c \in Seq(Nat), NEW start \in Nat, NEW t, NEW raw \in Seq(Nat)
    PROVE  DecompressRDATA(c, start, t, raw) \in Seq(Nat)
<1> DEFINE l == Layout(t)
           p == ParseNames(c, start + l.prefix, l.names)
<1>1. DecompressRDATA(c, start, t, raw)
         = IF l.names = 0 \/ ~ p.ok \/ p.end + l.tail > Len(c) THEN raw
           ELSE WrittenOut(c, start, l, p)
  BY Zenon DEF DecompressRDATA
<1>2. l.prefix \in Nat /\ l.tail \in Nat /\ l.names \in {0, 1, 2}
  BY LayoutType
<1>3. CASE l.names = 0 \/ ~ p.ok \/ p.end + l.tail > Len(c)
  BY <1>1, <1>3
<1>4. CASE ~ (l.names = 0 \/ ~ p.ok \/ p.end + l.tail > Len(c))
  <2>1. l.names \in {1, 2} /\ l.names > 0 /\ p.ok
    BY <1>2, <1>4
  <2>2. start + l.prefix \in Nat
    BY <1>2
  <2>3. p.end \in Nat
    BY <2>1, <2>2, NamesParsed
  <2>4. p.end + l.tail <= Len(c)
    <3>1. Len(c) \in Nat /\ ~ (p.end + l.tail > Len(c))
      BY <1>4
    <3> HIDE DEF p, l
    <3> QED
      BY <1>2, <2>3, <3>1
  <2>5. PICK pre, tail : Shape(t, DecompressRDATA(c, start, t, raw), pre, p.names, tail)
    BY <2>1, <2>4, DecompressShape
  <2> DEFINE w == Written(p.names)
             d == DecompressRDATA(c, start, t, raw)
  <2>6. pre \in Seq(Nat) /\ tail \in Seq(Nat) /\ IsNames(p.names, l.names)
        /\ d = pre \o w \o tail
    BY <2>5 DEF Shape
  <2>7. w \in Seq(Nat)
    BY <2>6, WrittenType
  <2> HIDE DEF w, d
  <2>8. pre \o w \o tail \in Seq(Nat)
    BY <2>6, <2>7
  <2> QED
    BY <2>6, <2>8 DEF d
<1> QED
  BY <1>3, <1>4

\* What a question that is parsed has, and where it ends.
LEMMA QuestionParsed ==
    ASSUME NEW c \in Seq(Nat), NEW from \in Nat
    PROVE  /\ QuestionFromWire(c, from) \in Items
           /\ QuestionFromWire(c, from).ok =>
                 /\ ParseDomainName(c, from).ok
                 /\ QuestionFromWire(c, from).end = ParseDomainName(c, from).end + QuestionTail
                 /\ QuestionFromWire(c, from).item \in QuestionSet
                 /\ Labelled(QuestionFromWire(c, from).item.name)
<1> DEFINE n == ParseDomainName(c, from)
           q == QuestionFromWire(c, from)
           i == [name |-> n.labels, tail |-> c[n.end + 1]]
<1>1. q = IF ~ n.ok \/ n.end + QuestionTail > Len(c) THEN NoItem
          ELSE [ok |-> TRUE, end |-> n.end + QuestionTail, item |-> i]
  BY DEF QuestionFromWire
<1>a. n \in Parses /\ (n.ok => Labelled(n.labels))
  BY ParsedName
<1>2. n.end \in Nat /\ n.labels \in Seq(Seq(Nat)) /\ Len(c) \in Nat
  BY <1>a DEF Parses
<1> HIDE DEF n, q
<1>3. CASE ~ n.ok \/ n.end + QuestionTail > Len(c)
  <2>1. q = NoItem
    BY <1>1, <1>3
  <2>2. q \in Items /\ q.ok = FALSE
    BY <2>1 DEF NoItem, Items, ItemSet
  <2> QED
    BY <2>2 DEF q
<1>4. CASE ~ (~ n.ok \/ n.end + QuestionTail > Len(c))
  <2>1. q = [ok |-> TRUE, end |-> n.end + QuestionTail, item |-> i] /\ n.ok
    BY <1>1, <1>4
  <2>2. n.end + 1 \in 1 .. Len(c)
    BY <1>2, <1>4 DEF QuestionTail
  <2>3. i \in QuestionSet /\ i.name = n.labels
    BY <1>2, <2>2 DEF QuestionSet
  <2> HIDE DEF i
  <2>4. i \in ItemSet /\ n.end + QuestionTail \in Nat
    BY <1>2, <2>3 DEF ItemSet, QuestionTail
  <2>5. q \in Items /\ q.end = n.end + QuestionTail /\ q.item = i
    BY <2>1, <2>4 DEF Items
  <2> QED
    BY <1>a, <2>1, <2>3, <2>5 DEF q, n
<1> QED
  BY <1>3, <1>4

\* The fields before a record's data are in the message.
LEMMA Within ==
    ASSUME NEW e \in Nat, NEW m \in Nat, ~ (e + 3 > m)
    PROVE  /\ e + 1 \in 1 .. m /\ e + 2 \in 1 .. m /\ e + 3 \in 1 .. m
           /\ e + 3 <= m /\ e + 3 \in Nat
           /\ \A k \in Nat : ~ (e + 3 + k > m) => e + 3 + k \in Nat /\ e + 3 + k <= m
  OBVIOUS

\* What the record parsed at a place has, e being the end of its name, and where it ends.
RecordAt(c, from, e) ==
    /\ ParseDomainName(c, from).ok
    /\ e \in Nat /\ e + 3 <= Len(c)
    /\ AnswerFromWire(c, from).end = e + 3 + c[e + 3]
    /\ AnswerFromWire(c, from).item \in AnswerSet
    /\ Labelled(AnswerFromWire(c, from).item.name)
    /\ AnswerFromWire(c, from).item.type = c[e + 1]
    /\ AnswerFromWire(c, from).item.ttl = c[e + 2]
    /\ \E raw \in Seq(Nat) :
          AnswerFromWire(c, from).item.rdata = DecompressRDATA(c, e + 3, c[e + 1], raw)

\* A record that is parsed has that.
LEMMA AnswerParsed ==
    ASSUME NEW c \in Seq(Nat), NEW from \in Nat, NEW e \in Nat,
           e = ParseDomainName(c, from).end
    PROVE  /\ AnswerFromWire(c, from) \in Items
           /\ AnswerFromWire(c, from).ok => RecordAt(c, from, e)
<1> DEFINE n == ParseDomainName(c, from)
           r == AnswerFromWire(c, from)
           t == c[e + 1]
           end == e + 3 + c[e + 3]
           raw == SubSeq(c, e + 3 + 1, end)
           d == DecompressRDATA(c, e + 3, t, raw)
           i == Answer(n.labels, t, c[e + 2], d)
<1>1. r = IF ~ n.ok \/ e + 3 > Len(c) \/ end > Len(c) THEN NoItem
          ELSE [ok |-> TRUE, end |-> end, item |-> i]
  BY Zenon DEF AnswerFromWire, RecordBehind, RecordTail
<1>a. n \in Parses /\ (n.ok => Labelled(n.labels))
  BY ParsedName
<1>2. e = n.end /\ e \in Nat /\ n.labels \in Seq(Seq(Nat)) /\ Len(c) \in Nat
  BY <1>a DEF Parses
<1>b. e \in Nat /\ Len(c) \in Nat
  BY <1>2
<1> HIDE DEF n, r, i
<1>3. CASE ~ n.ok \/ e + 3 > Len(c) \/ end > Len(c)
  <2>1. r = NoItem
    BY <1>1, <1>3
  <2>2. r \in Items /\ r.ok = FALSE
    BY <2>1 DEF NoItem, Items, ItemSet
  <2> QED
    BY <2>2 DEF r
<1>4. CASE ~ (~ n.ok \/ e + 3 > Len(c) \/ end > Len(c))
  <2>1. r = [ok |-> TRUE, end |-> end, item |-> i] /\ n.ok
    BY <1>1, <1>4
  <2>a. ~ (e + 3 > Len(c)) /\ ~ (end > Len(c))
    BY <1>4, Zenon
  <2>2. e + 1 \in 1 .. Len(c) /\ e + 2 \in 1 .. Len(c) /\ e + 3 \in 1 .. Len(c)
        /\ e + 3 <= Len(c)
    <3>1. ~ (e + 3 > Len(c))
      BY <2>a
    <3> QED
      BY <1>b, <3>1, Within, Zenon
  <2>3. c[e + 1] \in Nat /\ c[e + 2] \in Nat /\ c[e + 3] \in Nat
    BY <2>2, EmptyFacts
  <2>4. end \in Nat /\ end <= Len(c) /\ e + 3 \in Nat
    <3> DEFINE k == c[e + 3]
    <3>1. ~ (e + 3 + k > Len(c)) /\ k \in Nat
      BY <2>a, <2>3
    <3> HIDE DEF k
    <3>a. ~ (e + 3 > Len(c))
      BY <2>a
    <3>2. e + 3 + k \in Nat /\ e + 3 + k <= Len(c) /\ e + 3 \in Nat
      BY <1>b, <3>1, <3>a, Within, Zenon
    <3> QED
      BY <3>2 DEF k
  <2>5. raw \in Seq(Nat)
    <3> DEFINE a == e + 3
               k == c[e + 3]
    <3>1. a \in Nat /\ k \in Nat /\ a + k <= Len(c)
      BY <2>3, <2>4
    <3>2. raw = SubSeq(c, a + 1, a + k)
      OBVIOUS
    <3> HIDE DEF a, k, raw
    <3> QED
      BY <3>1, <3>2, SubSeqType
  <2> HIDE DEF raw
  <2>6. d \in Seq(Nat)
    BY <2>4, <2>5, DecompressType
  <2> HIDE DEF d
  <2>7. i \in AnswerSet /\ i.name = n.labels /\ i.type = t /\ i.ttl = c[e + 2] /\ i.rdata = d
    <3> DEFINE l == n.labels
               k == c[e + 2]
    <3>1. l \in Seq(Seq(Nat)) /\ t \in Nat /\ k \in Nat /\ d \in Seq(Nat)
      BY <1>2, <2>3, <2>6
    <3>2. i = Answer(l, t, k, d)
      BY DEF i
    <3> HIDE DEF l, t, k
    <3>3. i \in AnswerSet /\ i.name = l /\ i.type = t /\ i.ttl = k /\ i.rdata = d
      <4>1. i \in AnswerSet
        BY <3>1, <3>2 DEF AnswerSet
      <4>2. i.name = l /\ i.type = t /\ i.ttl = k /\ i.rdata = d
        BY <3>2 DEF Answer
      <4> QED
        BY <4>1, <4>2
    <3> QED
      BY <3>3 DEF l, k
  <2>8. i \in ItemSet
    BY <2>7 DEF ItemSet
  <2> HIDE DEF end
  <2>9. r \in Items /\ r.end = end /\ r.item = i
    BY <2>1, <2>4, <2>8 DEF Items
  <2> QED
    BY <1>2, <1>a, <2>1, <2>2, <2>5, <2>7, <2>9 DEF r, n, d, end, RecordAt
<1> QED
  BY <1>3, <1>4

\* Sequences stand together in either order of joining.
LEMMA ConcatAssoc ==
    ASSUME NEW u \in Seq(Nat), NEW v \in Seq(Nat), NEW w \in Seq(Nat)
    PROVE  u \o v \o w = u \o (v \o w)
  OBVIOUS

\* ToWire leaves out none of the labels a parse can find.
LEMMA NameToWireIs ==
    ASSUME NEW labels \in Seq(Seq(Nat)), Labelled(labels)
    PROVE  NameToWire(labels) = EncodeDomainLabels(labels)
<1>1. \A i \in DOMAIN labels : Len(labels[i]) <= MaxLabel
  <2>1. DOMAIN labels = 1 .. Len(labels)
    OBVIOUS
  <2> QED
    BY <2>1 DEF Labelled
<1>2. [i \in DOMAIN labels |-> IF Len(labels[i]) <= MaxLabel THEN EncodeLabel(labels[i]) ELSE <<>>]
         = [i \in DOMAIN labels |-> EncodeLabel(labels[i])]
  BY <1>1, Zenon
<1> QED
  BY <1>2, Zenon DEF NameToWire, EncodeDomainLabels

\* A name and the fields behind it, one of them or three.
LEMMA NameAhead ==
    ASSUME NEW c \in Seq(Nat), NEW at \in Nat, NEW labels \in Seq(Seq(Nat)), Labelled(labels),
           NEW rest \in Seq(Nat), Holds(c, at, NameToWire(labels) \o rest),
           NEW e, e = at + Len(NameToWire(labels))
    PROVE  /\ e \in Nat /\ Len(NameToWire(labels)) \in Nat /\ NameToWire(labels) \in Seq(Nat)
           /\ Holds(c, e, rest)
           /\ ParseDomainName(c, at).ok
           /\ ParseDomainName(c, at).end = e
           /\ ParseDomainName(c, at).labels = labels
<1> DEFINE w == NameToWire(labels)
           n == ParseDomainName(c, at)
<1>1. w = EncodeDomainLabels(labels)
  BY NameToWireIs
<1>2. w \in Seq(Nat) /\ Len(w) \in Nat
  BY <1>1, EncodedType
<1>3. Holds(c, at, w \o rest)
  OBVIOUS
<1> HIDE DEF w
<1>4. Holds(c, at, w) /\ Holds(c, at + Len(w), rest)
  BY <1>2, <1>3, HoldsConcat
<1>5. at + Len(w) \in Nat /\ e = at + Len(w)
  BY <1>2 DEF w
<1>6. n = [ok |-> TRUE, end |-> at + Len(w), labels |-> labels]
  BY <1>1, <1>4, EncodedParses
<1> HIDE DEF n
<1>7. n.ok /\ n.end = at + Len(w) /\ n.labels = labels
  BY <1>6
<1> QED
  BY <1>2, <1>4, <1>5, <1>7 DEF w, n

\* A question that stands in the cells is read back.
LEMMA QuestionRead ==
    ASSUME NEW c \in Seq(Nat), NEW at \in Nat, NEW q \in QuestionSet, Labelled(q.name),
           Holds(c, at, QuestionToWire(q))
    PROVE  /\ QuestionFromWire(c, at).ok
           /\ QuestionFromWire(c, at).end = at + Len(QuestionToWire(q))
           /\ QuestionFromWire(c, at).item = q
           /\ Len(QuestionToWire(q)) \in Nat
<1> DEFINE labels == q.name
           w == NameToWire(labels)
           rest == <<q.tail>>
           n == ParseDomainName(c, at)
           e == at + Len(w)
           x == QuestionFromWire(c, at)
           i == [name |-> n.labels, tail |-> c[n.end + 1]]
<1>1. labels \in Seq(Seq(Nat)) /\ q.tail \in Nat /\ q = [name |-> labels, tail |-> q.tail]
  BY DEF QuestionSet
<1>2. rest \in Seq(Nat) /\ Len(rest) = 1 /\ rest[1] = q.tail
  BY <1>1
<1>3. QuestionToWire(q) = w \o rest
  BY DEF QuestionToWire
<1>x. x = IF ~ n.ok \/ n.end + 1 > Len(c) THEN NoItem
          ELSE [ok |-> TRUE, end |-> n.end + 1, item |-> i]
  BY DEF QuestionFromWire, QuestionTail
<1>h. Holds(c, at, w \o rest) /\ Labelled(labels)
  BY <1>3
<1> HIDE DEF labels, rest
<1>4. /\ e \in Nat /\ Len(w) \in Nat /\ w \in Seq(Nat) /\ Holds(c, e, rest)
      /\ n.ok /\ n.end = e /\ n.labels = labels
  BY <1>1, <1>2, <1>h, NameAhead
<1>5. e + 1 <= Len(c) /\ c[e + 1] = q.tail
  <2>1. e + 1 <= Len(c) /\ \A k \in 1 .. 1 : c[e + k] = rest[k]
    BY <1>2, <1>4 DEF Holds
  <2> QED
    BY <1>2, <2>1
<1>6. Len(w \o rest) = Len(w) + 1 /\ at + (Len(w) + 1) = e + 1
  <2>0. w \in Seq(Nat) /\ rest \in Seq(Nat)
    BY <1>2, <1>4
  <2>1. Len(w \o rest) = Len(w) + Len(rest)
    BY <2>0, ConcatFacts
  <2> QED
    BY <1>2, <1>4, <2>1
<1> HIDE DEF n, x, w, e
<1>7. ~ (e + 1 > Len(c))
  <2>1. Len(c) \in Nat
    OBVIOUS
  <2> QED
    BY <1>4, <1>5, <2>1
<1>8. x = [ok |-> TRUE, end |-> e + 1, item |-> i]
  BY <1>4, <1>7, <1>x
<1>9. i = q
  BY <1>1, <1>4, <1>5
<1>10. x.ok /\ x.end = e + 1 /\ x.item = q
  BY <1>8, <1>9
<1>11. Len(w) + 1 \in Nat
  BY <1>4
<1> QED
  BY <1>3, <1>6, <1>10, <1>11 DEF x

\* RDLENGTH holds a length within its width.
LEMMA RdlengthIs ==
    ASSUME NEW n \in Nat, n < 2 ^ RdlengthWidth
    PROVE  n % 2 ^ RdlengthWidth = n
<1> DEFINE m == 2 ^ RdlengthWidth
<1>1. m \in Int
  BY ResponseAssumption
<1> HIDE DEF m
<1>2. n < m
  BY DEF m
<1>3. n % m = n
  BY <1>1, <1>2
<1> QED
  BY <1>3 DEF m

\* So is a record whose data is self-contained.
LEMMA AnswerRead ==
    ASSUME NEW c \in Seq(Nat), NEW at \in Nat, NEW r \in AnswerSet, Labelled(r.name),
           Len(r.rdata) < 2 ^ RdlengthWidth, SelfContained(r),
           Holds(c, at, AnswerToWire(r))
    PROVE  /\ AnswerFromWire(c, at).ok
           /\ AnswerFromWire(c, at).end = at + Len(AnswerToWire(r))
           /\ AnswerFromWire(c, at).item = r
           /\ Len(AnswerToWire(r)) \in Nat
<1> DEFINE labels == r.name
           d == r.rdata
           t == r.type
           w == NameToWire(labels)
           fields == <<t, r.ttl, r.rdlength>>
           rest == fields \o d
           n == ParseDomainName(c, at)
           e == at + Len(w)
           x == AnswerFromWire(c, at)
<1>1. /\ r = Answer(labels, t, r.ttl, d) /\ labels \in Seq(Seq(Nat)) /\ t \in Nat
      /\ r.ttl \in Nat /\ d \in Seq(Nat) /\ r.rdlength = Len(d) % 2 ^ RdlengthWidth
  BY AnswerFields
<1>2. Len(d) \in Nat
  BY <1>1
<1>3. r.rdlength = Len(d)
  BY <1>1, <1>2, RdlengthIs
<1>4. /\ fields \in Seq(Nat) /\ Len(fields) = 3 /\ fields[1] = t /\ fields[2] = r.ttl
      /\ fields[3] = Len(d)
  BY <1>1, <1>2, <1>3
<1>5. AnswerToWire(r) = w \o fields \o d
  BY DEF AnswerToWire
<1>l. Labelled(labels) /\ SelfContained(r) /\ Holds(c, at, w \o fields \o d)
  BY <1>5
<1> HIDE DEF labels, t, d, fields
<1>6. rest \in Seq(Nat) /\ Len(rest) = 3 + Len(d)
  <2>1. rest \in Seq(Nat) /\ Len(rest) = Len(fields) + Len(d)
    BY <1>1, <1>4, ConcatFacts
  <2> QED
    BY <1>4, <2>1, Zenon
<1>7. w \in Seq(Nat)
  BY <1>1, <1>l, NameToWireIs, EncodedType
<1> HIDE DEF w
<1>8. w \o fields \o d = w \o rest
  <2>1. w \in Seq(Nat) /\ fields \in Seq(Nat) /\ d \in Seq(Nat)
    BY <1>1, <1>4, <1>7
  <2> QED
    BY <2>1, ConcatAssoc
<1> HIDE DEF rest
<1>9. /\ e \in Nat /\ Len(w) \in Nat /\ Holds(c, e, rest)
      /\ n.ok /\ n.end = e /\ n.labels = labels
  BY <1>1, <1>6, <1>8, <1>l, NameAhead DEF w
<1>10. Holds(c, e, fields) /\ Holds(c, e + 3, d)
  <2>1. Holds(c, e, fields) /\ Holds(c, e + Len(fields), d)
    BY <1>1, <1>4, <1>9, HoldsConcat DEF rest
  <2> QED
    BY <1>4, <2>1, Zenon
<1>11. c[e + 1] = t /\ c[e + 2] = r.ttl /\ c[e + 3] = Len(d)
  <2>1. \A k \in 1 .. 3 : c[e + k] = fields[k]
    BY <1>4, <1>10 DEF Holds
  <2>2. 1 \in 1 .. 3 /\ 2 \in 1 .. 3 /\ 3 \in 1 .. 3
    OBVIOUS
  <2> QED
    BY <1>4, <2>1, <2>2, Zenon
<1>12. (e + 3) + Len(d) <= Len(c) /\ Len(c) \in Nat
  BY <1>10 DEF Holds
<1>e. e \in Nat
  BY <1>9
<1> HIDE DEF e
<1>13. ~ (e + 3 > Len(c)) /\ ~ ((e + 3) + Len(d) > Len(c)) /\ e + 3 \in Nat
  BY <1>2, <1>12, <1>e
<1> DEFINE raw == SubSeq(c, e + 3 + 1, e + 3 + c[e + 3])
           i == Answer(n.labels, c[e + 1], c[e + 2], DecompressRDATA(c, e + 3, c[e + 1], raw))
<1>14. x = IF ~ n.ok \/ e + 3 > Len(c) \/ e + 3 + c[e + 3] > Len(c) THEN NoItem
           ELSE [ok |-> TRUE, end |-> e + 3 + c[e + 3], item |-> i]
  <2>1. n.end = e
    BY <1>9
  <2> QED
    BY <2>1, Zenon DEF AnswerFromWire, RecordBehind, RecordTail
<1> HIDE DEF n, x
<1>15. DecompressRDATA(c, e + 3, t, raw) = d
  <2>1. CASE Layout(t).names > 0
    <3>1. PICK pre, names, tail : Shape(t, d, pre, names, tail)
      BY <1>1, <1>l, <2>1, SelfContainedShape DEF t, d
    <3> QED
      BY <1>10, <1>13, <3>1, ShapeDecompress
  <2>2. CASE ~ (Layout(t).names > 0)
    <3>1. Layout(t).names = 0
      <4>1. Layout(t).names \in {0, 1, 2}
        BY LayoutType
      <4> QED
        BY <2>2, <4>1
    <3>2. DecompressRDATA(c, e + 3, t, raw) = raw
      BY <3>1, Zenon DEF DecompressRDATA
    <3>3. SubSeq(c, (e + 3) + 1, (e + 3) + Len(d)) = d
      BY <1>1, <1>10, <1>13, HeldSubSeq
    <3> QED
      BY <1>11, <3>2, <3>3, Zenon
  <2> QED
    BY <2>1, <2>2
<1>16. i = r
  BY <1>1, <1>9, <1>11, <1>15, Zenon
<1> HIDE DEF i
<1>17. x = [ok |-> TRUE, end |-> e + 3 + Len(d), item |-> r]
  BY <1>9, <1>11, <1>13, <1>14, <1>16, Zenon
<1>18. x.ok /\ x.end = e + 3 + Len(d) /\ x.item = r
  BY <1>17
<1>19. Len(w \o rest) = Len(w) + (3 + Len(d))
  <2>1. Len(w \o rest) = Len(w) + Len(rest)
    BY <1>6, <1>7, ConcatFacts
  <2> QED
    BY <1>6, <2>1, Zenon
<1>20. e + 3 + Len(d) = at + (Len(w) + (3 + Len(d))) /\ Len(w) + (3 + Len(d)) \in Nat
  BY <1>2, <1>9 DEF e
<1> QED
  BY <1>5, <1>8, <1>18, <1>19, <1>20 DEF x

-----------------------------------------------------------------------------
(* Sections *)

ReadOne(c, at, kind) == IF kind = "question" THEN QuestionFromWire(c, at)
                        ELSE AnswerFromWire(c, at)

States == [ok : BOOLEAN, end : Nat, items : Seq(ItemSet)]

NothingRead(from) == [ok |-> TRUE, end |-> from, items |-> <<>>]

\* The function of Section's recursion.
Sectioned(read, c, from, count, kind) ==
    /\ read \in [0 .. count -> States]
    /\ read[0] = NothingRead(from)
    /\ \A k \in 1 .. count : read[k] = ReadItem(c, read[k - 1], kind)

\* The items are those that are read one behind the other, from one place to another.
Steps(place, c, from, kind, items, end) ==
    /\ place \in [0 .. Len(items) -> Nat] /\ place[0] = from /\ place[Len(items)] = end
    /\ \A i \in 1 .. Len(items) : /\ ReadOne(c, place[i - 1], kind).ok
                                  /\ ReadOne(c, place[i - 1], kind).end = place[i]
                                  /\ ReadOne(c, place[i - 1], kind).item = items[i]

\* The types of a step.
LEMMA OneType ==
    ASSUME NEW c \in Seq(Nat), NEW at \in Nat, NEW kind
    PROVE  ReadOne(c, at, kind) \in Items
<1>1. QuestionFromWire(c, at) \in Items
  BY QuestionParsed
<1>2. AnswerFromWire(c, at) \in Items
  <2>1. ParseDomainName(c, at).end \in Nat
    BY ParsedName DEF Parses
  <2> QED
    BY <2>1, AnswerParsed
<1> QED
  BY <1>1, <1>2 DEF ReadOne

LEMMA ReadItemIs ==
    ASSUME NEW c \in Seq(Nat), NEW s \in States, NEW kind
    PROVE  /\ ReadItem(c, s, kind) \in States
           /\ ~ s.ok => ReadItem(c, s, kind) = s
           /\ s.ok => /\ ReadItem(c, s, kind).ok = ReadOne(c, s.end, kind).ok
                      /\ ReadItem(c, s, kind).end = ReadOne(c, s.end, kind).end
                      /\ ReadItem(c, s, kind).items
                            = Append(s.items, ReadOne(c, s.end, kind).item)
<1> DEFINE one == ReadOne(c, s.end, kind)
           x == ReadItem(c, s, kind)
<1>1. x = IF ~ s.ok THEN s
          ELSE [ok |-> one.ok, end |-> one.end, items |-> Append(s.items, one.item)]
  BY Zenon DEF ReadItem, Extended, ReadOne
<1>2. s.end \in Nat /\ s.items \in Seq(ItemSet)
  BY DEF States
<1>3. one \in Items
  BY <1>2, OneType
<1> HIDE DEF one, x
<1>4. one.ok \in BOOLEAN /\ one.end \in Nat /\ one.item \in ItemSet
  BY <1>3 DEF Items
<1>5. Append(s.items, one.item) \in Seq(ItemSet)
  BY <1>2, <1>4
<1>6. CASE ~ s.ok
  <2>1. x = s
    BY <1>1, <1>6
  <2> QED
    BY <1>6, <2>1 DEF x
<1>7. CASE s.ok
  <2> DEFINE more == Append(s.items, one.item)
  <2>1. x = [ok |-> one.ok, end |-> one.end, items |-> more]
    BY <1>1, <1>7
  <2> HIDE DEF more
  <2>2. x \in States
    BY <1>4, <1>5, <2>1 DEF States, more
  <2>3. x.ok = one.ok /\ x.end = one.end /\ x.items = more
    BY <2>1
  <2> QED
    BY <1>7, <2>2, <2>3 DEF x, one, more
<1> QED
  BY <1>6, <1>7

\* Section's recursion has a solution, and it is the one Section takes.
LEMMA SectionLoop ==
    ASSUME NEW c \in Seq(Nat), NEW from \in Nat, NEW count \in Nat, NEW kind
    PROVE  \E read : /\ Sectioned(read, c, from, count, kind)
                     /\ Section(c, from, count, kind) = read[count]
<1> DEFINE S == States
           base == NothingRead(from)
           turn == [k \in 1 .. count |-> [s \in S |-> ReadItem(c, s, kind)]]
           Body(f) == [k \in 0 .. count |->
                         IF k = 0 THEN base ELSE ReadItem(c, f[k - 1], kind)]
<1>1. base \in S
  BY DEF NothingRead, States
<1>2. turn \in [1 .. count -> [S -> S]]
  <2>1. \A s \in S : ReadItem(c, s, kind) \in S
    BY ReadItemIs
  <2> HIDE DEF S
  <2> QED
    BY <2>1
<1>3. PICK g : Loop(g, count, S, base, turn)
  <2> HIDE DEF S, base, turn
  <2> QED
    BY <1>1, <1>2, LoopExists
<1>4. /\ g \in [0 .. count -> S] /\ g[0] = base
      /\ \A k \in 1 .. count : g[k] = turn[k][g[k - 1]]
  <2> HIDE DEF S, base, turn
  <2> QED
    BY <1>3 DEF Loop
<1>5. \A k \in 1 .. count : g[k] = ReadItem(c, g[k - 1], kind)
  <2> TAKE k \in 1 .. count
  <2>1. k - 1 \in 0 .. count
    OBVIOUS
  <2>2. g[k - 1] \in S /\ g[k] = turn[k][g[k - 1]]
    BY <1>4, <2>1
  <2> HIDE DEF S
  <2> QED
    BY <2>2
<1>6. Sectioned(g, c, from, count, kind)
  BY <1>4, <1>5 DEF Sectioned
<1> HIDE DEF S, base, turn
<1> DEFINE read == CHOOSE f : f = Body(f)
<1>7. g = Body(g)
  <2>1. \A k \in 0 .. count : k # 0 => k \in 1 .. count
    OBVIOUS
  <2>2. \A k \in 0 .. count : g[k] = IF k = 0 THEN base ELSE ReadItem(c, g[k - 1], kind)
    BY <1>4, <1>5, <2>1
  <2>3. g = [k \in 0 .. count |-> g[k]]
    BY <1>4
  <2> QED
    BY <2>2, <2>3
<1>8. read = Body(read)
  BY <1>7, Zenon
<1>9. Section(c, from, count, kind) = read[count]
  BY Zenon DEF Section, base, NothingRead
<1> HIDE DEF read
<1>10. \A k \in 0 .. count : read[k] = IF k = 0 THEN base ELSE ReadItem(c, read[k - 1], kind)
  BY <1>8
<1> DEFINE P == {k \in 0 .. count : read[k] = g[k]}
<1>11. 0 \in P
  BY <1>4, <1>10
<1>12. ASSUME NEW k \in 1 .. count, k - 1 \in P PROVE k \in P
  <2>1. k \in 0 .. count /\ k # 0
    OBVIOUS
  <2>2. read[k] = ReadItem(c, read[k - 1], kind) /\ read[k - 1] = g[k - 1]
    BY <1>10, <1>12, <2>1
  <2> QED
    BY <1>5, <2>1, <2>2
<1> HIDE DEF P
<1>13. \A k \in 0 .. count : k \in P
  BY <1>11, <1>12, StepByStep
<1>14. count \in P
  BY <1>13
<1>15. Section(c, from, count, kind) = g[count]
  BY <1>9, <1>14 DEF P
<1> QED
  BY <1>6, <1>15

\* What a section that is read whole has come from.
LEMMA SectionParsed ==
    ASSUME NEW c \in Seq(Nat), NEW from \in Nat, NEW count \in Nat, NEW kind
    PROVE  /\ Section(c, from, count, kind) \in States
           /\ Section(c, from, count, kind).ok =>
                 /\ Len(Section(c, from, count, kind).items) = count
                 /\ \E place : Steps(place, c, from, kind, Section(c, from, count, kind).items,
                                     Section(c, from, count, kind).end)
<1>1. PICK read : /\ Sectioned(read, c, from, count, kind)
                  /\ Section(c, from, count, kind) = read[count]
  BY SectionLoop
<1>2. /\ read \in [0 .. count -> States] /\ read[0] = NothingRead(from)
      /\ \A k \in 1 .. count : read[k] = ReadItem(c, read[k - 1], kind)
  BY <1>1 DEF Sectioned
<1>3. \A k \in 0 .. count : read[k] \in States /\ read[k].end \in Nat
                            /\ read[k].items \in Seq(ItemSet)
  <2>1. \A k \in 0 .. count : read[k] \in States
    BY <1>2
  <2> QED
    BY <2>1 DEF States
<1>0. read[0].ok /\ read[0].end = from /\ read[0].items = <<>>
  BY <1>2 DEF NothingRead
<1> DEFINE One(i) == ReadOne(c, read[i - 1].end, kind)
           Good(k) == /\ Len(read[k].items) = k
                      /\ \A i \in 1 .. k : /\ One(i).ok /\ One(i).end = read[i].end
                                           /\ read[k].items[i] = One(i).item
           P == {k \in 0 .. count : read[k].ok => Good(k)}
<1>4. 0 \in P
  BY <1>0
<1>5. ASSUME NEW k \in 1 .. count, k - 1 \in P PROVE k \in P
  <2> DEFINE s == read[k - 1]
             x == read[k]
  <2>1. k - 1 \in 0 .. count /\ k \in 0 .. count
    OBVIOUS
  <2>2. s \in States /\ s.items \in Seq(ItemSet) /\ s.end \in Nat /\ x = ReadItem(c, s, kind)
    BY <1>2, <1>3, <2>1
  <2>p. s.ok => Good(k - 1)
    BY <1>5
  <2>i. (x.ok => Good(k)) => k \in P
    BY <2>1
  <2> HIDE DEF P, Good
  <2> SUFFICES ASSUME x.ok PROVE Good(k)
    BY <2>i
  <2> DEFINE o == ReadOne(c, s.end, kind)
  <2> HIDE DEF s, x
  <2>3. s.ok
    <3> SUFFICES ASSUME ~ s.ok PROVE FALSE
      OBVIOUS
    <3>1. x = s
      BY <2>2, ReadItemIs
    <3> QED
      BY <3>1
  <2>4. x.ok = o.ok /\ x.end = o.end /\ x.items = Append(s.items, o.item)
    BY <2>2, <2>3, ReadItemIs
  <2>5. Good(k - 1)
    BY <2>3, <2>p
  <2>6. /\ Len(s.items) = k - 1
        /\ \A i \in 1 .. k - 1 : /\ One(i).ok /\ One(i).end = read[i].end
                                 /\ s.items[i] = One(i).item
    BY <2>5 DEF Good, s
  <2>7. One(k) = o
    BY DEF s
  <2> HIDE DEF o, One
  <2> DEFINE its == s.items
             it == o.item
  <2>8. o \in Items /\ its \in Seq(ItemSet)
    BY <2>2, OneType DEF o
  <2>9. it \in ItemSet
    BY <2>8 DEF Items
  <2>10. Len(its) = k - 1 /\ x.items = Append(its, it)
    BY <2>4, <2>6
  <2> HIDE DEF its, it
  <2>11. /\ Len(Append(its, it)) = Len(its) + 1 /\ Append(its, it)[Len(its) + 1] = it
         /\ \A i \in 1 .. Len(its) : Append(its, it)[i] = its[i]
    BY <2>8, <2>9
  <2>12. (k - 1) + 1 = k
    OBVIOUS
  <2>13. Len(x.items) = k /\ x.items[k] = it /\ \A i \in 1 .. k - 1 : x.items[i] = its[i]
    BY <2>10, <2>11, <2>12
  <2>14. ASSUME NEW i \in 1 .. k
         PROVE  One(i).ok /\ One(i).end = read[i].end /\ x.items[i] = One(i).item
    <3>1. CASE i = k
      BY <2>4, <2>7, <2>13, <3>1 DEF x, it
    <3>2. CASE i # k
      <4>1. i \in 1 .. k - 1
        BY <3>2
      <4> QED
        BY <2>6, <2>13, <4>1 DEF its
    <3> QED
      BY <3>1, <3>2
  <2> QED
    BY <2>13, <2>14 DEF Good, x
<1> HIDE DEF P
<1>6. \A k \in 0 .. count : k \in P
  BY <1>4, <1>5, StepByStep
<1>7. count \in 0 .. count /\ count \in P /\ read[count] \in States
  BY <1>3, <1>6
<1> DEFINE s == Section(c, from, count, kind)
           place == [i \in 0 .. count |-> read[i].end]
<1>8. s \in States /\ s = read[count]
  BY <1>1, <1>7
<1>9. ASSUME s.ok
      PROVE  Len(s.items) = count /\ \E p : Steps(p, c, from, kind, s.items, s.end)
  <2>1. Good(count)
    BY <1>7, <1>8, <1>9 DEF P
  <2>2. /\ Len(s.items) = count
        /\ \A i \in 1 .. count : /\ One(i).ok /\ One(i).end = read[i].end
                                 /\ s.items[i] = One(i).item
    BY <1>8, <2>1
  <2>3. place \in [0 .. count -> Nat] /\ place[0] = from /\ place[count] = s.end
    BY <1>0, <1>3, <1>7, <1>8
  <2>4. \A i \in 1 .. count : place[i] = read[i].end /\ place[i - 1] = read[i - 1].end
    OBVIOUS
  <2> HIDE DEF place, s
  <2>5. \A i \in 1 .. count : /\ ReadOne(c, place[i - 1], kind).ok
                              /\ ReadOne(c, place[i - 1], kind).end = place[i]
                              /\ ReadOne(c, place[i - 1], kind).item = s.items[i]
    BY <2>2, <2>4, Zenon
  <2>6. Steps(place, c, from, kind, s.items, s.end)
    BY <2>2, <2>3, <2>5, Zenon DEF Steps
  <2> QED
    BY <2>2, <2>6
<1> QED
  BY <1>8, <1>9

\* A section is what is read one behind the other.
LEMMA SectionRead ==
    ASSUME NEW c \in Seq(Nat), NEW from \in Nat, NEW kind, NEW items \in Seq(ItemSet), NEW end,
           NEW place, Steps(place, c, from, kind, items, end)
    PROVE  /\ Section(c, from, Len(items), kind).ok
           /\ Section(c, from, Len(items), kind).end = end
           /\ Section(c, from, Len(items), kind).items = items
<1> DEFINE count == Len(items)
<1>0. count \in Nat
  OBVIOUS
<1>a. /\ place \in [0 .. count -> Nat] /\ place[0] = from /\ place[count] = end
      /\ \A i \in 1 .. count : /\ ReadOne(c, place[i - 1], kind).ok
                               /\ ReadOne(c, place[i - 1], kind).end = place[i]
                               /\ ReadOne(c, place[i - 1], kind).item = items[i]
  BY DEF Steps
<1>1. PICK read : /\ Sectioned(read, c, from, count, kind)
                  /\ Section(c, from, count, kind) = read[count]
  BY <1>0, SectionLoop
<1> HIDE DEF count
<1>2. /\ read \in [0 .. count -> States] /\ read[0] = NothingRead(from)
      /\ \A k \in 1 .. count : read[k] = ReadItem(c, read[k - 1], kind)
  BY <1>1 DEF Sectioned
<1>3. \A k \in 0 .. count : read[k] \in States /\ read[k].items \in Seq(ItemSet)
  <2>1. \A k \in 0 .. count : read[k] \in States
    BY <1>2
  <2> QED
    BY <2>1 DEF States
<1>4. read[0].ok /\ read[0].end = from /\ read[0].items = <<>>
  BY <1>2 DEF NothingRead
<1> DEFINE Good(k) == /\ read[k].ok /\ read[k].end = place[k]
                      /\ Len(read[k].items) = k
                      /\ \A i \in 1 .. k : read[k].items[i] = items[i]
           P == {k \in 0 .. count : Good(k)}
<1>5. 0 \in P
  <2>1. 0 \in 0 .. count
    BY <1>0
  <2> QED
    BY <1>4, <1>a, <2>1
<1>6. ASSUME NEW k \in 1 .. count, k - 1 \in P PROVE k \in P
  <2> DEFINE s == read[k - 1]
             x == read[k]
             o == ReadOne(c, s.end, kind)
  <2>1. k - 1 \in 0 .. count /\ k \in 0 .. count
    BY <1>0
  <2>2. s \in States /\ s.items \in Seq(ItemSet) /\ x = ReadItem(c, s, kind)
    BY <1>2, <1>3, <2>1
  <2>3. Good(k - 1)
    BY <1>6
  <2>4. /\ s.ok /\ s.end = place[k - 1] /\ Len(s.items) = k - 1
        /\ \A i \in 1 .. k - 1 : s.items[i] = items[i]
    BY <2>3
  <2>i. Good(k) => k \in P
    BY <2>1
  <2>g. /\ x.ok /\ x.end = place[k] /\ Len(x.items) = k
        /\ \A i \in 1 .. k : x.items[i] = items[i]
        => Good(k)
    OBVIOUS
  <2> HIDE DEF P, Good, s, x
  <2>5. o.ok /\ o.end = place[k] /\ o.item = items[k]
    BY <1>a, <2>4
  <2>6. x.ok = o.ok /\ x.end = o.end /\ x.items = Append(s.items, o.item)
    BY <2>2, <2>4, ReadItemIs
  <2> HIDE DEF o
  <2> DEFINE its == s.items
             it == items[k]
  <2>7. its \in Seq(ItemSet) /\ it \in ItemSet /\ Len(its) = k - 1 /\ x.items = Append(its, it)
    <3>1. it \in ItemSet
      BY DEF count
    <3> QED
      BY <2>2, <2>4, <2>5, <2>6, <3>1
  <2> HIDE DEF its, it
  <2>8. /\ Len(Append(its, it)) = Len(its) + 1 /\ Append(its, it)[Len(its) + 1] = it
        /\ \A i \in 1 .. Len(its) : Append(its, it)[i] = its[i]
    BY <2>7
  <2>9. (k - 1) + 1 = k
    BY <1>0
  <2>10. Len(x.items) = k /\ x.items[k] = it /\ \A i \in 1 .. k - 1 : x.items[i] = its[i]
    BY <2>7, <2>8, <2>9
  <2>11. ASSUME NEW i \in 1 .. k PROVE x.items[i] = items[i]
    <3>1. CASE i = k
      BY <2>10, <3>1 DEF it
    <3>2. CASE i # k
      <4>1. i \in 1 .. k - 1
        BY <1>0, <3>2
      <4> QED
        BY <2>4, <2>10, <4>1 DEF its
    <3> QED
      BY <3>1, <3>2
  <2> QED
    BY <2>5, <2>6, <2>10, <2>11, <2>g, <2>i
<1> HIDE DEF P
<1>7. \A k \in 0 .. count : k \in P
  BY <1>0, <1>5, <1>6, StepByStep
<1>8. count \in 0 .. count /\ count \in P
  BY <1>0, <1>7
<1>9. Good(count)
  BY <1>8 DEF P
<1> DEFINE s == Section(c, from, count, kind)
<1>10. /\ s.ok /\ s.end = end /\ Len(s.items) = count /\ s.items \in Seq(ItemSet)
       /\ \A i \in 1 .. count : s.items[i] = items[i]
  BY <1>1, <1>3, <1>8, <1>9, <1>a
<1> HIDE DEF s
<1>11. s.items = items
  BY <1>10, SameSeq DEF count
<1> QED
  BY <1>10, <1>11 DEF s, count

\* Questions written one behind the other.
LEMMA QuestionsRead ==
    ASSUME NEW c \in Seq(Nat), NEW at \in Nat, NEW qs \in Seq(QuestionSet),
           \A i \in 1 .. Len(qs) : Labelled(qs[i].name),
           NEW ss \in Seq(Seq(Nat)), Len(ss) = Len(qs),
           \A i \in 1 .. Len(qs) : ss[i] = QuestionToWire(qs[i]), Holds(c, at, FlattenSeq(ss))
    PROVE  /\ Section(c, at, Len(qs), "question").ok
           /\ Section(c, at, Len(qs), "question").end = at + Len(FlattenSeq(ss))
           /\ Section(c, at, Len(qs), "question").items = qs
<1> DEFINE w == FlattenSeq(ss)
           n == Len(qs)
<1>1. n \in Nat /\ Len(ss) = n /\ \A i \in 1 .. n : ss[i] = QuestionToWire(qs[i]) /\ qs[i] \in QuestionSet
  OBVIOUS
<1>2. PICK place : Laid(place, c, at, ss, at + Len(w))
  BY FlattenHolds
<1> HIDE DEF w
<1>3. /\ place \in [0 .. n -> Nat] /\ place[0] = at /\ place[n] = at + Len(w)
      /\ \A i \in 1 .. n : place[i] = place[i - 1] + Len(ss[i]) /\ Holds(c, place[i - 1], ss[i])
  BY <1>1, <1>2, Zenon DEF Laid
<1>4. ASSUME NEW i \in 1 .. n
      PROVE  /\ ReadOne(c, place[i - 1], "question").ok
             /\ ReadOne(c, place[i - 1], "question").end = place[i]
             /\ ReadOne(c, place[i - 1], "question").item = qs[i]
  <2> DEFINE a == place[i - 1]
             q == qs[i]
  <2>1. i - 1 \in 0 .. n
    BY <1>1
  <2>2. a \in Nat /\ q \in QuestionSet /\ Labelled(q.name) /\ Holds(c, a, QuestionToWire(q))
        /\ place[i] = a + Len(QuestionToWire(q))
    BY <1>1, <1>3, <2>1
  <2> HIDE DEF a, q
  <2>3. /\ QuestionFromWire(c, a).ok
        /\ QuestionFromWire(c, a).end = a + Len(QuestionToWire(q))
        /\ QuestionFromWire(c, a).item = q
    BY <2>2, QuestionRead
  <2>4. ReadOne(c, a, "question") = QuestionFromWire(c, a)
    BY DEF ReadOne
  <2>5. /\ ReadOne(c, a, "question").ok /\ ReadOne(c, a, "question").end = place[i]
        /\ ReadOne(c, a, "question").item = q
    BY <2>2, <2>3, <2>4, Zenon
  <2> QED
    BY <2>5 DEF a, q
<1>5. Steps(place, c, at, "question", qs, at + Len(w))
  BY <1>3, <1>4, Zenon DEF Steps
<1>6. qs \in Seq(ItemSet)
  BY DEF ItemSet
<1> QED
  BY <1>5, <1>6, SectionRead DEF w

\* Records that can be written and read back.
Sound(r) == /\ Labelled(r.name) /\ Len(r.rdata) < 2 ^ RdlengthWidth /\ SelfContained(r)

\* Records written one behind the other.
LEMMA AnswersRead ==
    ASSUME NEW c \in Seq(Nat), NEW at \in Nat, NEW rs \in Seq(AnswerSet),
           \A i \in 1 .. Len(rs) : Sound(rs[i]),
           NEW ss \in Seq(Seq(Nat)), Len(ss) = Len(rs),
           \A i \in 1 .. Len(rs) : ss[i] = AnswerToWire(rs[i]), Holds(c, at, FlattenSeq(ss))
    PROVE  /\ Section(c, at, Len(rs), "record").ok
           /\ Section(c, at, Len(rs), "record").end = at + Len(FlattenSeq(ss))
           /\ Section(c, at, Len(rs), "record").items = rs
<1> DEFINE w == FlattenSeq(ss)
           n == Len(rs)
<1>1. n \in Nat /\ Len(ss) = n /\ \A i \in 1 .. n : ss[i] = AnswerToWire(rs[i]) /\ rs[i] \in AnswerSet
  OBVIOUS
<1>2. PICK place : Laid(place, c, at, ss, at + Len(w))
  BY FlattenHolds
<1> HIDE DEF w
<1>3. /\ place \in [0 .. n -> Nat] /\ place[0] = at /\ place[n] = at + Len(w)
      /\ \A i \in 1 .. n : place[i] = place[i - 1] + Len(ss[i]) /\ Holds(c, place[i - 1], ss[i])
  BY <1>1, <1>2, Zenon DEF Laid
<1>4. ASSUME NEW i \in 1 .. n
      PROVE  /\ ReadOne(c, place[i - 1], "record").ok
             /\ ReadOne(c, place[i - 1], "record").end = place[i]
             /\ ReadOne(c, place[i - 1], "record").item = rs[i]
  <2> DEFINE a == place[i - 1]
             r == rs[i]
  <2>1. i - 1 \in 0 .. n
    BY <1>1
  <2>2. a \in Nat /\ r \in AnswerSet /\ Sound(r) /\ Holds(c, a, AnswerToWire(r))
        /\ place[i] = a + Len(AnswerToWire(r))
    BY <1>1, <1>3, <2>1
  <2> HIDE DEF a, r
  <2>3. /\ AnswerFromWire(c, a).ok
        /\ AnswerFromWire(c, a).end = a + Len(AnswerToWire(r))
        /\ AnswerFromWire(c, a).item = r
    BY <2>2, AnswerRead DEF Sound
  <2>4. ReadOne(c, a, "record") = AnswerFromWire(c, a)
    BY DEF ReadOne
  <2>5. /\ ReadOne(c, a, "record").ok /\ ReadOne(c, a, "record").end = place[i]
        /\ ReadOne(c, a, "record").item = r
    BY <2>2, <2>3, <2>4, Zenon
  <2> QED
    BY <2>5 DEF a, r
<1>5. Steps(place, c, at, "record", rs, at + Len(w))
  BY <1>3, <1>4, Zenon DEF Steps
<1>6. rs \in Seq(ItemSet)
  BY DEF ItemSet
<1>7. /\ Section(c, at, Len(rs), "record").ok
      /\ Section(c, at, Len(rs), "record").end = at + Len(w)
      /\ Section(c, at, Len(rs), "record").items = rs
  <2> DEFINE e == at + Len(w)
             k == "record"
             its == rs
  <2>1. Steps(place, c, at, k, its, e) /\ its \in Seq(ItemSet)
    BY <1>5, <1>6
  <2> HIDE DEF e, k, its
  <2>2. /\ Section(c, at, Len(its), k).ok /\ Section(c, at, Len(its), k).end = e
        /\ Section(c, at, Len(its), k).items = its
    BY <2>1, SectionRead
  <2> QED
    BY <2>2 DEF e, k, its
<1> QED
  BY <1>7 DEF w

-----------------------------------------------------------------------------
(* Whole packets *)

ObjectSet == [header : Header, questions : Seq(QuestionSet), answers : Seq(AnswerSet),
              authority : Seq(AnswerSet), additional : Seq(AnswerSet)]

\* NameSize is the length of the name that is written, and so on for all of a packet.
LEMMA NameSizeIs ==
    ASSUME NEW labels \in Seq(Seq(Nat))
    PROVE  /\ NameToWire(labels) \in Seq(Nat) /\ Len(NameToWire(labels)) \in Nat
           /\ NameSize(labels) = Len(NameToWire(labels))
<1> DEFINE ss == [i \in DOMAIN labels |->
                    IF Len(labels[i]) <= MaxLabel THEN EncodeLabel(labels[i]) ELSE <<>>]
           sizes == [i \in DOMAIN labels |-> IF Len(labels[i]) <= MaxLabel
                                               THEN 1 + Len(labels[i]) ELSE 0]
           n == Len(labels)
           w == FlattenSeq(ss)
<1>1. n \in Nat /\ DOMAIN labels = 1 .. n
  OBVIOUS
<1>2. \A i \in 1 .. n : EncodeLabel(labels[i]) \in Seq(Nat)
                        /\ Len(EncodeLabel(labels[i])) = 1 + Len(labels[i])
  BY EncodeType
<1>3. \A i \in 1 .. n : /\ ss[i] \in Seq(Nat) /\ sizes[i] = Len(ss[i])
  <2> TAKE i \in 1 .. n
  <2>1. CASE Len(labels[i]) <= MaxLabel
    BY <1>1, <1>2, <2>1
  <2>2. CASE ~ (Len(labels[i]) <= MaxLabel)
    BY <1>1, <2>2
  <2> QED
    BY <2>1, <2>2
<1>4. ss \in Seq(Seq(Nat)) /\ Len(ss) = n /\ Len(sizes) = n
  <2>2. DOMAIN ss = 1 .. n /\ DOMAIN sizes = 1 .. n
    BY <1>1
  <2>3. ss = [i \in 1 .. n |-> ss[i]]
    BY <1>1
  <2> HIDE DEF ss
  <2>4. ss \in Seq(Seq(Nat)) /\ Len(ss) = n
    BY <1>1, <1>3, <2>2, <2>3
  <2>5. Len(sizes) = n
    BY <1>1
  <2> QED
    BY <2>4, <2>5
<1>5. NameToWire(labels) = w \o <<0>>
  BY Zenon DEF NameToWire
<1>6. NameSize(labels) = 1 + Total(sizes)
  BY Zenon DEF NameSize
<1> HIDE DEF ss, sizes, n
<1>7. w \in Seq(Nat) /\ Len(w) \in Nat /\ Len(w) = Total(sizes)
  <2>1. ss \in Seq(Seq(Nat)) /\ Len(sizes) = Len(ss)
        /\ \A i \in 1 .. Len(ss) : sizes[i] = Len(ss[i])
    BY <1>3, <1>4
  <2> QED
    BY <2>1, FlattenLen
<1> HIDE DEF w
<1>8. w \o <<0>> \in Seq(Nat) /\ Len(w \o <<0>>) = Len(w) + 1
  BY <1>7
<1> QED
  BY <1>5, <1>6, <1>7, <1>8

LEMMA QuestionWire ==
    ASSUME NEW q \in QuestionSet
    PROVE  QuestionToWire(q) \in Seq(Nat) /\ Len(QuestionToWire(q)) = QuestionSize(q)
<1> DEFINE w == NameToWire(q.name)
           rest == <<q.tail>>
<1>1. q.name \in Seq(Seq(Nat)) /\ q.tail \in Nat
  BY DEF QuestionSet
<1>2. w \in Seq(Nat) /\ Len(w) \in Nat /\ NameSize(q.name) = Len(w)
  BY <1>1, NameSizeIs
<1>3. rest \in Seq(Nat) /\ Len(rest) = 1
  BY <1>1
<1>4. QuestionToWire(q) = w \o rest /\ QuestionSize(q) = NameSize(q.name) + 1
  BY DEF QuestionToWire, QuestionSize, QuestionTail
<1> HIDE DEF w, rest
<1>5. w \in Seq(Nat) /\ rest \in Seq(Nat)
  BY <1>2, <1>3
<1>6. w \o rest \in Seq(Nat) /\ Len(w \o rest) = Len(w) + Len(rest)
  BY <1>5, ConcatFacts
<1> QED
  BY <1>2, <1>3, <1>4, <1>6, Zenon

LEMMA AnswerWire ==
    ASSUME NEW r \in AnswerSet, Len(r.rdata) < 2 ^ RdlengthWidth
    PROVE  AnswerToWire(r) \in Seq(Nat) /\ Len(AnswerToWire(r)) = AnswerSize(r)
<1> DEFINE w == NameToWire(r.name)
           d == r.rdata
           fields == <<r.type, r.ttl, r.rdlength>>
           head == w \o fields
<1>1. r.name \in Seq(Seq(Nat)) /\ r.type \in Nat /\ r.ttl \in Nat /\ d \in Seq(Nat)
      /\ r.rdlength = Len(d) % 2 ^ RdlengthWidth
  BY AnswerFields
<1>2. Len(d) \in Nat
  BY <1>1
<1>3. r.rdlength = Len(d)
  BY <1>1, <1>2, RdlengthIs
<1>4. fields \in Seq(Nat) /\ Len(fields) = 3
  BY <1>1, <1>2, <1>3
<1>5. w \in Seq(Nat) /\ Len(w) \in Nat /\ NameSize(r.name) = Len(w)
  BY <1>1, NameSizeIs
<1>6. AnswerToWire(r) = head \o d /\ AnswerSize(r) = NameSize(r.name) + 3 + Len(d)
  BY DEF AnswerToWire, AnswerSize, RecordTail
<1> HIDE DEF w, d, fields
<1>7. w \in Seq(Nat) /\ fields \in Seq(Nat) /\ d \in Seq(Nat)
  BY <1>1, <1>4, <1>5
<1>8. head \in Seq(Nat) /\ Len(head) = Len(w) + Len(fields)
  BY <1>7, ConcatFacts
<1> HIDE DEF head
<1>9. head \o d \in Seq(Nat) /\ Len(head \o d) = Len(head) + Len(d)
  BY <1>7, <1>8, ConcatFacts
<1>10. Len(head \o d) = Len(w) + 3 + Len(d)
  BY <1>4, <1>8, <1>9, Zenon
<1> QED
  BY <1>5, <1>6, <1>9, <1>10, Zenon

LEMMA QuestionWires ==
    ASSUME NEW qs \in Seq(QuestionSet), NEW ss, ss = [i \in DOMAIN qs |-> QuestionToWire(qs[i])]
    PROVE  /\ ss \in Seq(Seq(Nat)) /\ FlattenSeq(ss) \in Seq(Nat) /\ Len(FlattenSeq(ss)) \in Nat
           /\ Len(FlattenSeq(ss)) = Total([i \in DOMAIN qs |-> QuestionSize(qs[i])])
<1> DEFINE n == Len(qs)
           sizes == [i \in DOMAIN qs |-> QuestionSize(qs[i])]
<1>1. n \in Nat /\ DOMAIN qs = 1 .. n /\ \A i \in 1 .. n : qs[i] \in QuestionSet
  OBVIOUS
<1>2. \A i \in 1 .. n : QuestionToWire(qs[i]) \in Seq(Nat)
                        /\ Len(QuestionToWire(qs[i])) = QuestionSize(qs[i])
  BY <1>1, QuestionWire
<1>3. /\ ss = [i \in 1 .. n |-> QuestionToWire(qs[i])]
      /\ sizes = [i \in 1 .. n |-> QuestionSize(qs[i])]
  BY <1>1, Zenon
<1> HIDE DEF sizes, n
<1>4. ss \in Seq(Seq(Nat)) /\ Len(ss) = n /\ Len(sizes) = n
      /\ \A i \in 1 .. n : sizes[i] = Len(ss[i])
  BY <1>1, <1>2, <1>3
<1>5. FlattenSeq(ss) \in Seq(Nat) /\ Len(FlattenSeq(ss)) \in Nat
      /\ Len(FlattenSeq(ss)) = Total(sizes)
  BY <1>4, FlattenLen
<1> QED
  BY <1>4, <1>5 DEF sizes

LEMMA AnswerWires ==
    ASSUME NEW rs \in Seq(AnswerSet), \A i \in 1 .. Len(rs) : Sound(rs[i]),
           NEW ss, ss = [i \in DOMAIN rs |-> AnswerToWire(rs[i])]
    PROVE  /\ ss \in Seq(Seq(Nat)) /\ FlattenSeq(ss) \in Seq(Nat) /\ Len(FlattenSeq(ss)) \in Nat
           /\ Len(FlattenSeq(ss)) = AnswerSizes(rs)
<1> DEFINE n == Len(rs)
           sizes == [i \in DOMAIN rs |-> AnswerSize(rs[i])]
<1>1. n \in Nat /\ DOMAIN rs = 1 .. n /\ \A i \in 1 .. n : rs[i] \in AnswerSet
  OBVIOUS
<1>2. \A i \in 1 .. n : AnswerToWire(rs[i]) \in Seq(Nat)
                        /\ Len(AnswerToWire(rs[i])) = AnswerSize(rs[i])
  BY <1>1, AnswerWire DEF Sound
<1>3. /\ ss = [i \in 1 .. n |-> AnswerToWire(rs[i])]
      /\ sizes = [i \in 1 .. n |-> AnswerSize(rs[i])]
  BY <1>1, Zenon
<1>a. AnswerSizes(rs) = Total(sizes)
  BY DEF AnswerSizes
<1> HIDE DEF sizes, n
<1>4. ss \in Seq(Seq(Nat)) /\ Len(ss) = n /\ Len(sizes) = n
      /\ \A i \in 1 .. n : sizes[i] = Len(ss[i])
  BY <1>1, <1>2, <1>3
<1>5. FlattenSeq(ss) \in Seq(Nat) /\ Len(FlattenSeq(ss)) \in Nat
      /\ Len(FlattenSeq(ss)) = Total(sizes)
  BY <1>4, FlattenLen
<1> QED
  BY <1>4, <1>5, <1>a

\* The header's cells.
LEMMA HeaderWire == HeaderToWire \in Seq(Nat) /\ Len(HeaderToWire) = HeaderSize
  BY PacketAssumption DEF HeaderToWire

QuestionCells(x) == FlattenSeq([i \in DOMAIN x.questions |-> QuestionToWire(x.questions[i])])
RecordCells(rs) == FlattenSeq([i \in DOMAIN rs |-> AnswerToWire(rs[i])])

\* The sections of a message, where they are in it.
Placed(c, h, q, a, n, r) ==
    /\ c \in Seq(Nat)
    /\ {Len(h), Len(q), Len(a), Len(n), Len(r)} \subseteq Nat
    /\ Len(c) = Len(h) + Len(q) + Len(a) + Len(n) + Len(r)
    /\ Holds(c, Len(h), q)
    /\ Holds(c, Len(h) + Len(q), a)
    /\ Holds(c, Len(h) + Len(q) + Len(a), n)
    /\ Holds(c, Len(h) + Len(q) + Len(a) + Len(n), r)

\* Each section stands behind the one before.
LEMMA WirePlaces ==
    ASSUME NEW h \in Seq(Nat), NEW q \in Seq(Nat), NEW a \in Seq(Nat), NEW n \in Seq(Nat),
           NEW r \in Seq(Nat)
    PROVE  Placed(h \o q \o a \o n \o r, h, q, a, n, r)
<1> DEFINE c1 == h \o q
           c2 == c1 \o a
           c3 == c2 \o n
           c == c3 \o r
<1>1. c = c3 \o r
  OBVIOUS
<1>z. c = h \o q \o a \o n \o r
  OBVIOUS
<1> HIDE DEF c
<1>2. c1 \in Seq(Nat) /\ Len(c1) = Len(h) + Len(q) /\ Len(h) \in Nat /\ Len(q) \in Nat
  BY ConcatFacts
<1>a. c1 = h \o q
  OBVIOUS
<1> HIDE DEF c1
<1>3. c2 \in Seq(Nat) /\ Len(c2) = Len(c1) + Len(a) /\ Len(a) \in Nat
  BY <1>2, ConcatFacts
<1>b. c2 = c1 \o a
  OBVIOUS
<1> HIDE DEF c2
<1>4. c3 \in Seq(Nat) /\ Len(c3) = Len(c2) + Len(n) /\ Len(n) \in Nat
  BY <1>3, ConcatFacts
<1>c. c3 = c2 \o n
  OBVIOUS
<1> HIDE DEF c3
<1>5. c \in Seq(Nat) /\ Len(c) = Len(c3) + Len(r) /\ Len(r) \in Nat
  <2>1. c3 \o r \in Seq(Nat) /\ Len(c3 \o r) = Len(c3) + Len(r) /\ Len(r) \in Nat
    BY <1>4, ConcatFacts
  <2> QED
    BY <1>1, <2>1
<1>6. Holds(c, 0, c3 \o r)
  <2>1. Holds(c, 0, c)
    BY <1>5, HoldsAll
  <2> QED
    BY <1>1, <2>1
<1>7. Holds(c, 0, c3) /\ Holds(c, 0 + Len(c3), r)
  BY <1>4, <1>5, <1>6, HoldsConcat
<1>8. Holds(c, 0, c2) /\ Holds(c, 0 + Len(c2), n)
  <2>1. Holds(c, 0, c2 \o n)
    BY <1>7, <1>c
  <2> QED
    BY <1>3, <1>5, <2>1, HoldsConcat
<1>9. Holds(c, 0, c1) /\ Holds(c, 0 + Len(c1), a)
  <2>1. Holds(c, 0, c1 \o a)
    BY <1>8, <1>b
  <2> QED
    BY <1>2, <1>5, <2>1, HoldsConcat
<1>10. Holds(c, 0 + Len(h), q)
  <2>1. Holds(c, 0, h \o q)
    BY <1>9, <1>a
  <2> QED
    BY <1>5, <2>1, HoldsConcat
<1>11. /\ 0 + Len(h) = Len(h) /\ 0 + Len(c1) = Len(h) + Len(q)
       /\ 0 + Len(c2) = Len(h) + Len(q) + Len(a)
       /\ 0 + Len(c3) = Len(h) + Len(q) + Len(a) + Len(n)
       /\ Len(c) = Len(h) + Len(q) + Len(a) + Len(n) + Len(r)
  BY <1>2, <1>3, <1>4, <1>5
<1> QED
  BY <1>2, <1>3, <1>4, <1>5, <1>7, <1>8, <1>9, <1>10, <1>11, <1>z DEF Placed

\* A packet whose header is that of a response, with the counts of its sections, and
\* whose names and records can be written.
Writable(x) ==
    /\ ~ x.header.z /\ x.header.response
    /\ x.header.qdcount = Len(x.questions) /\ x.header.ancount = Len(x.answers)
    /\ x.header.nscount = Len(x.authority) /\ x.header.arcount = Len(x.additional)
    /\ \A i \in 1 .. Len(x.questions) : Labelled(x.questions[i].name)
    /\ \A i \in 1 .. Len(x.answers) : Sound(x.answers[i])
    /\ \A i \in 1 .. Len(x.authority) : Sound(x.authority[i])
    /\ \A i \in 1 .. Len(x.additional) : Sound(x.additional[i])

\* A section of sound records has the size AnswerSizes says and is read back wherever it
\* stands; so is one of questions.
LEMMA RecordsBack ==
    ASSUME NEW rs \in Seq(AnswerSet), \A i \in 1 .. Len(rs) : Sound(rs[i])
    PROVE  /\ RecordCells(rs) \in Seq(Nat) /\ Len(RecordCells(rs)) = AnswerSizes(rs)
           /\ \A c \in Seq(Nat) : \A at \in Nat :
                 Holds(c, at, RecordCells(rs)) =>
                    /\ Section(c, at, Len(rs), "record").ok
                    /\ Section(c, at, Len(rs), "record").end = at + Len(RecordCells(rs))
                    /\ Section(c, at, Len(rs), "record").items = rs
<1> DEFINE ss == [i \in DOMAIN rs |-> AnswerToWire(rs[i])]
<1>1. RecordCells(rs) = FlattenSeq(ss)
  BY Zenon DEF RecordCells
<1>2. /\ ss \in Seq(Seq(Nat)) /\ FlattenSeq(ss) \in Seq(Nat) /\ Len(FlattenSeq(ss)) \in Nat
      /\ Len(FlattenSeq(ss)) = AnswerSizes(rs)
  BY AnswerWires
<1>3. ASSUME NEW c \in Seq(Nat), NEW at \in Nat, Holds(c, at, FlattenSeq(ss))
      PROVE  /\ Section(c, at, Len(rs), "record").ok
             /\ Section(c, at, Len(rs), "record").end = at + Len(FlattenSeq(ss))
             /\ Section(c, at, Len(rs), "record").items = rs
  <2>1. Len(ss) = Len(rs) /\ \A i \in 1 .. Len(rs) : ss[i] = AnswerToWire(rs[i])
    BY <1>2
  <2> HIDE DEF ss
  <2> QED
    BY <1>2, <1>3, <2>1, AnswersRead
<1> HIDE DEF ss
<1> QED
  BY <1>1, <1>2, <1>3

LEMMA QuestionsBack ==
    ASSUME NEW x, x.questions \in Seq(QuestionSet),
           \A i \in 1 .. Len(x.questions) : Labelled(x.questions[i].name)
    PROVE  /\ QuestionCells(x) \in Seq(Nat)
           /\ Len(QuestionCells(x)) = Total([i \in DOMAIN x.questions |-> QuestionSize(x.questions[i])])
           /\ \A c \in Seq(Nat) : \A at \in Nat :
                 Holds(c, at, QuestionCells(x)) =>
                    /\ Section(c, at, Len(x.questions), "question").ok
                    /\ Section(c, at, Len(x.questions), "question").end = at + Len(QuestionCells(x))
                    /\ Section(c, at, Len(x.questions), "question").items = x.questions
<1> DEFINE qs == x.questions
           ss == [i \in DOMAIN qs |-> QuestionToWire(qs[i])]
           sizes == [i \in DOMAIN qs |-> QuestionSize(qs[i])]
<1>1. QuestionCells(x) = FlattenSeq(ss)
  BY Zenon DEF QuestionCells
<1>2. qs \in Seq(QuestionSet) /\ \A i \in 1 .. Len(qs) : Labelled(qs[i].name)
  OBVIOUS
<1>a. sizes = [i \in DOMAIN x.questions |-> QuestionSize(x.questions[i])] /\ qs = x.questions
  OBVIOUS
<1> HIDE DEF qs
<1>3. /\ ss \in Seq(Seq(Nat)) /\ FlattenSeq(ss) \in Seq(Nat) /\ Len(FlattenSeq(ss)) \in Nat
      /\ Len(FlattenSeq(ss)) = Total(sizes)
  BY <1>2, QuestionWires
<1>4. ASSUME NEW c \in Seq(Nat), NEW at \in Nat, Holds(c, at, FlattenSeq(ss))
      PROVE  /\ Section(c, at, Len(qs), "question").ok
             /\ Section(c, at, Len(qs), "question").end = at + Len(FlattenSeq(ss))
             /\ Section(c, at, Len(qs), "question").items = qs
  <2>1. Len(ss) = Len(qs) /\ \A i \in 1 .. Len(qs) : ss[i] = QuestionToWire(qs[i])
    BY <1>2
  <2> HIDE DEF ss
  <2> QED
    BY <1>2, <1>3, <1>4, <2>1, QuestionsRead
<1> HIDE DEF ss, sizes
<1> QED
  BY <1>1, <1>3, <1>4, <1>a

\* Such a packet is read back.
LEMMA WholeRead ==
    ASSUME NEW x \in ObjectSet, Writable(x)
    PROVE  Len(ToWire(x)) = WireSize(x) /\ FromWire(x.header, ToWire(x)) = x
<1> DEFINE h == HeaderToWire
           q == QuestionCells(x)
           a == RecordCells(x.answers)
           n == RecordCells(x.authority)
           r == RecordCells(x.additional)
           c == ToWire(x)
<1>1. c = h \o q \o a \o n \o r
  BY Zenon DEF ToWire, QuestionCells, RecordCells
<1>2. /\ x.questions \in Seq(QuestionSet) /\ x.answers \in Seq(AnswerSet)
      /\ x.authority \in Seq(AnswerSet) /\ x.additional \in Seq(AnswerSet)
      /\ x = [header |-> x.header, questions |-> x.questions, answers |-> x.answers,
              authority |-> x.authority, additional |-> x.additional]
  BY DEF ObjectSet
<1>3. /\ ~ x.header.z /\ x.header.response
      /\ x.header.qdcount = Len(x.questions) /\ x.header.ancount = Len(x.answers)
      /\ x.header.nscount = Len(x.authority) /\ x.header.arcount = Len(x.additional)
      /\ \A i \in 1 .. Len(x.questions) : Labelled(x.questions[i].name)
      /\ \A i \in 1 .. Len(x.answers) : Sound(x.answers[i])
      /\ \A i \in 1 .. Len(x.authority) : Sound(x.authority[i])
      /\ \A i \in 1 .. Len(x.additional) : Sound(x.additional[i])
  BY Zenon DEF Writable
<1>h. h \in Seq(Nat) /\ Len(h) = HeaderSize
  BY HeaderWire
<1>q. /\ q \in Seq(Nat)
      /\ Len(q) = Total([i \in DOMAIN x.questions |-> QuestionSize(x.questions[i])])
      /\ \A d \in Seq(Nat) : \A at \in Nat :
            Holds(d, at, q) =>
               /\ Section(d, at, Len(x.questions), "question").ok
               /\ Section(d, at, Len(x.questions), "question").end = at + Len(q)
               /\ Section(d, at, Len(x.questions), "question").items = x.questions
  BY <1>2, <1>3, QuestionsBack
<1>a. /\ a \in Seq(Nat) /\ Len(a) = AnswerSizes(x.answers)
      /\ \A d \in Seq(Nat) : \A at \in Nat :
            Holds(d, at, a) =>
               /\ Section(d, at, Len(x.answers), "record").ok
               /\ Section(d, at, Len(x.answers), "record").end = at + Len(a)
               /\ Section(d, at, Len(x.answers), "record").items = x.answers
  BY <1>2, <1>3, RecordsBack
<1>n. /\ n \in Seq(Nat) /\ Len(n) = AnswerSizes(x.authority)
      /\ \A d \in Seq(Nat) : \A at \in Nat :
            Holds(d, at, n) =>
               /\ Section(d, at, Len(x.authority), "record").ok
               /\ Section(d, at, Len(x.authority), "record").end = at + Len(n)
               /\ Section(d, at, Len(x.authority), "record").items = x.authority
  BY <1>2, <1>3, RecordsBack
<1>r. /\ r \in Seq(Nat) /\ Len(r) = AnswerSizes(x.additional)
      /\ \A d \in Seq(Nat) : \A at \in Nat :
            Holds(d, at, r) =>
               /\ Section(d, at, Len(x.additional), "record").ok
               /\ Section(d, at, Len(x.additional), "record").end = at + Len(r)
               /\ Section(d, at, Len(x.additional), "record").items = x.additional
  BY <1>2, <1>3, RecordsBack
<1>w. WireSize(x) = HeaderSize
         + Total([i \in DOMAIN x.questions |-> QuestionSize(x.questions[i])])
         + AnswerSizes(x.answers) + AnswerSizes(x.authority) + AnswerSizes(x.additional)
  BY Zenon DEF WireSize
<1> HIDE DEF h, q, a, n, r, c
<1>t. h \in Seq(Nat) /\ q \in Seq(Nat) /\ a \in Seq(Nat) /\ n \in Seq(Nat) /\ r \in Seq(Nat)
  BY <1>h, <1>q, <1>a, <1>n, <1>r
<1>4. /\ c \in Seq(Nat)
      /\ {Len(h), Len(q), Len(a), Len(n), Len(r)} \subseteq Nat
      /\ Len(c) = Len(h) + Len(q) + Len(a) + Len(n) + Len(r)
      /\ Holds(c, Len(h), q)
      /\ Holds(c, Len(h) + Len(q), a)
      /\ Holds(c, Len(h) + Len(q) + Len(a), n)
      /\ Holds(c, Len(h) + Len(q) + Len(a) + Len(n), r)
  <2>1. Placed(h \o q \o a \o n \o r, h, q, a, n, r)
    BY <1>t, WirePlaces
  <2> QED
    BY <1>1, <2>1 DEF Placed
<1>5. Len(c) = WireSize(x)
  BY <1>4, <1>h, <1>q, <1>a, <1>n, <1>r, <1>w, Zenon
<1> DEFINE p1 == Len(h) + Len(q)
           p2 == p1 + Len(a)
           p3 == p2 + Len(n)
           p4 == p3 + Len(r)
<1>6. Len(h) \in Nat /\ p1 \in Nat /\ p2 \in Nat /\ p3 \in Nat /\ p4 \in Nat /\ ~ (Len(c) < HeaderSize)
  BY <1>4, <1>h
<1>7. /\ Holds(c, Len(h), q) /\ Holds(c, p1, a) /\ Holds(c, p2, n) /\ Holds(c, p3, r)
  BY <1>4
<1> DEFINE qd == Section(c, HeaderSize, x.header.qdcount, "question")
           an == Section(c, qd.end, x.header.ancount, "record")
           ns == Section(c, an.end, x.header.nscount, "record")
           ar == Section(c, ns.end, x.header.arcount, "record")
<1>8. qd.ok /\ qd.end = p1 /\ qd.items = x.questions
  <2>1. /\ Section(c, Len(h), Len(x.questions), "question").ok
        /\ Section(c, Len(h), Len(x.questions), "question").end = Len(h) + Len(q)
        /\ Section(c, Len(h), Len(x.questions), "question").items = x.questions
    BY <1>4, <1>6, <1>7, <1>q
  <2> QED
    BY <1>3, <1>h, <2>1, Zenon
<1> HIDE DEF p1
<1>9. an.ok /\ an.end = p2 /\ an.items = x.answers
  <2>1. /\ Section(c, p1, Len(x.answers), "record").ok
        /\ Section(c, p1, Len(x.answers), "record").end = p1 + Len(a)
        /\ Section(c, p1, Len(x.answers), "record").items = x.answers
    BY <1>4, <1>6, <1>7, <1>a
  <2> QED
    BY <1>3, <1>8, <2>1, Zenon
<1> HIDE DEF p2, qd
<1>10. ns.ok /\ ns.end = p3 /\ ns.items = x.authority
  <2>1. /\ Section(c, p2, Len(x.authority), "record").ok
        /\ Section(c, p2, Len(x.authority), "record").end = p2 + Len(n)
        /\ Section(c, p2, Len(x.authority), "record").items = x.authority
    BY <1>4, <1>6, <1>7, <1>n
  <2> QED
    BY <1>3, <1>9, <2>1, Zenon
<1> HIDE DEF p3, an
<1>11. ar.ok /\ ar.items = x.additional
  <2>1. /\ Section(c, p3, Len(x.additional), "record").ok
        /\ Section(c, p3, Len(x.additional), "record").items = x.additional
    BY <1>4, <1>6, <1>7, <1>r
  <2> QED
    BY <1>3, <1>10, <2>1, Zenon
<1> HIDE DEF ns, ar
<1>12. FromWire(x.header, c) =
          IF \/ Len(c) < HeaderSize \/ x.header.z \/ ~ x.header.response
             \/ ~ qd.ok \/ ~ an.ok \/ ~ ns.ok \/ ~ ar.ok
            THEN NoObject
            ELSE [header |-> x.header, questions |-> qd.items, answers |-> an.items,
                  authority |-> ns.items, additional |-> ar.items]
  BY Zenon DEF FromWire, qd, an, ns, ar
<1>13. FromWire(x.header, c) = [header |-> x.header, questions |-> qd.items,
          answers |-> an.items, authority |-> ns.items, additional |-> ar.items]
  BY <1>3, <1>6, <1>8, <1>9, <1>10, <1>11, <1>12, Zenon
<1>14. FromWire(x.header, c) = x
  BY <1>2, <1>8, <1>9, <1>10, <1>11, <1>13, Zenon
<1> QED
  BY <1>5, <1>14 DEF c

\* The items of a section.
LEMMA QuestionItems ==
    ASSUME NEW c \in Seq(Nat), NEW from \in Nat, NEW count \in Nat,
           Section(c, from, count, "question").ok
    PROVE  /\ Section(c, from, count, "question").end \in Nat
           /\ Section(c, from, count, "question").items \in Seq(QuestionSet)
           /\ Len(Section(c, from, count, "question").items) = count
           /\ \A i \in 1 .. count : Labelled(Section(c, from, count, "question").items[i].name)
<1> DEFINE s == Section(c, from, count, "question")
           its == s.items
<1>1. s \in States /\ Len(its) = count
  BY SectionParsed
<1>2. PICK place : Steps(place, c, from, "question", its, s.end)
  BY SectionParsed
<1> HIDE DEF s
<1>3. s.end \in Nat /\ its \in Seq(ItemSet)
  BY <1>1 DEF States
<1> HIDE DEF its
<1>4. /\ place \in [0 .. count -> Nat]
      /\ \A i \in 1 .. count : /\ ReadOne(c, place[i - 1], "question").ok
                               /\ ReadOne(c, place[i - 1], "question").item = its[i]
  BY <1>1, <1>2 DEF Steps
<1>5. ASSUME NEW i \in 1 .. count PROVE its[i] \in QuestionSet /\ Labelled(its[i].name)
  <2> DEFINE p == place[i - 1]
  <2>1. p \in Nat
    BY <1>4
  <2>2. ReadOne(c, p, "question") = QuestionFromWire(c, p)
    BY DEF ReadOne
  <2>3. ReadOne(c, p, "question").ok /\ ReadOne(c, p, "question").item = its[i]
    BY <1>4
  <2> HIDE DEF p
  <2>4. QuestionFromWire(c, p).ok /\ QuestionFromWire(c, p).item = its[i]
    BY <2>2, <2>3, Zenon
  <2> QED
    BY <2>1, <2>4, QuestionParsed
<1>6. its \in Seq(QuestionSet)
  BY <1>1, <1>3, <1>5
<1> QED
  BY <1>1, <1>3, <1>5, <1>6 DEF s, its

\* And those of a section of records.
LEMMA RecordItems ==
    ASSUME NEW c \in Seq(Nat), NEW from \in Nat, NEW count \in Nat,
           Section(c, from, count, "record").ok
    PROVE  /\ Section(c, from, count, "record").end \in Nat
           /\ Section(c, from, count, "record").items \in Seq(AnswerSet)
           /\ Len(Section(c, from, count, "record").items) = count
           /\ \A i \in 1 .. count : Labelled(Section(c, from, count, "record").items[i].name)
<1> DEFINE s == Section(c, from, count, "record")
           its == s.items
<1>1. s \in States /\ Len(its) = count
  BY SectionParsed
<1>2. PICK place : Steps(place, c, from, "record", its, s.end)
  BY SectionParsed
<1> HIDE DEF s
<1>3. s.end \in Nat /\ its \in Seq(ItemSet)
  BY <1>1 DEF States
<1> HIDE DEF its
<1>4. /\ place \in [0 .. count -> Nat]
      /\ \A i \in 1 .. count : /\ ReadOne(c, place[i - 1], "record").ok
                               /\ ReadOne(c, place[i - 1], "record").item = its[i]
  BY <1>1, <1>2 DEF Steps
<1>5. ASSUME NEW i \in 1 .. count PROVE its[i] \in AnswerSet /\ Labelled(its[i].name)
  <2> DEFINE p == place[i - 1]
             e == ParseDomainName(c, p).end
  <2>1. p \in Nat
    BY <1>4
  <2>2. ReadOne(c, p, "record") = AnswerFromWire(c, p)
    BY DEF ReadOne
  <2>3. ReadOne(c, p, "record").ok /\ ReadOne(c, p, "record").item = its[i]
    BY <1>4
  <2> HIDE DEF p
  <2>4. AnswerFromWire(c, p).ok /\ AnswerFromWire(c, p).item = its[i]
    BY <2>2, <2>3, Zenon
  <2>5. e \in Nat
    <3>1. ParseDomainName(c, p) \in Parses
      BY <2>1, ParsedName
    <3> QED
      BY <3>1 DEF Parses
  <2>6. e = ParseDomainName(c, p).end
    OBVIOUS
  <2> HIDE DEF e
  <2>7. RecordAt(c, p, e)
    BY <2>1, <2>4, <2>5, <2>6, AnswerParsed
  <2> QED
    BY <2>4, <2>7 DEF RecordAt
<1>6. its \in Seq(AnswerSet)
  BY <1>1, <1>3, <1>5
<1> QED
  BY <1>1, <1>3, <1>5, <1>6 DEF s, its

-----------------------------------------------------------------------------
(* The object *)

\* The request's question can be taken over: its labels begin in the packet, and
\* its tail is there once the questions are read.
QInv == /\ \A i \in DOMAIN name.labels : name.labels[i] < Size
        /\ phase = "accepted" => packet.header.qdcount = 1
        /\ phase \in {"record", "accepted"} /\ packet.header.qdcount # 0 =>
              NameEnd(name.start) < Size

\* The parser does not write to the packet.
LEMMA NextPacket == Next => packet' = packet
<1> SUFFICES ASSUME Next PROVE packet' = packet
  OBVIOUS
<1>1. CASE ReadHeader
  BY <1>1 DEF ReadHeader, Reject
<1>2. CASE NameEnds \/ FollowPointer \/ ReadLabel \/ NameRunsOut \/ QuestionEnds
  BY <1>2 DEF NameEnds, FollowPointer, ReadLabel, NameRunsOut, QuestionEnds, Reject
<1>3. CASE NotAQuery \/ RecordCut \/ OtherRecord \/ RecordsEnd
  BY <1>3 DEF NotAQuery, RecordCut, OtherRecord, RecordsEnd, Accept, Skip, Reject
<1>4. CASE SecondOpt \/ NamedOpt \/ BadRdata \/ GoodOpt
  BY <1>4 DEF SecondOpt, NamedOpt, BadRdata, GoodOpt, Accept, Skip
<1> QED
  BY <1>1, <1>2, <1>3, <1>4 DEF Next

\* A step that leaves the name alone keeps QInv; so does one to the next question, and
\* then every step of the parser.
LEMMA QuestionKept ==
    ASSUME QInv, packet' = packet, name' = name,
           phase' \in {"record", "accepted"} => phase = phase' \/ phase = "record",
           phase' = "accepted" => packet.header.qdcount = 1
    PROVE  QInv'
<1>1. Size' = Size
  BY SamePacket
<1>2. \A i : NameEnd(i)' = NameEnd(i)
  BY SamePacket
<1>3. NameEnd(name.start)' = NameEnd(name.start)
  BY DEF NameEnd, Size, Cell
<1> QED
  BY <1>1, <1>3 DEF QInv

LEMMA QuestionBegins ==
    ASSUME QInv, NEW n \in Nat, BeginQuestion(n), packet' = packet,
           packet.header.qdcount \in Nat,
           n >= packet.header.qdcount /\ packet.header.qdcount # 0 =>
              NameEnd(name.start) < Size
    PROVE  QInv'
<1>1. Size' = Size
  BY SamePacket
<1>2. CASE n < packet.header.qdcount
  <2>1. phase' = "name" /\ name'.labels = <<>>
    BY <1>2 DEF BeginQuestion, NoName
  <2> QED
    BY <2>1 DEF QInv
<1>3. CASE ~ (n < packet.header.qdcount)
  <2>1. phase' = "record" /\ name' = name
    BY <1>3 DEF BeginQuestion
  <2>2. NameEnd(name.start)' = NameEnd(name.start)
    BY <2>1 DEF NameEnd, Size, Cell
  <2>3. packet.header.qdcount # 0 => NameEnd(name.start) < Size
    BY <1>3
  <2> QED
    BY <1>1, <2>1, <2>2, <2>3 DEF QInv
<1> QED
  BY <1>2, <1>3

LEMMA QuestionNext == ASSUME IInv, QInv, Next PROVE QInv'
<1>0. packet' = packet
  BY NextPacket
<1>s. /\ CellsOK /\ Size \in Nat /\ packet.header.qdcount \in Nat /\ name.at \in Nat
      /\ offset \in Nat /\ questions \in Nat /\ name.labels \in Seq(Nat)
  BY HeaderFacts DEF IInv, PacketsOK, TypeOK
<1>r. CASE Reject
  BY <1>0, <1>r, QuestionKept DEF Reject
<1>1. CASE ReadHeader
  <2>1. CASE BeginQuestion(0)
    <3>1. 0 >= packet.header.qdcount /\ packet.header.qdcount # 0 => NameEnd(name.start) < Size
      BY <1>s
    <3> QED
      BY <1>0, <1>s, <2>1, <3>1, QuestionBegins
  <2> QED
    BY <1>1, <1>r, <2>1 DEF ReadHeader
<1>2. CASE NameEnds
  BY <1>0, <1>2, QuestionKept DEF NameEnds
<1>3. CASE FollowPointer
  <2>1. CASE ~ Reject
    <3>1. /\ phase' = "name" /\ name'.labels = name.labels
      BY <1>3, <2>1 DEF FollowPointer, Reading, IInv, PacketsOK
    <3>2. Size' = Size
      BY <1>0, SamePacket
    <3> QED
      BY <3>1, <3>2 DEF QInv
  <2> QED
    BY <1>r, <2>1
<1>4. CASE ReadLabel
  <2>1. CASE ~ Reject
    <3>1. /\ phase' = "name" /\ name'.labels = Append(name.labels, name.at) /\ name.at < Size
      BY <1>4, <2>1 DEF ReadLabel, Reading, IInv, PacketsOK
    <3>2. Size' = Size
      BY <1>0, SamePacket
    <3>3. \A i \in DOMAIN name.labels : name.labels[i] < Size
      BY DEF QInv
    <3> DEFINE labels == name.labels
               at == name.at
    <3>4. labels \in Seq(Nat) /\ at \in Nat /\ at < Size
          /\ \A i \in DOMAIN labels : labels[i] < Size
      BY <1>s, <3>1, <3>3
    <3>a. name'.labels = Append(labels, at)
      BY <3>1
    <3> HIDE DEF labels, at
    <3>5. \A i \in DOMAIN Append(labels, at) : Append(labels, at)[i] < Size
      <4> TAKE i \in DOMAIN Append(labels, at)
      <4>1. Append(labels, at)[i] = at \/ (i \in DOMAIN labels /\ Append(labels, at)[i] = labels[i])
        BY <3>4
      <4> QED
        BY <3>4, <4>1
    <3> QED
      BY <3>1, <3>2, <3>5, <3>a DEF QInv
  <2> QED
    BY <1>r, <2>1
<1>5. CASE NameRunsOut \/ NotAQuery
  BY <1>5, <1>r DEF NameRunsOut, NotAQuery
<1>6. CASE QuestionEnds
  <2>1. CASE ~ Reject
    <3>1. phase = "tail" /\ BeginQuestion(questions + 1) /\ ~ (offset + 1 > Size)
      BY <1>6, <2>1 DEF QuestionEnds, QuestionTail
    <3>2. offset = NameEnd(name.start)
      BY <3>1 DEF IInv, WalkersAgree
    <3>3. NameEnd(name.start) < Size /\ questions + 1 \in Nat
      BY <1>s, <3>1, <3>2
    <3> QED
      BY <1>0, <1>s, <3>1, <3>3, QuestionBegins
  <2> QED
    BY <1>r, <2>1
<1>7. CASE RecordCut \/ BadRdata \/ RecordsEnd
  <2>1. phase = "record" /\ name' = name
        /\ phase' = IF packet.header.qdcount = 1 THEN "accepted" ELSE "rejected"
    BY <1>7 DEF RecordCut, BadRdata, RecordsEnd, FirstOpt, AnOpt, InRecords, Accept
  <2> QED
    BY <1>0, <2>1, QuestionKept
<1>8. CASE OtherRecord \/ SecondOpt \/ NamedOpt \/ GoodOpt
  <2>1. phase = "record" /\ name' = name /\ phase' = phase
    BY <1>8 DEF OtherRecord, SecondOpt, NamedOpt, GoodOpt, FirstOpt, AnOpt, InRecords, Skip
  <2> QED
    BY <1>0, <2>1, QuestionKept
<1> QED
  BY <1>1, <1>2, <1>3, <1>4, <1>5, <1>6, <1>7, <1>8 DEF Next

\* Parts that are cells, and parts that are labels.
LEMMA FlattenCells ==
    ASSUME NEW ss \in Seq(Seq(Nat))
    PROVE  FlattenSeq(ss) \in Seq(Nat)
  BY FlattenFacts

LEMMA FlattenLabels ==
    ASSUME NEW ss \in Seq(Seq(Seq(Nat)))
    PROVE  FlattenSeq(ss) \in Seq(Seq(Nat))
<1> DEFINE T == Seq(Nat)
<1>1. ss \in Seq(Seq(T))
  OBVIOUS
<1> HIDE DEF T
<1>2. FlattenSeq(ss) \in Seq(T)
  BY <1>1, FlattenFacts
<1> QED
  BY <1>2 DEF T

\* The names, records and questions the factories make are well typed: the labels
\* SetName keeps,
LEMMA SetNameType ==
    ASSUME NEW labels \in Seq(Seq(Nat))
    PROVE  SetName(labels) \in Seq(Seq(Nat))
<1> DEFINE One(l) == IF IsValidLabel(l) THEN <<l>> ELSE <<>>
           ss == [i \in DOMAIN labels |-> One(labels[i])]
           T == Seq(Seq(Nat))
<1>1. \A i \in 1 .. Len(labels) : One(labels[i]) \in T
  <2> TAKE i \in 1 .. Len(labels)
  <2>1. labels[i] \in Seq(Nat)
    OBVIOUS
  <2>2. <<labels[i]>> \in T /\ <<>> \in T
    BY <2>1
  <2> QED
    BY <2>2, Zenon
<1>2. SetName(labels) = FlattenSeq(ss)
  BY Zenon DEF SetName
<1> HIDE DEF T
<1>a. DOMAIN ss = 1 .. Len(labels) /\ Len(labels) \in Nat /\ \A i \in 1 .. Len(labels) : ss[i] \in T
  BY <1>1
<1>b. ss = [i \in 1 .. Len(labels) |-> ss[i]]
  OBVIOUS
<1> HIDE DEF ss, One
<1>3. ss \in Seq(T)
  BY <1>a, <1>b
<1>4. ss \in Seq(Seq(Seq(Nat)))
  BY <1>3 DEF T
<1> QED
  BY <1>2, <1>4, FlattenLabels

\* an address's digits and groups,
LEMMA DigitsType ==
    ASSUME NEW g \in Seq(Nat)
    PROVE  Digits(g) \in Seq(Nat)
<1> DEFINE zeros == [i \in 1 .. GroupDigits |-> 0]
           filled == zeros \o g
           n == Len(g)
<1>1. GroupDigits \in Nat
  BY TextAssumption
<1>2. zeros \in Seq(Nat) /\ Len(zeros) = GroupDigits
  BY <1>1
<1>3. Digits(g) = SubSeq(filled, Len(filled) - GroupDigits + 1, Len(filled))
  BY DEF Digits
<1> HIDE DEF zeros
<1>4. filled \in Seq(Nat) /\ Len(filled) = GroupDigits + n /\ n \in Nat
  BY <1>2, ConcatFacts
<1> HIDE DEF filled
<1>5. Len(filled) - GroupDigits + 1 = n + 1 /\ Len(filled) = n + GroupDigits
      /\ n + GroupDigits <= Len(filled)
  BY <1>1, <1>4
<1>6. SubSeq(filled, n + 1, n + GroupDigits) \in Seq(Nat)
  BY <1>1, <1>4, <1>5, SubSeqType
<1> QED
  BY <1>3, <1>5, <1>6

LEMMA GroupsType ==
    ASSUME NEW a \in Addresses
    PROVE  /\ Groups(a) \in Seq(Seq(Nat))
           /\ Groups(a) # <<>> => Len(Groups(a)) = Ipv6Groups
<1> DEFINE missing == Ipv6Groups - Len(a.left) - Len(a.right)
           middle == IF a.gap THEN [i \in 1 .. missing |-> <<0>>] ELSE <<>>
           all == a.left \o middle \o a.right
           T == Seq(Nat)
<1>1. /\ a.left \in Seq(Seq(Nat)) /\ a.right \in Seq(Seq(Nat)) /\ Ipv6Groups \in Nat
  BY TextAssumption
<1>2. Groups(a) = IF (a.gap /\ missing < 0) \/ Len(all) # Ipv6Groups THEN <<>> ELSE all
  BY Zenon DEF Groups
<1>m. missing \in Int
  BY <1>1
<1> HIDE DEF missing
<1>3. CASE ~ ((a.gap /\ missing < 0) \/ Len(all) # Ipv6Groups)
  <2>1. Groups(a) = all /\ Len(all) = Ipv6Groups /\ ~ (a.gap /\ missing < 0)
    BY <1>2, <1>3, Zenon
  <2>2. middle \in Seq(T)
    <3>1. CASE a.gap
      <4>1. missing \in Nat
        BY <1>m, <2>1, <3>1
      <4>2. <<0>> \in T
        OBVIOUS
      <4> HIDE DEF T
      <4>3. [i \in 1 .. missing |-> <<0>>] \in Seq(T)
        BY <4>1, <4>2
      <4> QED
        BY <3>1, <4>3
    <3>2. CASE ~ a.gap
      BY <3>2
    <3> QED
      BY <3>1, <3>2
  <2> DEFINE l == a.left
             r == a.right
  <2>3. l \in Seq(T) /\ r \in Seq(T) /\ all = l \o middle \o r
    BY <1>1
  <2> HIDE DEF l, r, middle, T, all
  <2>4. l \o middle \in Seq(T)
    BY <2>2, <2>3, ConcatFacts
  <2> DEFINE lm == l \o middle
  <2>5. lm \in Seq(T) /\ all = lm \o r
    BY <2>3, <2>4
  <2> HIDE DEF lm
  <2>6. lm \o r \in Seq(T)
    BY <2>3, <2>5, ConcatFacts
  <2> QED
    BY <2>1, <2>5, <2>6 DEF T
<1>4. CASE (a.gap /\ missing < 0) \/ Len(all) # Ipv6Groups
  <2>1. Groups(a) = <<>>
    BY <1>2, <1>4, Zenon
  <2> QED
    BY <2>1
<1> QED
  BY <1>3, <1>4

LEMMA CellsMapped ==
    ASSUME NEW n \in Nat, NEW f, DOMAIN f = 1 .. n, \A i \in 1 .. n : f[i] \in Seq(Nat),
           f = [i \in 1 .. n |-> f[i]]
    PROVE  f \in Seq(Seq(Nat)) /\ FlattenSeq(f) \in Seq(Nat)
<1>1. f \in Seq(Seq(Nat))
  OBVIOUS
<1> QED
  BY <1>1, FlattenCells

LEMMA AddressDigits ==
    ASSUME NEW a \in Addresses
    PROVE  /\ FlattenSeq([i \in DOMAIN Groups(a) |-> Digits(Groups(a)[i])]) \in Seq(Nat)
           /\ Groups(a) # <<>> =>
                 FlattenSeq([i \in 1 .. Ipv6Groups |-> Digits(Groups(a)[i])]) \in Seq(Nat)
<1> DEFINE gs == Groups(a)
           n == Len(gs)
           f == [i \in 1 .. n |-> Digits(gs[i])]
<1>1. gs \in Seq(Seq(Nat)) /\ (gs # <<>> => Len(gs) = Ipv6Groups)
  BY GroupsType
<1> HIDE DEF gs
<1>2. n \in Nat /\ DOMAIN gs = 1 .. n /\ \A i \in 1 .. n : gs[i] \in Seq(Nat)
  BY <1>1
<1>3. \A i \in 1 .. n : Digits(gs[i]) \in Seq(Nat)
  BY <1>2, DigitsType
<1>4. DOMAIN f = 1 .. n /\ \A i \in 1 .. n : f[i] \in Seq(Nat)
  BY <1>3
<1>5. f = [i \in 1 .. n |-> f[i]]
  OBVIOUS
<1>6. f = [i \in DOMAIN gs |-> Digits(gs[i])]
  BY <1>2
<1>7. gs # <<>> => f = [i \in 1 .. Ipv6Groups |-> Digits(gs[i])]
  BY <1>1
<1> HIDE DEF f
<1>8. FlattenSeq(f) \in Seq(Nat)
  BY <1>2, <1>4, <1>5, CellsMapped
<1> QED
  BY <1>6, <1>7, <1>8, Zenon DEF gs

\* a reverse query and the others,
LEMMA PtrQueryType ==
    ASSUME NEW a \in Addresses
    PROVE  MakePtrQuery(a) \in QuestionSet
<1> DEFINE digits == FlattenSeq([i \in DOMAIN Groups(a) |-> Digits(Groups(a)[i])])
           labels == [i \in DOMAIN digits |-> <<Ascii + digits[i]>>]
           back == Reverse(labels) \o <<Arpa>>
           T == Seq(Nat)
<1>1. digits \in Seq(Nat)
  BY AddressDigits
<1>2. Arpa \in T /\ Ascii \in Nat /\ NS \in Nat
  BY TextAssumption
<1>3. MakePtrQuery(a).name \in {<<>>, back} /\ MakePtrQuery(a).tail = NS
      /\ MakePtrQuery(a) = [name |-> MakePtrQuery(a).name, tail |-> NS]
  BY DEF MakePtrQuery
<1> HIDE DEF digits
<1>4. labels \in Seq(T)
  <2>1. \A i \in 1 .. Len(digits) : Ascii + digits[i] \in Nat
    BY <1>1, <1>2
  <2>2. \A i \in 1 .. Len(digits) : <<Ascii + digits[i]>> \in T
    BY <2>1
  <2> HIDE DEF T
  <2> QED
    BY <1>1, <2>2
<1> HIDE DEF labels, T
<1>5. Reverse(labels) \in Seq(T)
  BY <1>4 DEF Reverse
<1>6. <<Arpa>> \in Seq(T)
  BY <1>2
<1> DEFINE u == Reverse(labels)
           v == <<Arpa>>
<1>7. u \in Seq(T) /\ v \in Seq(T) /\ back = u \o v
  BY <1>5, <1>6
<1> HIDE DEF u, v, back
<1>8. u \o v \in Seq(T) /\ <<>> \in Seq(T)
  BY <1>7, ConcatFacts
<1>9. MakePtrQuery(a).name \in Seq(T)
  BY <1>3, <1>7, <1>8
<1> QED
  BY <1>2, <1>3, <1>9 DEF QuestionSet, T

LEMMA QueriesType ==
    ASSUME NEW n \in Names
    PROVE  /\ MakeQuery(n, A) \in QuestionSet
           /\ [name |-> n, tail |-> A] \in QuestionSet
<1>1. n \in Seq(Seq(Nat)) /\ A \in Nat
  BY TextAssumption
<1>2. SetName(n) \in Seq(Seq(Nat))
  BY <1>1, SetNameType
<1> QED
  BY <1>1, <1>2 DEF MakeQuery, QuestionSet

\* records with names, texts and octets, and addresses,
LEMMA NameRecords ==
    ASSUME NEW n \in Names, NEW m \in Names
    PROVE  /\ MakeNsRecord(n, m) \in AnswerSet
           /\ MakeMxRecord(n, m, 0) \in AnswerSet
           /\ Answer(n, MX, 1, <<>>) \in AnswerSet
           /\ Answer(n, SOA, 1, <<0, 0, 1>>) \in AnswerSet
           /\ Answer(n, A, 1, [i \in 1 .. 2 ^ RdlengthWidth |-> 0]) \in AnswerSet
<1> DEFINE d == EncodeDomainLabels(SetName(m))
           zeros == [i \in 1 .. 2 ^ RdlengthWidth |-> 0]
<1>1. /\ n \in Seq(Seq(Nat)) /\ m \in Seq(Seq(Nat))
      /\ NS \in Nat /\ MX \in Nat /\ SOA \in Nat /\ A \in Nat
  BY TextAssumption
<1>2. SetName(n) \in Seq(Seq(Nat)) /\ SetName(m) \in Seq(Seq(Nat))
  BY <1>1, SetNameType
<1>3. d \in Seq(Nat)
  BY <1>2, EncodedType
<1>4. <<0>> \o d \in Seq(Nat)
  BY <1>3
<1>5. zeros \in Seq(Nat)
  <2>1. 2 ^ RdlengthWidth \in Int
    BY ResponseAssumption
  <2> DEFINE top == 2 ^ RdlengthWidth
  <2>2. top \in Int
    BY <2>1
  <2> HIDE DEF top
  <2>3. CASE top \in Nat
    <3>1. [i \in 1 .. top |-> 0] \in Seq(Nat)
      BY <2>3
    <3> QED
      BY <3>1 DEF top
  <2>4. CASE top \notin Nat
    <3>1. 1 .. top = {}
      BY <2>2, <2>4
    <3>2. [i \in 1 .. top |-> 0] = <<>>
      BY <3>1
    <3>a. <<>> \in Seq(Nat)
      OBVIOUS
    <3>3. [i \in 1 .. top |-> 0] \in Seq(Nat)
      BY <3>2, <3>a, Zenon
    <3> QED
      BY <3>3 DEF top
  <2> QED
    BY <2>3, <2>4
<1>6. MakeNsRecord(n, m) \in AnswerSet
  BY <1>1, <1>2, <1>3, AnswerType DEF MakeNsRecord
<1>7. MakeMxRecord(n, m, 0) \in AnswerSet
  BY <1>1, <1>2, <1>4, AnswerType DEF MakeMxRecord
<1>8. Answer(n, MX, 1, <<>>) \in AnswerSet
  <2>1. <<>> \in Seq(Nat)
    OBVIOUS
  <2> QED
    BY <1>1, <2>1, AnswerType
<1>9. Answer(n, SOA, 1, <<0, 0, 1>>) \in AnswerSet
  <2>1. <<0, 0, 1>> \in Seq(Nat)
    OBVIOUS
  <2> QED
    BY <1>1, <2>1, AnswerType
<1> HIDE DEF zeros
<1>10. Answer(n, A, 1, zeros) \in AnswerSet
  BY <1>1, <1>5, AnswerType
<1> QED
  BY <1>6, <1>7, <1>8, <1>9, <1>10 DEF zeros

LEMMA TextRecords ==
    ASSUME NEW n \in Names, NEW m \in Names \ {<<>>}
    PROVE  MakeARecords(n, m[1]) \subseteq AnswerSet /\ MakeTxtRecords(n, m[1]) \subseteq AnswerSet
<1> DEFINE text == m[1]
<1>1. /\ n \in Seq(Seq(Nat)) /\ m \in Seq(Seq(Nat)) /\ m # <<>>
      /\ A \in Nat /\ TXT \in Nat /\ OctetsPerIpv4 \in Nat /\ Octet \subseteq Nat
  BY TextAssumption
<1>2. SetName(n) \in Seq(Seq(Nat))
  BY <1>1, SetNameType
<1>3. text \in Seq(Nat)
  BY <1>1
<1> HIDE DEF text
<1>4. Len(text) \in Nat /\ <<Len(text)>> \o text \in Seq(Nat)
  BY <1>3
<1>5. MakeARecords(n, text) \subseteq AnswerSet
  <2>1. Answer(SetName(n), A, 0, text) \in AnswerSet
    BY <1>1, <1>2, <1>3, AnswerType
  <2> QED
    BY <2>1 DEF MakeARecords
<1>6. MakeTxtRecords(n, text) \subseteq AnswerSet
  <2> DEFINE d == <<Len(text)>> \o text
  <2>1. d \in Seq(Nat)
    BY <1>4
  <2>2. MakeTxtRecords(n, text) \subseteq {Answer(SetName(n), TXT, 0, d)}
    BY DEF MakeTxtRecords
  <2> HIDE DEF d
  <2>3. Answer(SetName(n), TXT, 0, d) \in AnswerSet
    BY <1>1, <1>2, <2>1, AnswerType
  <2> QED
    BY <2>2, <2>3
<1> QED
  BY <1>5, <1>6 DEF text

LEMMA AddressRecords ==
    ASSUME NEW n \in Names, NEW a \in Addresses
    PROVE  MakeAaaaRecords(n, a) \subseteq AnswerSet
<1> DEFINE d == FlattenSeq([i \in 1 .. Ipv6Groups |-> Digits(Groups(a)[i])])
<1>1. n \in Seq(Seq(Nat)) /\ AAAA \in Nat
  BY TextAssumption
<1>2. SetName(n) \in Seq(Seq(Nat))
  BY <1>1, SetNameType
<1>3. Groups(a) # <<>> => d \in Seq(Nat)
  BY AddressDigits
<1>4. MakeAaaaRecords(n, a) # {} =>
         Groups(a) # <<>> /\ MakeAaaaRecords(n, a) = {Answer(SetName(n), AAAA, 0, d)}
  BY Zenon DEF MakeAaaaRecords
<1> HIDE DEF d
<1>5. d \in Seq(Nat) => Answer(SetName(n), AAAA, 0, d) \in AnswerSet
  BY <1>1, <1>2, AnswerType
<1> QED
  BY <1>3, <1>4, <1>5

\* and so all that are made.
LEMMA MadeType == MadeRecords \subseteq AnswerSet
<1> SUFFICES ASSUME NEW r \in MadeRecords PROVE r \in AnswerSet
  OBVIOUS
<1> DEFINE Ns(n, m) == {MakeNsRecord(n, m), MakeMxRecord(n, m, 0), Answer(n, MX, 1, <<>>),
                        Answer(n, SOA, 1, <<0, 0, 1>>),
                        Answer(n, A, 1, [i \in 1 .. 2 ^ RdlengthWidth |-> 0])}
           Texts(n, m) == MakeARecords(n, m[1]) \cup MakeTxtRecords(n, m[1])
           S1 == {Ns(n, m) : n \in Names, m \in Names}
           S2 == {MakeAaaaRecords(n, a) : n \in Names, a \in Addresses}
           S3 == {Texts(n, m) : n \in Names, m \in Names \ {<<>>}}
<1>m. MadeRecords = UNION (S1 \cup S2 \cup S3)
  BY DEF MadeRecords
<1> HIDE DEF Ns, Texts
<1>1. \/ \E n \in Names, m \in Names : r \in Ns(n, m)
      \/ \E n \in Names, a \in Addresses : r \in MakeAaaaRecords(n, a)
      \/ \E n \in Names, m \in Names \ {<<>>} : r \in Texts(n, m)
  BY <1>m
<1>2. CASE \E n \in Names, m \in Names : r \in Ns(n, m)
  <2>1. PICK n \in Names, m \in Names : r \in Ns(n, m)
    BY <1>2
  <2> QED
    BY <2>1, NameRecords, Zenon DEF Ns
<1>3. CASE \E n \in Names, a \in Addresses : r \in MakeAaaaRecords(n, a)
  BY <1>3, AddressRecords
<1>4. CASE \E n \in Names, m \in Names \ {<<>>} : r \in Texts(n, m)
  <2>1. PICK n \in Names, m \in Names \ {<<>>} : r \in Texts(n, m)
    BY <1>4
  <2>2. MakeARecords(n, m[1]) \subseteq AnswerSet /\ MakeTxtRecords(n, m[1]) \subseteq AnswerSet
    BY <2>1, TextRecords
  <2> QED
    BY <2>1, <2>2 DEF Texts
<1> QED
  BY <1>1, <1>2, <1>3, <1>4

\* UpdateHeaderCounts keeps a packet's type; an empty packet has it,
LEMMA CountedType ==
    ASSUME NEW x \in ObjectSet
    PROVE  Counted(x) \in ObjectSet
<1> DEFINE hd == [x.header EXCEPT !.qdcount = Len(x.questions), !.ancount = Len(x.answers),
                                  !.nscount = Len(x.authority), !.arcount = Len(x.additional)]
<1>1. /\ x.header \in Header /\ Len(x.questions) \in Nat /\ Len(x.answers) \in Nat
      /\ Len(x.authority) \in Nat /\ Len(x.additional) \in Nat
  BY DEF ObjectSet
<1>2. hd \in Header
  BY <1>1 DEF Header
<1>3. Counted(x) = [x EXCEPT !.header = hd]
  BY Zenon DEF Counted
<1> HIDE DEF hd
<1>4. [x EXCEPT !.header = hd] \in ObjectSet
  BY <1>2 DEF ObjectSet
<1> QED
  BY <1>3, <1>4

LEMMA NoObjectType == NoObject \in ObjectSet
<1> DEFINE h == [response |-> FALSE, z |-> FALSE, qdcount |-> 0, ancount |-> 0,
                 nscount |-> 0, arcount |-> 0]
<1>1. h \in Header
  BY DEF Header
<1>2. NoObject = [header |-> h, questions |-> <<>>, answers |-> <<>>, authority |-> <<>>,
                  additional |-> <<>>]
  BY Zenon DEF NoObject
<1> HIDE DEF h
<1>3. <<>> \in Seq(QuestionSet) /\ <<>> \in Seq(AnswerSet)
  OBVIOUS
<1> QED
  BY <1>1, <1>2, <1>3 DEF ObjectSet

\* A packet that was parsed after the header h: its counts, and names that can be
\* written.
ParsedAs(x, h) ==
    /\ x \in ObjectSet /\ x.header = h /\ ~ h.z /\ h.response
    /\ Len(x.questions) = h.qdcount /\ Len(x.answers) = h.ancount
    /\ Len(x.authority) = h.nscount /\ Len(x.additional) = h.arcount
    /\ \A i \in 1 .. Len(x.questions) : Labelled(x.questions[i].name)
    /\ \A i \in 1 .. Len(x.answers) : Labelled(x.answers[i].name)
    /\ \A i \in 1 .. Len(x.authority) : Labelled(x.authority[i].name)
    /\ \A i \in 1 .. Len(x.additional) : Labelled(x.additional[i].name)

LEMMA FromWireType ==
    ASSUME NEW c \in Seq(Nat), NEW h \in Header, NEW x, x = FromWire(h, c), x # NoObject
    PROVE  ParsedAs(x, h)
<1> DEFINE qd == Section(c, HeaderSize, h.qdcount, "question")
           an == Section(c, qd.end, h.ancount, "record")
           ns == Section(c, an.end, h.nscount, "record")
           ar == Section(c, ns.end, h.arcount, "record")
<1>1. /\ ~ h.z /\ h.response /\ qd.ok /\ an.ok /\ ns.ok /\ ar.ok
      /\ x = [header |-> h, questions |-> qd.items, answers |-> an.items,
              authority |-> ns.items, additional |-> ar.items]
  BY Zenon DEF FromWire
<1>2. h.qdcount \in Nat /\ h.ancount \in Nat /\ h.nscount \in Nat /\ h.arcount \in Nat
      /\ HeaderSize \in Nat
  BY PacketAssumption DEF Header
<1>3. /\ qd.end \in Nat /\ qd.items \in Seq(QuestionSet) /\ Len(qd.items) = h.qdcount
      /\ \A i \in 1 .. h.qdcount : Labelled(qd.items[i].name)
  BY <1>1, <1>2, QuestionItems
<1> HIDE DEF qd
<1>4. /\ an.end \in Nat /\ an.items \in Seq(AnswerSet) /\ Len(an.items) = h.ancount
      /\ \A i \in 1 .. h.ancount : Labelled(an.items[i].name)
  BY <1>1, <1>2, <1>3, RecordItems
<1> HIDE DEF an
<1>5. /\ ns.end \in Nat /\ ns.items \in Seq(AnswerSet) /\ Len(ns.items) = h.nscount
      /\ \A i \in 1 .. h.nscount : Labelled(ns.items[i].name)
  BY <1>1, <1>2, <1>4, RecordItems
<1> HIDE DEF ns
<1>6. /\ ar.items \in Seq(AnswerSet) /\ Len(ar.items) = h.arcount
      /\ \A i \in 1 .. h.arcount : Labelled(ar.items[i].name)
  BY <1>1, <1>2, <1>5, RecordItems
<1> HIDE DEF ar
<1>7. /\ x.header = h /\ x.questions = qd.items /\ x.answers = an.items
      /\ x.authority = ns.items /\ x.additional = ar.items
  BY <1>1
<1>8. x \in ObjectSet
  <2> DEFINE q == qd.items
             a == an.items
             n == ns.items
             r == ar.items
  <2>1. x = [header |-> h, questions |-> q, answers |-> a, authority |-> n, additional |-> r]
        /\ q \in Seq(QuestionSet) /\ a \in Seq(AnswerSet) /\ n \in Seq(AnswerSet)
        /\ r \in Seq(AnswerSet)
    BY <1>1, <1>3, <1>4, <1>5, <1>6
  <2> HIDE DEF q, a, n, r
  <2> QED
    BY <2>1 DEF ObjectSet
<1> QED
  BY <1>1, <1>3, <1>4, <1>5, <1>6, <1>7, <1>8, Zenon DEF ParsedAs

\* The question a response takes over.
LEMMA QuestionType ==
    ASSUME IInv, QInv, phase = "accepted"
    PROVE  Question \in QuestionSet
<1> DEFINE labels == name.labels
           cells == packet.cells
           Label(l) == SubSeq(cells, l + 2, l + 1 + Cell(l))
           T == Seq(Nat)
<1>1. /\ labels \in Seq(Nat) /\ cells \in T /\ Size = Len(cells) /\ Size \in Nat
      /\ name.start \in Nat /\ CellsOK
  BY HeaderFacts DEF IInv, PacketsOK, CellsOK, Size
<1>2. \A i \in 1 .. Len(labels) : labels[i] \in Nat /\ labels[i] < Size
                                  /\ labels[i] + Cell(labels[i]) < Size
  BY <1>1 DEF IInv, TypeOK, QInv
<1>3. NameEnd(name.start) < Size
  BY DEF QInv
<1>4. NameEnd(name.start) \in Nat
  BY <1>1, NameEndStep
<1>5. Cell(NameEnd(name.start)) \in Nat
  BY <1>1, <1>3, <1>4, CellType
<1>6. ASSUME NEW l \in Nat, l < Size, l + Cell(l) < Size PROVE Label(l) \in T
  <2> DEFINE k == Cell(l)
             p == l + 1
  <2>1. k \in Nat /\ p \in Nat /\ p + k <= Len(cells)
    BY <1>1, <1>6, CellType
  <2>2. Label(l) = SubSeq(cells, p + 1, p + k)
    BY <2>1
  <2> HIDE DEF k, p, cells, Label
  <2> QED
    BY <1>1, <2>1, <2>2, SubSeqType
<1> DEFINE its == [i \in DOMAIN labels |-> Label(labels[i])]
<1>7. Question = [name |-> its, tail |-> Cell(NameEnd(name.start))]
  BY DEF Question
<1>8. its \in Seq(T)
  <2>1. \A i \in 1 .. Len(labels) : Label(labels[i]) \in T
    BY <1>2, <1>6
  <2>a. DOMAIN its = 1 .. Len(labels) /\ Len(labels) \in Nat
        /\ \A i \in 1 .. Len(labels) : its[i] \in T
    BY <1>1, <2>1
  <2>d. its = [i \in DOMAIN its |-> its[i]]
    <3> HIDE DEF Label, labels
    <3> QED
      OBVIOUS
  <2>b. its = [i \in 1 .. Len(labels) |-> its[i]]
    <3> HIDE DEF its, labels
    <3> QED
      BY <2>a, <2>d
  <2> HIDE DEF its, T, labels
  <2> QED
    BY <2>a, <2>b
<1> HIDE DEF its
<1> QED
  BY <1>5, <1>7, <1>8 DEF QuestionSet

\* A response that was parsed and not edited is what the message says.
Kept == (origin = "received" /\ edits = 0) =>
           object # NoObject /\ object = FromWire(packet.header, packet.cells)

RInv == IInv /\ QInv /\ object \in ObjectSet /\ edits \in Nat /\ Kept

\* At first there is no object.
LEMMA ResponseInitInv == ResponseInit => RInv
<1> SUFFICES ASSUME ResponseInit PROVE RInv
  OBVIOUS
<1>1. IInv
  BY InitInv DEF ResponseInit
<1>2. QInv
  BY DEF ResponseInit, Init, QInv, NoName
<1>3. object \in ObjectSet
  BY NoObjectType DEF ResponseInit
<1> QED
  BY <1>1, <1>2, <1>3 DEF RInv, ResponseInit, Kept

\* A step of the object leaves the request alone.
LEMMA VarsKept == ASSUME IInv, QInv, UNCHANGED vars PROVE IInv' /\ QInv' /\ packet' = packet
<1>1. packet' = packet /\ phase' = phase /\ name' = name
  BY DEF vars
<1>2. IInv'
  BY NextInv
<1>3. phase' = "accepted" => packet.header.qdcount = 1
  BY <1>1 DEF QInv
<1> QED
  BY <1>1, <1>2, <1>3, QuestionKept

\* An edit that keeps the object's type.
LEMMA EditStep == ASSUME RInv, NEW x \in ObjectSet, Edit(x) PROVE RInv'
<1>1. object' = x /\ edits' = edits + 1 /\ UNCHANGED vars
  BY DEF Edit
<1>2. IInv' /\ QInv'
  BY <1>1, VarsKept DEF RInv
<1>3. edits' \in Nat /\ edits' # 0
  BY <1>1 DEF RInv
<1> QED
  BY <1>1, <1>2, <1>3 DEF RInv, Kept

\* The constructor makes a packet.
LEMMA MadeStep ==
    ASSUME RInv, phase = "accepted", NEW h \in Header, Made(h)
    PROVE  object' \in ObjectSet
<1> DEFINE x == [NoObject EXCEPT !.header = h, !.questions = <<Question>>]
<1>1. Question \in QuestionSet
  BY QuestionType DEF RInv
<1>2. <<Question>> \in Seq(QuestionSet)
  BY <1>1
<1>3. x \in ObjectSet
  BY <1>2, NoObjectType DEF ObjectSet
<1>4. object' = Counted(x)
  BY DEF Made
<1> HIDE DEF x
<1> QED
  BY <1>3, <1>4, CountedType

\* The steps that make an object.
LEMMA RespondStep == ASSUME RInv, Respond PROVE RInv'
<1>1. phase = "accepted" /\ origin' = "made" /\ edits' = edits /\ UNCHANGED vars
      /\ (MakeResponse \/ MakeErrorResponse)
  BY DEF Respond
<1>2. IInv' /\ QInv'
  BY <1>1, VarsKept DEF RInv
<1>3. packet.header \in Header /\ NoObject.header \in Header
  <2>1. packet.header \in Header
    BY DEF RInv, IInv, PacketsOK
  <2> QED
    BY <2>1, NoObjectType DEF ObjectSet
<1>4. ASSUME MakeResponse PROVE object' \in ObjectSet
  <2> DEFINE h == [NoObject.header EXCEPT !.response = TRUE, !.z = FALSE]
  <2>1. h \in Header
    BY <1>3 DEF Header
  <2>2. Made(h)
    BY <1>4 DEF MakeResponse
  <2> HIDE DEF h
  <2> QED
    BY <1>1, <2>1, <2>2, MadeStep
<1>5. ASSUME MakeErrorResponse PROVE object' \in ObjectSet
  <2> DEFINE h == [packet.header EXCEPT !.response = TRUE, !.qdcount = 0, !.ancount = 0,
                                        !.nscount = 0, !.arcount = 0]
  <2>1. h \in Header
    BY <1>3 DEF Header
  <2>2. Made(h)
    BY <1>5 DEF MakeErrorResponse
  <2> HIDE DEF h
  <2> QED
    BY <1>1, <2>1, <2>2, MadeStep
<1>6. object' \in ObjectSet
  BY <1>1, <1>4, <1>5
<1> QED
  BY <1>1, <1>2, <1>6 DEF RInv, Kept

LEMMA ReceiveStep == ASSUME RInv, ReceiveResponse PROVE RInv'
<1>1. /\ object' = FromWire(packet.header, packet.cells) /\ object' # NoObject
      /\ edits' = edits /\ UNCHANGED vars
  BY DEF ReceiveResponse
<1>2. IInv' /\ QInv' /\ packet' = packet
  BY <1>1, VarsKept DEF RInv
<1>3. packet.header \in Header /\ packet.cells \in Seq(Nat)
  BY DEF RInv, IInv, PacketsOK
<1>4. object' \in ObjectSet
  <2>1. ParsedAs(object', packet.header)
    BY <1>1, <1>3, FromWireType
  <2> QED
    BY <2>1, Zenon DEF ParsedAs
<1> QED
  BY <1>1, <1>2, <1>4 DEF RInv, Kept

\* The sections of an object that is edited.
LEMMA EditedType ==
    ASSUME NEW x \in ObjectSet
    PROVE  /\ \A q \in QuestionSet : [x EXCEPT !.questions = Append(@, q)] \in ObjectSet
           /\ \A r \in AnswerSet : /\ [x EXCEPT !.answers = Append(@, r)] \in ObjectSet
                                   /\ [x EXCEPT !.authority = Append(@, r)] \in ObjectSet
                                   /\ [x EXCEPT !.additional = Append(@, r)] \in ObjectSet
           /\ [x EXCEPT !.questions = <<>>] \in ObjectSet
           /\ [x EXCEPT !.answers = <<>>] \in ObjectSet
           /\ [x EXCEPT !.authority = <<>>] \in ObjectSet
           /\ [x EXCEPT !.additional = <<>>] \in ObjectSet
           /\ \A h \in Header : [x EXCEPT !.header = h] \in ObjectSet
<1>1. /\ x.questions \in Seq(QuestionSet) /\ x.answers \in Seq(AnswerSet)
      /\ x.authority \in Seq(AnswerSet) /\ x.additional \in Seq(AnswerSet)
  BY DEF ObjectSet
<1>2. <<>> \in Seq(QuestionSet) /\ <<>> \in Seq(AnswerSet)
  OBVIOUS
<1>3. /\ \A q \in QuestionSet : Append(x.questions, q) \in Seq(QuestionSet)
      /\ \A r \in AnswerSet : /\ Append(x.answers, r) \in Seq(AnswerSet)
                              /\ Append(x.authority, r) \in Seq(AnswerSet)
                              /\ Append(x.additional, r) \in Seq(AnswerSet)
  BY <1>1
<1>4. \A s \in Seq(QuestionSet) : [x EXCEPT !.questions = s] \in ObjectSet
  BY DEF ObjectSet
<1>5. \A s \in Seq(AnswerSet) : /\ [x EXCEPT !.answers = s] \in ObjectSet
                                /\ [x EXCEPT !.authority = s] \in ObjectSet
                                /\ [x EXCEPT !.additional = s] \in ObjectSet
  BY DEF ObjectSet
<1>6. \A h \in Header : [x EXCEPT !.header = h] \in ObjectSet
  BY DEF ObjectSet
<1> QED
  BY <1>2, <1>3, <1>4, <1>5, <1>6

\* Every edit keeps the invariant.
LEMMA EditsStep ==
    ASSUME RInv,
           \/ \E q \in QuestionSet : AddQuestion(q)
           \/ \E r \in AnswerSet : AddAnswer(r) \/ AddAuthority(r) \/ AddAdditional(r)
           \/ ClearQuestions \/ ClearAnswers \/ ClearAuthority \/ ClearAdditional \/ Clear
           \/ \E h \in Header : SetHeader(h)
    PROVE  RInv'
<1>0. object \in ObjectSet
  BY DEF RInv
<1>c. ASSUME NEW x \in ObjectSet, Edit(Counted(x)) PROVE RInv'
  BY <1>c, CountedType, EditStep
<1>1. CASE \E q \in QuestionSet : AddQuestion(q)
  <2>1. PICK q \in QuestionSet : AddQuestion(q)
    BY <1>1
  <2> DEFINE x == [object EXCEPT !.questions = Append(@, q)]
  <2>2. x \in ObjectSet
    BY <1>0, EditedType
  <2>3. Edit(Counted(x))
    BY <2>1 DEF AddQuestion
  <2> HIDE DEF x
  <2> QED
    BY <1>c, <2>2, <2>3
<1>2. CASE \E r \in AnswerSet : AddAnswer(r)
  <2>1. PICK r \in AnswerSet : AddAnswer(r)
    BY <1>2
  <2> DEFINE x == [object EXCEPT !.answers = Append(@, r)]
  <2>2. x \in ObjectSet
    BY <1>0, EditedType
  <2>3. Edit(Counted(x))
    BY <2>1 DEF AddAnswer
  <2> HIDE DEF x
  <2> QED
    BY <1>c, <2>2, <2>3
<1>3. CASE \E r \in AnswerSet : AddAuthority(r)
  <2>1. PICK r \in AnswerSet : AddAuthority(r)
    BY <1>3
  <2> DEFINE x == [object EXCEPT !.authority = Append(@, r)]
  <2>2. x \in ObjectSet
    BY <1>0, EditedType
  <2>3. Edit(Counted(x))
    BY <2>1 DEF AddAuthority
  <2> HIDE DEF x
  <2> QED
    BY <1>c, <2>2, <2>3
<1>4. CASE \E r \in AnswerSet : AddAdditional(r)
  <2>1. PICK r \in AnswerSet : AddAdditional(r)
    BY <1>4
  <2> DEFINE x == [object EXCEPT !.additional = Append(@, r)]
  <2>2. x \in ObjectSet
    BY <1>0, EditedType
  <2>3. Edit(Counted(x))
    BY <2>1 DEF AddAdditional
  <2> HIDE DEF x
  <2> QED
    BY <1>c, <2>2, <2>3
<1>5. CASE ClearQuestions \/ ClearAnswers \/ ClearAuthority \/ ClearAdditional
  <2>1. PICK x \in ObjectSet : Edit(Counted(x))
    BY <1>0, <1>5, EditedType
       DEF ClearQuestions, ClearAnswers, ClearAuthority, ClearAdditional
  <2> QED
    BY <1>c, <2>1
<1>6. CASE Clear
  BY <1>6, NoObjectType, EditStep DEF Clear
<1>7. CASE \E h \in Header : SetHeader(h)
  <2>1. PICK h \in Header : SetHeader(h)
    BY <1>7
  <2> DEFINE x == [object EXCEPT !.header = h]
  <2>2. x \in ObjectSet
    BY <1>0, EditedType
  <2>3. Edit(x)
    BY <2>1 DEF SetHeader
  <2> HIDE DEF x
  <2> QED
    BY <2>2, <2>3, EditStep
<1> QED
  BY <1>1, <1>2, <1>3, <1>4, <1>5, <1>6, <1>7

\* And so does every step.
LEMMA ResponseNextInv == RInv /\ [ResponseNext]_allVars => RInv'
<1> SUFFICES ASSUME RInv, [ResponseNext]_allVars PROVE RInv'
  OBVIOUS
<1>0. IInv /\ QInv
  BY DEF RInv
<1>1. CASE ReadRequest
  <2>1. Next /\ object' = object /\ origin' = origin /\ edits' = edits
    BY <1>1 DEF ReadRequest, responseVars
  <2>2. IInv' /\ QInv' /\ packet' = packet
    BY <1>0, <2>1, NextInv, QuestionNext, NextPacket
  <2> QED
    BY <2>1, <2>2 DEF RInv, Kept
<1>2. CASE Respond
  BY <1>2, RespondStep
<1>3. CASE ReceiveResponse
  BY <1>3, ReceiveStep
<1>4. CASE \E n \in Names : AddQuestion(MakeQuery(n, A)) \/ AddQuestion([name |-> n, tail |-> A])
  <2>1. PICK n \in Names : AddQuestion(MakeQuery(n, A)) \/ AddQuestion([name |-> n, tail |-> A])
    BY <1>4
  <2>2. \E q \in QuestionSet : AddQuestion(q)
    BY <2>1, QueriesType
  <2> QED
    BY <2>2, EditsStep
<1>5. CASE \E a \in Addresses : AddQuestion(MakePtrQuery(a))
  <2>1. \E q \in QuestionSet : AddQuestion(q)
    BY <1>5, PtrQueryType
  <2> QED
    BY <2>1, EditsStep
<1>6. CASE \E r \in MadeRecords : AddAnswer(r) \/ AddAuthority(r) \/ AddAdditional(r)
  <2>1. \E r \in AnswerSet : AddAnswer(r) \/ AddAuthority(r) \/ AddAdditional(r)
    BY <1>6, MadeType
  <2> QED
    BY <2>1, EditsStep
<1>7. CASE ClearQuestions \/ ClearAnswers \/ ClearAuthority \/ ClearAdditional \/ Clear
  BY <1>7, EditsStep
<1>8. CASE \E h \in Headers : SetHeader(h)
  <2>1. \E h \in Header : SetHeader(h)
    BY <1>8, ResponseAssumption
  <2> QED
    BY <2>1, EditsStep
<1>9. CASE UNCHANGED allVars
  <2>1. UNCHANGED vars /\ object' = object /\ origin' = origin /\ edits' = edits
    BY <1>9 DEF allVars, responseVars
  <2>2. IInv' /\ QInv' /\ packet' = packet
    BY <1>0, <2>1, VarsKept
  <2> QED
    BY <2>1, <2>2 DEF RInv, Kept
<1> QED
  BY <1>1, <1>2, <1>3, <1>4, <1>5, <1>6, <1>7, <1>8, <1>9 DEF ResponseNext

LEMMA ResponseInvariant == ResponseSpec => []RInv
  BY ResponseInitInv, ResponseNextInv, PTL DEF ResponseSpec

-----------------------------------------------------------------------------
(* Round trip *)

\* What holds of all the records holds of those of each section.
LEMMA EachSection ==
    ASSUME NEW x \in ObjectSet, NEW P, \A i \in DOMAIN Records(x) : Records(x)[i] \in P
    PROVE  /\ \A i \in 1 .. Len(x.answers) : x.answers[i] \in P
           /\ \A i \in 1 .. Len(x.authority) : x.authority[i] \in P
           /\ \A i \in 1 .. Len(x.additional) : x.additional[i] \in P
<1> DEFINE a == x.answers
           n == x.authority
           r == x.additional
           an == a \o n
           all == an \o r
<1>1. a \in Seq(AnswerSet) /\ n \in Seq(AnswerSet) /\ r \in Seq(AnswerSet)
  BY DEF ObjectSet
<1>2. \A i \in DOMAIN all : all[i] \in P
  BY DEF Records
<1> HIDE DEF a, n, r
<1>3. /\ an \in Seq(AnswerSet) /\ Len(a) \in Nat /\ Len(n) \in Nat /\ Len(an) = Len(a) + Len(n)
      /\ \A k \in 1 .. Len(a) : an[k] = a[k]
      /\ \A k \in 1 .. Len(n) : an[Len(a) + k] = n[k]
  BY <1>1, ConcatFacts
<1> HIDE DEF an
<1>b. an \in Seq(AnswerSet) /\ r \in Seq(AnswerSet)
  BY <1>1, <1>3
<1>4. /\ all \in Seq(AnswerSet) /\ Len(r) \in Nat /\ Len(all) = Len(an) + Len(r)
      /\ \A k \in 1 .. Len(an) : all[k] = an[k]
      /\ \A k \in 1 .. Len(r) : all[Len(an) + k] = r[k]
  BY <1>b, ConcatFacts
<1> HIDE DEF all
<1>5. \A i \in 1 .. Len(all) : all[i] \in P
  BY <1>2, <1>4
<1>6. \A i \in 1 .. Len(a) : a[i] \in P
  <2> TAKE i \in 1 .. Len(a)
  <2>1. i \in 1 .. Len(an) /\ i \in 1 .. Len(all)
    BY <1>3, <1>4
  <2> QED
    BY <1>3, <1>4, <1>5, <2>1
<1>7. \A i \in 1 .. Len(n) : n[i] \in P
  <2> TAKE i \in 1 .. Len(n)
  <2>1. Len(a) + i \in 1 .. Len(an) /\ Len(a) + i \in 1 .. Len(all)
    BY <1>3, <1>4
  <2> QED
    BY <1>3, <1>4, <1>5, <2>1
<1>8. \A i \in 1 .. Len(r) : r[i] \in P
  <2> TAKE i \in 1 .. Len(r)
  <2>1. Len(an) + i \in 1 .. Len(all)
    BY <1>3, <1>4
  <2> QED
    BY <1>4, <1>5, <2>1
<1> QED
  BY <1>6, <1>7, <1>8 DEF a, n, r

\* IsValidLabel bounds a label's length.
LEMMA ValidLabelled ==
    ASSUME NEW labels \in Seq(Seq(Nat)), labels = <<>> \/ ValidName(labels)
    PROVE  Labelled(labels)
<1>1. CASE labels = <<>>
  BY <1>1 DEF Labelled
<1>2. CASE ValidName(labels)
  <2>1. \A i \in DOMAIN labels : Len(labels[i]) \in 1 .. MaxLabel
    BY <1>2 DEF ValidName, IsValidLabel
  <2> QED
    BY <2>1 DEF Labelled
<1> QED
  BY <1>1, <1>2

\* Counted sets the counts.
LEMMA CountedCounts ==
    ASSUME NEW x \in ObjectSet, x = Counted(x)
    PROVE  /\ x.header.qdcount = Len(x.questions) /\ x.header.ancount = Len(x.answers)
           /\ x.header.nscount = Len(x.authority) /\ x.header.arcount = Len(x.additional)
<1> DEFINE hd == [x.header EXCEPT !.qdcount = Len(x.questions), !.ancount = Len(x.answers),
                                  !.nscount = Len(x.authority), !.arcount = Len(x.additional)]
<1>1. Counted(x) = [x EXCEPT !.header = hd] /\ x.header \in Header
  BY DEF Counted, ObjectSet
<1>2. /\ hd.qdcount = Len(x.questions) /\ hd.ancount = Len(x.answers)
      /\ hd.nscount = Len(x.authority) /\ hd.arcount = Len(x.additional)
  BY <1>1 DEF Header
<1> HIDE DEF hd
<1>3. [x EXCEPT !.header = hd].header = hd
  BY DEF ObjectSet
<1>4. x.header = hd
  BY <1>1, <1>3
<1> QED
  BY <1>2, <1>4

\* What Valid approves of can be written, if the data can; so can what was parsed.
LEMMA ValidWritable ==
    ASSUME NEW x \in ObjectSet, Valid(x),
           \A i \in DOMAIN Records(x) : /\ Len(Records(x)[i].rdata) < 2 ^ RdlengthWidth
                                        /\ SelfContained(Records(x)[i])
    PROVE  Writable(x)
<1> DEFINE P == {r \in AnswerSet : Sound(r)}
<1>1. /\ x.questions \in Seq(QuestionSet)
      /\ x.answers \in Seq(AnswerSet) /\ x.authority \in Seq(AnswerSet)
      /\ x.additional \in Seq(AnswerSet)
  BY DEF ObjectSet
<1>2. /\ ~ x.header.z /\ x.header.response /\ x = Counted(x)
      /\ \A i \in DOMAIN x.questions :
            x.questions[i].name = <<>> \/ ValidName(x.questions[i].name)
      /\ \A i \in DOMAIN Records(x) : ValidAnswer(Records(x)[i])
  BY Zenon DEF Valid
<1>3. \A i \in 1 .. Len(x.questions) : Labelled(x.questions[i].name)
  <2> TAKE i \in 1 .. Len(x.questions)
  <2> DEFINE labels == x.questions[i].name
  <2>1. labels = <<>> \/ ValidName(labels)
    BY <1>1, <1>2
  <2>2. labels \in Seq(Seq(Nat))
    <3>1. x.questions[i] \in QuestionSet
      BY <1>1
    <3> QED
      BY <3>1 DEF QuestionSet
  <2> HIDE DEF labels
  <2>3. Labelled(labels)
    BY <2>1, <2>2, ValidLabelled
  <2> QED
    BY <2>3 DEF labels
<1>4. Records(x) \in Seq(AnswerSet)
  BY <1>1 DEF Records
<1>5. \A i \in DOMAIN Records(x) : Records(x)[i] \in P
  <2> TAKE i \in DOMAIN Records(x)
  <2> DEFINE r == Records(x)[i]
  <2>1. r \in AnswerSet /\ ValidAnswer(r) /\ Len(r.rdata) < 2 ^ RdlengthWidth /\ SelfContained(r)
    BY <1>2, <1>4
  <2> HIDE DEF r
  <2>2. r.name \in Seq(Seq(Nat))
    BY <2>1, AnswerFields
  <2>3. r.name = <<>> \/ ValidName(r.name)
    BY <2>1 DEF ValidAnswer
  <2>4. Labelled(r.name)
    BY <2>2, <2>3, ValidLabelled
  <2>5. Sound(r)
    BY <2>1, <2>4 DEF Sound
  <2> QED
    BY <2>1, <2>5 DEF r
<1> HIDE DEF P
<1>6. /\ \A i \in 1 .. Len(x.answers) : x.answers[i] \in P
      /\ \A i \in 1 .. Len(x.authority) : x.authority[i] \in P
      /\ \A i \in 1 .. Len(x.additional) : x.additional[i] \in P
  BY <1>5, EachSection
<1>7. /\ \A i \in 1 .. Len(x.answers) : Sound(x.answers[i])
      /\ \A i \in 1 .. Len(x.authority) : Sound(x.authority[i])
      /\ \A i \in 1 .. Len(x.additional) : Sound(x.additional[i])
  BY <1>6, Zenon DEF P
<1>8. /\ x.header.qdcount = Len(x.questions) /\ x.header.ancount = Len(x.answers)
      /\ x.header.nscount = Len(x.authority) /\ x.header.arcount = Len(x.additional)
  BY <1>2, CountedCounts
<1> QED
  BY <1>2, <1>3, <1>7, <1>8, Zenon DEF Writable

LEMMA ParsedWritable ==
    ASSUME NEW c \in Seq(Nat), NEW h \in Header, NEW x, x = FromWire(h, c), x # NoObject,
           \A i \in DOMAIN Records(x) : /\ Len(Records(x)[i].rdata) < 2 ^ RdlengthWidth
                                        /\ SelfContained(Records(x)[i])
    PROVE  x \in ObjectSet /\ Writable(x)
<1> DEFINE P == {r \in AnswerSet : Len(r.rdata) < 2 ^ RdlengthWidth /\ SelfContained(r)}
<1>1. /\ x \in ObjectSet /\ x.header = h /\ ~ h.z /\ h.response
      /\ Len(x.questions) = h.qdcount /\ Len(x.answers) = h.ancount
      /\ Len(x.authority) = h.nscount /\ Len(x.additional) = h.arcount
      /\ \A i \in 1 .. Len(x.questions) : Labelled(x.questions[i].name)
      /\ \A i \in 1 .. Len(x.answers) : Labelled(x.answers[i].name)
      /\ \A i \in 1 .. Len(x.authority) : Labelled(x.authority[i].name)
      /\ \A i \in 1 .. Len(x.additional) : Labelled(x.additional[i].name)
  <2>1. ParsedAs(x, h)
    BY FromWireType
  <2> QED
    BY <2>1, Zenon DEF ParsedAs
<1>2. Records(x) \in Seq(AnswerSet)
  BY <1>1 DEF ObjectSet, Records
<1>3. \A i \in DOMAIN Records(x) : Records(x)[i] \in P
  BY <1>2
<1> HIDE DEF P
<1>4. /\ \A i \in 1 .. Len(x.answers) : x.answers[i] \in P
      /\ \A i \in 1 .. Len(x.authority) : x.authority[i] \in P
      /\ \A i \in 1 .. Len(x.additional) : x.additional[i] \in P
  BY <1>1, <1>3, EachSection
<1>5. /\ \A i \in 1 .. Len(x.answers) : Sound(x.answers[i])
      /\ \A i \in 1 .. Len(x.authority) : Sound(x.authority[i])
      /\ \A i \in 1 .. Len(x.additional) : Sound(x.additional[i])
  BY <1>1, <1>4, Zenon DEF P, Sound
<1> QED
  BY <1>1, <1>5, Zenon DEF Writable

\* The invariant gives the round trip.
LEMMA InvRoundTrip == RInv => RoundTrip
<1> SUFFICES ASSUME RInv,
                    \/ origin = "received" /\ edits = 0
                    \/ origin # "none" /\ Valid(object),
                    \A i \in DOMAIN Records(object) :
                       /\ Len(Records(object)[i].rdata) < 2 ^ RdlengthWidth
                       /\ SelfContained(Records(object)[i])
             PROVE  /\ Len(ToWire(object)) = WireSize(object)
                    /\ FromWire(object.header, ToWire(object)) = object
  BY Zenon DEF RoundTrip
<1>1. object \in ObjectSet
  BY DEF RInv
<1>2. Writable(object)
  <2>1. CASE origin = "received" /\ edits = 0
    <3>1. packet.header \in Header /\ packet.cells \in Seq(Nat)
      BY DEF RInv, IInv, PacketsOK
    <3>2. object = FromWire(packet.header, packet.cells) /\ object # NoObject
      BY <2>1 DEF RInv, Kept
    <3> QED
      BY <3>1, <3>2, ParsedWritable
  <2>2. CASE Valid(object)
    BY <1>1, <2>2, ValidWritable
  <2> QED
    BY <2>1, <2>2
<1> QED
  BY <1>1, <1>2, WholeRead

-----------------------------------------------------------------------------
(* The records of a parsed message *)

\* The cache's walk over a name ends where ParseDomainName does.
LEMMA SkipIs ==
    ASSUME CellsOK, NEW from \in Nat, ParseDomainName(packet.cells, from).ok
    PROVE  SkipDnsName(from) = ParseDomainName(packet.cells, from).end
<1> DEFINE c == packet.cells
<1>c. c \in Seq(Nat) /\ Size = Len(c) /\ Size \in Nat /\ \A i \in Nat : Cell(i) = c[i + 1]
  BY DEF CellsOK, Size, Cell
<1>d. c = packet.cells
  OBVIOUS
<1> HIDE DEF c
<1>1. PICK f : Parser(f, c) /\ \A at \in Nat : ParseDomainName(c, at) = f[<<at, 0>>]
  BY <1>c, ParseIs
<1>h. 0 \in 0 .. DNS_MAX_POINTER_HOPS /\ DNS_MAX_POINTER_HOPS \in Nat /\ MaxLabel \in Nat
      /\ Pointer > MaxLabel /\ Pointer \in Nat
  BY PacketAssumption
<1> DEFINE rank == [x \in Nat |-> IF x < Size THEN Size - x ELSE 0]
           g == [x \in Nat |-> f[<<x, 0>>]]
           P == {x \in Nat : g[x].ok => SkipDnsName(x) = g[x].end}
<1>2. rank \in [Nat -> Nat]
  BY <1>c
<1>g. \A x \in Nat : g[x] \in Parses /\ g[x] = ParseStep(c, x, 0, f[Onward(c, x, 0)])
                     /\ f[Onward(c, x, 0)] \in Parses
  <2> TAKE x \in Nat
  <2>1. Onward(c, x, 0) \in Spots
    BY <1>c, <1>h, OnwardType
  <2>2. <<x, 0>> \in Spots
    BY <1>h DEF Spots
  <2>3. f[<<x, 0>>] = ParseStep(c, x, 0, f[Onward(c, x, 0)])
    BY <1>1, <1>h DEF Parser
  <2>4. f \in [Spots -> Parses]
    BY <1>1 DEF Parser
  <2> QED
    BY <2>1, <2>2, <2>3, <2>4
<1>3. ASSUME NEW x \in Nat, \A y \in Nat : rank[y] < rank[x] => y \in P PROVE x \in P
  <2> SUFFICES ASSUME g[x].ok PROVE SkipDnsName(x) = g[x].end
    OBVIOUS
  <2> DEFINE rest == f[Onward(c, x, 0)]
  <2>1. g[x] = ParseStep(c, x, 0, rest) /\ rest \in Parses
    BY <1>g
  <2>f. rest = f[Onward(c, x, 0)]
    OBVIOUS
  <2> HIDE DEF rest
  <2>2. CASE Follows(c, x, 0)
    <3>1. x + 1 < Len(c) /\ c[x + 1] = Pointer
      BY <2>2 DEF Follows
    <3>2. x < Size /\ Cell(x) = Pointer
      <4>1. x < Size
        BY <1>c, <3>1
      <4> QED
        BY <1>c, <3>1, <4>1
    <3>3. SkipDnsName(x) = x + 2
      BY <3>2, SameSteps
    <3>4. g[x] = [rest EXCEPT !.end = x + 2]
      BY <2>1, <2>2 DEF ParseStep
    <3>5. g[x].end = x + 2
      BY <2>1, <3>4 DEF Parses
    <3> QED
      BY <3>3, <3>5
  <2>3. CASE Reads(c, x) /\ ~ Follows(c, x, 0)
    <3> DEFINE y == x + 1 + c[x + 1]
               more == <<SubSeq(c, x + 2, x + 1 + c[x + 1])>> \o rest.labels
    <3>1. x < Len(c) /\ c[x + 1] \in 1 .. MaxLabel
      BY <2>3 DEF Reads
    <3>2. x < Size /\ Cell(x) = c[x + 1] /\ Cell(x) # 0 /\ Cell(x) # Pointer
      <4>1. x < Size
        BY <1>c, <3>1
      <4>2. Cell(x) = c[x + 1]
        BY <1>c
      <4> QED
        BY <1>h, <3>1, <4>1, <4>2
    <3>3. SkipDnsName(x) = SkipDnsName(y) /\ y \in Nat /\ x < y
      <4>1. SkipDnsName(x) = SkipDnsName(x + 1 + Cell(x))
        BY <3>2, SameSteps
      <4> QED
        BY <1>h, <3>1, <3>2, <4>1
    <3>4. Onward(c, x, 0) = <<y, 0>>
      BY <2>3 DEF Onward
    <3>5. rest = g[y]
      BY <2>f, <3>3, <3>4
    <3>6. g[x] = [rest EXCEPT !.labels = more]
      BY <2>1, <2>3 DEF ParseStep
    <3> HIDE DEF y, more
    <3>7. g[x].ok = rest.ok /\ g[x].end = rest.end
      BY <2>1, <3>6 DEF Parses
    <3>8. rank[y] < rank[x]
      <4>1. rank[x] = Size - x /\ rank[y] = IF y < Size THEN Size - y ELSE 0
        BY <3>2, <3>3
      <4>2. Size \in Nat /\ x \in Nat /\ y \in Nat /\ x < y /\ x < Size
        BY <1>c, <3>2, <3>3
      <4> HIDE DEF rank
      <4> QED
        BY <4>1, <4>2
    <3>9. y \in P
      BY <1>3, <3>3, <3>8
    <3> QED
      BY <3>3, <3>5, <3>7, <3>9
  <2>4. CASE ~ Follows(c, x, 0) /\ ~ Reads(c, x)
    <3>1. x < Len(c) /\ c[x + 1] = 0
      <4>1. \/ x < Len(c) /\ c[x + 1] = 0
            \/ g[x] = NoParse
        BY <2>1, <2>4 DEF ParseStep
      <4>2. g[x] # NoParse
        BY DEF NoParse
      <4> QED
        BY <4>1, <4>2
    <3>2. g[x] = [ok |-> TRUE, end |-> x + 1, labels |-> <<>>]
      BY <2>1, <2>4, <3>1 DEF ParseStep
    <3>3. x < Size /\ Cell(x) = 0
      BY <1>c, <3>1
    <3>4. SkipDnsName(x) = x + 1
      BY <3>3, SameSteps
    <3> QED
      BY <3>2, <3>4
  <2> QED
    BY <2>2, <2>3, <2>4
<1> HIDE DEF P, rank
<1>4. \A x \in Nat : x \in P
  BY <1>2, <1>3, RankInduction
<1>5. g[from].ok => SkipDnsName(from) = g[from].end
  BY <1>4 DEF P
<1>6. g[from] = ParseDomainName(c, from)
  BY <1>1
<1> QED
  BY <1>5, <1>6, <1>d

\* The place behind the record at i.
Behind(i) == SkipDnsName(i) + RecordTail + Cell(SkipDnsName(i) + 2)

\* The next question is where the cache goes on.
LEMMA QuestionPlace ==
    ASSUME CellsOK, NEW at \in Nat, QuestionFromWire(packet.cells, at).ok
    PROVE  QuestionFromWire(packet.cells, at).end = SkipDnsName(at) + QuestionTail
<1>1. packet.cells \in Seq(Nat)
  BY DEF CellsOK
<1>2. /\ ParseDomainName(packet.cells, at).ok
      /\ QuestionFromWire(packet.cells, at).end
            = ParseDomainName(packet.cells, at).end + QuestionTail
  BY <1>1, QuestionParsed
<1> QED
  BY <1>2, SkipIs

\* A record that is parsed is the one there.
LEMMA AnswerPlace ==
    ASSUME CellsOK, NEW at \in Nat, AnswerFromWire(packet.cells, at).ok
    PROVE  /\ AnswerFromWire(packet.cells, at).end = Behind(at)
           /\ TakenFrom(AnswerFromWire(packet.cells, at).item, at)
<1> DEFINE c == packet.cells
           e == ParseDomainName(c, at).end
           r == AnswerFromWire(c, at).item
           t == r.type
<1>1. c \in Seq(Nat) /\ Size = Len(c)
  BY DEF CellsOK, Size
<1>2. e \in Nat
  <2>1. ParseDomainName(c, at) \in Parses
    BY <1>1, ParsedName
  <2> QED
    BY <2>1 DEF Parses
<1>3. e = ParseDomainName(c, at).end
  OBVIOUS
<1> HIDE DEF e
<1>a. RecordAt(c, at, e)
  <2>1. AnswerFromWire(c, at).ok
    OBVIOUS
  <2> HIDE DEF c
  <2> QED
    BY <1>1, <1>2, <1>3, <2>1, AnswerParsed
<1>4. /\ ParseDomainName(c, at).ok /\ e + 3 <= Len(c)
      /\ AnswerFromWire(c, at).end = e + 3 + c[e + 3]
      /\ r \in AnswerSet /\ r.type = c[e + 1] /\ r.ttl = c[e + 2]
  BY <1>a, Zenon DEF RecordAt
<1>5. PICK raw \in Seq(Nat) : r.rdata = DecompressRDATA(c, e + 3, c[e + 1], raw)
  BY <1>a, Zenon DEF RecordAt
<1>6. SkipDnsName(at) = e
  BY <1>3, <1>4, SkipIs
<1>7. /\ Cell(e + 2) = c[e + 3] /\ Cell((e + 3) - 3) = c[e + 1] /\ Cell((e + 3) - 2) = c[e + 2]
  <2>1. (e + 2) + 1 = e + 3 /\ ((e + 3) - 3) + 1 = e + 1 /\ ((e + 3) - 2) + 1 = e + 2
    BY <1>2
  <2> QED
    BY <2>1, Zenon DEF Cell
<1>8. AnswerFromWire(c, at).end = Behind(at)
  <2>1. Behind(at) = e + 3 + Cell(e + 2)
    BY <1>6 DEF Behind, RecordTail
  <2> QED
    BY <1>4, <1>7, <2>1
<1> DEFINE start == e + 3
           l == Layout(t)
           p == ParseNames(c, start + l.prefix, l.names)
<1>9. start \in Nat /\ r.rdata = DecompressRDATA(c, start, t, raw) /\ r.rdata \in Seq(Nat)
  <2>1. r.rdata \in Seq(Nat)
    BY <1>4, AnswerFields
  <2> QED
    BY <1>2, <1>4, <1>5, <2>1
<1> HIDE DEF start, r
<1>10. ASSUME l.names > 0, p.ok, p.end + l.tail <= Len(c)
       PROVE  /\ SelfContained(r)
              /\ ParseNames(r.rdata, l.prefix, l.names).names = p.names
  <2>1. PICK pre, tail : Shape(t, DecompressRDATA(c, start, t, raw), pre, p.names, tail)
    BY <1>1, <1>9, <1>10, DecompressShape
  <2> DEFINE ns == p.names
  <2>2. Shape(r.type, r.rdata, pre, ns, tail)
    BY <1>9, <2>1
  <2> HIDE DEF ns
  <2>3. /\ SelfContained(r)
        /\ ParseNames(r.rdata, Layout(r.type).prefix, Layout(r.type).names).names = ns
    BY <1>9, <2>2, ShapeSelfContained
  <2> QED
    BY <2>3 DEF ns
<1>11. SkipDnsName(at) + RecordTail = start
  BY <1>6 DEF RecordTail, start
<1>12. r.type = Cell(start - 3) /\ r.ttl = Cell(start - 2)
  <2>1. Cell(start - 3) = c[e + 1] /\ Cell(start - 2) = c[e + 2]
    BY <1>7, Zenon DEF start
  <2> QED
    BY <1>4, <2>1, Zenon DEF r
<1>13. TakenFrom(r, at)
  BY <1>1, <1>10, <1>11, <1>12, Zenon DEF TakenFrom
<1> QED
  BY <1>8, <1>13 DEF r

\* Two sections one behind the other.
LEMMA StepsConcat ==
    ASSUME NEW c, NEW kind, NEW p \in Seq(ItemSet), NEW q \in Seq(ItemSet),
           NEW from, NEW mid, NEW end,
           NEW f, Steps(f, c, from, kind, p, mid), NEW g, Steps(g, c, mid, kind, q, end)
    PROVE  p \o q \in Seq(ItemSet) /\ \E k : Steps(k, c, from, kind, p \o q, end)
<1> DEFINE m == Len(p)
           n == Len(q)
           s == p \o q
           k == [i \in 0 .. m + n |-> IF i <= m THEN f[i] ELSE g[i - m]]
           Ok(at, to, it) == /\ ReadOne(c, at, kind).ok /\ ReadOne(c, at, kind).end = to
                             /\ ReadOne(c, at, kind).item = it
<1>1. /\ s \in Seq(ItemSet) /\ m \in Nat /\ n \in Nat /\ Len(s) = m + n
      /\ \A i \in 1 .. m : s[i] = p[i]
      /\ \A i \in 1 .. n : s[m + i] = q[i]
  BY ConcatFacts
<1>2. /\ f \in [0 .. m -> Nat] /\ f[0] = from /\ f[m] = mid
      /\ \A i \in 1 .. m : Ok(f[i - 1], f[i], p[i])
  BY Zenon DEF Steps
<1>3. /\ g \in [0 .. n -> Nat] /\ g[0] = mid /\ g[n] = end
      /\ \A i \in 1 .. n : Ok(g[i - 1], g[i], q[i])
  BY Zenon DEF Steps
<1>4. Steps(k, c, from, kind, s, end) <=>
         /\ k \in [0 .. Len(s) -> Nat] /\ k[0] = from /\ k[Len(s)] = end
         /\ \A i \in 1 .. Len(s) : Ok(k[i - 1], k[i], s[i])
  BY Zenon DEF Steps
<1> HIDE DEF m, n, s, Ok
<1>5. k \in [0 .. m + n -> Nat]
  <2> SUFFICES ASSUME NEW i \in 0 .. m + n PROVE (IF i <= m THEN f[i] ELSE g[i - m]) \in Nat
    OBVIOUS
  <2>1. CASE i <= m
    BY <1>1, <1>2, <2>1
  <2>2. CASE ~ (i <= m)
    <3>1. i - m \in 0 .. n
      BY <1>1, <2>2
    <3> QED
      BY <1>3, <2>2, <3>1
  <2> QED
    BY <2>1, <2>2
<1>6. \A i \in 0 .. m : k[i] = f[i]
  BY <1>1
<1>7. \A i \in 0 .. n : k[m + i] = g[i]
  <2> TAKE i \in 0 .. n
  <2>1. m + i \in 0 .. m + n /\ (m + i) - m = i
    BY <1>1
  <2>2. CASE i = 0
    <3>1. m + i = m
      BY <1>1, <2>2
    <3> QED
      BY <1>1, <1>2, <1>3, <1>6, <2>2, <3>1
  <2>3. CASE i # 0
    <3>1. ~ (m + i <= m)
      BY <1>1, <2>3
    <3> QED
      BY <2>1, <3>1
  <2> QED
    BY <2>2, <2>3
<1> HIDE DEF k
<1>8. k[0] = from /\ k[m + n] = end
  BY <1>1, <1>2, <1>3, <1>6, <1>7
<1>9. ASSUME NEW i \in 1 .. m + n PROVE Ok(k[i - 1], k[i], s[i])
  <2>1. CASE i <= m
    <3>1. i \in 1 .. m /\ i \in 0 .. m /\ i - 1 \in 0 .. m
      BY <1>1, <2>1
    <3> QED
      BY <1>1, <1>2, <1>6, <3>1
  <2>2. CASE ~ (i <= m)
    <3> DEFINE j == i - m
    <3>1. j \in 1 .. n /\ j \in 0 .. n /\ j - 1 \in 0 .. n /\ m + j = i /\ m + (j - 1) = i - 1
      BY <1>1, <2>2
    <3> HIDE DEF j
    <3>2. k[i - 1] = g[j - 1] /\ k[i] = g[j]
      BY <1>7, <3>1
    <3>3. s[i] = q[j]
      BY <1>1, <3>1
    <3> QED
      BY <1>3, <3>1, <3>2, <3>3
  <2> QED
    BY <2>1, <2>2
<1>10. Steps(k, c, from, kind, s, end)
  BY <1>1, <1>4, <1>5, <1>8, <1>9
<1> QED
  BY <1>1, <1>10 DEF s

\* The places of the questions and the records, by the cache's walk.
Walked(h, f, n, g) ==
    /\ f \in [0 .. h.qdcount -> Nat] /\ f[0] = HeaderSize
    /\ \A i \in 1 .. h.qdcount : f[i] = SkipDnsName(f[i - 1]) + QuestionTail
    /\ n \in Nat /\ n = h.ancount + h.nscount + h.arcount
    /\ g \in [0 .. n -> Nat] /\ g[0] = f[h.qdcount]
    /\ \A i \in 1 .. n : g[i] = Behind(g[i - 1])

\* Where the cache looks for records is where they were parsed.
LEMMA StartsAre ==
    ASSUME NEW h \in Header, NEW f, NEW n, NEW g, Walked(h, f, n, g)
    PROVE  /\ DOMAIN Starts(h) = 1 .. n
           /\ \A i \in 1 .. n : Starts(h)[i] = g[i - 1]
<1> USE DEF Walked
<1> DEFINE m == h.qdcount
           Ask(u) == [i \in 0 .. h.qdcount |->
                        IF i = 0 THEN HeaderSize ELSE SkipDnsName(u[i - 1]) + QuestionTail]
           question == CHOOSE u : u = Ask(u)
           Go(u) == [i \in 1 .. h.ancount + h.nscount + h.arcount |->
                       IF i = 1 THEN question[h.qdcount] ELSE Behind(u[i - 1])]
           start == CHOOSE u : u = Go(u)
<1>1. Starts(h) = start
  BY Zenon DEF Starts, Behind
<1>2. m \in Nat
  BY DEF Header
<1>3. f = Ask(f)
  <2>1. \A i \in 0 .. m : f[i] = IF i = 0 THEN HeaderSize ELSE SkipDnsName(f[i - 1]) + QuestionTail
    BY <1>2
  <2>2. f = [i \in 0 .. m |-> f[i]]
    OBVIOUS
  <2> QED
    BY <2>1, <2>2
<1>4. question = Ask(question)
  BY <1>3, Zenon
<1> HIDE DEF question
<1>5. /\ question[0] = HeaderSize
      /\ \A i \in 1 .. m : question[i] = SkipDnsName(question[i - 1]) + QuestionTail
  <2>1. \A i \in 0 .. m : question[i] = IF i = 0 THEN HeaderSize
                                         ELSE SkipDnsName(question[i - 1]) + QuestionTail
    BY <1>4
  <2> QED
    BY <1>2, <2>1
<1>6. question[m] = f[m]
  <2>1. \A i \in 1 .. m : question[i - 1] = f[i - 1] => question[i] = f[i]
    BY <1>5
  <2> DEFINE P == {i \in 0 .. m : question[i] = f[i]}
  <2>2. 0 \in P
    BY <1>2, <1>5
  <2>3. \A i \in 1 .. m : i - 1 \in P => i \in P
    BY <1>2, <2>1
  <2> HIDE DEF P, m
  <2>4. \A i \in 0 .. m : i \in P
    BY <1>2, <2>2, <2>3, StepByStep
  <2>5. m \in P
    BY <1>2, <2>4
  <2> QED
    BY <2>5 DEF P
<1> DEFINE b == [i \in 1 .. n |-> g[i - 1]]
<1>7. b = Go(b)
  <2>1. \A i \in 1 .. n : b[i] = IF i = 1 THEN question[m] ELSE Behind(b[i - 1])
    <3> TAKE i \in 1 .. n
    <3>1. CASE i = 1
      BY <1>6, <3>1
    <3>2. CASE i # 1
      <4>1. i - 1 \in 1 .. n
        BY <3>2
      <4>2. b[i - 1] = g[(i - 1) - 1] /\ b[i] = g[i - 1] /\ g[i - 1] = Behind(g[(i - 1) - 1])
        BY <4>1
      <4> QED
        BY <3>2, <4>2
    <3> QED
      BY <3>1, <3>2
  <2>2. b = [i \in 1 .. n |-> b[i]]
    OBVIOUS
  <2> HIDE DEF b
  <2> QED
    BY <2>1, <2>2
<1>8. start = Go(start)
  BY <1>7, Zenon
<1> HIDE DEF start
<1>9. DOMAIN start = 1 .. n
  BY <1>8
<1>10. \A i \in 1 .. n : start[i] = IF i = 1 THEN question[m] ELSE Behind(start[i - 1])
  BY <1>8
<1> DEFINE u == [i \in 0 .. n |-> IF i = 0 THEN 0 ELSE start[i]]
           v == [i \in 0 .. n |-> IF i = 0 THEN 0 ELSE g[i - 1]]
<1>11. \A i \in 1 .. n : u[i - 1] = v[i - 1] => u[i] = v[i]
  <2> SUFFICES ASSUME NEW i \in 1 .. n, u[i - 1] = v[i - 1] PROVE start[i] = g[i - 1]
    OBVIOUS
  <2>1. CASE i = 1
    BY <1>6, <1>10, <2>1
  <2>2. CASE i # 1
    <3>1. i - 1 \in 1 .. n /\ i - 1 # 0 /\ i - 1 \in 0 .. n
      BY <2>2
    <3>2. start[i - 1] = g[(i - 1) - 1]
      BY <3>1
    <3>3. start[i] = Behind(start[i - 1])
      BY <1>10, <2>2
    <3>4. g[i - 1] = Behind(g[(i - 1) - 1])
      BY <3>1
    <3> QED
      BY <3>2, <3>3, <3>4
  <2> QED
    BY <2>1, <2>2
<1>12. u[0] = v[0]
  OBVIOUS
<1>13. \A i \in 0 .. n : u[i] = v[i]
  <2> DEFINE P == {i \in 0 .. n : u[i] = v[i]}
  <2> HIDE DEF u, v
  <2>1. 0 \in P
    BY <1>12
  <2>2. \A i \in 1 .. n : i - 1 \in P => i \in P
    BY <1>11
  <2> HIDE DEF P
  <2>3. \A i \in 0 .. n : i \in P
    BY <2>1, <2>2, StepByStep
  <2> QED
    BY <2>3 DEF P
<1>14. \A i \in 1 .. n : start[i] = g[i - 1]
  <2> TAKE i \in 1 .. n
  <2>1. i \in 0 .. n /\ i # 0
    OBVIOUS
  <2> QED
    BY <1>13, <2>1
<1> QED
  BY <1>1, <1>9, <1>14

\* The records of a parsed message, one behind the other from the last question on.
LEMMA RecordsSteps ==
    ASSUME NEW c \in Seq(Nat), NEW h \in Header, NEW x, x = FromWire(h, c), x # NoObject
    PROVE  /\ Records(x) \in Seq(ItemSet)
           /\ Len(Records(x)) = h.ancount + h.nscount + h.arcount
           /\ \E from, end, f, g, qs :
                 /\ Len(qs) = h.qdcount /\ Steps(f, c, HeaderSize, "question", qs, from)
                 /\ Steps(g, c, from, "record", Records(x), end)
<1> DEFINE qd == Section(c, HeaderSize, h.qdcount, "question")
           an == Section(c, qd.end, h.ancount, "record")
           ns == Section(c, an.end, h.nscount, "record")
           ar == Section(c, ns.end, h.arcount, "record")
<1>1. /\ qd.ok /\ an.ok /\ ns.ok /\ ar.ok
      /\ x = [header |-> h, questions |-> qd.items, answers |-> an.items,
              authority |-> ns.items, additional |-> ar.items]
  BY Zenon DEF FromWire
<1>2. h.qdcount \in Nat /\ h.ancount \in Nat /\ h.nscount \in Nat /\ h.arcount \in Nat
      /\ HeaderSize \in Nat
  BY PacketAssumption DEF Header
<1>q. qd \in States /\ Len(qd.items) = h.qdcount
  BY <1>1, <1>2, SectionParsed
<1>qs. PICK f : Steps(f, c, HeaderSize, "question", qd.items, qd.end)
  BY <1>1, <1>2, SectionParsed
<1> HIDE DEF qd
<1>3. qd.end \in Nat
  BY <1>q DEF States
<1>a. an \in States /\ Len(an.items) = h.ancount
  BY <1>1, <1>2, <1>3, SectionParsed
<1>as. PICK ga : Steps(ga, c, qd.end, "record", an.items, an.end)
  BY <1>1, <1>2, <1>3, SectionParsed
<1> HIDE DEF an
<1>4. an.end \in Nat /\ an.items \in Seq(ItemSet)
  BY <1>a DEF States
<1>n. ns \in States /\ Len(ns.items) = h.nscount
  BY <1>1, <1>2, <1>4, SectionParsed
<1>ns. PICK gn : Steps(gn, c, an.end, "record", ns.items, ns.end)
  BY <1>1, <1>2, <1>4, SectionParsed
<1> HIDE DEF ns
<1>5. ns.end \in Nat /\ ns.items \in Seq(ItemSet)
  BY <1>n DEF States
<1>r. ar \in States /\ Len(ar.items) = h.arcount
  BY <1>1, <1>2, <1>5, SectionParsed
<1>rs. PICK gr : Steps(gr, c, ns.end, "record", ar.items, ar.end)
  BY <1>1, <1>2, <1>5, SectionParsed
<1> HIDE DEF ar
<1>6. ar.items \in Seq(ItemSet)
  BY <1>r DEF States
<1> DEFINE p == an.items
           q == ns.items
           r == ar.items
           e1 == qd.end
           e2 == an.end
           e3 == ns.end
           e4 == ar.end
           kind == "record"
<1>7. /\ p \in Seq(ItemSet) /\ q \in Seq(ItemSet) /\ r \in Seq(ItemSet)
      /\ Steps(ga, c, e1, kind, p, e2) /\ Steps(gn, c, e2, kind, q, e3)
      /\ Steps(gr, c, e3, kind, r, e4)
      /\ Len(p) = h.ancount /\ Len(q) = h.nscount /\ Len(r) = h.arcount
  BY <1>4, <1>5, <1>6, <1>a, <1>n, <1>r, <1>as, <1>ns, <1>rs
<1>8. Records(x) = p \o q \o r
  <2>1. x.answers = p /\ x.authority = q /\ x.additional = r
    BY <1>1
  <2> QED
    BY <2>1, Zenon DEF Records
<1> HIDE DEF p, q, r, e1, e2, e3, e4, kind
<1> DEFINE pq == p \o q
<1>10. pq \in Seq(ItemSet)
  BY <1>7, ConcatFacts
<1>11. PICK k1 : Steps(k1, c, e1, kind, pq, e3)
  BY <1>7, StepsConcat
<1>l. Len(pq) = Len(p) + Len(q)
  BY <1>7, ConcatFacts
<1> HIDE DEF pq
<1>b. r \in Seq(ItemSet)
  BY <1>7
<1>12. PICK k2 : Steps(k2, c, e1, kind, pq \o r, e4)
  BY <1>7, <1>10, <1>11, StepsConcat
<1>13. pq \o r \in Seq(ItemSet) /\ Len(pq \o r) = Len(pq) + Len(r)
  BY <1>10, <1>b, ConcatFacts
<1>14. Records(x) = pq \o r
  BY <1>8 DEF pq
<1>15. Len(Records(x)) = h.ancount + h.nscount + h.arcount
  BY <1>7, <1>13, <1>14, <1>l
<1>16. Steps(f, c, HeaderSize, "question", qd.items, e1) /\ Steps(k2, c, e1, "record", Records(x), e4)
  BY <1>12, <1>14, <1>qs DEF e1, kind
<1> QED
  BY <1>13, <1>14, <1>15, <1>16, <1>q

\* The invariant gives the records of the message.
LEMMA InvDecompressed == RInv => Decompressed
<1> SUFFICES ASSUME RInv, origin = "received", edits = 0,
                    NEW i \in DOMAIN Starts(packet.header)
             PROVE  TakenFrom(Records(object)[i], Starts(packet.header)[i])
  BY Zenon DEF Decompressed
<1> DEFINE c == packet.cells
           h == packet.header
           s == Records(object)
           n == h.ancount + h.nscount + h.arcount
<1>1. h \in Header /\ c \in Seq(Nat) /\ CellsOK
  BY HeaderFacts DEF RInv, IInv, PacketsOK
<1>2. object = FromWire(h, c) /\ object # NoObject
  BY DEF RInv, Kept
<1>3. /\ h.qdcount \in Nat /\ n \in Nat
  BY <1>1 DEF Header
<1>4. s \in Seq(ItemSet) /\ Len(s) = n
  BY <1>1, <1>2, RecordsSteps
<1>5. PICK from, end, f, g, qs :
         /\ Len(qs) = h.qdcount /\ Steps(f, c, HeaderSize, "question", qs, from)
         /\ Steps(g, c, from, "record", s, end)
  BY <1>1, <1>2, RecordsSteps
<1>6. /\ f \in [0 .. h.qdcount -> Nat] /\ f[0] = HeaderSize /\ f[h.qdcount] = from
      /\ \A j \in 1 .. h.qdcount : /\ ReadOne(c, f[j - 1], "question").ok
                                   /\ ReadOne(c, f[j - 1], "question").end = f[j]
  BY <1>5, Zenon DEF Steps
<1>7. /\ g \in [0 .. n -> Nat] /\ g[0] = from
      /\ \A j \in 1 .. n : /\ ReadOne(c, g[j - 1], "record").ok
                           /\ ReadOne(c, g[j - 1], "record").end = g[j]
                           /\ ReadOne(c, g[j - 1], "record").item = s[j]
  BY <1>4, <1>5, Zenon DEF Steps
<1>8. ASSUME NEW j \in 1 .. h.qdcount PROVE f[j] = SkipDnsName(f[j - 1]) + QuestionTail
  <2> DEFINE at == f[j - 1]
  <2>1. at \in Nat
    BY <1>3, <1>6
  <2>2. ReadOne(c, at, "question") = QuestionFromWire(c, at)
    BY DEF ReadOne
  <2>3. ReadOne(c, at, "question").ok /\ ReadOne(c, at, "question").end = f[j]
    BY <1>6
  <2> HIDE DEF at
  <2>4. QuestionFromWire(c, at).ok /\ QuestionFromWire(c, at).end = f[j]
    BY <2>2, <2>3, Zenon
  <2>5. f[j] = SkipDnsName(at) + QuestionTail
    BY <1>1, <2>1, <2>4, QuestionPlace
  <2> QED
    BY <2>5 DEF at
<1>9. ASSUME NEW j \in 1 .. n PROVE g[j] = Behind(g[j - 1]) /\ TakenFrom(s[j], g[j - 1])
  <2> DEFINE at == g[j - 1]
  <2>1. at \in Nat
    BY <1>3, <1>7
  <2>2. ReadOne(c, at, "record") = AnswerFromWire(c, at)
    BY DEF ReadOne
  <2>3. ReadOne(c, at, "record").ok /\ ReadOne(c, at, "record").end = g[j]
        /\ ReadOne(c, at, "record").item = s[j]
    BY <1>7
  <2> HIDE DEF at
  <2>4. AnswerFromWire(c, at).ok /\ AnswerFromWire(c, at).end = g[j]
        /\ AnswerFromWire(c, at).item = s[j]
    BY <2>2, <2>3, Zenon
  <2>5. g[j] = Behind(at) /\ TakenFrom(s[j], at)
    <3>1. AnswerFromWire(c, at).end = Behind(at) /\ TakenFrom(AnswerFromWire(c, at).item, at)
      BY <1>1, <2>1, <2>4, AnswerPlace
    <3> QED
      BY <2>4, <3>1, Zenon
  <2> QED
    BY <2>5 DEF at
<1>10. /\ DOMAIN Starts(h) = 1 .. n
       /\ \A j \in 1 .. n : Starts(h)[j] = g[j - 1]
  <2>1. g[0] = f[h.qdcount]
    BY <1>6, <1>7
  <2>2. Walked(h, f, n, g)
    BY <1>3, <1>6, <1>7, <1>8, <1>9, <2>1, Zenon DEF Walked
  <2> HIDE DEF h, n
  <2> QED
    BY <1>1, <2>2, StartsAre
<1>11. i \in 1 .. n /\ Starts(h)[i] = g[i - 1]
  BY <1>10
<1>12. TakenFrom(s[i], g[i - 1])
  BY <1>9, <1>11
<1> QED
  BY <1>11, <1>12, Zenon

\* A response that Valid() approves of, or that was parsed, is read back unchanged
\* from what ToWire writes into a buffer of WireSize() bytes, for any packets, names,
\* widths and sequence of edits (dns_packet.cc:680-830, dns_packet_answer.cc).
THEOREM ReadBack == ResponseSpec => []RoundTrip
  BY ResponseInvariant, InvRoundTrip, PTL

\* The records of any parsed message are those where the cache looks for them, and
\* the names in their data are the message's, pointers followed
\* (dns_packet_answer.cc:911-1003, dns_cache.cc:116-211).
THEOREM DecompressedFromMessage == ResponseSpec => []Decompressed
  BY ResponseInvariant, InvDecompressed, PTL

=============================================================================
