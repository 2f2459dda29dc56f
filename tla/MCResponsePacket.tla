--------------------------- MODULE MCResponsePacket --------------------------
(* Small packets: every short string of cells as a question, and every string *)
(* of up to nine cells as the additional section behind a question; responses *)
(* of one and two records with every short string of cells as data.           *)
EXTENDS ResponsePacket

Strings(alphabet, lengths) == UNION {[1 .. n -> alphabet] : n \in lengths}

Query(qd, ar) == [response |-> FALSE, z |-> FALSE, qdcount |-> qd, ancount |-> 0,
                  nscount |-> 0, arcount |-> ar]

Reply(qd, an, ns, ar) == [response |-> TRUE, z |-> FALSE, qdcount |-> qd, ancount |-> an,
                          nscount |-> ns, arcount |-> ar]

\* The header's cell and a question for the root.
Root == <<0, 0, 1>>

\* The same for a name of one label, at offset 1; what follows is at offset 5.
Www == <<0, 1, 1, 0, 1>>

Rdata == Strings({0, 1, 5, 9}, 0 .. 4)

\* A record for a name, whole or not: its data may be cut off or followed by more.
Record(owner, type, length, rdata) == owner \o <<type, 2, length>> \o rdata

OneRecord == {Www \o Record(n, t, l, d) :
                n \in {<<0>>, <<1, 2, 9, 1>>}, t \in {1, 2, 3, 4, 5}, l \in {0, 2, 3, 4}, d \in Rdata}

\* The first record's names may be read in the second.
TwoRecords == {Www \o Record(<<9, 1>>, t, Len(d), d) \o Record(<<9, 5>>, u, Len(e), e) :
                 t \in {1, 2, 3, 4}, d \in {<<>>, <<1>>, <<9, 1>>, <<9, 10>>}, u \in {2, 3},
                 e \in Strings({0, 1, 9}, 0 .. 3)}

\* Label lengths 1 and 2, 3 that is too large, and pointers to offsets 0 to 3; then
\* a second question, one additional record, two, and perhaps a third that is cut;
\* then the headers that are refused; then responses.
MCPackets ==
       Query(1, 0) :> Strings({0, 1, 2, 3, 9}, 0 .. 6)
    @@ Query(2, 1) :> Strings({0, 1, 9}, 5 .. 6)
    @@ Query(1, 1) :> {Root \o s : s \in Strings({0, 1, 9}, 0 .. 7)}
    @@ Query(1, 2) :> {Root \o s : s \in Strings({0, 1, 9}, 8 .. 9)}
    @@ Query(1, 3) :> {Root \o s : s \in Strings({0, 1, 9}, 8 .. 9)}
    @@ Query(0, 0) :> {<<0>>}
    @@ [Query(1, 0) EXCEPT !.z = TRUE] :> {Root}
    @@ [Query(1, 1) EXCEPT !.ancount = 1] :> {Root}
    @@ [Reply(1, 0, 0, 0) EXCEPT !.z = TRUE] :> {Root}
    @@ Reply(1, 0, 0, 0) :> {<<>>, Root, <<0, 1>>}
    @@ Reply(1, 1, 0, 0) :> OneRecord
    @@ Reply(1, 0, 1, 1) :> TwoRecords
    @@ Reply(0, 0, 2, 0) :> {<<0>> \o Record(<<0>>, 2, Len(d), d) \o Record(<<9, 1>>, 4, 3, e) :
                                d \in Strings({0, 1, 9}, 0 .. 2), e \in Strings({0, 1, 9}, {3})}

MCAnswered == {Root, <<0, 2, 1, 1, 9, 0, 1>>}

MCHeaders == {Query(1, 0), Reply(1, 0, 1, 0)}

MCMaxEdits == "made" :> 2 @@ "received" :> 0

\* The root, a name, one with a label that ends with a hyphen, one with a label that
\* is too long, and one that is too long altogether.
MCNames == {<<>>, <<<<1>>, <<1, 2>>>>, <<<<2, 3>>, <<2>>>>, <<<<1, 2, 1>>, <<1>>>>,
            <<<<1, 2>>, <<1, 2>>, <<1, 2>>, <<2>>>>}

Text(left, gap, right) == [left |-> left, gap |-> gap, right |-> right]

\* Too many groups, too few, too many digits, leading zeros, and "::".
MCAddresses ==
    {Text(<<<<1>>, <<1, 2>>>>, FALSE, <<>>), Text(<<<<1>>>>, TRUE, <<>>),
     Text(<<<<1>>, <<2>>>>, TRUE, <<<<1>>>>), Text(<<<<1>>>>, FALSE, <<>>),
     Text(<<<<1, 2, 1>>>>, TRUE, <<>>), Text(<<<<0, 1, 2>>>>, TRUE, <<<<2>>>>)}

MCArpa == <<2>>

=============================================================================
