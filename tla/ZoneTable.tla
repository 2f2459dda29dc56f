----------------------------- MODULE ZoneTable ------------------------------
(***************************************************************************)
(* From zones.json to the table the servers look names up in:              *)
(* ConfigParser::NormalizeZones and ValidateAndOptimize                    *)
(* (src/config_parser.cc).  The file is read zone by zone and record by    *)
(* record; then addresses are converted and the table is final.            *)
(*                                                                         *)
(* A domain name is the sequence of its labels.  A key of a zone's records *)
(* is a regular expression in the code; here it is what that expression    *)
(* came from, and Matches says what it accepts.                            *)
(***************************************************************************)
EXTENDS Integers, Sequences, FiniteSets, Functions, SequencesExt

CONSTANTS ZoneNames,   \* zones the file may define, as sequences of labels
          Records,     \* records the file may hold
          Language,    \* subdomains each user-written expression accepts
          KeyOrder,    \* all keys in the order nlohmann::json iterates over them
          MaxZones,    \* bound: zone objects in the file
          MaxRecords   \* bound: records in the file

ASSUME FileAssumption == /\ MaxZones \in Nat /\ MaxRecords \in Nat
                         /\ KeyOrder \in Seq(Range(KeyOrder))

(* JSON values: <<tag, content>>.  A TXT datum is itself an array. *)
Forward == <<"FORWARD">>
ForwardAll == <<"FORWARD_ALL">>
Self == <<"SELF">>
Blocked == <<"BLOCKED">>
Array(s) == <<"array", s>>
Hex(v) == <<"hex", v>>

IsArray(v) == v[1] = "array"
IsForwardValue(v) == v = Forward

ASSUME DataAssumption == \A r \in Records : IsArray(r.data) => r.data[2] \in Seq(Range(r.data[2]))

(* Keys.  A user-written expression equals no generated key here; in the code
   equal strings are one key of the map. *)
Root == [kind |-> "@", name |-> <<>>]
Wild == [kind |-> "*", name |-> <<>>]         \* "\\*"
All == [kind |-> ".*", name |-> <<>>]
Exact(n) == [kind |-> "exact", name |-> n]
Subtree(n) == [kind |-> "subtree", name |-> n]      \* "(.*\\.)?" + n
Regex(n) == [kind |-> "regex", name |-> n]
SubRegex(n) == [kind |-> "subregex", name |-> n]    \* "(.*\\.)?" + regex

VARIABLES phase,   \* "parse", "ready", "failed" (an address is invalid)
          zones,   \* the table: zone -> type -> key -> value, or blocked
          current, \* the zone whose records are being read, <<>> for none
          read,    \* zone objects and records read, for the bounds
          source   \* history: the records accepted for each zone of the table

vars == <<phase, zones, current, read, source>>

NoTypes == [t \in {} |-> 0]

TypeOK == /\ phase \in {"parse", "ready", "failed"}
          /\ DOMAIN zones \subseteq ZoneNames
          /\ \A z \in DOMAIN zones : zones[z].blocked => zones[z].types = NoTypes
          /\ current \in DOMAIN zones \cup {<<>>}
          /\ read.zones \in 0 .. MaxZones /\ read.records \in 0 .. MaxRecords
          /\ DOMAIN source = DOMAIN zones
          /\ \A z \in DOMAIN zones : source[z] \in Seq(Records)

-----------------------------------------------------------------------------
(* NormalizeZones *)

\* f with k mapped to v.
With(f, k, v) == [j \in DOMAIN f \cup {k} |-> IF j = k THEN v ELSE f[j]]

\* The record's key in the table.
SubKey(r) ==
    LET all == r.data = ForwardAll
    IN  CASE r.regex -> IF all THEN SubRegex(r.name) ELSE Regex(r.name)
          [] ~ r.regex /\ r.name = <<"@">> -> Root
          [] ~ r.regex /\ r.name = <<"*">> -> Wild
          [] OTHER -> IF all THEN Subtree(r.name) ELSE Exact(r.name)

\* KeyOrder has the key of every record.  It is the order of the expressions as
\* strings: one that begins with "(" comes before any host name and before "\\*".
ASSUME OrderAssumption ==
    /\ \A r \in Records : SubKey(r) \in Range(KeyOrder)
    /\ \A i, j \in DOMAIN KeyOrder :
          (KeyOrder[i].kind = "subtree" /\ KeyOrder[j].kind \in {"exact", "*"}) => i < j

\* A second value under the same key makes an array of the two; further ones,
\* and any value added to a TXT array, are pushed onto it.
Merge(recs, k, v) ==
    IF k \notin DOMAIN recs THEN v
    ELSE IF IsArray(recs[k]) THEN Array(Append(recs[k][2], v))
    ELSE Array(<<recs[k], v>>)

\* One record into the records of its type.
AddTo(recs, r) ==
    LET v == IF r.data = ForwardAll THEN Forward ELSE r.data
        merged == With(recs, SubKey(r), Merge(recs, SubKey(r), v))
    IN  IF r.data = ForwardAll /\ r.name = <<"@">>
          THEN With(merged, All, Forward) ELSE merged

Init == /\ phase = "parse"
        /\ zones = [z \in {} |-> 0]
        /\ current = <<>>
        /\ read = [zones |-> 0, records |-> 0]
        /\ source = [z \in {} |-> 0]

\* A zone with records: a zone read earlier under the same name is replaced.
BeginZone(z) ==
    /\ phase = "parse" /\ read.zones < MaxZones
    /\ zones' = With(zones, z, [blocked |-> FALSE, types |-> NoTypes])
    /\ current' = z
    /\ read' = [read EXCEPT !.zones = @ + 1]
    /\ source' = With(source, z, <<>>)
    /\ UNCHANGED phase

BlockZone(z) ==
    /\ phase = "parse" /\ read.zones < MaxZones
    /\ zones' = With(zones, z, [blocked |-> TRUE, types |-> NoTypes])
    /\ current' = <<>>
    /\ read' = [read EXCEPT !.zones = @ + 1]
    /\ source' = With(source, z, <<>>)
    /\ UNCHANGED phase

ReadRecord(r) ==
    /\ phase = "parse" /\ current # <<>> /\ read.records < MaxRecords
    /\ LET types == zones[current].types
           recs == IF r.type \in DOMAIN types THEN types[r.type] ELSE NoTypes
       IN  zones' = [zones EXCEPT ![current].types =
                        With(types, r.type, AddTo(recs, r))]
    /\ read' = [read EXCEPT !.records = @ + 1]
    /\ source' = [source EXCEPT ![current] = Append(@, r)]
    /\ UNCHANGED <<phase, current>>

-----------------------------------------------------------------------------
(* ValidateAndOptimize *)

\* Values with a {{FORWARD}} in them are left alone.
Skipped(v) == IsForwardValue(v) \/ (IsArray(v) /\ Forward \in Range(v[2]))

Valid(v) == v[1] \in {"ip", "SELF", "BLOCKED"}

Convert(v) == IF IsArray(v) THEN Array([i \in DOMAIN v[2] |-> Hex(v[2][i])])
              ELSE Hex(v)

\* The values of the A and AAAA records of a zone.
Addresses(zone) ==
    UNION {Range(zone.types[t]) : t \in DOMAIN zone.types \cap {"A", "AAAA"}}

ConvertZone(zone) ==
    [zone EXCEPT !.types =
       [t \in DOMAIN zone.types |->
          [k \in DOMAIN zone.types[t] |->
             LET v == zone.types[t][k]
             IN  IF t \notin {"A", "AAAA"} \/ Skipped(v) THEN v ELSE Convert(v)]]]

\* One invalid address anywhere and the exception ends the start-up.
Validate ==
    /\ phase = "parse"
    /\ IF \A z \in DOMAIN zones : \A v \in Addresses(zones[z]) :
             \/ Skipped(v)
             \/ IsArray(v) /\ \A i \in DOMAIN v[2] : Valid(v[2][i])
             \/ Valid(v)
         THEN /\ phase' = "ready"
              /\ zones' = [z \in DOMAIN zones |-> ConvertZone(zones[z])]
         ELSE phase' = "failed" /\ UNCHANGED zones
    /\ current' = <<>>
    /\ UNCHANGED <<read, source>>

Next == \/ \E z \in ZoneNames : BeginZone(z) \/ BlockZone(z)
        \/ \E r \in Records : ReadRecord(r)
        \/ Validate

Spec == Init /\ [][Next]_vars

=============================================================================
