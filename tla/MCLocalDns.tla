----------------------------- MODULE MCLocalDns -----------------------------
(* Small zone files for LocalDns: one zone of two labels, one of three, one   *)
(* reverse zone; names one and two labels below them.                         *)
EXTENDS LocalDns

Com == <<"ex", "com">>
Ads == <<"ads", "ex", "net">>
Arpa == <<"in-addr", "arpa">>

Api == <<"api">>
TestApi == <<"test", "api">>
Www == <<"www">>
Ptr == <<"1", "0", "0", "10">>

Rec(n, t, d) == [name |-> n, regex |-> FALSE, type |-> t, data |-> d]
RegexRec(n, t, d) == [name |-> n, regex |-> TRUE, type |-> t, data |-> d]

Pattern == <<"w*|api">>
MCLanguage == (Pattern :> {Www, Api})

Target(sub) == <<"name", sub \o Com>>

AddressRecords ==
    {Rec(<<"@">>, "A", <<"ip", 1>>), Rec(<<"*">>, "A", <<"ip", 2>>),
     Rec(Api, "A", <<"ip", 1>>), Rec(Api, "A", Self), Rec(Api, "A", Forward),
     Rec(Api, "A", ForwardAll), Rec(TestApi, "A", Blocked),
     Rec(<<"@">>, "A", ForwardAll), Rec(<<"*">>, "A", Forward),
     Rec(Api, "A", <<"bad">>), RegexRec(Pattern, "A", Self),
     RegexRec(Pattern, "A", ForwardAll)}

CnameRecords ==
    {Rec(Www, "CNAME", Target(Api)), Rec(Api, "CNAME", Target(TestApi)),
     Rec(TestApi, "CNAME", Target(Www)), Rec(<<"*">>, "CNAME", Target(Www)),
     Rec(<<"@">>, "CNAME", Target(Api)), Rec(Www, "CNAME", Forward)}

OtherRecords ==
    {Rec(Api, "TXT", Array(<<<<"text", 1>>>>)), Rec(Api, "CAA", <<"object">>),
     Rec(Api, "MX", <<"object">>), Rec(Ptr, "PTR", Target(Api))}

MCRecords == AddressRecords \cup CnameRecords \cup OtherRecords

Names == {Api, TestApi, Www}

\* "(" sorts before ".", "." before "@", "@" before "\\", and that before the
\* lower-case letters names and this pattern begin with.
MCKeyOrder ==
    <<Subtree(Api), Subtree(TestApi), Subtree(Www), SubRegex(Pattern), All, Root,
      Wild, Exact(Ptr), Exact(Api), Exact(TestApi), Regex(Pattern), Exact(Www)>>

Ask(n, t) == [name |-> n, type |-> t]

MCQueries == {Ask(s \o Com, t) : s \in {<<>>} \cup Names, t \in {"A", "CNAME", "TXT", "*"}}
             \cup {Ask(Ads, "A"), Ask(Www \o Ads, "A"), Ask(Ptr \o Arpa, "PTR"),
                   Ask(<<"com">>, "A"), Ask(<<"@">> \o Com, "A"), Ask(<<"*">> \o Com, "A")}

MCZoneNames == {Com, Ads, Arpa}

=============================================================================
