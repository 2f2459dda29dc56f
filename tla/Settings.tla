------------------------------ MODULE Settings ------------------------------
(***************************************************************************)
(* From what the user wrote to the settings a relay runs with: the command *)
(* line (src/main-pc.cc) or config.json (src/main-ps.cc), the setters of   *)
(* Config with their checks, and Config::Initialize with its zones file.   *)
(*                                                                         *)
(* main is straight-line code, so it is a composition of operators on m =  *)
(* [config, exit]. Once m.exit is set the code has returned, and what      *)
(* later steps do to m.config is lost with the process. The input g of one *)
(* start holds the arguments of the command line or the keys of            *)
(* config.json, and the disk: for a path, what stat finds there and what   *)
(* opening and parsing it then gives, which may be another file; the       *)
(* built-in rules are at the empty path. Addresses are "v4", "v6" or       *)
(* something else, resolver URLs "good" or "bad"; a user agent is the set  *)
(* of its words, some of them masks.                                                          *)
(***************************************************************************)
EXTENDS Integers, Sequences, SequencesExt

CONSTANTS IntWidth,               \* 2^32
          PortWidth,              \* 2^16
          MAX_TTL, DEFAULT_TTL,
          MIN_DOH_TIMEOUT_MS, MAX_DOH_TIMEOUT_MS, DEFAULT_DOH_TIMEOUT_MS,
          DEFAULT_DNS_PORT,
          MaskValue               \* the words each mask of a user agent stands for

ASSUME SettingsAssumption ==
    /\ IntWidth \in Nat /\ PortWidth \in Nat /\ 2 < PortWidth /\ PortWidth <= IntWidth \div 2
    /\ DEFAULT_DNS_PORT \in 1 .. PortWidth - 1
    /\ MAX_TTL \in Nat /\ MAX_TTL < IntWidth \div 2 /\ DEFAULT_TTL \in 0 .. MAX_TTL
    /\ MIN_DOH_TIMEOUT_MS \in Nat
    /\ MAX_DOH_TIMEOUT_MS \in Nat /\ MAX_DOH_TIMEOUT_MS < IntWidth \div 2
    /\ DEFAULT_DOH_TIMEOUT_MS \in MIN_DOH_TIMEOUT_MS .. MAX_DOH_TIMEOUT_MS

MIN_DNS_PORT == 1
MAX_DNS_PORT == PortWidth - 1
MIN_TTL == 0

\* The documented ranges.
Limits == [port |-> MIN_DNS_PORT .. MAX_DNS_PORT, ttl |-> MIN_TTL .. MAX_TTL,
           timeout |-> MIN_DOH_TIMEOUT_MS .. MAX_DOH_TIMEOUT_MS]
Numbers == DOMAIN Limits

\* In the order ProcessUseragentMask replaces them.
Masks == <<"{{APP_VERSION}}", "{{APP_DESCRIPTION}}", "{{APP_HOMEPAGE}}", "{{CONSOLE}}",
           "{{FIRMWARE_VERSION}}">>
USERAGENT_TEMPLATE_SIMPLE == {"chukei/", "{{APP_VERSION}}", "{{CONSOLE}}"}
USERAGENT_TEMPLATE_FULL == USERAGENT_TEMPLATE_SIMPLE \cup {"{{FIRMWARE_VERSION}}"}

\* The empty string, for a text that was not given, and the number for one that was not.
Empty == ""
NotGiven == -1

DEFAULT_ZONES_PATH == "default zones.json"
DEFAULT_CACERT_PATH(platform) == IF platform = "pc" THEN Empty ELSE "default cacert.pem"

\* The tables Initialize may leave in m_Zones_.
Nothing == [from |-> "nothing"]
Table(source, v4, v6) == [from |-> source, v4 |-> v4, v6 |-> v6]

\* The members of Config before main runs.
Defaults == [ip |-> "127.0.0.1", port |-> DEFAULT_DNS_PORT, resolvers |-> <<"cloudflare">>,
             agent |-> {}, dohOnly |-> FALSE, v4 |-> "127.0.0.1", v6 |-> "::1",
             ttl |-> DEFAULT_TTL, path |-> Empty, zones |-> Nothing, cacert |-> Empty,
             timeout |-> DEFAULT_DOH_TIMEOUT_MS, initialized |-> FALSE]

-----------------------------------------------------------------------------
(* What main collects: its local variables *)

Unset(platform) ==
    [log |-> Empty, dohOnly |-> FALSE, resolvers |-> <<>>, timeout |-> NotGiven,
     agent |-> {}, cacert |-> DEFAULT_CACERT_PATH(platform), zones |-> DEFAULT_ZONES_PATH,
     ip |-> Empty, port |-> NotGiven, v4 |-> Empty, v6 |-> Empty, ttl |-> NotGiven]

\* One argument of the command line: l holds the locals and whether main has
\* returned.  A number out of its range is fatal (as is text that is no number),
\* and so is an option without its value or one that does not exist.
Argument(l, a) ==
    IF l.exit # "none" THEN l
    ELSE CASE a.option = "help" -> [l EXCEPT !.exit = "help"]
           [] a.option # "help" /\ (a.option = "unknown" \/ a.missing) ->
                [l EXCEPT !.exit = "fatal"]
           [] a.option = "dohOnly" /\ ~ a.missing -> [l EXCEPT !.opts.dohOnly = TRUE]
           [] a.option = "resolvers" /\ ~ a.missing ->
                [l EXCEPT !.opts.resolvers = Append(@, a.value)]
           [] a.option \in Numbers /\ ~ a.missing ->
                IF a.value \in Limits[a.option] THEN [l EXCEPT !.opts[a.option] = a.value]
                                                ELSE [l EXCEPT !.exit = "fatal"]
           [] OTHER -> [l EXCEPT !.opts[a.option] = a.value]

\* The loop over argv: after[i] is what the first i arguments leave.
ParseArguments(g) ==
    LET after[i \in 0 .. Len(g.arguments)] ==
          IF i = 0 THEN [opts |-> Unset("pc"), exit |-> "none"]
          ELSE Argument(after[i - 1], g.arguments[i])
    IN  after[Len(g.arguments)]

\* json::get<int>: the low 32 bits, read as a signed number.
ToInt(n) == ((n + IntWidth \div 2) % IntWidth) - IntWidth \div 2

\* static_cast<uint16_t>
ToPort(n) == n % PortWidth

\* A key of config.json counts when its value has the key's type; of an array of
\* resolvers, the strings.  A file that is missing or does not parse has no keys.
KeyValue(k, v) == CASE k \in Numbers -> ToInt(v)
                    [] k = "resolvers" -> SelectSeq(v, LAMBDA r : r # "number")
                    [] OTHER -> v

ReadConfigFile(g) ==
    LET keys == IF g.file = "parsed" THEN DOMAIN g.keys \ g.mistyped ELSE {}
    IN  [opts |-> [k \in DOMAIN Unset("console") |->
                     IF k \in keys THEN KeyValue(k, g.keys[k]) ELSE Unset("console")[k]],
         exit |-> "none"]

\* The log level: only the command line treats an unknown one as fatal.
LogLevel(platform, l) ==
    IF l.exit = "none" /\ platform = "pc" /\ l.opts.log = "unknown"
      THEN [l EXCEPT !.exit = "fatal"] ELSE l

Collect(platform, g) ==
    LogLevel(platform, IF platform = "pc" THEN ParseArguments(g) ELSE ReadConfigFile(g))

-----------------------------------------------------------------------------
(* The setters: what they accept, and what main does when they refuse *)

\* if (given) if (setter(value) != 0) return 1;
Apply(m, given, accepted, field, value) ==
    [m EXCEPT !.config[field] = IF given /\ accepted THEN value ELSE @,
              !.exit = IF @ = "none" /\ given /\ ~ accepted THEN "fatal" ELSE @]

Regular(g, path) == path # Empty /\ path \in DOMAIN g.disk /\ g.disk[path].stat = "regular"

DnsIpAddress(m, ip) == Apply(m, ip # Empty, ip \in {"v4", "v6"}, "ip", ip)
RedirectIpv4(m, ip) == Apply(m, ip # Empty, ip = "v4", "v4", ip)
RedirectIpv6(m, ip) == Apply(m, ip # Empty, ip = "v6", "v6", ip)
DefaultTtl(m, ttl) == Apply(m, ttl >= 0, ttl \in Limits.ttl, "ttl", ttl)
DohTimeoutMs(m, ms) == Apply(m, ms >= 0, ms \in Limits.timeout, "timeout", ms)

\* As a variant: the port is checked before it is narrowed.
DnsPort_CheckedWide(m, port) == Apply(m, port >= 0, port >= MIN_DNS_PORT, "port", ToPort(port))

DnsPort(m, port) == Apply(m, port >= 0, ToPort(port) \in Limits.port, "port", ToPort(port))

\* Only https URLs with a literal address are kept; none left is an error.
DohResolvers(m, urls) ==
    LET valid == SelectSeq(urls, LAMBDA r : r = "good")
    IN  Apply(m, urls # <<>>, valid # <<>>, "resolvers", valid)

DohOnly(m, b) == Apply(m, TRUE, TRUE, "dohOnly", b)

\* A refused path is only logged; the empty path clears the member.
CacertPath(m, g, path) ==
    Apply(m, path = Empty \/ Regular(g, path), TRUE, "cacert", path)

\* One pass per mask: the words that word w becomes in the passes from i on.  A
\* value that is itself a later mask is replaced in turn.
Becomes[i \in 1 .. Len(Masks) + 1, w \in STRING] ==
    CASE i > Len(Masks) -> {w}
      [] i <= Len(Masks) /\ w = Masks[i] -> UNION {Becomes[i + 1, v] : v \in MaskValue[w]}
      [] OTHER -> Becomes[i + 1, w]

ProcessUseragentMask(words) == UNION {Becomes[1, w] : w \in words}

Useragent(m, words) ==
    LET processed == ProcessUseragentMask(words)
    IN  Apply(m, words # {}, processed # {}, "agent", processed)

-----------------------------------------------------------------------------
(* Config::Initialize *)

\* What opening and parsing a zones file may give.
Contents == {"gone", "unparseable", "empty", "noarray", "invalid", "good"}

\* ConfigParser::Parse: a file that cannot be opened or parsed is an empty one.
Parse(g, path) == IF g.disk[path].read \in {"gone", "unparseable"} THEN "empty"
                                                                   ELSE g.disk[path].read

\* Config::Zones: a file without a zones array is normalised to an empty table
\* and accepted; one with an invalid record is refused, and empties the table.
\* A good one has the redirect addresses of the moment written into it.
Zones(c, source, content) ==
    [c EXCEPT !.zones = IF content = "good" THEN Table(source, c.v4, c.v6) ELSE Nothing,
              !.initialized = content # "invalid" \/ c.dohOnly]

\* Config::Zones after LoadDefault.  It throws when the built-in rules do not
\* parse: main goes on without rules when it was told to forward everything.
LoadDefault(c, g) ==
    LET d == [c EXCEPT !.path = Empty]
    IN  IF g.disk[Empty].read = "good" THEN Zones(d, "default", "good")
        ELSE IF c.dohOnly THEN Zones(d, "default", "empty") ELSE d

Initialize(m, g, path) ==
    LET template == IF MaskValue["{{FIRMWARE_VERSION}}"] = {} THEN USERAGENT_TEMPLATE_SIMPLE
                                                              ELSE USERAGENT_TEMPLATE_FULL
        content == IF Regular(g, path) THEN Parse(g, path) ELSE "empty"
    IN  [Useragent(m, template) EXCEPT
           !.config = IF content = "empty" THEN LoadDefault(@, g)
                      ELSE Zones([@ EXCEPT !.path = path], "file", content)]

-----------------------------------------------------------------------------
(* main up to the sockets *)

PreInit(platform, m, g, o) ==
    LET cert(n) == IF platform = "pc" /\ o.cacert = Empty THEN n ELSE CacertPath(n, g, o.cacert)
    IN  DefaultTtl(RedirectIpv6(RedirectIpv4(cert(DohOnly(m, o.dohOnly)), o.v4), o.v6), o.ttl)

PostInit(m, o) ==
    DnsPort(DnsIpAddress(Useragent(DohTimeoutMs(DohResolvers(m, o.resolvers), o.timeout),
                                   o.agent), o.ip), o.port)

\* As a variant: the zones are loaded before the redirect addresses are set.
InitializedFirst(platform, m, g, o) ==
    PostInit(PreInit(platform, Initialize(m, g, o.zones), g, o), o)

ApplySettings(platform, m, g, o) ==
    PostInit(Initialize(PreInit(platform, m, g, o), g, o.zones), o)

CheckInitialized(m) ==
    [m EXCEPT !.exit = IF @ = "none" /\ ~ m.config.initialized THEN "fatal" ELSE @]

\* The settings of a start with input g and locals l, and why main returns, or "none".
Configure(platform, g, l) ==
    CheckInitialized(ApplySettings(platform, [config |-> Defaults, exit |-> l.exit], g, l.opts))

=============================================================================
