---------------------------- MODULE RelayProofs -----------------------------
(***************************************************************************)
(* Takeovers never leave the machine without a relay, for any number of    *)
(* instances, any settings and any bound on the faults; and a relay that   *)
(* runs has the settings it was given and rules that fit them.             *)
(*                                                                         *)
(* The first is an invariant of its own (IInv).  The others follow from    *)
(* Loaded, that a running relay has what main made of what it found, and   *)
(* from lemmas about main: what each setter keeps and sets, and what the   *)
(* loop over the arguments leaves of each option.                          *)
(***************************************************************************)
EXTENDS Relay, NaturalsInduction, WellFoundedInduction, TLAPS

\* Whoever has a socket is past its first bind, and not gone.
Owners == \A q \in Procs : sockets[q] # {} => stage[q] \in {"bindtcp", "dying"} \cup Running

\* Nobody kills or waits for itself, nor for one that has no name yet.
HadName(p) == stage[p] \in Loading \cup Running \cup {"dying", "gone"}
Targets == \A p \in Procs : stage[p] \in {"kill", "wait"} =>
              target[p] \in Procs \ {p} /\ HadName(target[p])

\* Only a process that is gone has left for a reason of its own.
Reasoned == \A q \in Procs : stage[q] # "gone" => ended[q] \in {"none", "killed"}

Own == {"help", "fatal", "signal", "thrown"}

\* As long as every system call works and nobody left for a reason of its own,
\* somebody waits for a dying process.
Awaited == (faults = 0 /\ ~ Left(Own)) =>
             \A q \in Procs : stage[q] = "dying" =>
                \E p \in Procs : stage[p] = "wait" /\ target[p] = q

IInv == TypeOK /\ Owners /\ Targets /\ Reasoned /\ Awaited /\ NeverGone

\* What main makes of what p found.
Configured(p) == Configure(platform, Found(p), Collect(platform, Found(p)))

\* An instance that got past its settings runs with what main made of what it found.
Past(p) == stage[p] \in {"bindudp", "bindtcp"} \cup Running
Loaded == /\ DOMAIN config = Procs /\ DOMAIN input = Procs
          /\ \A p \in Procs : Past(p) =>
                /\ input[p] \in DOMAIN Inputs[platform][p]
                /\ Configured(p).exit = "none"
                /\ config[p] = Configured(p).config

-----------------------------------------------------------------------------
(* The settings: what the setters leave alone, and what they set *)

Fields == DOMAIN Defaults

\* A state of main: the configuration and why it returned.
Form(m) == DOMAIN m = {"config", "exit"} /\ DOMAIN m.config = Fields

Keeps(m, r, changed) == /\ Form(r)
                        /\ \A f \in Fields \ changed : r.config[f] = m.config[f]
                        /\ r.exit = "none" => m.exit = "none"

LEMMA FieldNames ==
    Fields = {"ip", "port", "resolvers", "agent", "dohOnly", "v4", "v6", "ttl",
              "path", "zones", "cacert", "timeout", "initialized"}
  BY DEF Fields, Defaults

\* Every setter changes its own member only, and a refusal is never forgotten.
LEMMA SettersKeep ==
    ASSUME NEW m, Form(m), NEW v, NEW g
    PROVE  /\ Keeps(m, DohOnly(m, v), {"dohOnly"})
           /\ Keeps(m, CacertPath(m, g, v), {"cacert"})
           /\ Keeps(m, RedirectIpv4(m, v), {"v4"})
           /\ Keeps(m, RedirectIpv6(m, v), {"v6"})
           /\ Keeps(m, DefaultTtl(m, v), {"ttl"})
           /\ Keeps(m, DohResolvers(m, v), {"resolvers"})
           /\ Keeps(m, DohTimeoutMs(m, v), {"timeout"})
           /\ Keeps(m, Useragent(m, v), {"agent"})
           /\ Keeps(m, DnsIpAddress(m, v), {"ip"})
           /\ Keeps(m, DnsPort(m, v), {"port"})
<1> USE FieldNames DEF Keeps, Form, Apply
<1>1. Keeps(m, DohOnly(m, v), {"dohOnly"})
  BY DEF DohOnly
<1>2. Keeps(m, CacertPath(m, g, v), {"cacert"})
  BY DEF CacertPath
<1>3. Keeps(m, RedirectIpv4(m, v), {"v4"}) /\ Keeps(m, RedirectIpv6(m, v), {"v6"})
  BY DEF RedirectIpv4, RedirectIpv6
<1>4. Keeps(m, DefaultTtl(m, v), {"ttl"}) /\ Keeps(m, DohTimeoutMs(m, v), {"timeout"})
  BY DEF DefaultTtl, DohTimeoutMs
<1>5. Keeps(m, DohResolvers(m, v), {"resolvers"})
  BY DEF DohResolvers
<1>6. Keeps(m, Useragent(m, v), {"agent"})
  BY DEF Useragent
<1>7. Keeps(m, DnsIpAddress(m, v), {"ip"})
  BY DEF DnsIpAddress
<1>8. Keeps(m, DnsPort(m, v), {"port"})
  BY DEF DnsPort
<1> QED
  BY <1>1, <1>2, <1>3, <1>4, <1>5, <1>6, <1>7, <1>8

\* What was given is in force, or main has returned.
LEMMA SettersSet ==
    ASSUME NEW m, Form(m), NEW v
    PROVE  /\ RedirectIpv4(m, v).exit = "none" =>
                 RedirectIpv4(m, v).config.v4 = IF v # Empty THEN v ELSE m.config.v4
           /\ RedirectIpv6(m, v).exit = "none" =>
                 RedirectIpv6(m, v).config.v6 = IF v # Empty THEN v ELSE m.config.v6
           /\ DnsIpAddress(m, v).exit = "none" =>
                 DnsIpAddress(m, v).config.ip = IF v # Empty THEN v ELSE m.config.ip
           /\ DefaultTtl(m, v).exit = "none" =>
                 IF v >= 0 THEN v \in Limits.ttl /\ DefaultTtl(m, v).config.ttl = v
                           ELSE DefaultTtl(m, v).config.ttl = m.config.ttl
           /\ DohTimeoutMs(m, v).exit = "none" =>
                 IF v >= 0 THEN v \in Limits.timeout /\ DohTimeoutMs(m, v).config.timeout = v
                           ELSE DohTimeoutMs(m, v).config.timeout = m.config.timeout
           /\ DnsPort(m, v).exit = "none" =>
                 IF v >= 0 THEN /\ ToPort(v) \in Limits.port
                                /\ DnsPort(m, v).config.port = ToPort(v)
                           ELSE DnsPort(m, v).config.port = m.config.port
<1> USE FieldNames DEF Form, Apply
<1>1. RedirectIpv4(m, v).exit = "none" =>
         RedirectIpv4(m, v).config.v4 = IF v # Empty THEN v ELSE m.config.v4
  BY DEF RedirectIpv4
<1>2. RedirectIpv6(m, v).exit = "none" =>
         RedirectIpv6(m, v).config.v6 = IF v # Empty THEN v ELSE m.config.v6
  BY DEF RedirectIpv6
<1>3. DnsIpAddress(m, v).exit = "none" =>
         DnsIpAddress(m, v).config.ip = IF v # Empty THEN v ELSE m.config.ip
  BY DEF DnsIpAddress
<1>4. DefaultTtl(m, v).exit = "none" =>
         IF v >= 0 THEN v \in Limits.ttl /\ DefaultTtl(m, v).config.ttl = v
                   ELSE DefaultTtl(m, v).config.ttl = m.config.ttl
  BY DEF DefaultTtl
<1>5. DohTimeoutMs(m, v).exit = "none" =>
         IF v >= 0 THEN v \in Limits.timeout /\ DohTimeoutMs(m, v).config.timeout = v
                   ELSE DohTimeoutMs(m, v).config.timeout = m.config.timeout
  BY DEF DohTimeoutMs
<1>6. DnsPort(m, v).exit = "none" =>
         IF v >= 0 THEN /\ ToPort(v) \in Limits.port
                        /\ DnsPort(m, v).config.port = ToPort(v)
                   ELSE DnsPort(m, v).config.port = m.config.port
  BY DEF DnsPort
<1> QED
  BY <1>1, <1>2, <1>3, <1>4, <1>5, <1>6

LEMMA PreInitFacts ==
    ASSUME NEW pf, NEW m, Form(m), NEW g, NEW o, NEW r, r = PreInit(pf, m, g, o)
    PROVE  /\ Keeps(m, r, {"dohOnly", "cacert", "v4", "v6", "ttl"})
           /\ r.exit = "none" =>
                /\ r.config.v4 = IF o.v4 # Empty THEN o.v4 ELSE m.config.v4
                /\ r.config.v6 = IF o.v6 # Empty THEN o.v6 ELSE m.config.v6
                /\ IF o.ttl >= 0 THEN o.ttl \in Limits.ttl /\ r.config.ttl = o.ttl
                                 ELSE r.config.ttl = m.config.ttl
<1> DEFINE a == DohOnly(m, o.dohOnly)
           b == IF pf = "pc" /\ o.cacert = Empty THEN a ELSE CacertPath(a, g, o.cacert)
           c == RedirectIpv4(b, o.v4)
           d == RedirectIpv6(c, o.v6)
           e == DefaultTtl(d, o.ttl)
<1>f. ASSUME NEW x, NEW y, NEW S, Keeps(x, y, S) PROVE Form(y)
  BY <1>f DEF Keeps
<1>1. Keeps(m, a, {"dohOnly"})
  BY SettersKeep
<1> HIDE DEF a
<1>2. Keeps(a, b, {"cacert"})
  <2>1. Form(a) /\ Keeps(a, a, {"cacert"})
    BY <1>1 DEF Keeps
  <2>2. Keeps(a, CacertPath(a, g, o.cacert), {"cacert"})
    BY <2>1, SettersKeep
  <2> QED
    BY <2>1, <2>2
<1> HIDE DEF b
<1>3. /\ Keeps(b, c, {"v4"})
      /\ c.exit = "none" => c.config.v4 = IF o.v4 # Empty THEN o.v4 ELSE b.config.v4
  BY <1>2, <1>f, SettersKeep, SettersSet
<1> HIDE DEF c
<1>4. /\ Keeps(c, d, {"v6"})
      /\ d.exit = "none" => d.config.v6 = IF o.v6 # Empty THEN o.v6 ELSE c.config.v6
  BY <1>3, <1>f, SettersKeep, SettersSet
<1> HIDE DEF d
<1>5. /\ Keeps(d, e, {"ttl"})
      /\ e.exit = "none" => IF o.ttl >= 0 THEN o.ttl \in Limits.ttl /\ e.config.ttl = o.ttl
                                      ELSE e.config.ttl = d.config.ttl
  <2>1. Form(d)
    BY <1>4, <1>f
  <2>2. Keeps(d, e, {"ttl"})
    BY <2>1, SettersKeep
  <2>3. e.exit = "none" => IF o.ttl >= 0 THEN o.ttl \in Limits.ttl /\ e.config.ttl = o.ttl
                                     ELSE e.config.ttl = d.config.ttl
    BY <2>1, SettersSet
  <2> QED
    BY <2>2, <2>3
<1> HIDE DEF e
<1>6. r = e
  BY DEF PreInit, a, b, c, d, e
<1>7. Keeps(m, e, {"dohOnly", "cacert", "v4", "v6", "ttl"})
  BY <1>1, <1>2, <1>3, <1>4, <1>5 DEF Keeps
<1>8. e.exit = "none" =>
         /\ d.exit = "none" /\ c.exit = "none"
         /\ e.config.v4 = c.config.v4 /\ b.config.v4 = m.config.v4
         /\ e.config.v6 = d.config.v6 /\ c.config.v6 = m.config.v6
         /\ d.config.ttl = m.config.ttl
  BY <1>1, <1>2, <1>3, <1>4, <1>5, FieldNames DEF Keeps
<1> QED
  BY <1>3, <1>4, <1>5, <1>6, <1>7, <1>8

LEMMA PostInitFacts ==
    ASSUME NEW m, Form(m), NEW o
    PROVE  LET r == PostInit(m, o)
           IN  /\ Keeps(m, r, {"resolvers", "timeout", "agent", "ip", "port"})
               /\ r.exit = "none" =>
                    /\ r.config.ip = IF o.ip # Empty THEN o.ip ELSE m.config.ip
                    /\ IF o.timeout >= 0
                         THEN o.timeout \in Limits.timeout /\ r.config.timeout = o.timeout
                         ELSE r.config.timeout = m.config.timeout
                    /\ IF o.port >= 0
                         THEN ToPort(o.port) \in Limits.port /\ r.config.port = ToPort(o.port)
                         ELSE r.config.port = m.config.port
<1> DEFINE a == DohResolvers(m, o.resolvers)
           b == DohTimeoutMs(a, o.timeout)
           c == Useragent(b, o.agent)
           d == DnsIpAddress(c, o.ip)
           e == DnsPort(d, o.port)
<1>f. ASSUME NEW x, NEW y, NEW S, Keeps(x, y, S) PROVE Form(y)
  BY <1>f DEF Keeps
<1>1. Keeps(m, a, {"resolvers"})
  BY SettersKeep
<1> HIDE DEF a
<1>2. /\ Keeps(a, b, {"timeout"})
      /\ b.exit = "none" => IF o.timeout >= 0
                          THEN o.timeout \in Limits.timeout /\ b.config.timeout = o.timeout
                          ELSE b.config.timeout = a.config.timeout
  <2>1. Form(a)
    BY <1>1, <1>f
  <2> QED
    BY <2>1, SettersKeep, SettersSet
<1> HIDE DEF b
<1>3. Keeps(b, c, {"agent"})
  BY <1>2, <1>f, SettersKeep
<1> HIDE DEF c
<1>4. /\ Keeps(c, d, {"ip"})
      /\ d.exit = "none" => d.config.ip = IF o.ip # Empty THEN o.ip ELSE c.config.ip
  BY <1>3, <1>f, SettersKeep, SettersSet
<1> HIDE DEF d
<1>5. /\ Keeps(d, e, {"port"})
      /\ e.exit = "none" => IF o.port >= 0
                          THEN ToPort(o.port) \in Limits.port /\ e.config.port = ToPort(o.port)
                          ELSE e.config.port = d.config.port
  <2>1. Form(d)
    BY <1>4, <1>f
  <2> QED
    BY <2>1, SettersKeep, SettersSet
<1> HIDE DEF e
<1>6. PostInit(m, o) = e
  BY DEF PostInit, a, b, c, d, e
<1>7. Keeps(m, e, {"resolvers", "timeout", "agent", "ip", "port"})
  BY <1>1, <1>2, <1>3, <1>4, <1>5 DEF Keeps
<1>8. e.exit = "none" =>
         /\ d.exit = "none" /\ b.exit = "none"
         /\ e.config.ip = d.config.ip /\ c.config.ip = m.config.ip
         /\ e.config.timeout = b.config.timeout /\ a.config.timeout = m.config.timeout
         /\ d.config.port = m.config.port
  BY <1>1, <1>2, <1>3, <1>4, <1>5, FieldNames DEF Keeps
<1> QED
  BY <1>2, <1>4, <1>5, <1>6, <1>7, <1>8

\* What RulesInForce says of a configuration c read from the input g.
Rules(c, g) ==
    /\ c.zones # Nothing => /\ c.zones = Table(c.zones.from, c.v4, c.v6)
                            /\ (c.path = Empty) <=> (c.zones.from = "default")
    /\ (c.zones = Nothing /\ ~ c.dohOnly) =>
          (c.path # Empty /\ g.disk[c.path].read = "noarray")

ZonesFound(g) == \A path \in DOMAIN g.disk \ {Empty} : g.disk[path].read \in Contents

LEMMA ZonesFacts ==
    ASSUME NEW c, DOMAIN c = Fields, NEW source, NEW content
    PROVE  LET r == Zones(c, source, content)
           IN  /\ DOMAIN r = Fields
               /\ \A f \in Fields \ {"zones", "initialized"} : r[f] = c[f]
               /\ r.zones = IF content = "good" THEN Table(source, c.v4, c.v6) ELSE Nothing
  BY FieldNames DEF Zones

\* Config::Initialize leaves rules that fit the redirect addresses, or says that it
\* failed (config.cc:35-66, 238-248).
LEMMA InitializeFacts ==
    ASSUME NEW m, Form(m), NEW g, NEW path, ZonesFound(g),
           m.config.zones = Nothing, m.config.initialized = FALSE
    PROVE  LET r == Initialize(m, g, path)
           IN  /\ Keeps(m, r, {"agent", "path", "zones", "initialized"})
               /\ r.config.initialized => Rules(r.config, g)
<1> DEFINE template == IF MaskValue["{{FIRMWARE_VERSION}}"] = {} THEN USERAGENT_TEMPLATE_SIMPLE
                                                                 ELSE USERAGENT_TEMPLATE_FULL
           a == Useragent(m, template)
           c == a.config
           content == IF Regular(g, path) THEN Parse(g, path) ELSE "empty"
           d == IF content = "empty" THEN LoadDefault(c, g)
                ELSE Zones([c EXCEPT !.path = path], "file", content)
           r == Initialize(m, g, path)
<1>1. Keeps(m, a, {"agent"})
  BY SettersKeep
<1>2. r = [a EXCEPT !.config = d]
  BY DEF Initialize
<1> HIDE DEF a, d, content, r, template
<1>3. /\ r.config = d /\ r.exit = a.exit /\ DOMAIN r = {"config", "exit"}
  BY <1>1, <1>2 DEF Keeps, Form
<1>4. DOMAIN c = Fields /\ c.zones = Nothing /\ c.initialized = FALSE
  BY <1>1, FieldNames DEF Keeps, Form
<1> HIDE DEF c
<1>p. ASSUME NEW q
      PROVE  LET e == [c EXCEPT !.path = q]
             IN  /\ DOMAIN e = Fields /\ e.path = q
                 /\ \A f \in Fields \ {"path"} : e[f] = c[f]
  BY <1>4, FieldNames
<1> DEFINE OK == /\ DOMAIN d = Fields
                 /\ \A f \in Fields \ {"path", "zones", "initialized"} : d[f] = c[f]
                 /\ d.initialized => Rules(d, g)
<1>5. ASSUME content = "empty" PROVE OK
  <2> DEFINE e == [c EXCEPT !.path = Empty]
  <2>0. /\ DOMAIN e = Fields /\ e.path = Empty
        /\ \A f \in Fields \ {"path"} : e[f] = c[f]
    BY <1>p
  <2>1. d = LoadDefault(c, g)
    BY <1>5 DEF d
  <2>2. \/ d = Zones(e, "default", "good")
        \/ c.dohOnly /\ d = Zones(e, "default", "empty")
        \/ d = e
    BY <2>1 DEF LoadDefault
  <2> HIDE DEF e
  <2>3. CASE d = Zones(e, "default", "good")
    <3>1. /\ DOMAIN d = Fields
          /\ \A f \in Fields \ {"zones", "initialized"} : d[f] = e[f]
          /\ d.zones = Table("default", e.v4, e.v6)
      BY <2>0, <2>3, FieldNames DEF Zones
    <3>2. d.zones.from = "default" /\ d.zones # Nothing
      BY <3>1 DEF Table, Nothing
    <3>3. d.zones = Table(d.zones.from, d.v4, d.v6) /\ d.path = Empty
      BY <2>0, <3>1, <3>2, FieldNames
    <3> QED
      BY <2>0, <3>1, <3>2, <3>3, FieldNames DEF Rules
  <2>4. CASE c.dohOnly /\ d = Zones(e, "default", "empty")
    <3>1. /\ DOMAIN d = Fields
          /\ \A f \in Fields \ {"zones", "initialized"} : d[f] = e[f]
          /\ d.zones = Nothing
      BY <2>0, <2>4, FieldNames DEF Zones
    <3> QED
      BY <2>0, <2>4, <3>1, FieldNames DEF Rules
  <2>5. CASE d = e
    BY <1>4, <2>0, <2>5, FieldNames
  <2> QED
    BY <2>2, <2>3, <2>4, <2>5
<1>6. ASSUME content # "empty" PROVE OK
  <2> DEFINE e == [c EXCEPT !.path = path]
  <2>0. /\ DOMAIN e = Fields /\ e.path = path
        /\ \A f \in Fields \ {"path"} : e[f] = c[f]
    BY <1>p
  <2>1. d = Zones(e, "file", content)
    BY <1>6 DEF d
  <2>2. Regular(g, path) /\ content = Parse(g, path)
    BY <1>6 DEF content
  <2>3. path # Empty /\ path \in DOMAIN g.disk
    BY <2>2 DEF Regular
  <2>4. g.disk[path].read = content /\ content \in {"noarray", "invalid", "good"}
    BY <1>6, <2>2, <2>3 DEF Parse, ZonesFound, Contents
  <2> HIDE DEF e
  <2>5. /\ DOMAIN d = Fields
        /\ \A f \in Fields \ {"zones", "initialized"} : d[f] = e[f]
        /\ d.zones = IF content = "good" THEN Table("file", e.v4, e.v6) ELSE Nothing
    BY <2>0, <2>1, ZonesFacts
  <2>6. CASE content = "good"
    <3>1. d.zones = Table("file", e.v4, e.v6)
      BY <2>5, <2>6
    <3>2. d.zones.from = "file" /\ d.zones # Nothing
      BY <3>1 DEF Table, Nothing
    <3>3. d.zones = Table(d.zones.from, d.v4, d.v6) /\ d.path # Empty
      BY <2>0, <2>3, <2>5, <3>1, <3>2, FieldNames
    <3> QED
      BY <2>0, <2>5, <3>2, <3>3, FieldNames DEF Rules
  <2>7. CASE content = "noarray"
    BY <2>0, <2>3, <2>4, <2>5, <2>7, FieldNames DEF Rules
  <2>8. CASE content = "invalid"
    <3>1. d.initialized => e.dohOnly
      BY <2>0, <2>1, <2>8, FieldNames DEF Zones
    <3> QED
      BY <2>0, <2>5, <2>8, <3>1, FieldNames DEF Rules
  <2> QED
    BY <2>4, <2>6, <2>7, <2>8
<1>7. OK
  BY <1>5, <1>6
<1>8. Keeps(m, r, {"agent", "path", "zones", "initialized"})
  BY <1>1, <1>3, <1>7, FieldNames DEF Keeps, Form, c
<1>9. r.config.initialized => Rules(r.config, g)
  BY <1>3, <1>7
<1> QED
  BY <1>8, <1>9 DEF r

\* The settings of main, as far as the properties speak of them.
LEMMA ConfigureFacts ==
    ASSUME NEW pf, NEW g, ZonesFound(g), NEW l,
           Configure(pf, g, l).exit = "none"
    PROVE  LET c == Configure(pf, g, l).config
               o == l.opts
           IN  /\ l.exit = "none" /\ Rules(c, g)
               /\ c.ip = IF o.ip # Empty THEN o.ip ELSE Defaults.ip
               /\ c.v4 = IF o.v4 # Empty THEN o.v4 ELSE Defaults.v4
               /\ c.v6 = IF o.v6 # Empty THEN o.v6 ELSE Defaults.v6
               /\ IF o.ttl >= 0 THEN o.ttl \in Limits.ttl /\ c.ttl = o.ttl
                                ELSE c.ttl = Defaults.ttl
               /\ IF o.timeout >= 0
                    THEN o.timeout \in Limits.timeout /\ c.timeout = o.timeout
                    ELSE c.timeout = Defaults.timeout
               /\ IF o.port >= 0 THEN ToPort(o.port) \in Limits.port /\ c.port = ToPort(o.port)
                                 ELSE c.port = Defaults.port
<1> DEFINE o == l.opts
           m == [config |-> Defaults, exit |-> l.exit]
           a == PreInit(pf, m, g, o)
           b == Initialize(a, g, o.zones)
           d == PostInit(b, o)
           r == CheckInitialized(d)
<1>0. r = Configure(pf, g, l)
  BY DEF Configure, ApplySettings
<1>1. Form(m) /\ m.config.zones = Nothing /\ m.config.initialized = FALSE
      /\ m.config = Defaults /\ m.exit = l.exit
  BY DEF Form, Fields, Defaults
<1> HIDE DEF m, o
<1>2. /\ Keeps(m, a, {"dohOnly", "cacert", "v4", "v6", "ttl"})
      /\ a.exit = "none" =>
           /\ a.config.v4 = IF o.v4 # Empty THEN o.v4 ELSE m.config.v4
           /\ a.config.v6 = IF o.v6 # Empty THEN o.v6 ELSE m.config.v6
           /\ IF o.ttl >= 0 THEN o.ttl \in Limits.ttl /\ a.config.ttl = o.ttl
                            ELSE a.config.ttl = m.config.ttl
  <2>1. Form(m) /\ a = PreInit(pf, m, g, o)
    BY <1>1
  <2> HIDE DEF a
  <2> QED
    BY ONLY <2>1, PreInitFacts, SMTT(60)
<1> HIDE DEF a
<1>3. Form(a) /\ a.config.zones = Nothing /\ a.config.initialized = FALSE
  BY <1>1, <1>2, FieldNames DEF Keeps
<1>4. /\ Keeps(a, b, {"agent", "path", "zones", "initialized"})
      /\ b.config.initialized => Rules(b.config, g)
  BY <1>3, InitializeFacts
<1> HIDE DEF b
<1>5. Form(b)
  BY <1>4 DEF Keeps
<1>6. /\ Keeps(b, d, {"resolvers", "timeout", "agent", "ip", "port"})
      /\ d.exit = "none" =>
           /\ d.config.ip = IF o.ip # Empty THEN o.ip ELSE b.config.ip
           /\ IF o.timeout >= 0
                THEN o.timeout \in Limits.timeout /\ d.config.timeout = o.timeout
                ELSE d.config.timeout = b.config.timeout
           /\ IF o.port >= 0
                THEN ToPort(o.port) \in Limits.port /\ d.config.port = ToPort(o.port)
                ELSE d.config.port = b.config.port
  BY <1>5, PostInitFacts
<1> HIDE DEF d
<1>7. r.config = d.config /\ d.exit = "none" /\ d.config.initialized
  <2>1. r.exit = "none" /\ DOMAIN d = {"config", "exit"}
    BY <1>0, <1>6 DEF Keeps, Form
  <2> QED
    BY <2>1 DEF CheckInitialized
<1>8. b.exit = "none" /\ a.exit = "none" /\ l.exit = "none"
  BY <1>1, <1>2, <1>4, <1>6, <1>7 DEF Keeps
<1>9. /\ d.config.ttl = a.config.ttl /\ d.config.v4 = a.config.v4
      /\ d.config.v6 = a.config.v6
      /\ b.config.ip = Defaults.ip /\ b.config.timeout = Defaults.timeout
      /\ b.config.port = Defaults.port
  BY <1>1, <1>2, <1>4, <1>6, FieldNames DEF Keeps
<1>10. Rules(d.config, g)
  <2>1. /\ d.config.zones = b.config.zones /\ d.config.path = b.config.path
        /\ d.config.v4 = b.config.v4 /\ d.config.v6 = b.config.v6
        /\ d.config.dohOnly = b.config.dohOnly
        /\ d.config.initialized = b.config.initialized
    BY <1>6, FieldNames DEF Keeps
  <2>2. Rules(b.config, g)
    BY <1>4, <1>7, <2>1
  <2> QED
    BY <2>1, <2>2 DEF Rules
<1> HIDE DEF r
<1>11. d.config.ip = IF o.ip # Empty THEN o.ip ELSE Defaults.ip
  BY <1>6, <1>7, <1>9
<1>12. /\ d.config.v4 = IF o.v4 # Empty THEN o.v4 ELSE Defaults.v4
       /\ d.config.v6 = IF o.v6 # Empty THEN o.v6 ELSE Defaults.v6
  BY <1>1, <1>2, <1>8, <1>9
<1>13. IF o.ttl >= 0 THEN o.ttl \in Limits.ttl /\ d.config.ttl = o.ttl
                     ELSE d.config.ttl = Defaults.ttl
  BY <1>1, <1>2, <1>8, <1>9
<1>14. /\ IF o.timeout >= 0
            THEN o.timeout \in Limits.timeout /\ d.config.timeout = o.timeout
            ELSE d.config.timeout = Defaults.timeout
       /\ IF o.port >= 0
            THEN ToPort(o.port) \in Limits.port /\ d.config.port = ToPort(o.port)
            ELSE d.config.port = Defaults.port
  BY <1>6, <1>7, <1>9
<1>15. Configure(pf, g, l).config = d.config /\ o = l.opts
  BY <1>0, <1>7 DEF o
<1> QED
  BY <1>8, <1>10, <1>11, <1>12, <1>13, <1>14, <1>15

-----------------------------------------------------------------------------
(* The command line and the file of keys *)

\* A nonempty set of numbers has a least member.
LEMMA LeastExists ==
    ASSUME NEW T, T \subseteq Nat, T # {}
    PROVE  \E x \in T : \A y \in T : x <= y
<1> DEFINE R == {ss \in Nat \X Nat : ss[1] < ss[2]}
<1>1. IsWellFoundedOn(R, Nat)
  BY NatLessThanWellFounded DEF OpToRel
<1>2. PICK x \in T : \A y \in T : ~ <<y, x>> \in R
  BY <1>1, WFMin
<1>3. ASSUME NEW y \in T PROVE x <= y
  <2>1. x \in Nat /\ y \in Nat /\ <<y, x>> \in Nat \X Nat
    OBVIOUS
  <2>2. y < x => <<y, x>> \in R
    BY <2>1
  <2> QED
    BY <1>2, <2>1, <2>2
<1> QED
  BY <1>3

\* The numbers and addresses that the properties speak of.
Tracked == {"port", "ttl", "timeout", "ip", "v4", "v6"}

NoArguments == [opts |-> Unset("pc"), exit |-> "none"]

\* The loop over argv has an outcome after every argument (main-pc.cc).
LEMMA ParseSteps ==
    ASSUME NEW g, Len(g.arguments) \in Nat
    PROVE  \E f : /\ f[0] = NoArguments
                  /\ \A i \in 1 .. Len(g.arguments) : f[i] = Argument(f[i - 1], g.arguments[i])
                  /\ ParseArguments(g) = f[Len(g.arguments)]
<1> DEFINE n == Len(g.arguments)
           Leaves(f, i) == IF i = 0 THEN NoArguments ELSE Argument(f[i - 1], g.arguments[i])
           Body(f) == [i \in 0 .. n |-> Leaves(f, i)]
           after == CHOOSE f : f = Body(f)
           Good(m) == \E f : \A j \in 0 .. n : j <= m => f[j] = Leaves(f, j)
           Bad == {m \in Nat : ~ Good(m)}
<1>0. n \in Nat
  OBVIOUS
<1>a. ParseArguments(g) = after[n]
  BY DEF ParseArguments, NoArguments
<1> HIDE DEF n
<1>r. ASSUME NEW e, NEW f, NEW j \in 0 .. n, j # 0 => e[j - 1] = f[j - 1]
      PROVE  Leaves(e, j) = Leaves(f, j)
  BY <1>r
<1>1. Good(0)
  <2> DEFINE f == [j \in 0 .. n |-> NoArguments]
  <2>1. \A j \in 0 .. n : j <= 0 => f[j] = Leaves(f, j)
    BY <1>0
  <2> QED
    BY <2>1
<1> HIDE DEF Leaves
<1>2. ASSUME NEW m \in Nat, Good(m) PROVE Good(m + 1)
  <2>1. PICK f : \A j \in 0 .. n : j <= m => f[j] = Leaves(f, j)
    BY <1>2
  <2> DEFINE e == Body(f)
  <2>2. \A j \in 0 .. n : e[j] = Leaves(f, j)
    OBVIOUS
  <2> HIDE DEF e
  <2>3. ASSUME NEW j \in 0 .. n, j <= m + 1
        PROVE  Leaves(f, j) = Leaves(e, j)
    <3>1. ASSUME j # 0 PROVE e[j - 1] = f[j - 1]
      <4>1. j - 1 \in 0 .. n /\ j - 1 <= m
        BY <1>0, <2>3, <3>1
      <4> QED
        BY <2>1, <2>2, <4>1
    <3> QED
      BY <1>r, <3>1
  <2> QED
    BY <2>2, <2>3
<1> HIDE DEF Good
<1>3. Bad = {}
  <2> SUFFICES ASSUME Bad # {} PROVE FALSE
    OBVIOUS
  <2>1. PICK m \in Bad : \A y \in Bad : m <= y
    BY LeastExists
  <2>2. m # 0 /\ m \in Nat
    BY <1>1
  <2>3. m - 1 \in Nat /\ ~ (m - 1 \in Bad)
    BY <2>1, <2>2
  <2>4. Good(m - 1)
    BY <2>3
  <2>5. Good((m - 1) + 1)
    BY <1>2, <2>3, <2>4
  <2> QED
    BY <2>2, <2>5
<1>5. \E f : f = Body(f)
  <2>1. PICK f : \A j \in 0 .. n : j <= n => f[j] = Leaves(f, j)
    <3>1. Good(n)
      BY <1>0, <1>3
    <3> QED
      BY <3>1 DEF Good
  <2> DEFINE e == Body(f)
  <2>2. ASSUME NEW j \in 0 .. n PROVE e[j] = f[j]
    BY <1>0, <2>1
  <2>3. ASSUME NEW j \in 0 .. n PROVE Leaves(f, j) = Leaves(e, j)
    <3>1. ASSUME j # 0 PROVE e[j - 1] = f[j - 1]
      BY <1>0, <2>2, <3>1
    <3> HIDE DEF e
    <3> QED
      BY <1>r, <3>1
  <2>4. e = Body(e)
    BY <2>3
  <2> QED
    BY <2>4
<1>6. after = Body(after)
  BY <1>5
<1> HIDE DEF after
<1>7. \A j \in 0 .. n : after[j] = Leaves(after, j)
  BY <1>6
<1>8. after[0] = NoArguments
  BY <1>0, <1>7 DEF Leaves
<1>9. ASSUME NEW i \in 1 .. n PROVE after[i] = Argument(after[i - 1], g.arguments[i])
  BY <1>0, <1>7 DEF Leaves
<1> QED
  BY <1>a, <1>8, <1>9 DEF n

LocalsForm(l) == DOMAIN l = {"opts", "exit"} /\ DOMAIN l.opts = DOMAIN Unset("pc")

LEMMA OptionNames ==
    DOMAIN Unset("pc") = {"log", "dohOnly", "resolvers", "timeout", "agent", "cacert",
                          "zones", "ip", "port", "v4", "v6", "ttl"}
  BY DEF Unset

LEMMA NumberNames == Numbers = {"port", "ttl", "timeout"}
  BY DEF Numbers, Limits

\* One argument sets its own option, to a number in its range, or main returns.
LEMMA ArgumentSets ==
    ASSUME NEW l, NEW a, LocalsForm(l), a.missing \in BOOLEAN
    PROVE  LET r == Argument(l, a)
           IN  /\ LocalsForm(r)
               /\ r.exit = "none" =>
                    /\ l.exit = "none"
                    /\ \A o \in Tracked :
                         IF a.option = o
                           THEN r.opts[o] = a.value /\ (o \in Numbers => a.value \in Limits[o])
                           ELSE r.opts[o] = l.opts[o]
<1> DEFINE r == Argument(l, a)
<1> USE OptionNames, NumberNames DEF LocalsForm, Tracked
<1>1. CASE l.exit # "none"
  BY <1>1 DEF Argument
<1>2. CASE l.exit = "none" /\ (a.option = "help" \/ a.option = "unknown" \/ a.missing)
  <2>1. r.exit # "none" /\ LocalsForm(r)
    BY <1>2 DEF Argument
  <2> QED
    BY <2>1
<1>3. CASE l.exit = "none" /\ a.option \in Numbers /\ ~ a.missing
  <2>1. r = IF a.value \in Limits[a.option] THEN [l EXCEPT !.opts[a.option] = a.value]
                                           ELSE [l EXCEPT !.exit = "fatal"]
    BY <1>3 DEF Argument
  <2> HIDE DEF r
  <2>2. CASE a.value \in Limits[a.option]
    BY <1>3, <2>1, <2>2 DEF r
  <2>3. CASE a.value \notin Limits[a.option]
    BY <1>3, <2>1, <2>3 DEF r
  <2> QED
    BY <2>2, <2>3
<1>4. CASE /\ l.exit = "none" /\ ~ a.missing /\ a.option \notin Numbers
           /\ a.option # "help" /\ a.option # "unknown"
  <2>1. \/ r = [l EXCEPT !.opts.dohOnly = TRUE] /\ a.option = "dohOnly"
        \/ r = [l EXCEPT !.opts.resolvers = Append(@, a.value)] /\ a.option = "resolvers"
        \/ r = [l EXCEPT !.opts[a.option] = a.value]
    BY <1>4 DEF Argument
  <2> HIDE DEF r
  <2>2. CASE r = [l EXCEPT !.opts.dohOnly = TRUE] /\ a.option = "dohOnly"
    BY <1>4, <2>2 DEF r
  <2>3. CASE r = [l EXCEPT !.opts.resolvers = Append(@, a.value)] /\ a.option = "resolvers"
    BY <1>4, <2>3 DEF r
  <2>4. CASE r = [l EXCEPT !.opts[a.option] = a.value]
    BY <1>4, <2>4 DEF r
  <2> QED
    BY <2>1, <2>2, <2>3, <2>4
<1> QED
  BY <1>1, <1>2, <1>3, <1>4

\* v is what the first i arguments give for option o: the value of the last one that
\* names it, or the value of an option that was not given.
Gives(g, i, o, v) ==
    \/ (\A j \in 1 .. i : g.arguments[j].option # o) /\ v = Unset("pc")[o]
    \/ \E j \in 1 .. i : /\ g.arguments[j].option = o
                         /\ \A k \in j + 1 .. i : g.arguments[k].option # o
                         /\ v = g.arguments[j].value
                         /\ o \in Numbers => v \in Limits[o]

\* The command line: every option has the value of its last argument (main-pc.cc).
LEMMA ParseGives ==
    ASSUME NEW g, Len(g.arguments) \in Nat,
           \A k \in 1 .. Len(g.arguments) : g.arguments[k].missing \in BOOLEAN,
           ParseArguments(g).exit = "none", NEW o \in Tracked
    PROVE  Gives(g, Len(g.arguments), o, ParseArguments(g).opts[o])
<1> DEFINE n == Len(g.arguments)
<1>1. PICK f : /\ f[0] = NoArguments
               /\ \A i \in 1 .. n : f[i] = Argument(f[i - 1], g.arguments[i])
               /\ ParseArguments(g) = f[n]
  BY ParseSteps
<1> DEFINE Good(i) == /\ LocalsForm(f[i])
                      /\ f[i].exit = "none" => Gives(g, i, o, f[i].opts[o])
           Bad == {i \in Nat : i <= n /\ ~ Good(i)}
<1> HIDE DEF n
<1>0. n \in Nat
  BY DEF n
<1>2. Good(0)
  <2>1. LocalsForm(f[0]) /\ f[0].opts[o] = Unset("pc")[o]
    BY <1>1 DEF LocalsForm, NoArguments
  <2> QED
    BY <2>1 DEF Gives
<1>3. ASSUME NEW i \in Nat, i + 1 <= n, Good(i) PROVE Good(i + 1)
  <2> DEFINE a == g.arguments[i + 1]
             l == f[i]
             r == f[i + 1]
  <2>0. i + 1 \in 1 .. n
    BY <1>0, <1>3
  <2>1. r = Argument(l, a) /\ a.missing \in BOOLEAN
    <3>1. (i + 1) - 1 = i
      OBVIOUS
    <3>2. f[i + 1] = Argument(f[(i + 1) - 1], g.arguments[i + 1])
      BY <1>1, <2>0
    <3> QED
      BY <2>0, <3>1, <3>2 DEF n
  <2> HIDE DEF a, l, r
  <2>2. LocalsForm(l) /\ (l.exit = "none" => Gives(g, i, o, l.opts[o]))
    BY <1>3 DEF l
  <2>3. /\ LocalsForm(r)
        /\ r.exit = "none" =>
             /\ l.exit = "none"
             /\ IF a.option = o
                  THEN r.opts[o] = a.value /\ (o \in Numbers => a.value \in Limits[o])
                  ELSE r.opts[o] = l.opts[o]
    BY <2>1, <2>2, ArgumentSets
  <2>4. ASSUME r.exit = "none" PROVE Gives(g, i + 1, o, r.opts[o])
    <3>1. CASE a.option = o
      <4>1. \A k \in (i + 1) + 1 .. i + 1 : g.arguments[k].option # o
        OBVIOUS
      <4>2. i + 1 \in 1 .. i + 1
        OBVIOUS
      <4> QED
        BY <2>3, <2>4, <3>1, <4>1, <4>2 DEF Gives, a
    <3>2. CASE a.option # o
      <4>1. Gives(g, i, o, r.opts[o])
        BY <2>2, <2>3, <2>4, <3>2
      <4>2. g.arguments[i + 1].option # o
        BY <3>2 DEF a
      <4>3. CASE /\ \A j \in 1 .. i : g.arguments[j].option # o
                 /\ r.opts[o] = Unset("pc")[o]
        <5>1. \A j \in 1 .. i + 1 : g.arguments[j].option # o
          BY <4>2, <4>3
        <5> QED
          BY <4>3, <5>1 DEF Gives
      <4>4. ASSUME NEW j \in 1 .. i, g.arguments[j].option = o,
                   \A k \in j + 1 .. i : g.arguments[k].option # o,
                   r.opts[o] = g.arguments[j].value,
                   o \in Numbers => r.opts[o] \in Limits[o]
            PROVE  Gives(g, i + 1, o, r.opts[o])
        <5>1. j \in 1 .. i + 1 /\ \A k \in j + 1 .. i + 1 : g.arguments[k].option # o
          BY <4>2, <4>4
        <5> QED
          BY <4>4, <5>1 DEF Gives
      <4> QED
        BY <4>1, <4>3, <4>4 DEF Gives
    <3> QED
      BY <3>1, <3>2
  <2> QED
    BY <2>3, <2>4 DEF r
<1> HIDE DEF Good
<1>4. Bad = {}
  <2> SUFFICES ASSUME Bad # {} PROVE FALSE
    OBVIOUS
  <2>1. PICK i \in Bad : \A y \in Bad : i <= y
    BY LeastExists
  <2>2. i # 0 /\ i \in Nat /\ i <= n
    BY <1>2
  <2>3. i - 1 \in Nat /\ i - 1 <= n /\ ~ (i - 1 \in Bad)
    BY <1>0, <2>1, <2>2
  <2>4. Good(i - 1)
    BY <2>3
  <2>5. Good((i - 1) + 1)
    BY <1>3, <2>2, <2>3, <2>4
  <2> QED
    BY <2>2, <2>5
<1>5. Good(n)
  BY <1>0, <1>4
<1> QED
  BY <1>1, <1>5 DEF Good, n

\* What config.json gives: of its keys that count, a number or a text (main-ps.cc).
Counts(g) == IF g.file = "parsed" THEN DOMAIN g.keys \ g.mistyped ELSE {}

LEMMA FileGives ==
    ASSUME NEW g, NEW o \in Tracked
    PROVE  LET v == ReadConfigFile(g).opts[o]
           IN  /\ o \notin Counts(g) => v = Unset("console")[o]
               /\ o \in Counts(g) =>
                    v = IF o \in Numbers THEN ToInt(g.keys[o]) ELSE g.keys[o]
<1>1. o \in DOMAIN Unset("console")
  BY DEF Tracked, Unset
<1>2. ReadConfigFile(g).opts[o] =
         IF o \in Counts(g) THEN KeyValue(o, g.keys[o]) ELSE Unset("console")[o]
  BY <1>1 DEF ReadConfigFile, Counts
<1>3. KeyValue(o, g.keys[o]) = IF o \in Numbers THEN ToInt(g.keys[o]) ELSE g.keys[o]
  <2>1. CASE o \in Numbers
    BY <2>1, NumberNames DEF KeyValue
  <2>2. CASE o \notin Numbers
    BY <2>2, NumberNames DEF KeyValue, Tracked
  <2> QED
    BY <2>1, <2>2
<1> QED
  BY <1>2, <1>3

\* An option that was not given.
LEMMA UnsetIs ==
    ASSUME NEW pf, NEW o \in Tracked
    PROVE  Unset(pf)[o] = IF o \in Numbers THEN NotGiven ELSE Empty
  BY NumberNames DEF Unset, Tracked

\* A number in its range survives the conversions, and is not taken for one that
\* was not given.
LEMMA InRange ==
    ASSUME NEW o \in Numbers, NEW n \in Limits[o]
    PROVE  /\ n \in Int /\ n >= 0 /\ ToInt(n) = n
           /\ o = "port" => ToPort(n) = n
<1> USE SettingsAssumption
<1>1. n \in Int /\ 0 <= n /\ n < IntWidth \div 2 /\ (o = "port" => n < PortWidth)
  <2>1. CASE o = "port"
    BY <2>1 DEF Limits, MIN_DNS_PORT, MAX_DNS_PORT
  <2>2. CASE o = "ttl"
    BY <2>2 DEF Limits, MIN_TTL
  <2>3. CASE o = "timeout"
    BY <2>3 DEF Limits
  <2> QED
    BY <2>1, <2>2, <2>3, NumberNames
<1>2. \A x \in Nat, w \in Nat : x < w => x % w = x
  OBVIOUS
<1>3. o = "port" => ToPort(n) = n
  BY <1>1, <1>2 DEF ToPort
<1>4. ToInt(n) = n
  <2> DEFINE h == IntWidth \div 2
  <2>1. h \in Nat /\ h + h <= IntWidth
    OBVIOUS
  <2>2. n + h \in Nat /\ n + h < IntWidth
    BY <1>1, <2>1
  <2>3. (n + h) % IntWidth = n + h
    BY <1>2, <2>2
  <2> HIDE DEF h
  <2> QED
    BY <1>1, <2>1, <2>3 DEF ToInt, h
<1> QED
  BY <1>1, <1>3, <1>4

\* What main makes of an option it collected.
LEMMA OptionSet ==
    ASSUME NEW pf, NEW g, ZonesFound(g), NEW l, Configure(pf, g, l).exit = "none"
    PROVE  LET c == Configure(pf, g, l).config
           IN  /\ \A o \in Numbers : /\ c[o] \in Limits[o]
                                     /\ l.opts[o] \in Limits[o] => c[o] = l.opts[o]
                                     /\ l.opts[o] = NotGiven => c[o] = Defaults[o]
               /\ \A o \in {"ip", "v4", "v6"} :
                     c[o] = IF l.opts[o] # Empty THEN l.opts[o] ELSE Defaults[o]
<1> DEFINE c == Configure(pf, g, l).config
           v == l.opts
<1>1. /\ c.ip = IF v.ip # Empty THEN v.ip ELSE Defaults.ip
      /\ c.v4 = IF v.v4 # Empty THEN v.v4 ELSE Defaults.v4
      /\ c.v6 = IF v.v6 # Empty THEN v.v6 ELSE Defaults.v6
      /\ IF v.ttl >= 0 THEN v.ttl \in Limits.ttl /\ c.ttl = v.ttl
                       ELSE c.ttl = Defaults.ttl
      /\ IF v.timeout >= 0 THEN v.timeout \in Limits.timeout /\ c.timeout = v.timeout
                           ELSE c.timeout = Defaults.timeout
      /\ IF v.port >= 0 THEN ToPort(v.port) \in Limits.port /\ c.port = ToPort(v.port)
                        ELSE c.port = Defaults.port
  BY ConfigureFacts
<1> HIDE DEF c, v
<1>2. Defaults.ttl \in Limits.ttl /\ Defaults.timeout \in Limits.timeout
      /\ Defaults.port \in Limits.port
  BY SettingsAssumption DEF Defaults, Limits, MIN_TTL, MIN_DNS_PORT, MAX_DNS_PORT
<1>3. ~ (NotGiven >= 0)
  BY DEF NotGiven
<1>4. ASSUME NEW o \in Numbers
      PROVE  /\ c[o] \in Limits[o]
             /\ v[o] \in Limits[o] => c[o] = v[o]
             /\ v[o] = NotGiven => c[o] = Defaults[o]
  <2>0. v[o] \in Limits[o] => v[o] >= 0 /\ (o = "port" => ToPort(v[o]) = v[o])
    BY InRange
  <2>1. CASE o = "ttl"
    BY <1>1, <1>2, <1>3, <2>0, <2>1
  <2>2. CASE o = "timeout"
    BY <1>1, <1>2, <1>3, <2>0, <2>2
  <2>3. CASE o = "port"
    BY <1>1, <1>2, <1>3, <2>0, <2>3
  <2> QED
    BY <2>1, <2>2, <2>3, NumberNames
<1>5. \A o \in {"ip", "v4", "v6"} : c[o] = IF v[o] # Empty THEN v[o] ELSE Defaults[o]
  BY <1>1
<1> QED
  BY <1>4, <1>5 DEF c, v

-----------------------------------------------------------------------------

\* IInv holds before anybody starts.
LEMMA InitIInv == Init => IInv
  BY RelayAssumption DEF Init, IInv, TypeOK, Owners, Targets, Reasoned, Awaited, NeverGone,
     Stages, Reasons, Sockets, Scanning, Loading, Running

\* The stages are what their names say: every set of stages is disjoint from the others.
USE DEF Stages, Scanning, Loading, Running, Reasons, Sockets, Alive, Goto, Left

\* A failing system call is counted, so nothing is left to show about it.
LEMMA FaultCounted == ASSUME TypeOK, Fault
                      PROVE faults' \in 0 .. MaxFaults /\ faults' # 0
  BY RelayAssumption DEF TypeOK, Fault

\* A step that ends p keeps IInv when the reason is its own, or nobody depends on p
\* and somebody else is alive.
LEMMA EndKeeps ==
    ASSUME IInv, NEW p \in Procs, NEW why \in Reasons, End(p, why),
           UNCHANGED faults \/ Fault,
           stage[p] \notin {"absent", "off", "gone"}, stage[p] = "wait" => why \in Own,
           (why \notin Own /\ faults' = 0 /\ ~ Left(Own)) => \E q \in Procs \ {p} : Alive(q)
    PROVE IInv'
<1> USE DEF End
<1>f. faults' \in 0 .. MaxFaults /\ (faults' = 0 => faults = 0)
  BY FaultCounted DEF IInv, TypeOK
<1>1. TypeOK'
  BY <1>f DEF IInv, TypeOK
<1>2. Owners'
  BY DEF IInv, TypeOK, Owners
<1>3. Targets'
  BY DEF IInv, TypeOK, Targets, HadName
<1>4. Reasoned'
  BY DEF IInv, TypeOK, Reasoned
<1>5. Awaited'
  <2> SUFFICES ASSUME faults' = 0, ~ Left(Own)', NEW q \in Procs, stage'[q] = "dying"
               PROVE \E r \in Procs : stage'[r] = "wait" /\ target'[r] = q
    BY DEF Awaited
  <2>1. why \notin Own /\ ~ Left(Own)
    BY DEF IInv, TypeOK, Reasoned, Own
  <2>2. PICK r \in Procs : stage[r] = "wait" /\ target[r] = q
    BY <1>f, <2>1 DEF IInv, Awaited, TypeOK
  <2> QED BY <2>1, <2>2 DEF IInv, TypeOK
<1>6. NeverGone'
  <2> SUFFICES ASSUME faults' = 0, ~ Left(Own)', why \notin Own
               PROVE \E q \in Procs : Alive(q)'
    BY DEF NeverGone, Own, IInv, TypeOK
  <2>1. ~ Left(Own)
    BY DEF IInv, TypeOK, Reasoned, Own
  <2>2. PICK q \in Procs \ {p} : Alive(q)
    BY <2>1
  <2> QED BY <2>2 DEF IInv, TypeOK
<1> QED BY <1>1, <1>2, <1>3, <1>4, <1>5, <1>6 DEF IInv

\* A step that moves a living p on to a living stage, and touches nothing that
\* the others rely on, keeps IInv.
LEMMA MoveKeeps ==
    ASSUME IInv, NEW p \in Procs, NEW s \in Scanning \cup Loading \cup Running, Goto(p, s),
           UNCHANGED faults \/ Fault,
           Alive(p) \/ stage[p] = "off",
           stage[p] = "wait" => (faults' # 0 \/ stage[target[p]] = "gone"),
           ended' = ended,
           pending' \in [Procs -> BOOLEAN],
           platform' = platform,
           target' \in [Procs -> Procs \cup {NoProc}],
           \A q \in Procs \ {p} : target'[q] = target[q],
           s \in {"kill", "wait"} => (target'[p] \in Procs \ {p} /\ HadName(target'[p])),
           HadName(p) => s \in Loading \cup Running,
           sockets' \in [Procs -> SUBSET Sockets],
           \A q \in Procs \ {p} : sockets'[q] = sockets[q],
           sockets'[p] # {} => s \in {"bindtcp"} \cup Running
    PROVE IInv'
<1>f. faults' \in 0 .. MaxFaults /\ (faults' = 0 => faults = 0)
  BY FaultCounted DEF IInv, TypeOK
<1>1. TypeOK'
  BY <1>f DEF IInv, TypeOK
<1>2. Owners'
  BY DEF IInv, TypeOK, Owners
<1>3. Targets'
  BY DEF IInv, TypeOK, Targets, HadName
<1>4. Reasoned'
  BY DEF IInv, TypeOK, Reasoned
<1>5. Awaited'
  <2> SUFFICES ASSUME faults' = 0, ~ Left(Own), NEW q \in Procs, stage'[q] = "dying"
               PROVE \E r \in Procs : stage'[r] = "wait" /\ target'[r] = q
    BY DEF Awaited
  <2>1. q # p /\ stage[q] = "dying"
    BY DEF IInv, TypeOK
  <2>2. PICK r \in Procs : stage[r] = "wait" /\ target[r] = q
    BY <1>f, <2>1 DEF IInv, Awaited
  <2>3. r # p
    BY <2>1, <2>2
  <2> QED BY <2>2, <2>3 DEF IInv, TypeOK
<1>6. NeverGone'
  BY DEF NeverGone, IInv, TypeOK
<1> QED BY <1>1, <1>2, <1>3, <1>4, <1>5, <1>6 DEF IInv

-----------------------------------------------------------------------------
(* The actions *)

\* Starting, scanning and naming: p goes on to another living stage.
LEMMA ScanKeeps ==
    ASSUME IInv, NEW p \in Procs,
           Start(p) \/ GetPidFromProcName(p) \/ Wait(p) \/ SetName(p)
    PROVE IInv'
<1>0. TypeOK /\ Owners
  BY DEF IInv
<1>1. CASE Start(p)
  <2>1. Goto(p, "scan") \/ Goto(p, "load")
    BY <1>1 DEF Start
  <2> QED BY <1>0, <1>1, <2>1, MoveKeeps DEF Start, TypeOK, Owners, HadName
<1>2. CASE GetPidFromProcName(p)
  <2>1. ASSUME NEW q \in Procs \ {p}, Named(q), target' = [target EXCEPT ![p] = q],
               Goto(p, "kill")
        PROVE IInv'
    BY <1>0, <1>2, <2>1, MoveKeeps DEF GetPidFromProcName, Named, TypeOK, Owners, HadName
  <2>2. ASSUME target' = [target EXCEPT ![p] = NoProc], Goto(p, "name")
        PROVE IInv'
    BY <1>0, <1>2, <2>2, MoveKeeps DEF GetPidFromProcName, TypeOK, Owners, HadName
  <2> QED BY <1>2, <2>1, <2>2 DEF GetPidFromProcName
<1>3. CASE Wait(p)
  BY <1>0, <1>3, MoveKeeps, FaultCounted DEF Wait, TypeOK, Owners, HadName
<1>4. CASE SetName(p)
  BY <1>0, <1>4, MoveKeeps DEF SetName, TypeOK, Owners, HadName
<1> QED BY <1>1, <1>2, <1>3, <1>4

\* The killer outlives its target, and waits for it.
LEMMA KillKeeps == ASSUME IInv, NEW p \in Procs, Kill(p) PROVE IInv'
<1>0. TypeOK /\ Owners /\ Targets /\ Reasoned
  BY DEF IInv
<1> DEFINE q == target[p]
<1>q. stage[p] = "kill" /\ q \in Procs \ {p} /\ HadName(q)
  BY <1>0 DEF Kill, Targets
<1>1. CASE stage' = [stage EXCEPT ![p] = "wait", ![q] = "dying"]
  <2>1. /\ ended' = [ended EXCEPT ![q] = "killed"]
        /\ stage[q] # "gone"
        /\ UNCHANGED <<platform, target, sockets, pending, faults>>
    <3>1. ~ Goto(p, "name")
      BY <1>0, <1>1, <1>q DEF TypeOK
    <3> QED BY <1>1, <3>1 DEF Kill
  <2>2. TypeOK'
    BY <1>0, <1>1, <1>q, <2>1 DEF TypeOK
  <2>3. Owners' /\ Targets' /\ Reasoned'
    BY <1>0, <1>1, <1>q, <2>1 DEF TypeOK, Owners, Targets, Reasoned, HadName
  <2>4. Awaited'
    <3> SUFFICES ASSUME faults = 0, ~ Left(Own), NEW r \in Procs, stage'[r] = "dying"
                 PROVE \E w \in Procs : stage'[w] = "wait" /\ target'[w] = r
      BY <1>0, <1>q, <2>1 DEF Awaited, Reasoned, TypeOK, Own
    <3>1. CASE r = q
      BY <1>0, <1>1, <1>q, <2>1, <3>1 DEF TypeOK
    <3>2. CASE r # q
      <4>1. stage[r] = "dying"
        BY <1>0, <1>1, <1>q, <3>2 DEF TypeOK
      <4>2. PICK w \in Procs : stage[w] = "wait" /\ target[w] = r
        BY <4>1 DEF IInv, Awaited
      <4>3. CASE w # q
        BY <1>0, <1>1, <1>q, <2>1, <4>2, <4>3 DEF TypeOK
      <4>4. CASE w = q
        BY <1>q, <4>2, <4>4 DEF HadName
      <4> QED BY <4>3, <4>4
    <3> QED BY <3>1, <3>2
  <2>5. NeverGone'
    BY <1>0, <1>1, <1>q DEF NeverGone, TypeOK
  <2> QED BY <2>2, <2>3, <2>4, <2>5 DEF IInv
<1>2. CASE Goto(p, "name")
  <2>1. UNCHANGED ended
    BY <1>0, <1>2, <1>q DEF Kill, TypeOK
  <2> QED BY <1>0, <1>2, <1>q, <2>1, MoveKeeps DEF Kill, TypeOK, Owners, HadName
<1> QED BY <1>1, <1>2 DEF Kill

\* Bad settings are a reason of its own; good ones lead on to the sockets.
LEMMA LoadKeeps == ASSUME IInv, NEW p \in Procs, Load(p) PROVE IInv'
<1>0. TypeOK /\ Owners /\ stage[p] = "load"
  BY DEF IInv, Load
<1>1. UNCHANGED faults
  BY DEF Load
<1>2. PICK m : IF m.exit = "none"
                 THEN /\ Goto(p, "bindudp")
                      /\ UNCHANGED <<platform, target, sockets, pending, ended>>
                 ELSE End(p, IF m.exit = "help" THEN "help" ELSE "fatal")
  BY DEF Load
<1>3. CASE End(p, IF m.exit = "help" THEN "help" ELSE "fatal")
  <2>1. End(p, "help") \/ End(p, "fatal")
    BY <1>3
  <2> QED BY <1>0, <1>1, <2>1, EndKeeps DEF Own
<1>4. CASE Goto(p, "bindudp") /\ UNCHANGED <<platform, target, sockets, pending, ended>>
  BY <1>0, <1>1, <1>4, MoveKeeps DEF TypeOK, Owners, HadName
<1> QED BY <1>2, <1>3, <1>4

\* Whoever keeps the endpoint from p is alive, or dying with somebody alive waiting for it.
LEMMA BindKeeps == ASSUME IInv, NEW p \in Procs, BindUdp(p) \/ BindTcp(p) PROVE IInv'
<1>0. TypeOK /\ Owners /\ Awaited
  BY DEF IInv
<1>1. ASSUME NEW socket \in Sockets, stage[p] \in {"bindudp", "bindtcp"}, Taken(p, socket),
             End(p, "bind"), UNCHANGED faults
      PROVE IInv'
  <2>1. PICK q \in Procs \ {p} : sockets[q] # {}
    BY <1>1 DEF Taken
  <2>2. ASSUME faults = 0, ~ Left(Own)
        PROVE \E r \in Procs \ {p} : Alive(r)
    <3>1. CASE stage[q] = "dying"
      <4>1. PICK r \in Procs : stage[r] = "wait"
        BY <1>0, <2>2, <3>1 DEF Awaited
      <4>2. r # p
        BY <1>1, <4>1
      <4> QED BY <4>1, <4>2
    <3>2. CASE stage[q] # "dying"
      BY <1>0, <2>1, <3>2 DEF Owners
    <3> QED BY <3>1, <3>2
  <2> QED BY <1>1, <2>2, EndKeeps
<1>2. ASSUME NEW at \in {"bindudp", "bindtcp"}, NEW socket \in Sockets,
             NEW next \in {"bindtcp", "serve"}, Bind(p, at, socket, next)
      PROVE IInv'
  <2>1. CASE Taken(p, socket) /\ UNCHANGED faults /\ End(p, "bind")
    BY <1>1, <1>2, <2>1 DEF Bind
  <2>2. CASE Fault /\ End(p, "bind")
    <3>1. faults' # 0
      BY <1>0, <2>2 DEF Fault, TypeOK
    <3>2. stage[p] \notin {"absent", "off", "gone", "wait"} /\ "bind" \in Reasons
      BY <1>2 DEF Bind, Reasons
    <3> QED BY <2>2, <3>1, <3>2, EndKeeps
  <2>3. CASE ~ Taken(p, socket) /\ Goto(p, next) /\ UNCHANGED faults
             /\ sockets' = [sockets EXCEPT ![p] = @ \cup {socket}]
             /\ UNCHANGED <<platform, target, pending, ended>>
    BY <1>0, <1>2, <2>3, MoveKeeps DEF Bind, TypeOK, Owners, HadName
  <2> QED BY <1>2, <2>1, <2>2, <2>3 DEF Bind
<1> QED BY <1>2 DEF BindUdp, BindTcp

\* The end of a killed process, signals and exceptions.
LEMMA EndsKeep ==
    ASSUME IInv, NEW p \in Procs,
           Reap(p) \/ Signal(p) \/ HandleSignal(p) \/ HandlerThrows(p)
    PROVE IInv'
<1>0. TypeOK /\ Owners /\ Awaited /\ Reasoned
  BY DEF IInv
<1>1. CASE Reap(p)
  <2>1. stage[p] = "dying" /\ ended[p] \in {"none", "killed"} /\ End(p, ended[p])
    BY <1>0, <1>1 DEF Reap, Reasoned
  <2>2. ASSUME faults = 0, ~ Left(Own)
        PROVE \E r \in Procs \ {p} : Alive(r)
    <3>1. PICK r \in Procs : stage[r] = "wait"
      BY <1>0, <2>1, <2>2 DEF Awaited
    <3> QED BY <2>1, <3>1
  <2> QED BY <1>1, <2>1, <2>2, EndKeeps DEF Reap
<1>2. CASE Signal(p)
  <2>1. CASE stage[p] = "serve"
    <3>1. Goto(p, "serve")
      BY <1>0, <1>2, <2>1 DEF Signal, TypeOK
    <3>2. /\ UNCHANGED <<platform, target, sockets, ended, faults>>
          /\ pending' \in [Procs -> BOOLEAN]
      BY <1>0, <1>2, <2>1 DEF Signal, TypeOK
    <3> HIDE DEF Goto
    <3> QED BY <1>0, <2>1, <3>1, <3>2, MoveKeeps DEF TypeOK, Owners, HadName
  <2>2. CASE stage[p] # "serve"
    BY <1>0, <1>2, <2>2, EndKeeps DEF Signal, Own
  <2> QED BY <2>1, <2>2
<1>3. CASE HandleSignal(p)
  BY <1>0, <1>3, EndKeeps DEF HandleSignal, Own
<1>4. CASE HandlerThrows(p)
  <2>1. CASE stage[p] = "again"
    BY <1>0, <1>4, <2>1, EndKeeps DEF HandlerThrows, Own
  <2>2. CASE stage[p] # "again"
    <3>1. stage[p] = "serve" /\ Goto(p, "again") /\ Fault
      BY <1>4, <2>2 DEF HandlerThrows
    <3>2. /\ UNCHANGED <<platform, target, sockets, ended>>
          /\ pending' \in [Procs -> BOOLEAN]
      BY <1>0, <1>4, <2>2 DEF HandlerThrows, TypeOK
    <3> HIDE DEF Goto
    <3> QED BY <1>0, <3>1, <3>2, MoveKeeps DEF TypeOK, Owners, HadName
  <2> QED BY <2>1, <2>2
<1> QED BY <1>1, <1>2, <1>3, <1>4

-----------------------------------------------------------------------------

\* IInv is inductive.
LEMMA NextIInv == IInv /\ [Next]_vars => IInv'
<1> SUFFICES ASSUME IInv, [Next]_vars PROVE IInv'
  OBVIOUS
<1>1. CASE Next
  BY <1>1, ScanKeeps, KillKeeps, LoadKeeps, BindKeeps, EndsKeep DEF Next, Step
<1>2. CASE UNCHANGED vars
  BY <1>2 DEF vars, IInv, TypeOK, Owners, Targets, HadName, Reasoned, Awaited, NeverGone
<1> QED BY <1>1, <1>2

\* Every variable keeps its type, for any number of instances (main-ps.cc, main-pc.cc).
THEOREM RelayTypeCorrect == Spec => []TypeOK
  BY InitIInv, NextIInv, PTL DEF Spec, IInv

\* Takeovers alone never leave the machine without a relay (KillProcByName and
\* main, main-ps.cc:104-155): for any number of instances and any settings.
THEOREM TakeoverSafe == Spec => []NeverGone
  BY InitIInv, NextIInv, PTL DEF Spec, IInv

-----------------------------------------------------------------------------
(* The settings in force *)

\* Only Load lets an instance past its settings, and only Load writes them.
LEMMA LoadedStep ==
    ASSUME TypeOK, Loaded, UNCHANGED <<platform, input, config>>,
           \A q \in Procs : Past(q)' => Past(q)
    PROVE  Loaded'
<1>1. \A q \in Procs : Configured(q)' = Configured(q)
  BY DEF Configured, Found
<1> QED
  BY <1>1 DEF Loaded

\* Loaded is inductive.
LEMMA NextLoaded == IInv /\ Loaded /\ [Next]_vars => Loaded'
<1> SUFFICES ASSUME IInv, Loaded, [Next]_vars PROVE Loaded'
  OBVIOUS
<1>0. TypeOK /\ Targets
  BY DEF IInv
<1>1. CASE UNCHANGED vars
  BY <1>0, <1>1, LoadedStep DEF vars, Past
<1>2. ASSUME NEW p \in Procs, Load(p) PROVE Loaded'
  <2> DEFINE Outcome(m) == IF m.exit = "none"
                             THEN /\ Goto(p, "bindudp")
                                  /\ config' = [config EXCEPT ![p] = m.config]
                                  /\ UNCHANGED <<platform, target, sockets, pending, ended>>
                             ELSE /\ End(p, IF m.exit = "help" THEN "help" ELSE "fatal")
                                  /\ UNCHANGED config
  <2>0. PICK i \in DOMAIN Inputs[platform][p] :
           /\ input' = [input EXCEPT ![p] = i]
           /\ \E g \in {Inputs[platform][p][i]} : \E l \in {Collect(platform, g)} :
                 \E m \in {Configure(platform, g, l)} : Outcome(m)
    BY <1>2, Zenon DEF Load
  <2> DEFINE g == Inputs[platform][p][i]
             m == Configure(platform, g, Collect(platform, g))
  <2>a. Outcome(m)
    <3> HIDE DEF Outcome
    <3> QED
      BY <2>0, Zenon
  <2> HIDE DEF m
  <2>1. /\ input' = [input EXCEPT ![p] = i]
        /\ IF m.exit = "none"
             THEN Goto(p, "bindudp") /\ config' = [config EXCEPT ![p] = m.config]
             ELSE Goto(p, "gone") /\ UNCHANGED config
    BY <2>0, <2>a DEF End
  <2>2. platform' = platform
    BY <1>2 DEF Load, End
  <2>3. input'[p] = i /\ \A q \in Procs \ {p} : input'[q] = input[q]
    BY <2>1 DEF Loaded
  <2>4. DOMAIN config' = Procs /\ DOMAIN input' = Procs
    BY <2>1 DEF Loaded
  <2>5. \A q \in Procs \ {p} : /\ config'[q] = config[q] /\ stage'[q] = stage[q]
                               /\ Configured(q)' = Configured(q)
    BY <1>0, <2>1, <2>2, <2>3 DEF Loaded, TypeOK, Configured, Found
  <2>6. Configured(p)' = m
    BY <2>2, <2>3 DEF Configured, Found, m
  <2>7. Past(p)' => m.exit = "none" /\ config'[p] = m.config
    <3>1. CASE m.exit = "none"
      BY <2>1, <3>1 DEF Loaded
    <3>2. CASE m.exit # "none"
      BY <1>0, <2>1, <3>2 DEF Past, TypeOK
    <3> QED
      BY <3>1, <3>2
  <2>8. ASSUME NEW q \in Procs, Past(q)'
        PROVE  /\ input'[q] \in DOMAIN Inputs[platform'][q]
               /\ Configured(q)'.exit = "none" /\ config'[q] = Configured(q)'.config
    <3>1. CASE q = p
      BY <2>2, <2>3, <2>6, <2>7, <2>8, <3>1
    <3>2. CASE q # p
      BY <2>2, <2>3, <2>5, <2>8, <3>2 DEF Past, Loaded
    <3> QED
      BY <3>1, <3>2
  <2> QED
    BY <2>4, <2>8 DEF Loaded
<1>3. ASSUME NEW p \in Procs, Start(p) \/ GetPidFromProcName(p) \/ Wait(p) \/ SetName(p)
      PROVE  Loaded'
  BY <1>0, <1>3, LoadedStep DEF Start, GetPidFromProcName, Wait, SetName, Past, TypeOK
<1>4. ASSUME NEW p \in Procs, Kill(p) PROVE Loaded'
  BY <1>0, <1>4, LoadedStep DEF Kill, Past, TypeOK, Targets
<1>5. ASSUME NEW p \in Procs, BindUdp(p) \/ BindTcp(p) PROVE Loaded'
  BY <1>0, <1>5, LoadedStep DEF BindUdp, BindTcp, Bind, End, Past, TypeOK
<1>6. ASSUME NEW p \in Procs, Reap(p) \/ Signal(p) \/ HandleSignal(p) \/ HandlerThrows(p)
      PROVE  Loaded'
  BY <1>0, <1>6, LoadedStep DEF Reap, Signal, HandleSignal, HandlerThrows, End, Past, TypeOK
<1> QED
  BY <1>1, <1>2, <1>3, <1>4, <1>5, <1>6 DEF Next, Step

LEMMA InitLoaded == Init => Loaded
  BY DEF Init, Loaded, Past

\* Settings that main made are settings whose rules fit.
LEMMA LoadedRules == TypeOK /\ Loaded => RulesInForce
<1> SUFFICES ASSUME TypeOK, Loaded, NEW p \in Procs, stage[p] \in Running
             PROVE  Rules(config[p], Found(p))
  BY DEF RulesInForce, Rules
<1>1. Past(p)
  BY DEF Past
<1>2. input[p] \in DOMAIN Inputs[platform][p] /\ platform \in {"pc", "console"}
  BY <1>1 DEF Loaded, TypeOK
<1>3. ZonesFound(Found(p))
  BY <1>2, InputsAssumption DEF ZonesFound, Found
<1> QED
  BY <1>1, <1>3, ConfigureFacts DEF Loaded, Configured

\* The rules a relay serves belong to its settings (Config::Initialize and the order
\* in which main calls the setters, config.cc:35-66, 238-248), for any input.
THEOREM RulesFit == Spec => []RulesInForce
<1>1. IInv => TypeOK
  BY DEF IInv
<1> QED
  BY <1>1, InitIInv, NextIInv, InitLoaded, NextLoaded, LoadedRules, PTL DEF Spec

\* Settings that main made are the ones that were given.
LEMMA LoadedHonoured == TypeOK /\ Loaded => SettingsHonoured
<1> SUFFICES ASSUME TypeOK, Loaded, NEW p \in Procs, stage[p] \in Running
             PROVE  LET c == config[p]
                        g == Found(p)
                    IN  /\ \A o \in Numbers :
                             /\ c[o] \in Limits[o]
                             /\ (Mentions(g, o) /\ (platform = "pc" \/ Wanted(g, o) \in Limits[o]))
                                  => c[o] = Wanted(g, o)
                             /\ ~ Mentions(g, o) => c[o] = Defaults[o]
                        /\ \A o \in {"ip", "v4", "v6"} :
                             c[o] = IF Mentions(g, o) /\ Wanted(g, o) # Empty THEN Wanted(g, o)
                                                                             ELSE Defaults[o]
  BY DEF SettingsHonoured
<1> DEFINE c == config[p]
           g == Found(p)
           l == Collect(platform, g)
<1>1. Past(p)
  BY DEF Past
<1>2. input[p] \in DOMAIN Inputs[platform][p] /\ platform \in {"pc", "console"}
  BY <1>1 DEF Loaded, TypeOK
<1>3. /\ ZonesFound(g)
      /\ platform = "pc" => /\ Len(g.arguments) \in Nat
                            /\ \A k \in 1 .. Len(g.arguments) : g.arguments[k].missing \in BOOLEAN
  BY <1>2, InputsAssumption DEF ZonesFound, Found
<1>4. Configure(platform, g, l).exit = "none" /\ c = Configure(platform, g, l).config
  BY <1>1 DEF Loaded, Configured
<1>5. l.exit = "none"
  BY <1>3, <1>4, ConfigureFacts
<1>6. /\ \A o \in Numbers : /\ c[o] \in Limits[o]
                            /\ l.opts[o] \in Limits[o] => c[o] = l.opts[o]
                            /\ l.opts[o] = NotGiven => c[o] = Defaults[o]
      /\ \A o \in {"ip", "v4", "v6"} :
            c[o] = IF l.opts[o] # Empty THEN l.opts[o] ELSE Defaults[o]
  BY <1>3, <1>4, OptionSet
<1> HIDE DEF c, g
<1>7. l = IF platform = "pc" THEN ParseArguments(g) ELSE ReadConfigFile(g)
  BY <1>5 DEF Collect, LogLevel
<1> HIDE DEF l
<1>8. ASSUME NEW o \in Tracked
      PROVE  /\ ~ Mentions(g, o) => l.opts[o] = IF o \in Numbers THEN NotGiven ELSE Empty
             /\ Mentions(g, o) => 
                  /\ o \notin Numbers => l.opts[o] = Wanted(g, o)
                  /\ (o \in Numbers /\ (platform = "pc" \/ Wanted(g, o) \in Limits[o])) =>
                        l.opts[o] = Wanted(g, o) /\ l.opts[o] \in Limits[o]
  <2>1. CASE platform = "pc"
    <3> DEFINE n == Len(g.arguments)
               v == l.opts[o]
               LastFor(j) == /\ g.arguments[j].option = o
                             /\ \A k \in j + 1 .. n : g.arguments[k].option # o
    <3>1. Gives(g, n, o, v)
      BY <1>3, <1>5, <1>7, <2>1, ParseGives
    <3>2. CASE (\A j \in 1 .. n : g.arguments[j].option # o) /\ v = Unset("pc")[o]
      BY <2>1, <3>2, UnsetIs DEF Mentions
    <3>3. ASSUME NEW j \in 1 .. n, LastFor(j), v = g.arguments[j].value,
                 o \in Numbers => v \in Limits[o]
          PROVE  /\ Mentions(g, o) /\ v = Wanted(g, o)
                 /\ o \in Numbers => v \in Limits[o]
      <4> DEFINE w == CHOOSE i \in 1 .. n : LastFor(i)
      <4>1. w \in 1 .. n /\ LastFor(w)
        <5> HIDE DEF LastFor
        <5> QED
          BY <3>3
      <4>2. Wanted(g, o) = g.arguments[w].value
        BY <2>1 DEF Wanted
      <4> HIDE DEF w
      <4>3. w = j
        BY <1>3, <2>1, <3>3, <4>1
      <4> QED
        BY <2>1, <3>3, <4>2, <4>3 DEF Mentions
    <3> HIDE DEF v
    <3> QED
      BY <3>1, <3>2, <3>3 DEF Gives, v
  <2>2. CASE platform # "pc"
    <3>1. /\ Mentions(g, o) <=> o \in Counts(g)
          /\ Wanted(g, o) = g.keys[o]
      BY <2>2 DEF Mentions, Wanted, Counts
    <3>2. l.opts[o] = ReadConfigFile(g).opts[o]
      BY <1>7, <2>2
    <3>3. o \notin Counts(g) => l.opts[o] = IF o \in Numbers THEN NotGiven ELSE Empty
      BY <3>2, FileGives, UnsetIs
    <3>4. o \in Counts(g) => l.opts[o] = IF o \in Numbers THEN ToInt(g.keys[o]) ELSE g.keys[o]
      BY <3>2, FileGives
    <3>5. o \in Numbers /\ g.keys[o] \in Limits[o] => ToInt(g.keys[o]) = g.keys[o]
      BY InRange
    <3> QED
      BY <2>2, <3>1, <3>3, <3>4, <3>5
  <2> QED
    BY <2>1, <2>2
<1>9. ASSUME NEW o \in Numbers
      PROVE  /\ c[o] \in Limits[o]
             /\ (Mentions(g, o) /\ (platform = "pc" \/ Wanted(g, o) \in Limits[o]))
                  => c[o] = Wanted(g, o)
             /\ ~ Mentions(g, o) => c[o] = Defaults[o]
  <2>1. o \in Tracked
    BY NumberNames DEF Tracked
  <2> QED
    BY <1>6, <1>8, <2>1
<1>10. ASSUME NEW o \in {"ip", "v4", "v6"}
       PROVE  c[o] = IF Mentions(g, o) /\ Wanted(g, o) # Empty THEN Wanted(g, o)
                                                               ELSE Defaults[o]
  <2>1. o \in Tracked /\ o \notin Numbers
    BY NumberNames DEF Tracked
  <2> QED
    BY <1>6, <1>8, <2>1
<1> QED
  BY <1>9, <1>10 DEF c, g

\* A running relay has every number and address it was given and the default of the
\* others, and its numbers are in their ranges (main-pc.cc, main-ps.cc:190-216, 299-304,
\* config.cc:72-98, 173-213, 275-282): for any command line or config.json.
THEOREM SettingsInForce == Spec => []SettingsHonoured
<1>1. IInv => TypeOK
  BY DEF IInv
<1> QED
  BY <1>1, InitIInv, NextIInv, InitLoaded, NextLoaded, LoadedHonoured, PTL DEF Spec

=============================================================================
