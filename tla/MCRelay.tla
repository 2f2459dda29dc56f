------------------------------ MODULE MCRelay -------------------------------
(***************************************************************************)
(* Relay with 16 port numbers in 64 integers.  Instance "a" meets every    *)
(* input below, with "b" as its rival; "b", "c" and "d" meet with one      *)
(* input each.                                                             *)
(***************************************************************************)
EXTENDS Relay

\* The name of the platform is itself a mask, and the firmware has no version.
MCMaskValue == [k \in Range(Masks) |->
                  CASE k = "{{APP_VERSION}}" -> {"1.0"}
                    [] k = "{{CONSOLE}}" -> {"{{FIRMWARE_VERSION}}"}
                    [] k = "{{FIRMWARE_VERSION}}" -> {}
                    [] OTHER -> {"word"}]

Give(o, v) == [option |-> o, value |-> v, missing |-> FALSE]
Bare(o) == [option |-> o, missing |-> TRUE]

File(stat, read) == [stat |-> stat, read |-> read]
NoFile == File("missing", "gone")
Disk(zones) == [path \in {Empty, DEFAULT_ZONES_PATH, "mine", "default cacert.pem"} |->
                  CASE path = "mine" -> zones
                    [] path = DEFAULT_ZONES_PATH -> NoFile
                    [] OTHER -> File("regular", "good")]

ZoneFiles == <<NoFile, File("directory", "gone"), File("regular", "gone"),
               File("regular", "unparseable"), File("regular", "empty"),
               File("regular", "noarray"), File("regular", "invalid"), File("regular", "good")>>

Each(seq, Op(_)) == [i \in DOMAIN seq |-> Op(seq[i])]

\* Command lines: the ways to be refused, numbers at and beyond their limits,
\* the same option twice, redirects with every kind of zones file.
Line(arguments, zones) == [arguments |-> arguments, disk |-> Disk(zones)]
Corrupt(g) == [g EXCEPT !.disk[Empty].read = "corrupt"]
PcInputs ==
    Each(<< <<>>, <<Bare("help")>>, <<Bare("port")>>, <<Give("unknown", Empty)>>,
            <<Give("log", "unknown")>>, <<Give("cacert", "mine")>>,
            <<Give("resolvers", "bad"), Give("resolvers", "good")>>,
            <<Give("resolvers", "bad")>>, <<Give("ip", "bad")>>, <<Give("v6", "v4")>>,
            <<Give("agent", {"{{FIRMWARE_VERSION}}"})>>,
            <<Give("agent", {"x", "{{CONSOLE}}"})>>,
            <<Give("port", 3), Give("port", 15), Give("ttl", 0), Give("timeout", 2)>>,
            <<Give("port", 0)>>, <<Give("port", 18)>>, <<Give("ttl", 6)>>,
            <<Give("timeout", 1)>>, <<Give("ttl", -1)>> >>,
         LAMBDA a : Line(a, NoFile))
      \o Each(ZoneFiles, LAMBDA f : Line(<<Give("zones", "mine"), Give("v4", "v4"),
                                           Give("v6", "v6")>>, f))
      \o Each(ZoneFiles, LAMBDA f : Line(<<Give("dohOnly", Empty), Give("zones", "mine")>>, f))
      \o Each(<< <<>>, <<Give("dohOnly", Empty)>> >>, LAMBDA a : Corrupt(Line(a, NoFile)))

\* Config files: the same, with numbers that wrap and keys of the wrong type.
Keys(file, f, mistyped, zones) ==
    [file |-> file, keys |-> f, mistyped |-> mistyped, disk |-> Disk(zones)]
Parsed(f) == Keys("parsed", f, {}, NoFile)
ConsoleInputs ==
    Each(<<-1, 0, 3, 16, 19, 66>>, LAMBDA n : Parsed([port |-> n, ttl |-> 1, timeout |-> 3]))
      \o Each(<<-2, 60, 4>>, LAMBDA n : Parsed([ttl |-> n, timeout |-> n]))
      \o <<Keys("parsed", [port |-> 3, resolvers |-> <<"number">>], {"port"}, NoFile),
           Keys("unparseable", [port |-> 3], {}, NoFile),
           Parsed([v4 |-> "v6"]),
           Parsed([cacert |-> Empty, log |-> "unknown", agent |-> {"x"}])>>
      \o Each(ZoneFiles, LAMBDA f : Keys("parsed", [zones |-> "mine", v4 |-> "v4", ip |-> "v6"],
                                         {}, f))
      \o Each(ZoneFiles, LAMBDA f : Keys("parsed", [zones |-> "mine", dohOnly |-> TRUE], {}, f))

\* The others have no settings, except that "d" listens on another port.
Plain(pf, p) == CASE pf = "pc" -> Line(<<>>, NoFile)
                  [] pf = "console" /\ p = "d" -> Parsed([port |-> 3])
                  [] OTHER -> Keys("missing", [port |-> 3], {}, NoFile)

MCInputs == [pf \in {"pc", "console"} |->
               [p \in Procs |-> IF p # "a" THEN <<Plain(pf, p)>>
                                ELSE IF pf = "pc" THEN PcInputs ELSE ConsoleInputs]]

=============================================================================
