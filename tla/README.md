# Verification of chukei-dns

chukei-dns is a DNS relay: it receives queries over UDP and TCP, answers those
that a local zone file covers, answers others from a response cache, and sends
the rest to DNS-over-HTTPS (DoH) resolvers.  This directory holds TLA+ modules
that model the relay's own logic, TLC configurations that model-check them on
small instances, and TLAPS proofs of the results that matter most.  Line numbers
below refer to the repository (`src/dns_cache.cc` is `src/src/dns_cache.cc` in
`PROJECT.json`, whose paths start at the checkout's parent).

- [The system](#the-system)
- [Modules and code](#modules-and-code)
- [Runs](#runs)
- [Fairness](#fairness)
- [Proofs](#proofs)
- [Where the code departs from its documentation](#where-the-code-departs-from-its-documentation)
- [Not modelled](#not-modelled)
- [Plan](#plan)

## The system

The process has one thread, which runs an `asio::io_context`.  Everything below
happens inside completion handlers of that loop, so a handler is atomic with
respect to all others; concurrency comes from the order in which the reactor
completes operations and the loop runs their handlers, and from the kernel, the
clients and the clock going on meanwhile.  `DnsOverHttps::Resolve` is called
synchronously inside a handler and blocks the loop for up to its time budget.

| Component | State | Operations | Interacts with |
|---|---|---|---|
| UDP server (`udp_server.cc`) | socket, one shared receive buffer and sender endpoint, reopen timer, running flag | Receive and its handler, Send, ReopenSocket, Stop | kernel, timer, query dispatch |
| TCP server (`tcp_server.cc:222-291`) | acceptor, reopen timer, running flag | Accept and its handler, ReopenAcceptor, Stop | kernel, timer, creates sessions |
| TCP session (`tcp_server.cc:41-216`) | socket, current frame, outstanding writes | ReadLength, ReadMessage, Send | client, query dispatch |
| Query dispatch (the handlers' bodies) | none of its own between queries | parse errors, EDNS0 errors, NOTIMP, local, cache, DoH, OPT and TC | all of the following |
| Response cache (`dns_cache.cc`) | map from (name, type) to response, time, lifetime; one per server | Lookup, Insert, Clear | dispatch, clock |
| DoH client (`dns_over_https.cc`) | resolver list, budget, libcurl handle; one per server | Resolve, setters | libcurl, resolvers |
| Local DNS (`local_dns.cc`) | the zone table | CheckLocalMatch, LookupLocalRecord | dispatch, regex cache |
| Regex cache (`local_dns.cc:64-82`) | map from expression to compiled expression, process-wide | SafeRegexMatch | local DNS |
| Zone table (`config_parser.cc`) | built once from `zones.json` | NormalizeZones, ValidateAndOptimize | start-up |
| Wire parsing and building (`dns_packet*.cc`, `dns_parser.cc`, `dns_response.cc`) | none | parse a query, build a response | dispatch, local DNS |
| Response objects (`dns_packet.cc:512-838`, `dns_packet_answer.cc`, `dns_packet_question.cc`) | header with counts, four sections | make, parse, edit, check, size and write a response | a library: the servers use the request half, tests use both |
| Configuration (`config.cc`) | the settings of the process, the rules | setters with validation, Initialize | start-up, all components read it |
| Start-up (`main-pc.cc`, `main-ps.cc`) | the process: its name, sockets, signals | parse arguments or the settings file, end other instances, bind, run, stop | other instances, kernel, configuration |

What is hard here, and what makes each component correct:

- **Socket loops.** Every path through a handler must leave exactly one thing
  behind that leads to the next receive or accept: a pending operation, a queued
  handler or the timer.  None, and the server is deaf for good; two, and UDP
  receives overwrite the buffer they share.  Descriptors go bad at any time (the
  code is written for consoles waking from rest mode), reopening may fail and is
  retried by a timer, and Stop arrives while handlers are queued.
- **Sessions.** Queries on one connection are pipelined: the next frame is read
  while replies are still being written.  Replies must reach the client whole,
  in order and behind their length, and a session must end when its client does.
- **Cache.** Expiry in whole seconds against a finer clock, a clamp of TTLs to
  at least 1, capacity with overwriting, expired and live entries, sentinel TTL
  values, one client's answer served to another.
- **DoH.** A total budget over several attempts of which each gets a timeout in
  whole seconds; the bytes of a failed transfer; which failure ends the call.
- **Dispatch.** The order of the checks, and of caching an answer and adding
  this client's OPT record to it, decides what later clients receive.
- **Local DNS.** Names are looked up by trying regular expressions in the byte
  order of a sorted map; merging records of one name; CNAME chains and loops.

- **Start-up.** A console's instance kills every other one it finds under its name
  and waits for the kernel to free the sockets, while more instances may start; its
  name is taken only afterwards.  The zone rules copy the redirect addresses when
  they are made, so the order in which settings are applied decides what is served.
  Numbers pass through conversions before they are checked.  An exception of any
  handler leads to a second `run()` without signal handling.
- **Response objects.** Names in a record's data may point anywhere in the message it
  came in; counts, lengths and the size of the buffer are each computed by a walk of
  their own and must agree.

`PROJECT.json` lists these as hazards, each at the line where it bites and with
the properties that would catch it.

## Modules and code

| Module | Models | Composes |
|---|---|---|
| `TtlCache` | abstract specification: what the cache promises | |
| `DnsCache`, `MCDnsCache`, `DnsCacheProofs` | `dns_cache.cc` | implements `TtlCache` |
| `DohResolve`, `MCDohResolve`, `DohResolveProofs` | `dns_over_https.cc` | |
| `UdpServer`, `UdpServerProofs` | `udp_server.cc`: the socket loop | |
| `TcpServer`, `TcpServerProofs` | `tcp_server.cc`: the accept loop | the proofs extend `TcpSession` too |
| `TcpSession` | `tcp_server.cc`: a connection | |
| `QueryDispatch`, `MCQueryDispatch`, `QueryDispatchProofs` | the bodies of both handlers | instantiates `DnsCache`, its proofs `DnsCacheProofs` |
| `ZoneTable` | `config_parser.cc`: the table's construction | |
| `LocalDns`, `MCLocalDns`, `LocalDnsProofs` | `local_dns.cc` and the name split of `dns_parser.cc` | extends `ZoneTable`, the proofs instantiate `RegexCache` |
| `RegexCache`, `MCRegexCache` | `SafeRegexMatch` | |
| `RequestPacket` | `DnsRequestPacket::FromWire`, `DnsQuestion::FromWire`, `DnsCache::SkipDnsName` | |
| `ResponsePacket`, `MCResponsePacket`, `PacketProofs` | `DnsResponsePacket`, `DnsAnswer`, `DnsQuestion`: `dns_packet.cc`, `dns_packet_answer.cc`, `dns_packet_question.cc` | extends `RequestPacket` |
| `Settings` | `config.cc`, the settings part of both `main`s, `ConfigParser::Parse` and `LoadDefault` | |
| `Relay`, `MCRelay`, `RelayProofs` | `main-pc.cc`, `main-ps.cc`: processes of one machine | extends `Settings` |

`PROJECT.json` maps every definition to the lines it stands for; definitions with
a suffix (`Expired_Late`) are variants of the definition that follows them, each a
plausible mistake in that code, used to check that the properties notice it.

**TtlCache and DnsCache.**  A response is abstracted to what the cache reads and
writes: the transaction id, whether its sections can be walked, the records the
walk reaches (TTL, and whether it is an OPT pseudo-record) and everything else as
`body`.  `cache` is `m_Cache_` as a function whose domain is the keys present,
`now` is `steady_clock` in ticks (`TicksPerSec` to a second, so that truncation to
seconds is real), `reply` is what the last Lookup returned.  Lookup is the three
ways through it (absent, expired and erased, hit); Insert is refused for TTL 0,
UINT32_MAX or a response that cannot be walked, and otherwise evicts before it
stores.  Where the code takes `min_element` over an unordered map, any of the
oldest entries may be evicted.  `TtlCache` says nothing of seconds, capacity or
eviction: entries may be forgotten at any time, but a hit is a response stored
for exactly that key, alive by the clock, with TTLs that keep no record a full
second beyond the time the upstream server allowed.

**DohResolve.**  One call of Resolve at a time on an object: `untried` is the rest
of the shuffled list, `buffer` and `output` record how many bytes they hold and
whose, `limit` is when libcurl's timeout ends the transfer.  A transfer takes any
time up to its limit, delivers any chunks the write callback accepts, and ends
with any HTTP status or a libcurl error.  `multi` is false on an object that was
moved from.

**UdpServer and TcpServer.**  `pending` counts operations the reactor holds, `ready`
is the queue of completed handlers, `timer` the reopen timer.  A socket is open,
broken (the descriptor died and the reactor will say so) or closed.  Operations
posted on a closed socket complete at once with `bad_descriptor`.  Each handler is
one action including its tail (the next Receive or Accept) and every ReopenSocket
or Send it calls.  The shared buffer is `data`: the reactor writes it when a
receive completes, the handler reads it when it runs.

**TcpSession.**  Data moves in blocks.  Send writes what the socket's buffer takes
while the message exists; the rest is written later from a buffer that the code
has freed, so each such block is either the right one or garbage, and a write that
made progress queues behind the others.  `Width` stands for 2^16.

**QueryDispatch.**  One handler, from the parsed query to the bytes given to Send,
over the operators of `DnsCache` itself.  The local match is a constant function
and Resolve a choice of outcomes, since both have modules of their own.  The
`body` of a message records who made it, the question it carries and, as history,
when an upstream answer was obtained, for which question and with which records.
A question is a name (up to letter case), a type and a form; the form stands for
what the cache key leaves out, the class and which dots separate labels.  Names in
`LongNames` are over 255 bytes on the wire: the parser takes them, `WriteQuestion`
refuses them, and every builder's early return is modelled (`Made`, `FORMERR`,
`BADVERS`).  Upstream may answer with any id and question (`Strays` bounds which),
with bytes that cannot be walked, or with none, as the code compares nothing of it
with the query.  UDP and TCP differ in the TC bit only (`Transport`); each server
has its own cache, so one instance is one server.

**ZoneTable and LocalDns.**  A name is a sequence of labels, a JSON value a tagged
tuple.  The file is read zone by zone and record by record (so that merging is
order-dependent as in the code), then validated.  The keys of the table are
regular expressions in the code; here each is the record it was made from, with
`Matches` saying what it accepts and `KeyOrder` the byte order in which the sorted
map tries them.  The lookup is a pure operator evaluated on every table.

**RegexCache.**  `SafeRegexMatch` with what it leaves in the cache; dereferencing a
null entry is undefined behaviour and has the result `"undefined"`.

**RequestPacket.**  A packet is its header's fields and a sequence of cells: a cell is
a byte of a name, or one of the fields of fixed size (TYPE, CLASS and TTL, RDLENGTH,
an option's header), so that offsets are the code's with shorter fields and short
packets reach every bound.  ParseDomainName takes a step per label or pointer; the
additional section takes a step per record, one action for each way through the loop.
A packet ends `"accepted"`, with the EDNS0 status, or `"rejected"`, which is the
constructor of `DnsParser` throwing.

**ResponsePacket.**  The same cells, now also as an object: `object` is a
`DnsResponsePacket` with its header and four sections, `origin` says whether it was
made from the request that `RequestPacket` accepted or parsed from a message that is
a response.  A label is a sequence of cells and a name a sequence of labels, so
validity, skipping and the length byte of a label are those of the code; CLASS and
TTL are one field.  Parsing, writing, sizing and checking are operators, one per
function; the edits are actions, each ending in UpdateHeaderCounts except SetHeader
and clear().  RDLENGTH keeps its width (`RdlengthWidth`).  Addresses are given as
text is: groups of digits left and right of a `::`, and a factory that throws makes no
record.

**Settings and Relay.**  `Settings` is pure: from a command line (PC) or a settings file
(console) and a disk with a zones file and a certificate file, `Configure` gives the
configuration or the reason why main ends, in the order main applies it; every setter
is an operator with its checks.  The rules are a token for where they came from and
the redirect addresses they carry.  `Relay` has any number of processes, each at a
`stage` of main: on a console `scan` (the process list), `kill`, `wait` (kevent) and
`name` come first, then `load`, `bindudp`, `bindtcp` and `serve`; `again` is the second
run().  A killed process is `dying`, with its sockets, until the kernel reaps it.
`faults` counts system calls that failed, timeouts and exceptions.

## Runs

| Run | Configuration | Properties | Distinct states |
|---|---|---|---|
| `cache` | 2 names in 2 spellings, 2 types, capacity 2, 9 responses, 5 half-second ticks | CapacityBound, EntriesSound, ClampNeverLengthens, LiveEvictedLast, ImplementsTtlCache | 24,328 |
| `doh` | 3 resolvers, budgets below, inside and above the clamp, 2 ticks to a second | OverrunBounded, FailoverComplete, FirstVerdictWins, OutputFromWinner, Terminates | 62,364 |
| `udp` | 3 datagrams (one short), 2 faults, 2 failed reopens | OneReceive, BackoffRespected, StopIsFinal, Recovers, Drains | 8,688 |
| `tcp` | 3 connections, 3 faults, 3 failed reopens | OneAccept, BackoffRespected, StopIsFinal, Recovers, BacklogServed | 4,826 |
| `session` | 3 frames (one too small), replies of up to 3 blocks, send buffer of 3 | FramedWhenWhole, Consumed, Released | 6,126 |
| `zones` | up to 2 zone objects and 3 records out of 22, 20 queries | MatchesDocumentation, ChainConnected | 734,675 |
| `dispatch` | 16 queries, one per way through the handler, 2 classes, a name of over 255 bytes, answers to the query, to another and unreadable, capacity 2, 5 ticks | ReplyMatchesQuery, CacheHoldsAnswers, TtlHonest, OptAccounted | 604,089 |
| `packets` | requests: all strings of up to 6 cells as a question and up to 9 as an additional section, 3 pointer hops; responses: one record with any 4 cells of data or two with any 3, and two edits of a made response | TypeOK, WalkersAgree, StatusHonest, RoundTrip, Decompressed, Terminates | 582,806 |
| `relay` | 4 processes, PC and console, in crews of two and three, 36 command lines and 29 settings files for one of them, 1 fault | NeverGone, SettingsHonoured, RulesInForce, Replaced, SignalStops | 42,969 |
| `udp_stale` | as `udp` | ServedIsReceived is violated | |
| `session_overlap` | send buffer of 2 blocks | StreamFramed is violated | |
| `regex_invalid` | 5 expressions, 2 of them invalid, capacity 3 | InvalidReturnsFalse is violated | |

The modules' other type invariants (`TypeOK` of `DnsCache`, `UdpServer`, `TcpServer`,
`TcpSession`, `ZoneTable`, `QueryDispatch`, `Relay`, `RegexCache`) document the state
and, where a proof exists, are proved; no run spends time on them.

What they show:

- **cache.**  Whatever is stored, overwritten, expired or evicted: the capacity
  holds; the lifetime of an entry is the least TTL of its records and neither
  sentinel; the clamp in AdjustTtls never takes effect, because an entry that
  could need it has expired (`Expired` compares whole seconds against the
  minimum, and one off would serve a dead record with TTL 1); a live entry is
  dropped only when all are live and the cache is full, one at a time (which one is
  left open, see departure 11); and the whole refines `TtlCache`.  Two entries and four keys are enough
  for every mixture of one overwritten, expired or live entry with another; five
  ticks let the longest-lived entry expire and be stored again.
- **doh.**  A call overruns its budget by less than a second; a retryable failure
  is returned only with every resolver tried or the budget spent; the verdict is
  that of the last transfer and nothing was tried after a final one; the output
  holds only bytes of the winner; every call returns.  Three resolvers separate
  first, middle and last attempt.
- **udp.**  The server is never deaf, Stop is final, a broken socket is replaced, and
  queued datagrams are read.  As long as no Send has met an invalid descriptor,
  one operation is under way at a time (so nothing overwrites the shared buffer
  behind a waiting handler's back), and a failed reopen waits for the timer; the
  run `udp_stale` shows why the condition is there.
- **tcp.**  The accept loop has no such exception: one operation always, backoff
  always, Stop final, connections in the backlog get sessions.
- **session.**  Frames are read however slowly replies are written; sessions end with
  their clients; the reply stream is framed as long as every reply is taken whole
  by the send buffer and is shorter than 2^16 (`FramedWhenWhole`).  The instance
  also has longer replies and full buffers, so the condition is met and missed.
- **zones.**  For address queries in a plain zone (`Plain`: no CNAMEs, user-written
  expressions, nameless records or arrays for addresses, no `{{FORWARD_ALL}}` of the zone
  itself, no name both forwarded and something else), the regular-expression search over the sorted map gives what the
  README says of names, wildcards, `{{FORWARD}}` and `{{FORWARD_ALL}}`: the same
  records in file order, or forwarding, with a header that counts them.  Answers
  with CNAMEs are connected chains within the depth bound, loops included.  The
  22 records cover each kind of name, datum and type; three of them are enough
  for the third merge of a name and for a CNAME loop of length three.
- **packets.**  Requests: parsing ends for every packet, pointer loops included, and reads only
  inside it; the three walks over a name (the question's, the additional records',
  the cache's) agree where it ends; the EDNS0 status, although later records overwrite
  what earlier ones set, is None without an OPT record, Ok or BadVersion with exactly
  one sound OPT record, and an error otherwise.  Six cells hold two labels and a
  pointer; nine hold two records with data and options, or a third that is cut.
  Responses: a made response that `Valid()` approves, and any parsed one, is read back
  unchanged from what it writes, into a buffer of exactly the size it asks for, after
  any two edits (`RoundTrip`).  The exceptions are in the statement: data of 2^16 bytes
  and more, and data left compressed.  A parsed record is the one at the place where
  the cache's walk looks for a TTL, and the names in its data are those of the message
  with every pointer resolved, readable from the record alone (`Decompressed`).  Two
  records are enough for a name of the first to be read in the second and for a pointer
  into the first record's data; two edits for one section to be cleared and another
  filled, or counts to be overwritten by SetHeader and repaired by the next edit.
- **relay.**  Takeovers alone never leave the machine without a relay; an instance that
  starts ends all that run; a signal that reached the signal_set ends the process; a
  running relay has the numbers and addresses it was given, inside their ranges; the
  rules it serves carry the redirect addresses in force and are those of the file
  exactly when a path is reported.  Each property names what it excepts.  For `Replaced`
  these are a system call that failed, the new instance being signalled, and (`GaveUp`) the
  new instance finding a process that is gone when it is to be killed.  If another instance
  killed that process, the promise holds of that instance, which scans again.  A crew of two
  meets every input; three processes let one run, one take over and one more race it; one
  fault puts a timeout or a failed call at any single place.
- **dispatch.**  A reply made by the relay has its query's id and question, the latter
  unless the name is too long to be written.  A reply from upstream, forwarded or cached,
  was got for this name and type, whoever asked first, and it has the query's id and
  question (up to its form) if the resolver repeated what it was asked.  Only upstream
  answers are cached, under the name and type they were got for, with the records they
  came with; over all hits no client is told to keep a record a second longer than the
  upstream answer allows; a reply has the OPT records of the upstream answer plus exactly
  one when this client's query has one, BADVERS for a name that cannot be written excepted.
  Two entries let two types, two forms or two names be cached at once; five ticks let an
  entry be stored, served aged and expire.

## Fairness

Safety properties are checked without fairness or with it, to the same effect.
Liveness properties assume weak fairness of:

- the event loop (`Handle`): `io_context::run` runs the next queued handler as long
  as there is one, and every handler returns (`Terminates` shows it of Resolve, the
  only call in them that waits);
- the reactor (`Complete`, `ReportBroken`): a datagram, connection or error that
  stays pending is eventually reported;
- the timer: `steady_timer` expires;
- the parser (`ReadRequest`), which is sequential code; nobody has to ask for a response;
- in `Relay`, all of these taken together: a process that can run (`Step`), the kernel
  ending what was killed (`Reap`), the loop dispatching a queued signal (`HandleSignal`).
  Nothing is assumed about which goes first; starting, signalling and exceptions are not
  assumed to happen;
- a DoH transfer's end: libcurl enforces `CURLOPT_TIMEOUT`;
- `ClientReads` in `TcpSession`: a client reads what is sent to it.  This is an
  assumption on the client and is needed for `Released` alone: a half-closed
  client that never reads keeps its session, since the code has no write timeout.

Nothing is assumed about clients sending, faults, failing reopens (bounded in
number, as `Recovers` would fail if opening a socket failed for ever) or Stop.
Deadlock checking is off where the bounds or Stop let the system come to rest.

## Proofs

The proofs hold for every value of the constants that satisfies the named assumptions, which
TLC evaluates on every run: capacity, clock resolution and largest TTL positive
(`DnsCache`); minimum timeout positive and not above the maximum, a positive number of
milliseconds to a second (`DohResolve`); bounds on faults natural (`TcpServer`,
`UdpServer`); sizes positive (`TcpSession`); a positive bound on the regex cache
(`RegexCache`); well-formed queries, record lists, stray answers and verdicts of the local
zones (`QueryDispatch`); packets as finite sequences of cells, a positive header size, pointers
told from lengths, at least one pointer followed (`RequestPacket`); texts and the numbers of
types that are cells (`ResponsePacket`); arrays in the zone file that are arrays, names that
are sequences of labels, a natural depth (`ZoneTable`, `LocalDns`); an order in which the
keys are visited, which has the key of every record and puts the expressions `(.*\.)?name`
first (`OrderAssumption`: `std::map` sorts by bytes, and `(` comes before every host name's
first character and before the `\*` of a wildcard); defaults within their limits, an `int`
at least twice as wide as a port, a finite command line, and a zones file that reads as what
the parser can make of one (`Settings`, `Relay`). Nothing is assumed about how many
instances, queries, records, frames or datagrams there are.

| Theorem | Statement |
|---|---|
| `DnsCacheProofs!TypeCorrect` | `Spec => []TypeOK` |
| `DnsCacheProofs!CapacityHolds` | `Spec => []CapacityBound` |
| `DnsCacheProofs!EntriesHold` | `Spec => []EntriesSound` |
| `DnsCacheProofs!ClampHolds` | `Spec => []ClampNeverLengthens` |
| `DnsCacheProofs!LiveEntriesEvictedLast` | `Spec => LiveEvictedLast` |
| `DnsCacheProofs!CacheImplementsContract` | `Spec => ImplementsTtlCache` |
| `DohResolveProofs!OverrunHolds` | `Spec => [](TypeOK /\ OverrunBounded)` |
| `DohResolveProofs!FailoverHolds` | `Spec => []FailoverComplete` |
| `DohResolveProofs!FirstVerdictHolds` | `Spec => []FirstVerdictWins` |
| `DohResolveProofs!OutputHolds` | `Spec => []OutputFromWinner` |
| `TcpServerProofs!OneAcceptHolds` | `Spec => [](TypeOK /\ OneAccept)` |
| `TcpServerProofs!BackoffHolds` | `Spec => BackoffRespected` |
| `TcpServerProofs!StopHolds` | `Spec => StopIsFinal` |
| `TcpServerProofs!SessionFramed` | `SessionSpec => []FramedWhenWhole` |
| `UdpServerProofs!OneReceiveHolds` | `Spec => [](TypeOK /\ OneReceive)` |
| `UdpServerProofs!BackoffHolds` | `Spec => BackoffRespected` |
| `UdpServerProofs!StopHolds` | `Spec => StopIsFinal` |
| `QueryDispatchProofs!TypeCorrect` | `Spec => []TypeOK` |
| `QueryDispatchProofs!ReplyMatches` | `Spec => []ReplyMatchesQuery` |
| `QueryDispatchProofs!CacheContents` | `Spec => []CacheHoldsAnswers` |
| `QueryDispatchProofs!TtlsHonest` | `Spec => []TtlHonest` |
| `QueryDispatchProofs!OptsAccounted` | `Spec => []OptAccounted` |
| `QueryDispatchProofs!ServerCacheImplementsContract` | `Spec => P!Spec /\ P!ImplementsTtlCache`, where `P` is the server's cache |
| `PacketProofs!ReadsInside` | `Spec => []TypeOK` |
| `PacketProofs!WalksEndTogether` | `Spec => []WalkersAgree` |
| `PacketProofs!StatusDeserved` | `Spec => []StatusHonest` |
| `PacketProofs!ReadBack` | `ResponseSpec => []RoundTrip` |
| `PacketProofs!DecompressedFromMessage` | `ResponseSpec => []Decompressed` |
| `RelayProofs!RelayTypeCorrect` | `Spec => []TypeOK` |
| `RelayProofs!TakeoverSafe` | `Spec => []NeverGone` |
| `RelayProofs!RulesFit` | `Spec => []RulesInForce` |
| `RelayProofs!SettingsInForce` | `Spec => []SettingsHonoured` |
| `LocalDnsProofs!ChainsConnected` | `Spec => []ChainConnected` |
| `LocalDnsProofs!DocumentationHolds` | `Spec => []MatchesDocumentation` |
| `LocalDnsProofs!RegexCacheTransparent` | `R!Spec => [](R!CacheTransparent /\ R!TypeOK)`, where `R` is `RegexCache` |

**Cache.**  The inductive invariant is TypeOK, EntriesSound, CapacityBound and that
the cache's domain is finite (without which its cardinality says nothing).
EntriesSound is what makes the rest go through: an entry's lifetime is at most
each of its TTLs, so an entry that is not expired has spent fewer whole seconds in
the cache than any of its records may live, and the subtraction in AdjustTtls
never reaches the clamp.  Capacity is preserved because eviction of expired
entries and then of one oldest leaves room for the new key; overwriting needs
none.  For the refinement, `ElapsedBounds` ties truncated seconds to ticks, from
which a hit is alive by the clock and its TTLs end less than a second after the
upstream deadline (`ServedDeadline`).  That a live entry goes last is a property of single
steps: what Insert drops is expired, or else a single entry of a cache that was full of
live ones.

**DoH.**  The properties speak of the moment Resolve returns, so they are
strengthened by what holds in the loop: every verdict so far is retryable and the
last one is remembered (`InProgress`), and a running transfer ends before budget +
one second and fills the buffer with its own bytes only (`InTransfer`).  The bound
rests on `TimeoutBound`: a timeout rounded to whole seconds, at least one, stays
below what remains plus a second, whatever remains.

**TCP accept loop.**  OneAccept needs to be extended by: a stopped server's acceptor is
closed.  Each handler consumes the single token and produces one; BackoffRespected
follows since, with the timer armed, no handler is queued that could reopen.

**TCP session.**  While every reply was written at once nothing waits (`AtOnce`), so
only Send writes to the stream, and what it writes is the next whole reply; a prefix smaller
than its width is the size itself.  The stream a client ought to get is defined by joining
all replies; `FlattenAppend` shows that one reply more makes it longer by that reply.

**UDP socket loop.**  The same token argument as for TCP, with a second clause: until a Send
has found the descriptor invalid (`sendFailed`) there is exactly one token, afterwards at
least one.  The invariant adds what Stop leaves behind and that a datagram is handled only
after the buffer was filled.  Each member function (Receive, Close, Reopen, Send) has a
lemma saying by how many tokens it changes the count.

**Dispatch.**  The argument is compositional.  Every step of a handler is a step of `DnsCache`
or leaves it alone (`SameActions`), so the theorems of `DnsCacheProofs`, instantiated with
every message as a possible response, hold inside the server, the refinement of `TtlCache`
included.  What remains is about the handler: an entry was got for the name and type it is
stored under (`CacheSound`); every message that reaches the tail of the handler, made here or
taken from an entry or from upstream, fits the query (`Fits`), and appending an OPT record
keeps that (`AppendFits`, `SentSound`).

**Request packets.**  Where a name ends is given by two recursive functions over the packet,
one for the parser and one for the cache's walk.  Their defining equations are proved first:
were one to fail, it would fail at a least distance from the packet's end, where it does not.
The invariant then says what the parser knows in each phase: before the additional section
no OPT record was seen (`Before`); up to the first pointer the rest of the name ends where
the name ends, after it the caller's offset is there already (`Walking`); and the status is
the verdict on the records read so far (`InSection`).

**Takeover.**  NeverGone speaks of processes alive and needs to know why the others are
not.  The invariant adds: a socket belongs to a process past its first bind and not
gone (`Owners`); who is killed or waited for is another process that had the name
(`Targets`); only a process that is gone left for a reason of its own (`Reasoned`); and,
while every call works and nobody left by itself, somebody waits for each dying process
(`Awaited`).  So when a process loses its port to another, either that one is alive, or it
is dying and its killer is; and the killer of the last one is alive itself.  The proof has
a lemma per action; this part uses nothing of `Settings` beyond the existence of an outcome.

**Settings.**  A relay past its settings runs with what main makes of what it found
(`Loaded`).  What that is follows from lemmas about the setters: which fields each leaves
alone, and what it sets when it does not return (`SettersKeep`, `SettersSet`), composed in
main's order (`ConfigureFacts`).  The loop over the command line is a recursive function;
its equations and what it computes, the last value given for each option, are proved by a
least counterexample (`ParseSteps`, `ParseGives`).  A config.json goes through conversions
that wrap; `InRange` shows that what passes the limits afterwards is in range.

**CNAME chains.**  The invariant of the table (`TableOK`) only says that arrays are sequences,
whatever was merged and converted.  The rest is about one lookup: after n steps of the loop
there are at most n + 1 linked CNAMEs, and while it goes on it stands at the target of the
last (`Walked`).  Builders may refuse a record, which cuts the message off, so the property
is shown of every prefix of a chain (`PrefixConnected`), where the number of CNAMEs counted
is the length of the chain or of the prefix.  Every other way a lookup ends holds no CNAME.

**Documentation.**  What is shown is that a search over a sorted map of regular expressions
finds what the README describes in terms of the file.  The invariant (`FileInv`) ties the two:
while the file is read and after the table was validated, the datum under a key is what
merging the records of that key, in the order of the file, has to give (`Stored`, `Final`),
and a key is there exactly when there is such a record (`Reflects`).  The records of a name,
picked in file order by a recursive operator, are counted by its equations (`AtSteps`), which
hold by a least counterexample.  For a query there are then two cases.  If an entry with
`{{FORWARD_ALL}}` covers the name, its key is visited before every name and wildcard, and the
query is forwarded; otherwise no such key matches, and the first key that does is the name's
own or, without one, the wildcard's.

**Round trip.**  Both results are about recursive operators: parsing a name follows pointers,
a section is read item by item, a sequence of encodings is joined.  Their equations come first.
For ParseDomainName a function that satisfies them is built up by rank, the hops left and then
the distance from the message's end (`RankRecursion`), and two such functions agree by the
least rank at which they could differ.  From there:

- a name written by EncodeDomainLabels is read back wherever it stands, and its end is the
  place behind it (`Holds(c, at, w)`: the cells w stand in c at `at`);
- data that is self-contained has the shape its type says, a prefix, the names written out and
  a tail, so reading it in its new place gives it again (`Shape`);
- an item is read back, and so are a section, by the places at which its items begin (`Steps`),
  and four sections one behind the other;
- WireSize adds up the lengths of the same pieces.

The invariant (`RInv`) says what an object can be: every section a sequence of questions or
records, those of a parsed message with labels that fit a length byte, and, for responses made
from a request, that the question taken over lies in the packet (`QInv`).  What `Valid()` checks
gives the rest for made responses; the condition on RDLENGTH in the statement cannot be
dropped, since the root's name makes `Valid()` skip it.  For Decompressed, SkipDnsName is shown to
end where ParseDomainName does (`SkipIs`), so the places of the cache's walk (`Starts`) are the
places at which FromWire reads its sections, and DecompressRDATA leaves data of the shape above.

**Regex cache.**  A null is in the cache only for an expression that does not compile
(`NullsInvalid`), and the cache is a finite map within its bound; eviction at the bound
leaves room for the expression that is about to be entered.

Every invariant and every safety action property that a passing run checks has a theorem.
Model-checked only: the liveness properties, `Terminates` of the parser and of Resolve,
`Recovers`, `Drains`, `BacklogServed`, `Consumed`, `Released`, `Replaced` and `SignalStops`, which
rest on fairness, outside the proof system's reach.  The proof system has no induction over
data either; what is said above about recursive functions is proved by a least
counterexample over numbers.

## Where the code departs from its documentation

Shown by a run:

1. *Two receives share a buffer* (`udp_stale`, `udp_server.cc:240`).  A Send that
   finds the descriptor invalid reopens the socket, which posts a receive; the tail
   of the same handler posts another.  Both complete into the same buffer and
   endpoint before their handlers run.  When the reopen fails instead, the tail's
   receive on the closed socket fails at once and reopens without the backoff.
2. *Overlapping writes* (`session_overlap`, `tcp_server.cc:209-210`).  The buffer
   given to `async_write` is a local that is freed when Send returns, and the next
   reply's write may start before it ends.
3. *Invalid expressions* (`regex_invalid`, `local_dns.cc:73-77`).  A null entry stays
   in the cache when compilation throws, and the next call dereferences it.

Behaviours the models reproduce, with no run of their own:

4. A blocked zone of three labels is never found, since the zone looked up is always a
   name's last two labels (`dns_parser.cc:67`, README.md:139).
5. The length prefix of a TCP reply is its size modulo 2^16; an upstream body of
   65535 bytes and an OPT record exceed it (`tcp_server.cc:203`).
6. The DoH budget is overrun by up to a second (`dns_over_https.cc:271`); README.md:233
   calls it the total.  `OverrunBounded` is the bound that holds.
7. HTTP 200 with an empty body is Success with nothing written; the client gets
   nothing, or an OPT record without a header (`dns_over_https.cc:430`,
   `udp_server.cc:186`).  The same happens for a local record of a type that has
   no builder.
8. Statuses such as 503 and 404 end the call without failover
   (`dns_over_https.cc:437`, README.md:292).
9. An upstream answer's OPT record is kept: an EDNS0 client gets two, a client without
   EDNS0 may get a cached one (`OptAccounted` states exactly that).
10. A TXT array is taken for several records, each of which its builder refuses
    (`local_dns.cc:53`); `{{FORWARD}}` merged with another datum is no longer
    recognised (`local_dns.cc:34`); PTR records are looked up under a key that
    NormalizeZones does not make (`local_dns.cc:364`).
    A query for a subdomain that is called `@` gets the records of the zone itself, since that
    is their key (`local_dns.cc:279`); `MatchesDocumentation` excepts it.
11. The cache evicts the entry stored longest ago (`dns_cache.cc:78-80`), not the least
    recently used: README.md:326 calls it "LRU / TTL-expiry".  A hit does not make an entry
    younger, so one that is asked for all the time still goes first.  `LiveEvictedLast`
    holds of either policy; the model (`Oldest`) follows the code.  TTL UINT32_MAX is
    not stored.
12. A zones file that can be read but has no `zones` array leaves the relay without rules
    instead of the built-in ones (`config.cc:35-66`), while README.md:131 says "missing or
    invalid"; `RulesInForce` excepts exactly that file.
13. A console reads a port modulo 2^16 and ignores negative numbers (`main-ps.cc:299-304`),
    so some ports outside 1-65535 (README.md:260) are accepted as others.
14. A process that ends between being found and being killed makes
    KillProcByName return although others run (`main-ps.cc:128`, README.md:411: "will
    terminate any currently running" instances); `Replaced` excepts that takeover
    (`GaveUp`).  An instance also kills the others before it has validated its own settings,
    so a bad settings file leaves no relay at all.
15. An exception of any handler is reported as missing signal support and the loop is run
    again without it; the next exception ends the process (`main-ps.cc:360-374`).
16. `DnsAnswer::Valid()` returns before it looks at RDLENGTH when the name is the root's, and
    RDLENGTH wraps at 2^16 where assertions are off (`dns_packet_answer.cc:731`, `:1079`).
    A message may also hold names longer than 255 bytes: parsing has no such limit.
17. Data whose names cannot be decompressed stays as it was, pointers included, although
    the comment calls it self-contained (`dns_packet_answer.cc:911-918`); names are read
    beyond the data's end.
18. A query whose name has more than 255 bytes is parsed, but its reply is a header that
    announces a question and has none (`dns_response.cc:85-98`, and the callers ignore the
    builders' results), FORMERR excepted, which announces none (`dns_response.cc:426-429`).
    BADVERS for such a name has no OPT record and so not even its extended RCODE
    (`dns_response.cc:1045-1047`).
19. The id and the question of an upstream answer are compared with nothing: the answer is
    forwarded as it is and cached under the name and type that were asked for
    (`udp_server.cc:166-170`).  The key leaves out the class and joins labels with
    unescaped dots (`dns_packet_question.cc:177-192`), so an answer for one class is served
    for another.
20. The check for UDP datagrams of more than 512 bytes never fires: the buffer has 512, so
    longer ones are cut and parsed (`udp_server.cc:63-79`).
21. A last additional record that is not OPT may have data that runs past the packet's end
    without the packet being reported as malformed (`dns_packet.cc:257`).

## Not modelled

- Byte-level layout in `dns_response.cc` and the cache's own walk over TTLs: `LocalDns`,
  `QueryDispatch` and `DnsCache` take the shape of a response as data.  `Decompressed` does
  check that the walk's places are those of the records.
- Of the packet classes: plain accessors and setters of one field, label-wise edits of a
  name, comparison, hashing, streaming and container interfaces, the text forms of data
  (`RdataAs*`), IPv4 reverse names, and writing a request.
- The locks in `Config` and `LocalDns`: everything runs in one thread, and the settings are
  complete before the loop starts.
- Resolve blocking the loop: handlers are atomic, so the delay is not visible;
  `OverrunBounded` bounds it for one query.
- libcurl, asio, nlohmann::json, fmt and the operating system: modelled by what the
  code relies on (marked external in the map).
- Sockets of two relays that overlap through a wildcard address, addresses that are not the
  machine's and foreign processes on the port: `Relay` has them as a bind that fails for
  whatever reason, counted as a fault.
- Limits on connections: the code has none, and a client that sends nothing keeps its session.
- Zone files in which a user-written expression is the same string as a generated one: the
  code merges the two keys, `ZoneTable` keeps them apart.
- DoH: headers, CA bundle, base64url, connection reuse.
- Logging, notifications, hex dumps, address text conversion, platform detection
  (`utils.cc`), build files and tests.

## Plan

1. The response builders (`dns_response.cc`) over the cells of `ResponsePacket`, with the
   sizes and counts they write.
2. The blocking of the loop by Resolve as a composition of `DohResolve` with the servers.
3. Proofs: `MatchesDocumentation` beyond address queries in plain zones, once the
   documentation says what user-written expressions do to each other.
