------------------------------- MODULE Relay --------------------------------
(***************************************************************************)
(* The life of relay processes on one machine: main of src/main-ps.cc and  *)
(* src/main-pc.cc.  A console instance first kills every process with its  *)
(* name (KillProcByName), only then takes the name, reads its settings     *)
(* (module Settings), binds the UDP and the TCP socket and runs the event  *)
(* loop until SIGINT or SIGTERM.  Instances may be started at any time, so *)
(* the takeovers of several of them interleave, and a killed process keeps *)
(* its name and sockets until the kernel has reaped it.                    *)
(***************************************************************************)
EXTENDS Settings

CONSTANTS Procs,        \* the instances, each started at most once
          Crews,        \* the sets of instances that may meet
          NoProc,       \* -1 of GetPidFromProcName
          Inputs,       \* Inputs[platform][p]: the sequence of what p may find
          MaxFaults     \* bound on failing system calls and throwing handlers

ASSUME RelayAssumption == /\ NoProc \notin Procs
                          /\ Crews \subseteq SUBSET Procs
                          /\ MaxFaults \in Nat

\* What an instance finds: a finite command line, and what reading a zones file may give.
ASSUME InputsAssumption ==
    \A pf \in {"pc", "console"}, p \in Procs : \A i \in DOMAIN Inputs[pf][p] :
       LET g == Inputs[pf][p][i]
       IN  /\ \A path \in DOMAIN g.disk \ {Empty} : g.disk[path].read \in Contents
           /\ pf = "pc" => /\ Len(g.arguments) \in Nat
                           /\ \A k \in 1 .. Len(g.arguments) : g.arguments[k].missing \in BOOLEAN

VARIABLES platform,     \* "pc" or "console", of the whole machine
          stage,        \* where main of each instance is
          target,       \* s_ProcPid
          input,        \* index of what the instance found when it read its settings
          config,       \* g_Config
          sockets,      \* the bound ones
          pending,      \* a signal reached the signal_set, its handler is queued
          ended,        \* why the instance is or will be gone
          faults

vars == <<platform, stage, target, input, config, sockets, pending, ended, faults>>

Sockets == {"udp", "tcp"}
Scanning == {"scan", "kill", "wait", "name"}
Loading == {"load", "bindudp", "bindtcp"}
Running == {"serve", "again"}
Stages == {"absent", "off", "dying", "gone"} \cup Scanning \cup Loading \cup Running
Reasons == {"none", "help", "fatal", "bind", "signal", "thrown", "killed"}

\* Every variable has its type.
TypeOK == /\ platform \in {"pc", "console"}
          /\ stage \in [Procs -> Stages]
          /\ target \in [Procs -> Procs \cup {NoProc}]
          /\ sockets \in [Procs -> SUBSET Sockets]
          /\ pending \in [Procs -> BOOLEAN]
          /\ ended \in [Procs -> Reasons]
          /\ faults \in 0 .. MaxFaults

Init == /\ platform \in {"pc", "console"}
        /\ \E crew \in Crews : stage = [p \in Procs |-> IF p \in crew THEN "off" ELSE "absent"]
        /\ target = [p \in Procs |-> NoProc]
        /\ input = [p \in Procs |-> 0]
        /\ config = [p \in Procs |-> Defaults]
        /\ sockets = [p \in Procs |-> {}]
        /\ pending = [p \in Procs |-> FALSE]
        /\ ended = [p \in Procs |-> "none"]
        /\ faults = 0

Alive(p) == stage[p] \in Scanning \cup Loading \cup Running

Goto(p, s) == stage' = [stage EXCEPT ![p] = s]

Fault == faults < MaxFaults /\ faults' = faults + 1

\* The process ends at once: main returns, or the default action of a signal.
End(p, why) == /\ Goto(p, "gone")
               /\ ended' = [ended EXCEPT ![p] = why]
               /\ sockets' = [sockets EXCEPT ![p] = {}]
               /\ pending' = [pending EXCEPT ![p] = FALSE]
               /\ UNCHANGED <<platform, target>>

-----------------------------------------------------------------------------
(* KillProcByName *)

Start(p) == /\ stage[p] = "off"
            /\ Goto(p, IF platform = "console" THEN "scan" ELSE "load")
            /\ UNCHANGED <<platform, target, input, config, sockets, pending, ended, faults>>

\* Which processes the process list shows under the relay's name.
Named(q) == stage[q] \in Loading \cup Running \cup {"dying"}

\* GetPidFromProcName: the first process with the name that is not this one.
\* A failing sysctl is taken for an empty list.
GetPidFromProcName(p) ==
    /\ stage[p] = "scan"
    /\ \/ /\ \E q \in Procs \ {p} : /\ Named(q)
                                    /\ target' = [target EXCEPT ![p] = q]
          /\ Goto(p, "kill")
          /\ UNCHANGED faults
       \/ /\ ((\A q \in Procs \ {p} : ~ Named(q)) /\ UNCHANGED faults) \/ Fault
          /\ target' = [target EXCEPT ![p] = NoProc]
          /\ Goto(p, "name")
    /\ UNCHANGED <<platform, input, config, sockets, pending, ended>>

\* SIGKILL.  The process may be gone since the scan: kill then fails, and
\* KillProcByName returns although others may have the name.  It also returns
\* when kqueue or kill fail for another reason.
Kill(p) ==
    /\ stage[p] = "kill"
    /\ LET q == target[p]
       IN  \/ /\ stage[q] # "gone"
              /\ stage' = [stage EXCEPT ![p] = "wait", ![q] = "dying"]
              /\ ended' = [ended EXCEPT ![q] = "killed"]
              /\ UNCHANGED faults
           \/ /\ (stage[q] = "gone" /\ UNCHANGED faults) \/ Fault
              /\ Goto(p, "name")
              /\ UNCHANGED ended
    /\ UNCHANGED <<platform, target, input, config, sockets, pending>>

\* As a variant: main goes on while the killed process still has its sockets.
Wait_Skipped(p) == /\ stage[p] = "wait"
                   /\ Goto(p, "name")
                   /\ UNCHANGED <<platform, target, input, config, sockets, pending, ended, faults>>

\* As a variant: one kill is thought to be enough.
Wait_Once(p) == /\ stage[p] = "wait"
                /\ (stage[target[p]] = "gone" /\ UNCHANGED faults) \/ Fault
                /\ Goto(p, "name")
                /\ UNCHANGED <<platform, target, input, config, sockets, pending, ended>>

\* kevent: the process exits, or five seconds pass (or kevent fails).
Wait(p) == /\ stage[p] = "wait"
           /\ (stage[target[p]] = "gone" /\ UNCHANGED faults) \/ Fault
           /\ Goto(p, "scan")
           /\ UNCHANGED <<platform, target, input, config, sockets, pending, ended>>

\* The kernel ends a killed process.
Reap(p) == /\ stage[p] = "dying"
           /\ End(p, ended[p])
           /\ UNCHANGED <<input, config, faults>>

\* SYS_thr_set_name
SetName(p) == /\ stage[p] = "name"
              /\ Goto(p, "load")
              /\ UNCHANGED <<platform, target, input, config, sockets, pending, ended, faults>>

-----------------------------------------------------------------------------
(* Settings, sockets and the event loop *)

\* The settings are read and applied up to the test of Initialized.
Load(p) ==
    /\ stage[p] = "load"
    /\ \E i \in DOMAIN Inputs[platform][p] :
         /\ input' = [input EXCEPT ![p] = i]
         /\ \E g \in {Inputs[platform][p][i]} : \E l \in {Collect(platform, g)} :
            \E m \in {Configure(platform, g, l)} :
              IF m.exit = "none"
                THEN /\ Goto(p, "bindudp")
                     /\ config' = [config EXCEPT ![p] = m.config]
                     /\ UNCHANGED <<platform, target, sockets, pending, ended>>
                ELSE /\ End(p, IF m.exit = "help" THEN "help" ELSE "fatal")
                     /\ UNCHANGED config
    /\ UNCHANGED faults

\* bind fails while another process, dying or not, holds the endpoint.
Taken(p, socket) ==
    \E q \in Procs \ {p} : /\ socket \in sockets[q]
                           /\ config[q].ip = config[p].ip
                           /\ config[q].port = config[p].port

\* The constructors of UdpServer and TcpServer; the exception ends main.  As a
\* fault, bind fails for another reason: the address is not this machine's, or a
\* foreign process or a wildcard address holds the port.
Bind(p, at, socket, next) ==
    /\ stage[p] = at
    /\ \/ /\ (Taken(p, socket) /\ UNCHANGED faults) \/ Fault
          /\ End(p, "bind")
       \/ /\ ~ Taken(p, socket)
          /\ Goto(p, next)
          /\ sockets' = [sockets EXCEPT ![p] = @ \cup {socket}]
          /\ UNCHANGED <<platform, target, pending, ended, faults>>
    /\ UNCHANGED <<input, config>>

BindUdp(p) == Bind(p, "bindudp", "udp", "bindtcp")
BindTcp(p) == Bind(p, "bindtcp", "tcp", "serve")

\* SIGINT or SIGTERM: only the signal_set of the first run() catches it.
Signal(p) ==
    /\ Alive(p)
    /\ IF stage[p] = "serve"
         THEN /\ pending' = [pending EXCEPT ![p] = TRUE]
              /\ UNCHANGED <<platform, stage, target, input, config, sockets, ended>>
         ELSE End(p, "signal") /\ UNCHANGED <<input, config>>
    /\ UNCHANGED faults

\* As a variant: the handler stops the servers and forgets the io_context.
HandleSignal_NoStop(p) ==
    /\ stage[p] \in Running /\ pending[p]
    /\ pending' = [pending EXCEPT ![p] = FALSE]
    /\ sockets' = [sockets EXCEPT ![p] = {}]
    /\ UNCHANGED <<platform, stage, target, input, config, ended, faults>>

\* Stop both servers and the context: run() and main return.
HandleSignal(p) == /\ stage[p] \in Running /\ pending[p]
                   /\ End(p, "signal")
                   /\ UNCHANGED <<input, config, faults>>

\* An exception leaves run(), or the constructor of signal_set.  The first is
\* taken for missing signal support: the signal_set is destroyed, with a signal
\* it has not reported yet, and run() called again.  The second ends main.
HandlerThrows(p) ==
    /\ Fault
    /\ \/ /\ stage[p] = "serve"
          /\ Goto(p, "again")
          /\ pending' = [pending EXCEPT ![p] = FALSE] \/ UNCHANGED pending
          /\ UNCHANGED <<platform, target, input, config, sockets, ended>>
       \/ /\ stage[p] = "again"
          /\ End(p, "thrown")
          /\ UNCHANGED <<input, config>>

Step(p) == \/ GetPidFromProcName(p) \/ Kill(p) \/ Wait(p) \/ SetName(p)
           \/ Load(p) \/ BindUdp(p) \/ BindTcp(p)

Next == \E p \in Procs : \/ Start(p) \/ Step(p) \/ Reap(p)
                         \/ Signal(p) \/ HandleSignal(p) \/ HandlerThrows(p)

\* The machine does not stand still: as long as a process can run, the kernel can
\* end what was killed, or an event loop can dispatch a signal, one of these
\* happens.  Nobody has to start or signal a process, and since an instance is
\* started only once, none can keep the others waiting for ever.
Fairness == WF_vars(\E p \in Procs : Step(p) \/ Reap(p) \/ HandleSignal(p))

Spec == Init /\ [][Next]_vars /\ Fairness

-----------------------------------------------------------------------------
(* Properties *)

\* Instances that left for a reason of their own, and not for another instance.
Left(reasons) == \E p \in Procs : ended[p] \in reasons

\* Takeovers alone never leave the machine without a relay: when instances have
\* been started, all system calls worked and nobody was signalled or had bad
\* settings, one is alive, whatever killed or kept the port from the others
\* (KillProcByName, main-ps.cc:104-155).
NeverGone ==
    (/\ faults = 0
     /\ ~ Left({"help", "fatal", "signal", "thrown"})
     /\ \E p \in Procs : stage[p] \notin {"absent", "off"})
      => \E p \in Procs : Alive(p)

\* The process an instance has found and is about to kill is gone: kill fails and
\* KillProcByName returns (main-ps.cc:126-129).
GaveUp(p) == stage[p] = "kill" /\ stage[target[p]] = "gone"

\* An instance that starts ends the ones that run ("Starting another instance of
\* Chukei DNS will terminate any currently running Chukei DNS instances",
\* README.md:411), unless a system call failed, or this instance was signalled or
\* came upon a process that ended between being found and being killed.  If it
\* was another instance that killed that process, the same is said of that one.
Replaced ==
    \A p \in Procs : \A q \in Procs \ {p} :
      (stage[p] = "scan" /\ stage[q] \in Running)
        ~> (stage[q] = "gone" \/ faults > 0 \/ ended[p] = "signal" \/ GaveUp(p))

\* A signal that reached the signal_set ends the process ("Graceful shutdown -
\* Handles SIGINT / SIGTERM", README.md:75), unless a handler threw.
SignalStops ==
    \A p \in Procs : pending[p] ~> (stage[p] = "gone" \/ faults > 0)

Found(p) == Inputs[platform][p][input[p]]

\* What the input gives for an option: the last argument, or the key.
Mentions(g, o) ==
    IF platform = "pc" THEN \E i \in 1 .. Len(g.arguments) : g.arguments[i].option = o
                       ELSE g.file = "parsed" /\ o \in DOMAIN g.keys \ g.mistyped
Wanted(g, o) ==
    IF platform = "pc"
      THEN g.arguments[CHOOSE i \in 1 .. Len(g.arguments) :
                         /\ g.arguments[i].option = o
                         /\ \A j \in i + 1 .. Len(g.arguments) : g.arguments[j].option # o].value
      ELSE g.keys[o]

\* A running relay has every number and address it was given, and the default
\* of the others; the numbers are in their documented ranges whatever was given.
\* A console only keeps the numbers that were in range: it ignores negative
\* ones and reads the others modulo 2^32, the port modulo 2^16
\* (main-ps.cc:190-216, 299-304, config.cc:72-98, 173-213, 275-282).
SettingsHonoured ==
    \A p \in Procs : stage[p] \in Running =>
      LET c == config[p]
          g == Found(p)
      IN  /\ \A o \in Numbers :
               /\ c[o] \in Limits[o]
               /\ (Mentions(g, o) /\ (platform = "pc" \/ Wanted(g, o) \in Limits[o]))
                    => c[o] = Wanted(g, o)
               /\ ~ Mentions(g, o) => c[o] = Defaults[o]
          /\ \A o \in {"ip", "v4", "v6"} :
               c[o] = IF Mentions(g, o) /\ Wanted(g, o) # Empty THEN Wanted(g, o) ELSE Defaults[o]

\* The rules a relay serves belong to its settings: they carry the redirect
\* addresses in force, they are those of the file exactly when a path is
\* reported, and a relay that answers locally has rules, unless its file has no
\* zones array (config.cc:35-66, 238-248).
RulesInForce ==
    \A p \in Procs : stage[p] \in Running =>
      LET c == config[p]
      IN  /\ c.zones # Nothing =>
               /\ c.zones = Table(c.zones.from, c.v4, c.v6)
               /\ (c.path = Empty) <=> (c.zones.from = "default")
          /\ (c.zones = Nothing /\ ~ c.dohOnly) =>
               (c.path # Empty /\ Found(p).disk[c.path].read = "noarray")

=============================================================================
