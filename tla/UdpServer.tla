----------------------------- MODULE UdpServer ------------------------------
(***************************************************************************)
(* The UDP server's socket loop (src/udp_server.cc): Receive, Send,        *)
(* ReopenSocket and Stop on a single-threaded io_context.  What a query is *)
(* answered with is QueryDispatch's subject; here a handler either has a   *)
(* reply or has none.                                                      *)
(*                                                                         *)
(* All receives share one buffer and one sender endpoint (m_Data_,         *)
(* m_SenderEndpoint_): the reactor fills them when a receive completes,    *)
(* the handler reads them later, when the event loop reaches it.           *)
(***************************************************************************)
EXTENDS Integers, Sequences, FiniteSets, SequencesExt

CONSTANTS Datagrams,      \* datagrams clients may send, each at most once
          Short,          \* those of fewer than 12 bytes, zero included; longer than 512 is
                          \* cut to the buffer's 512 and parsed: the check for it never fires
          MaxFaults,      \* bound: how often a receive fails or the descriptor dies
          MaxOpenFails    \* bound: how often opening a socket fails

ASSUME UdpAssumption ==
    /\ Short \subseteq Datagrams
    /\ MaxFaults \in Nat /\ MaxOpenFails \in Nat

VARIABLES running,  \* m_IsRunning_
          io,       \* the socket, its kernel queue and receives, the timer,
                    \* the ready handlers; history: has a Send found the
                    \* descriptor invalid?
          data,     \* the datagram in m_Data_ and m_SenderEndpoint_
          unsent,   \* datagrams no client has sent yet
          faults,   \* how many faults there were
          served    \* history: <<delivered, answered>> per reply sent

vars == <<running, io, data, unsent, faults, served>>

Nothing == 0

\* A completed operation waiting for the event loop.
Received(d) == [op |-> "received", datagram |-> d]
Failed == [op |-> "failed", datagram |-> Nothing]   \* bad_descriptor
Aborted == [op |-> "aborted", datagram |-> Nothing] \* any other error
TimerFired == [op |-> "timer", datagram |-> Nothing]

Handlers == {Received(d) : d \in Datagrams} \cup {Failed, Aborted, TimerFired}

TypeOK == /\ running \in BOOLEAN
          /\ io.sock \in {"open", "broken", "closed"}
          /\ io.pending \in Nat
          /\ io.timer \in {"off", "armed"}
          /\ io.ready \in Seq(Handlers)
          /\ io.openFails \in 0 .. MaxOpenFails
          /\ io.sendFailed \in BOOLEAN
          /\ data \in Datagrams \cup {Nothing}
          /\ io.inbox \in Seq(Datagrams)
          /\ unsent \subseteq Datagrams
          /\ faults \in 0 .. MaxFaults
          /\ served \subseteq Datagrams \X Datagrams

-----------------------------------------------------------------------------
(* The member functions, as functions of the I/O state s *)

\* async_receive_from on a closed socket completes at once.
Receive(s) ==
    IF ~ running THEN s
    ELSE IF s.sock = "closed" THEN [s EXCEPT !.ready = Append(@, Failed)]
    ELSE [s EXCEPT !.pending = @ + 1]

\* Closing the socket aborts its outstanding receives and drops its queue.
Close(s) == [s EXCEPT !.sock = "closed", !.pending = 0, !.inbox = <<>>,
                      !.ready = @ \o [i \in 1 .. s.pending |-> Aborted]]

\* Variant: a failed reopen is not retried.
ReopenSocket_NoTimer(s) ==
    IF ~ running THEN {s}
    ELSE {Receive([Close(s) EXCEPT !.sock = "open"])}
         \cup IF s.openFails < MaxOpenFails
                THEN {[Close(s) EXCEPT !.openFails = @ + 1]} ELSE {}

\* Variant: reopens whether or not the server was stopped.
ReopenSocket_Unguarded(s) == {Receive([Close(s) EXCEPT !.sock = "open"])}

\* The states ReopenSocket may leave: a new socket with a receive on it, or
\* none and the timer armed (expires_after replaces a wait already pending).
ReopenSocket(s) ==
    IF ~ running THEN {s}
    ELSE {Receive([Close(s) EXCEPT !.sock = "open"])}
         \cup IF s.openFails < MaxOpenFails
                THEN {[Close(s) EXCEPT !.timer = "armed", !.openFails = @ + 1]}
                ELSE {}

\* Send of a reply; replied tells whether it left.
Send(s) ==
    IF s.sock = "open"
      THEN {[io |-> s, replied |-> TRUE], [io |-> s, replied |-> FALSE]}
      ELSE {[io |-> t, replied |-> FALSE] :
              t \in ReopenSocket([s EXCEPT !.sendFailed = TRUE])}

-----------------------------------------------------------------------------
(* The event loop *)

Init == /\ running = TRUE
        /\ io = [sock |-> "open", inbox |-> <<>>, pending |-> 1, timer |-> "off",
                 ready |-> <<>>, openFails |-> 0, sendFailed |-> FALSE]
        /\ data = Nothing
        /\ unsent = Datagrams
        /\ faults = 0
        /\ served = {}

\* The event loop takes the next handler: the I/O state without it.
Taken == [io EXCEPT !.ready = Tail(@)]

NextHandler(op) == io.ready # <<>> /\ Head(io.ready).op = op

\* Variant: the early return posts no receive.
HandleShort_NoReceive ==
    /\ NextHandler("received")
    /\ Head(io.ready).datagram \in Short
    /\ io' = Taken
    /\ UNCHANGED <<running, data, unsent, faults, served>>

\* A datagram too small to be a DNS message.
HandleShort ==
    /\ NextHandler("received")
    /\ Head(io.ready).datagram \in Short
    /\ io' = Receive(Taken)
    /\ UNCHANGED <<running, data, unsent, faults, served>>

\* A query: it is the shared buffer that is parsed, and the shared endpoint
\* that is answered.  Dispatch may leave nothing to send.
HandleQuery ==
    /\ NextHandler("received")
    /\ Head(io.ready).datagram \notin Short
    /\ \/ \E out \in Send(Taken) :
             /\ io' = Receive(out.io)
             /\ served' = IF out.replied
                            THEN served \cup {<<Head(io.ready).datagram, data>>}
                            ELSE served
       \/ io' = Receive(Taken) /\ UNCHANGED served
    /\ UNCHANGED <<running, data, unsent, faults>>

\* Variant: no return after ReopenSocket.
HandleFailed_FallsThrough ==
    /\ NextHandler("failed")
    /\ \E s \in ReopenSocket(Taken) : io' = Receive(s)
    /\ UNCHANGED <<running, data, unsent, faults, served>>

\* Variant: treated as any other error.
HandleFailed_NoReopen ==
    /\ NextHandler("failed")
    /\ io' = Receive(Taken)
    /\ UNCHANGED <<running, data, unsent, faults, served>>

\* bad_descriptor or not_socket: reopen, and do not post a receive here.
HandleFailed ==
    /\ NextHandler("failed")
    /\ io' \in ReopenSocket(Taken)
    /\ UNCHANGED <<running, data, unsent, faults, served>>

HandleAborted ==
    /\ NextHandler("aborted")
    /\ io' = Receive(Taken)
    /\ UNCHANGED <<running, data, unsent, faults, served>>

HandleTimer ==
    /\ NextHandler("timer")
    /\ io' \in ReopenSocket(Taken)
    /\ UNCHANGED <<running, data, unsent, faults, served>>

\* Stop, called from the signal handler.
Stop == /\ running
        /\ running' = FALSE
        /\ io' = [Close(io) EXCEPT !.timer = "off"]
        /\ UNCHANGED <<data, unsent, faults, served>>

Handle == \/ HandleShort
          \/ HandleQuery
          \/ HandleFailed
          \/ HandleAborted
          \/ HandleTimer

-----------------------------------------------------------------------------
(* The environment: clients, kernel, timer *)

Arrive(d) ==
    /\ d \in unsent
    /\ io.sock = "open"
    /\ unsent' = unsent \ {d}
    /\ io' = [io EXCEPT !.inbox = Append(@, d)]
    /\ UNCHANGED <<running, data, faults, served>>

\* The reactor completes the oldest receive with the oldest datagram.
Complete ==
    /\ io.sock = "open" /\ io.pending > 0
    /\ io.inbox # <<>>
    /\ data' = Head(io.inbox)
    /\ io' = [io EXCEPT !.pending = @ - 1, !.inbox = Tail(@),
                        !.ready = Append(@, Received(Head(io.inbox)))]
    /\ UNCHANGED <<running, unsent, faults, served>>

\* The descriptor becomes invalid, as on waking from rest mode.
Break == /\ io.sock = "open"
         /\ faults < MaxFaults
         /\ io' = [io EXCEPT !.sock = "broken", !.inbox = <<>>]
         /\ faults' = faults + 1
         /\ UNCHANGED <<running, data, unsent, served>>

\* A receive fails for a reason that leaves the descriptor valid.
ReceiveError ==
    /\ io.sock = "open" /\ io.pending > 0
    /\ faults < MaxFaults
    /\ io' = [io EXCEPT !.pending = @ - 1, !.ready = Append(@, Aborted)]
    /\ faults' = faults + 1
    /\ UNCHANGED <<running, data, unsent, served>>

\* The reactor reports bad_descriptor for a receive on an invalid descriptor.
ReportBroken ==
    /\ io.sock = "broken" /\ io.pending > 0
    /\ io' = [io EXCEPT !.pending = @ - 1, !.ready = Append(@, Failed)]
    /\ UNCHANGED <<running, data, unsent, faults, served>>

TimerExpires ==
    /\ io.timer = "armed"
    /\ io' = [io EXCEPT !.timer = "off", !.ready = Append(@, TimerFired)]
    /\ UNCHANGED <<running, data, unsent, faults, served>>

Next == \/ Handle
        \/ Stop
        \/ \E d \in Datagrams : Arrive(d)
        \/ Complete
        \/ Break
        \/ ReceiveError
        \/ ReportBroken
        \/ TimerExpires

Spec == Init /\ [][Next]_vars

\* io_context::run keeps running ready handlers, the reactor reports errors
\* and completions, and steady_timer expires.
Fairness == /\ WF_vars(Handle)
            /\ WF_vars(ReportBroken)
            /\ WF_vars(TimerExpires)
            /\ WF_vars(Complete)

FairSpec == Spec /\ Fairness

-----------------------------------------------------------------------------
(* Properties *)

\* The operations that lead to another receive: outstanding receives, handlers
\* waiting for the loop and the armed timer.
Tokens == io.pending + Len(io.ready) + (IF io.timer = "armed" THEN 1 ELSE 0)

\* A running server is never deaf: some operation is always under way that
\* leads to another receive, whatever failed and in whatever order.  And it is the
\* only one until a Send finds the descriptor invalid: receive errors, failed
\* reopens and the timer never start a second, so the buffer and endpoint that
\* receives share belong to the handler that waits.
OneReceive == running => Tokens >= 1 /\ (~ io.sendFailed => Tokens = 1)

\* A reply answers the datagram its own receive delivered, to its sender
\* (README.md:353, the flow from "Receive packet (UDP)" to its response).
ServedIsReceived == \A p \in served : p[1] = p[2]

\* A failed reopen is retried when the timer expires, not before (README.md:76,
\* "with retry backoff"), until a Send finds the descriptor invalid: then the
\* handler's tail posts a receive on the closed socket, and its failure reopens.
BackoffRespected ==
    [][(io.timer = "armed" /\ ~ io'.sendFailed) =>
          /\ io'.openFails = io.openFails
          /\ io.sock = "closed" => io'.sock = "closed"]_vars

\* Once stopped, the server opens no socket and posts no receive again.
StopIsFinal ==
    [][~ running => /\ io'.sock = "closed" /\ io'.pending = 0
                    /\ io'.timer = "off"]_vars

\* A server whose socket went bad gets a working one again, or is stopped.
Recovers == (running /\ io.sock # "open") ~> (io.sock = "open" \/ ~ running)

\* A query in the socket's queue is taken from it, unless the socket goes.
Drains == (io.sock = "open" /\ io.inbox # <<>>) ~> (io.inbox = <<>>)

=============================================================================
