------------------------------ MODULE TcpServer -----------------------------
(***************************************************************************)
(* The TCP acceptor (TcpServer in src/tcp_server.cc): Accept,              *)
(* ReopenAcceptor and Stop on a single-threaded io_context.  A connection  *)
(* accepted becomes a TcpSession (module TcpSession) that lives on its     *)
(* own; here it is a member of sessions.                                   *)
(***************************************************************************)
EXTENDS Integers, Sequences

CONSTANTS Connections,   \* connections clients may open
          MaxFaults,     \* bound: failed accepts and dying descriptors
          MaxOpenFails   \* bound: how often opening an acceptor fails

ASSUME TcpAssumption == MaxFaults \in Nat /\ MaxOpenFails \in Nat

VARIABLES running,    \* m_IsRunning_
          acceptor,   \* m_Acceptor_: "open", "broken" or "closed"
          pending,    \* outstanding async_accept operations
          ready,      \* handlers of completed operations, in the loop's order
          timer,      \* m_ReopenTimer_: "off" or "armed"
          clients,    \* connections not opened yet
          backlog,    \* connections in the kernel's accept queue
          sessions,   \* connections handed to a TcpSession
          faults, openFails

vars == <<running, acceptor, pending, ready, timer, clients, backlog, sessions,
          faults, openFails>>

NoConnection == 0

Accepted(c) == [op |-> "accepted", conn |-> c]
Failed == [op |-> "failed", conn |-> NoConnection]    \* bad_descriptor, not_socket
Aborted == [op |-> "aborted", conn |-> NoConnection]  \* any other error
TimerFired == [op |-> "timer", conn |-> NoConnection]

Handlers == {Accepted(c) : c \in Connections} \cup {Failed, Aborted, TimerFired}

TypeOK == /\ running \in BOOLEAN
          /\ acceptor \in {"open", "broken", "closed"}
          /\ pending \in Nat
          /\ ready \in Seq(Handlers)
          /\ timer \in {"off", "armed"}
          /\ clients \subseteq Connections
          /\ backlog \subseteq Connections
          /\ sessions \subseteq Connections
          /\ faults \in 0 .. MaxFaults
          /\ openFails \in 0 .. MaxOpenFails

-----------------------------------------------------------------------------
(* The event loop *)

Init == /\ running = TRUE
        /\ acceptor = "open"
        /\ pending = 1
        /\ ready = <<>>
        /\ timer = "off"
        /\ clients = Connections
        /\ backlog = {}
        /\ sessions = {}
        /\ faults = 0
        /\ openFails = 0

\* Accept, called when the handler at the head of ready returns.  On a closed
\* acceptor the operation fails at once.
Accept ==
    \/ ~ running /\ ready' = Tail(ready) /\ UNCHANGED pending
    \/ /\ running /\ acceptor # "closed"
       /\ ready' = Tail(ready) /\ pending' = pending + 1
    \/ /\ running /\ acceptor = "closed"
       /\ ready' = Append(Tail(ready), Failed) /\ UNCHANGED pending

\* Variant: reopens whether or not the server was stopped.
ReopenAcceptor_Unguarded ==
    /\ acceptor' = "open"
    /\ ready' = Tail(ready) \o [i \in 1 .. pending |-> Aborted]
    /\ pending' = IF running THEN 1 ELSE 0
    /\ backlog' = {}
    /\ UNCHANGED <<timer, openFails>>

\* ReopenAcceptor, called from the handler at the head of ready: close (which
\* aborts outstanding accepts), then open and accept, or arm the timer.
ReopenAcceptor ==
    \/ /\ ~ running
       /\ ready' = Tail(ready)
       /\ UNCHANGED <<acceptor, pending, timer, backlog, openFails>>
    \/ /\ running
       /\ acceptor' = "open"
       /\ ready' = Tail(ready) \o [i \in 1 .. pending |-> Aborted]
       /\ pending' = 1
       /\ backlog' = {}
       /\ UNCHANGED <<timer, openFails>>
    \/ /\ running
       /\ openFails < MaxOpenFails
       /\ openFails' = openFails + 1
       /\ acceptor' = "closed"
       /\ ready' = Tail(ready) \o [i \in 1 .. pending |-> Aborted]
       /\ pending' = 0
       /\ timer' = "armed"
       /\ backlog' = {}

NextHandler(op) == ready # <<>> /\ Head(ready).op = op

\* Variant: the session is started, the next accept is not.
HandleAccepted_Last ==
    /\ NextHandler("accepted")
    /\ sessions' = sessions \cup {Head(ready).conn}
    /\ ready' = Tail(ready)
    /\ UNCHANGED <<running, acceptor, pending, timer, clients, backlog, faults,
                   openFails>>

\* The connection gets its TcpSession, stopped or not.
HandleAccepted ==
    /\ NextHandler("accepted")
    /\ sessions' = sessions \cup {Head(ready).conn}
    /\ Accept
    /\ UNCHANGED <<running, acceptor, timer, clients, backlog, faults, openFails>>

HandleAborted ==
    /\ NextHandler("aborted")
    /\ Accept
    /\ UNCHANGED <<running, acceptor, timer, clients, backlog, sessions, faults,
                   openFails>>

\* Variant: no return after a failed ReopenAcceptor.
HandleFailed_FallsThrough ==
    /\ NextHandler("failed")
    /\ running /\ openFails < MaxOpenFails
    /\ openFails' = openFails + 1
    /\ acceptor' = "closed"
    /\ ready' = Append(Tail(ready), Failed)
    /\ pending' = 0
    /\ timer' = "armed"
    /\ backlog' = {}
    /\ UNCHANGED <<running, clients, sessions, faults>>

\* Variant: treated as any other error.
HandleFailed_NoReopen ==
    /\ NextHandler("failed")
    /\ Accept
    /\ UNCHANGED <<running, acceptor, timer, clients, backlog, sessions, faults,
                   openFails>>

HandleFailed ==
    /\ NextHandler("failed")
    /\ ReopenAcceptor
    /\ UNCHANGED <<running, clients, sessions, faults>>

HandleTimer ==
    /\ NextHandler("timer")
    /\ ReopenAcceptor
    /\ UNCHANGED <<running, clients, sessions, faults>>

Handle == HandleAccepted \/ HandleAborted \/ HandleFailed \/ HandleTimer

Stop == /\ running
        /\ running' = FALSE
        /\ acceptor' = "closed"
        /\ ready' = ready \o [i \in 1 .. pending |-> Aborted]
        /\ pending' = 0
        /\ timer' = "off"
        /\ backlog' = {}
        /\ UNCHANGED <<clients, sessions, faults, openFails>>

-----------------------------------------------------------------------------
(* The environment *)

Connect(c) ==
    /\ c \in clients
    /\ acceptor = "open"
    /\ clients' = clients \ {c}
    /\ backlog' = backlog \cup {c}
    /\ UNCHANGED <<running, acceptor, pending, ready, timer, sessions, faults,
                   openFails>>

\* The reactor completes an accept.
Complete(c) ==
    /\ acceptor = "open" /\ pending > 0
    /\ c \in backlog
    /\ backlog' = backlog \ {c}
    /\ pending' = pending - 1
    /\ ready' = Append(ready, Accepted(c))
    /\ UNCHANGED <<running, acceptor, timer, clients, sessions, faults, openFails>>

\* An accept fails and the descriptor stays valid (out of descriptors, say).
AcceptError ==
    /\ acceptor = "open" /\ pending > 0
    /\ faults < MaxFaults
    /\ pending' = pending - 1
    /\ ready' = Append(ready, Aborted)
    /\ faults' = faults + 1
    /\ UNCHANGED <<running, acceptor, timer, clients, backlog, sessions, openFails>>

Break == /\ acceptor = "open"
         /\ faults < MaxFaults
         /\ acceptor' = "broken"
         /\ backlog' = {}
         /\ faults' = faults + 1
         /\ UNCHANGED <<running, pending, ready, timer, clients, sessions, openFails>>

ReportBroken ==
    /\ acceptor = "broken" /\ pending > 0
    /\ pending' = pending - 1
    /\ ready' = Append(ready, Failed)
    /\ UNCHANGED <<running, acceptor, timer, clients, backlog, sessions, faults,
                   openFails>>

TimerExpires ==
    /\ timer = "armed"
    /\ timer' = "off"
    /\ ready' = Append(ready, TimerFired)
    /\ UNCHANGED <<running, acceptor, pending, clients, backlog, sessions, faults,
                   openFails>>

Next == \/ Handle
        \/ Stop
        \/ \E c \in Connections : Connect(c) \/ Complete(c)
        \/ AcceptError
        \/ Break
        \/ ReportBroken
        \/ TimerExpires

Spec == Init /\ [][Next]_vars

\* io_context::run runs ready handlers, the reactor reports, the timer expires.
Fairness == /\ WF_vars(Handle)
            /\ WF_vars(ReportBroken)
            /\ WF_vars(TimerExpires)
            /\ \A c \in Connections : WF_vars(Complete(c))

FairSpec == Spec /\ Fairness

-----------------------------------------------------------------------------
(* Properties *)

Armed == IF timer = "armed" THEN 1 ELSE 0

\* While the server runs exactly one operation leads to the next accept: an
\* outstanding accept, a handler the loop has still to run, or the timer.  So
\* accepts neither multiply nor die out, through every failure and reopening;
\* and a stopped server has none, bar the one handler that was under way.
OneAccept == IF running THEN pending + Len(ready) + Armed = 1
             ELSE pending + Armed = 0 /\ Len(ready) <= 1

\* A failed reopen is retried when the timer expires, not before
\* (README.md:76, "automatically reopen ... with retry backoff").
BackoffRespected ==
    [][timer = "armed" => /\ openFails' = openFails
                          /\ acceptor = "closed" => acceptor' = "closed"]_vars

\* Once stopped, the server opens no acceptor and starts no accept again.
StopIsFinal == [][~ running => acceptor' = "closed" /\ pending' = 0]_vars

\* An acceptor that died comes back, or the server is stopped.
Recovers == (running /\ acceptor # "open") ~> (acceptor = "open" \/ ~ running)

\* A connection in the accept queue gets a session unless the acceptor goes.
BacklogServed ==
    \A c \in Connections :
       (c \in backlog) ~> (c \in sessions \/ acceptor # "open")

=============================================================================
