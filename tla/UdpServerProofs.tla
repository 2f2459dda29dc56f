-------------------------- MODULE UdpServerProofs ---------------------------
(***************************************************************************)
(* The socket loop of UdpServer, for any set of datagrams and any number   *)
(* of faults: the server is never deaf, only a Send on an invalid          *)
(* descriptor can start a second receive, the reopen timer is respected    *)
(* and Stop is final.                                                      *)
(***************************************************************************)
EXTENDS UdpServer, SequenceTheorems, TLAPS

\* The handlers that carry no datagram.
Errors == {Failed, Aborted, TimerFired}

\* The I/O states whose ready handlers are in H.
IOState(H) == [sock : {"open", "broken", "closed"}, inbox : Seq(Datagrams),
               pending : Nat, timer : {"off", "armed"}, ready : Seq(H),
               openFails : 0 .. MaxOpenFails, sendFailed : BOOLEAN]

\* Tokens, of any I/O state.
Count(s) == s.pending + Len(s.ready) + (IF s.timer = "armed" THEN 1 ELSE 0)

\* A datagram is handled only after the reactor has filled the buffer.
Possible == IF data \in Datagrams THEN Handlers ELSE Errors

\* What Stop leaves behind.
Stopped == io.sock = "closed" /\ io.pending = 0 /\ io.timer = "off"

\* OneReceive is inductive once Stop's effect is remembered.
IInv == /\ running \in BOOLEAN
        /\ io \in IOState(Possible)
        /\ data \in Datagrams \cup {Nothing}
        /\ unsent \subseteq Datagrams
        /\ faults \in 0 .. MaxFaults
        /\ served \subseteq Datagrams \X Datagrams
        /\ OneReceive
        /\ ~ running => Stopped

-----------------------------------------------------------------------------
(* The member functions *)

LEMMA HandlerTypes ==
    /\ Errors \subseteq Handlers
    /\ Possible \subseteq Handlers
    /\ Errors \subseteq Possible
    /\ data \in Datagrams => Possible = Handlers
BY DEF Errors, Handlers, Possible

\* A handler appended to the ready ones, and the aborts Close appends.
LEMMA ReadyTypes ==
    ASSUME NEW H, Errors \subseteq H, NEW r \in Seq(H)
    PROVE  /\ \A h \in H : Append(r, h) \in Seq(H)
                           /\ Len(Append(r, h)) = Len(r) + 1
           /\ \A n \in Nat : LET t == r \o [i \in 1 .. n |-> Aborted]
                             IN  t \in Seq(H) /\ Len(t) = Len(r) + n
           /\ r # <<>> => /\ Tail(r) \in Seq(H) /\ Len(r) >= 1
                          /\ Len(Tail(r)) = Len(r) - 1
                          /\ Head(r) \in H
           /\ Len(r) \in Nat
<1>1. ASSUME NEW n \in Nat
      PROVE  LET t == r \o [i \in 1 .. n |-> Aborted]
             IN  t \in Seq(H) /\ Len(t) = Len(r) + n
  <2> DEFINE a == [i \in 1 .. n |-> Aborted]
  <2>1. Aborted \in H
    BY DEF Errors
  <2>2. a \in Seq(H) /\ Len(a) = n
    BY <2>1, SMT
  <2> HIDE DEF a
  <2>3. r \o a \in Seq(H) /\ Len(r \o a) = Len(r) + n
    BY <2>2, SMT
  <2>4. QED
    BY <2>3 DEF a
<1>2. QED
  BY <1>1, SMT

\* The updates that several functions make, and what they leave alone.
WithReady(s, n, r) == [s EXCEPT !.pending = n, !.ready = r]

WithClosed(s, q, r) ==
    [s EXCEPT !.sock = "closed", !.pending = 0, !.inbox = q, !.ready = r]

WithTimer(s, n) == [s EXCEPT !.timer = "armed", !.openFails = n]

LEMMA ReadyUpdate ==
    ASSUME NEW H, NEW s \in IOState(H), NEW r \in Seq(H), NEW n \in Nat
    PROVE  LET t == WithReady(s, n, r)
           IN  /\ t \in IOState(H) /\ t.pending = n /\ t.ready = r
               /\ t.sock = s.sock /\ t.inbox = s.inbox /\ t.timer = s.timer
               /\ t.openFails = s.openFails /\ t.sendFailed = s.sendFailed
BY DEF IOState, WithReady

LEMMA CloseUpdate ==
    ASSUME NEW H, NEW s \in IOState(H), NEW r \in Seq(H), NEW q \in Seq(Datagrams)
    PROVE  LET t == WithClosed(s, q, r)
           IN  /\ t \in IOState(H) /\ t.sock = "closed" /\ t.pending = 0
               /\ t.inbox = q /\ t.ready = r /\ t.timer = s.timer
               /\ t.openFails = s.openFails /\ t.sendFailed = s.sendFailed
BY DEF IOState, WithClosed

LEMMA ArmUpdate ==
    ASSUME NEW H, NEW s \in IOState(H), NEW n \in 0 .. MaxOpenFails
    PROVE  LET t == WithTimer(s, n)
           IN  /\ t \in IOState(H) /\ t.sock = s.sock /\ t.pending = s.pending
               /\ t.inbox = s.inbox /\ t.ready = s.ready /\ t.timer = "armed"
               /\ t.openFails = n /\ t.sendFailed = s.sendFailed
BY DEF IOState, WithTimer

LEMMA OpenUpdate ==
    ASSUME NEW H, NEW s \in IOState(H), NEW t, t = [s EXCEPT !.sock = "open"]
    PROVE  /\ t \in IOState(H) /\ t.sock = "open" /\ t.pending = s.pending
           /\ t.inbox = s.inbox /\ t.ready = s.ready /\ t.timer = s.timer
           /\ t.openFails = s.openFails /\ t.sendFailed = s.sendFailed
BY DEF IOState

LEMMA FieldTypes ==
    ASSUME NEW H, NEW s \in IOState(H)
    PROVE  /\ s.sock \in {"open", "broken", "closed"} /\ s.inbox \in Seq(Datagrams)
           /\ s.pending \in Nat /\ s.timer \in {"off", "armed"}
           /\ s.ready \in Seq(H) /\ Len(s.ready) \in Nat
           /\ s.openFails \in 0 .. MaxOpenFails /\ s.sendFailed \in BOOLEAN
           /\ Count(s) \in Nat
<1>1. /\ s.sock \in {"open", "broken", "closed"} /\ s.inbox \in Seq(Datagrams)
      /\ s.pending \in Nat /\ s.timer \in {"off", "armed"} /\ s.ready \in Seq(H)
      /\ s.openFails \in 0 .. MaxOpenFails /\ s.sendFailed \in BOOLEAN
  BY DEF IOState
<1>2. Len(s.ready) \in Nat
  BY <1>1, SMT
<1>3. QED
  BY <1>1, <1>2, SMT DEF Count

\* Receive starts one operation while the server runs, and none otherwise.
LEMMA ReceiveFacts ==
    ASSUME NEW H, Errors \subseteq H, NEW s \in IOState(H)
    PROVE  /\ Receive(s) \in IOState(H)
           /\ Receive(s).sock = s.sock
           /\ Receive(s).timer = s.timer
           /\ Receive(s).openFails = s.openFails
           /\ Receive(s).sendFailed = s.sendFailed
           /\ running => Count(Receive(s)) = Count(s) + 1
           /\ ~ running => Receive(s) = s
<1>1. CASE ~ running
  BY <1>1 DEF Receive
<1> DEFINE t == Receive(s)
           n == IF s.sock = "closed" THEN s.pending ELSE s.pending + 1
           r == IF s.sock = "closed" THEN Append(s.ready, Failed) ELSE s.ready
<1>2. CASE running
  <2>1. Failed \in H
    BY DEF Errors
  <2>2. s.pending \in Nat /\ s.ready \in Seq(H) /\ Len(s.ready) \in Nat
    BY FieldTypes
  <2>3. Append(s.ready, Failed) \in Seq(H)
        /\ Len(Append(s.ready, Failed)) = Len(s.ready) + 1
    BY <2>1, <2>2, ReadyTypes
  <2>4. n \in Nat /\ r \in Seq(H) /\ n + Len(r) = s.pending + Len(s.ready) + 1
    BY <2>2, <2>3, SMT
  <2>5. t = WithReady(s, n, r)
    BY <1>2 DEF Receive, IOState, WithReady
  <2> HIDE DEF t, n, r
  <2>6. /\ t \in IOState(H) /\ t.pending = n /\ t.ready = r
        /\ t.sock = s.sock /\ t.inbox = s.inbox /\ t.timer = s.timer
        /\ t.openFails = s.openFails /\ t.sendFailed = s.sendFailed
    <3>1. n \in Nat /\ r \in Seq(H)
      BY <2>4
    <3>2. QED
      BY <2>5, <3>1, ReadyUpdate
  <2>7. Len(r) \in Nat
    BY <2>4, SMT
  <2>8. Count(t) = Count(s) + 1
    BY <2>2, <2>4, <2>6, <2>7, SMT DEF Count
  <2>9. QED
    BY <1>2, <2>6, <2>8 DEF t
<1>3. QED
  BY <1>1, <1>2

\* Close turns every outstanding receive into a handler: it loses none.
LEMMA CloseFacts ==
    ASSUME NEW H, Errors \subseteq H, NEW s \in IOState(H)
    PROVE  /\ Close(s) \in IOState(H)
           /\ Close(s).sock = "closed" /\ Close(s).pending = 0
           /\ Close(s).timer = s.timer
           /\ Close(s).openFails = s.openFails
           /\ Close(s).sendFailed = s.sendFailed
           /\ Count(Close(s)) = Count(s)
<1> DEFINE r == s.ready \o [i \in 1 .. s.pending |-> Aborted]
           q == <<>>
           t == Close(s)
<1>1. s.pending \in Nat /\ s.ready \in Seq(H) /\ Len(s.ready) \in Nat
  BY FieldTypes
<1>2. r \in Seq(H) /\ Len(r) = Len(s.ready) + s.pending
  BY <1>1, ReadyTypes
<1>3. t = WithClosed(s, q, r)
  BY DEF Close, IOState, WithClosed
<1>4. q \in Seq(Datagrams)
  BY SMT
<1> HIDE DEF t, q, r
<1>5. /\ t \in IOState(H) /\ t.sock = "closed" /\ t.pending = 0
      /\ t.ready = r /\ t.timer = s.timer
      /\ t.openFails = s.openFails /\ t.sendFailed = s.sendFailed
  BY <1>2, <1>3, <1>4, CloseUpdate
<1>6. Count(t) = Count(s)
  BY <1>1, <1>2, <1>5, SMT DEF Count
<1>7. QED
  BY <1>5, <1>6 DEF t

\* ReopenSocket leaves one more operation under way, or the timer.
LEMMA ReopenFacts ==
    ASSUME UdpAssumption, NEW H, Errors \subseteq H, NEW s \in IOState(H),
           NEW t \in ReopenSocket(s)
    PROVE  /\ t \in IOState(H)
           /\ t.sendFailed = s.sendFailed
           /\ running => Count(t) >= 1
           /\ running /\ s.timer = "off" => Count(t) = Count(s) + 1
           /\ ~ running => t = s
<1> DEFINE c == Close(s)
           o == [c EXCEPT !.sock = "open"]
<1>1. CASE ~ running
  BY <1>1 DEF ReopenSocket
<1>2. c \in IOState(H) /\ c.timer = s.timer /\ c.openFails = s.openFails
      /\ c.sendFailed = s.sendFailed /\ Count(c) = Count(s) /\ c.pending = 0
  BY CloseFacts
<1>3. Len(c.ready) \in Nat /\ c.openFails \in 0 .. MaxOpenFails /\ Count(c) \in Nat
  BY <1>2, FieldTypes
<1>4. CASE running /\ t = Receive(o)
  <2> HIDE DEF c
  <2>1. o = [c EXCEPT !.sock = "open"]
    OBVIOUS
  <2> HIDE DEF o
  <2>2. o \in IOState(H) /\ o.timer = c.timer /\ o.sendFailed = c.sendFailed
        /\ o.pending = c.pending /\ o.ready = c.ready
    BY <1>2, <2>1, OpenUpdate
  <2>3. Count(o) = Count(c)
    BY <2>2 DEF Count
  <2>4. t \in IOState(H) /\ t.sendFailed = o.sendFailed /\ Count(t) = Count(o) + 1
    BY <1>4, <2>2, ReceiveFacts
  <2>5. QED
    BY <1>2, <1>3, <1>4, <2>2, <2>3, <2>4, SMT
<1>5. CASE /\ running /\ s.openFails < MaxOpenFails
           /\ t = [c EXCEPT !.timer = "armed", !.openFails = @ + 1]
  <2> HIDE DEF c
  <2> DEFINE n == c.openFails + 1
  <2>1. n \in 0 .. MaxOpenFails
    BY <1>2, <1>3, <1>5, UdpAssumption, SMT
  <2>2. t = WithTimer(c, n)
    BY <1>2, <1>5 DEF IOState, WithTimer
  <2> HIDE DEF n
  <2>3. t \in IOState(H) /\ t.timer = "armed" /\ t.sendFailed = c.sendFailed
        /\ t.pending = c.pending /\ t.ready = c.ready
    BY <1>2, <2>1, <2>2, ArmUpdate
  <2>4. Count(t) = Len(c.ready) + 1
    BY <1>2, <1>3, <2>3, SMT DEF Count
  <2>5. s.timer = "off" => Count(c) = Len(c.ready)
    BY <1>2, <1>3, SMT DEF Count
  <2>6. running
    BY <1>5
  <2> HIDE <1>5
  <2>7. QED
    BY <1>2, <1>3, <2>3, <2>4, <2>5, <2>6, SMT
<1>6. QED
  BY <1>1, <1>4, <1>5 DEF ReopenSocket, c, o

\* Send leaves the I/O state as it was, or records that the descriptor was
\* invalid.
LEMMA SendFacts ==
    ASSUME UdpAssumption, NEW H, Errors \subseteq H, NEW s \in IOState(H),
           NEW out \in Send(s)
    PROVE  /\ out.io \in IOState(H)
           /\ out.io = s \/ out.io.sendFailed
           /\ s.sendFailed => out.io.sendFailed
           /\ running /\ out.io # s => Count(out.io) >= 1
           /\ ~ running => /\ out.io.sock = s.sock
                           /\ out.io.pending = s.pending
                           /\ out.io.timer = s.timer
<1>1. CASE s.sock = "open"
  <2>1. out.io = s
    BY <1>1 DEF Send
  <2>2. QED
    BY <2>1
<1>2. CASE s.sock # "open"
  <2> DEFINE f == [s EXCEPT !.sendFailed = TRUE]
  <2>1. f \in IOState(H) /\ f.sendFailed /\ f.sock = s.sock
        /\ f.pending = s.pending /\ f.timer = s.timer
    BY DEF IOState
  <2>2. PICK t \in ReopenSocket(f) : out = [io |-> t, replied |-> FALSE]
    BY <1>2 DEF Send
  <2>3. out.io = t
    BY <2>2
  <2> HIDE DEF f
  <2>4. /\ t \in IOState(H) /\ t.sendFailed = f.sendFailed
        /\ running => Count(t) >= 1
        /\ ~ running => t = f
    BY <2>1, <2>2, ReopenFacts
  <2>5. QED
    BY <2>1, <2>3, <2>4
<1>3. QED
  BY <1>1, <1>2

-----------------------------------------------------------------------------
(* The inductive invariant *)

\* Taking the next handler ends one operation.
LEMMA TakenFacts ==
    ASSUME NEW H, Errors \subseteq H, io \in IOState(H), io.ready # <<>>
    PROVE  /\ Taken \in IOState(H)
           /\ Taken.sock = io.sock /\ Taken.pending = io.pending
           /\ Taken.timer = io.timer /\ Taken.openFails = io.openFails
           /\ Taken.sendFailed = io.sendFailed
           /\ Count(Taken) = Count(io) - 1
           /\ Len(io.ready) >= 1
           /\ Head(io.ready) \in H
<1> DEFINE t == Taken
           r == Tail(io.ready)
           n == io.pending
<1>1. n \in Nat /\ io.ready \in Seq(H) /\ Len(io.ready) \in Nat
  BY FieldTypes
<1>2. r \in Seq(H) /\ Len(r) = Len(io.ready) - 1 /\ Len(io.ready) >= 1
      /\ Head(io.ready) \in H
  BY <1>1, ReadyTypes
<1>3. t = WithReady(io, n, r)
  BY DEF Taken, IOState, WithReady
<1> HIDE DEF t, r, n
<1>4. /\ t \in IOState(H) /\ t.pending = n /\ t.ready = r
      /\ t.sock = io.sock /\ t.timer = io.timer
      /\ t.openFails = io.openFails /\ t.sendFailed = io.sendFailed
  <2>1. io \in IOState(H) /\ n \in Nat /\ r \in Seq(H)
    BY <1>1, <1>2
  <2>2. QED
    BY <1>3, <2>1, ReadyUpdate
<1>5. Count(t) = Count(io) - 1
  BY <1>1, <1>2, <1>4, SMT DEF Count, n
<1>6. QED
  BY <1>2, <1>4, <1>5 DEF t, n

LEMMA InitIInv == Init => IInv
<1> SUFFICES ASSUME Init PROVE IInv
  OBVIOUS
<1>1. <<>> \in Seq(Datagrams) /\ <<>> \in Seq(Possible) /\ Len(<<>>) = 0
  BY SMT
<1>2. io \in IOState(Possible)
  BY <1>1, UdpAssumption, SMT DEF Init, IOState
<1>3. OneReceive
  BY <1>1, SMT DEF Init, OneReceive, Tokens
<1>4. QED
  BY <1>2, <1>3, UdpAssumption, SMT DEF Init, IInv

\* A handler that ends with a receive of its own, or with a reopen.
LEMMA HandlerStep ==
    ASSUME IInv, io.ready # <<>>, UNCHANGED running,
           \/ io' = Receive(Taken)
           \/ io' \in ReopenSocket(Taken)
           \/ \E out \in Send(Taken) : io' = Receive(out.io)
    PROVE  /\ io' \in IOState(Possible)
           /\ OneReceive'
           /\ ~ running' => Stopped'
           /\ io.sendFailed => io'.sendFailed
<1> DEFINE H == Possible
           u == Taken
<1>1. Errors \subseteq H /\ io \in IOState(H)
  BY HandlerTypes DEF IInv
<1> HIDE DEF H
<1>2. /\ u \in IOState(H) /\ u.sock = io.sock /\ u.pending = io.pending
      /\ u.timer = io.timer /\ u.sendFailed = io.sendFailed
      /\ Count(u) = Count(io) - 1 /\ Len(io.ready) >= 1
  BY <1>1, TakenFacts
<1>3. /\ Count(io) \in Nat /\ Count(u) \in Nat /\ io.pending \in Nat
      /\ Len(io.ready) \in Nat /\ u.timer \in {"off", "armed"}
  BY <1>1, <1>2, FieldTypes
<1>4. /\ running \in BOOLEAN
      /\ running /\ ~ io.sendFailed => Count(io) = 1
      /\ ~ running => io.sock = "closed" /\ io.pending = 0 /\ io.timer = "off"
  BY DEF IInv, OneReceive, Tokens, Count, Stopped
<1>5. Count(io) = 1 => u.timer = "off"
  BY <1>2, <1>3, SMT DEF Count
<1> HIDE DEF u
<1>6. SUFFICES /\ io' \in IOState(H)
               /\ running => Count(io') >= 1
               /\ running /\ ~ io'.sendFailed => Count(io') = 1
               /\ ~ running => io'.sock = "closed" /\ io'.pending = 0 /\ io'.timer = "off"
               /\ io.sendFailed => io'.sendFailed
  BY DEF H, OneReceive, Tokens, Count, Stopped
<1>7. CASE io' = Receive(u)
  <2>1. /\ io' \in IOState(H) /\ io'.sendFailed = u.sendFailed
        /\ running => Count(io') = Count(u) + 1
        /\ ~ running => io' = u
    BY <1>1, <1>2, <1>7, ReceiveFacts
  <2>2. QED
    BY <1>2, <1>3, <1>4, <2>1, SMT
<1>8. CASE io' \in ReopenSocket(u)
  <2>1. /\ io' \in IOState(H) /\ io'.sendFailed = u.sendFailed
        /\ running => Count(io') >= 1
        /\ running /\ u.timer = "off" => Count(io') = Count(u) + 1
        /\ ~ running => io' = u
    BY <1>1, <1>2, <1>8, UdpAssumption, ReopenFacts
  <2>2. QED
    BY <1>2, <1>3, <1>4, <1>5, <2>1, SMT
<1>9. CASE \E out \in Send(u) : io' = Receive(out.io)
  <2>1. PICK out \in Send(u) : io' = Receive(out.io)
    BY <1>9
  <2> DEFINE v == out.io
  <2>2. /\ v \in IOState(H) /\ (v = u \/ v.sendFailed)
        /\ u.sendFailed => v.sendFailed
        /\ ~ running => v.sock = u.sock /\ v.pending = u.pending /\ v.timer = u.timer
    BY <1>1, <1>2, UdpAssumption, SendFacts
  <2>3. io' = Receive(v)
    BY <2>1
  <2> HIDE DEF v
  <2>4. /\ io' \in IOState(H) /\ io'.sendFailed = v.sendFailed
        /\ running => Count(io') = Count(v) + 1
        /\ ~ running => io' = v
    BY <1>1, <2>2, <2>3, ReceiveFacts
  <2>5. Count(v) \in Nat
    BY <2>2, FieldTypes
  <2>6. QED
    BY <1>2, <1>3, <1>4, <2>2, <2>4, <2>5, SMT
<1>10. \/ io' = Receive(u)
       \/ io' \in ReopenSocket(u)
       \/ \E out \in Send(u) : io' = Receive(out.io)
  BY DEF u
<1>11. QED
  BY <1>7, <1>8, <1>9, <1>10

\* The environment's steps move an operation and end none.
LEMMA MoveStep ==
    ASSUME IInv, UNCHANGED running, running, NEW t, io' = t,
           Count(t) = Count(io), t.sendFailed = io.sendFailed
    PROVE  OneReceive' /\ (~ running' => Stopped')
<1>1. Count(io') = Count(io) /\ io'.sendFailed = io.sendFailed
  OBVIOUS
<1>2. QED
  BY <1>1 DEF IInv, OneReceive, Tokens, Count

\* A stopped server has nothing the environment could complete.
LEMMA Awake ==
    ASSUME IInv, io.sock # "closed" \/ io.pending > 0 \/ io.timer = "armed"
    PROVE  running
BY SMT DEF IInv, Stopped

LEMMA StepIInv == IInv /\ [Next]_vars => IInv'
<1> SUFFICES ASSUME IInv, [Next]_vars PROVE IInv'
  OBVIOUS
<1>1. CASE HandleShort \/ HandleAborted
  <2>1. io.ready # <<>> /\ io' = Receive(Taken)
        /\ UNCHANGED <<running, data, unsent, faults, served>>
    BY <1>1 DEF HandleShort, HandleAborted, NextHandler
  <2>2. io' \in IOState(Possible) /\ OneReceive' /\ (~ running' => Stopped')
    BY <2>1, HandlerStep
  <2>3. QED
    BY <2>1, <2>2 DEF IInv, Possible
<1>2. CASE HandleFailed \/ HandleTimer
  <2>1. io.ready # <<>> /\ io' \in ReopenSocket(Taken)
        /\ UNCHANGED <<running, data, unsent, faults, served>>
    BY <1>2 DEF HandleFailed, HandleTimer, NextHandler
  <2>2. io' \in IOState(Possible) /\ OneReceive' /\ (~ running' => Stopped')
    BY <2>1, HandlerStep
  <2>3. QED
    BY <2>1, <2>2 DEF IInv, Possible
<1>3. CASE HandleQuery
  <2>1. io.ready # <<>> /\ Head(io.ready).op = "received"
        /\ UNCHANGED <<running, data, unsent, faults>>
    BY <1>3 DEF HandleQuery, NextHandler
  <2>2. io' = Receive(Taken) \/ \E out \in Send(Taken) : io' = Receive(out.io)
    BY <1>3 DEF HandleQuery
  <2>3. io' \in IOState(Possible) /\ OneReceive' /\ (~ running' => Stopped')
    BY <2>1, <2>2, HandlerStep
  <2>4. Head(io.ready) \in Possible
    BY <2>1, HandlerTypes, TakenFacts DEF IInv
  <2>5. data \in Datagrams /\ Head(io.ready).datagram \in Datagrams
    BY <2>1, <2>4 DEF Possible, Errors, Handlers, Received, Failed, Aborted, TimerFired
  <2>6. served' \subseteq Datagrams \X Datagrams
    BY <1>3, <2>5 DEF HandleQuery, IInv
  <2>7. QED
    BY <2>1, <2>3, <2>6 DEF IInv, Possible
<1>4. CASE Stop
  <2> DEFINE H == Possible
             c == Close(io)
  <2>1. Errors \subseteq H /\ io \in IOState(H)
    BY HandlerTypes DEF IInv
  <2> HIDE DEF H
  <2>2. c \in IOState(H) /\ c.sock = "closed" /\ c.pending = 0
    BY <2>1, CloseFacts
  <2> HIDE DEF c
  <2>3. io' = [c EXCEPT !.timer = "off"] /\ ~ running' /\ running' \in BOOLEAN
        /\ UNCHANGED <<data, unsent, faults, served>>
    BY <1>4 DEF Stop, c
  <2>4. io' \in IOState(H) /\ io'.sock = "closed" /\ io'.pending = 0 /\ io'.timer = "off"
    BY <2>2, <2>3 DEF IOState
  <2>5. QED
    BY <2>3, <2>4 DEF IInv, Possible, OneReceive, Stopped, H
<1>5. ASSUME NEW d \in Datagrams, Arrive(d)
      PROVE  IInv'
  <2> DEFINE q == Append(io.inbox, d)
             t == [io EXCEPT !.inbox = q]
  <2>1. io.inbox \in Seq(Datagrams) /\ io \in IOState(Possible)
    BY FieldTypes DEF IInv
  <2>2. q \in Seq(Datagrams)
    BY <2>1, SMT
  <2>3. io' = t /\ UNCHANGED <<running, data, faults, served>> /\ unsent' \subseteq unsent
        /\ running
    BY <1>5, <2>1, Awake DEF Arrive, IOState
  <2> HIDE DEF q
  <2>4. t \in IOState(Possible) /\ t.pending = io.pending /\ t.ready = io.ready
        /\ t.timer = io.timer /\ t.sendFailed = io.sendFailed
    BY <2>1, <2>2 DEF IOState
  <2> HIDE DEF t
  <2>5. Count(t) = Count(io)
    BY <2>4 DEF Count
  <2>6. OneReceive' /\ (~ running' => Stopped')
    BY <2>3, <2>4, <2>5, MoveStep
  <2>7. QED
    BY <2>3, <2>4, <2>6 DEF IInv, Possible
<1>6. CASE Complete
  <2> DEFINE h == Received(Head(io.inbox))
             r == Append(io.ready, h)
             n == io.pending - 1
             q == Tail(io.inbox)
             t == [io EXCEPT !.pending = n, !.inbox = q, !.ready = r]
  <2>1. /\ io \in IOState(Possible) /\ io.inbox \in Seq(Datagrams) /\ io.pending \in Nat
        /\ io.ready \in Seq(Possible) /\ Len(io.ready) \in Nat
    BY FieldTypes DEF IInv
  <2>2. /\ io.inbox # <<>> /\ io.pending > 0 /\ data' = Head(io.inbox) /\ running
        /\ UNCHANGED <<running, unsent, faults, served>>
    BY <1>6, Awake DEF Complete
  <2>3. q \in Seq(Datagrams) /\ Head(io.inbox) \in Datagrams /\ n \in Nat
    BY <2>1, <2>2, SMT
  <2>4. Possible' = Handlers /\ h \in Handlers
    BY <2>2, <2>3 DEF Possible, Handlers
  <2>5. io.ready \in Seq(Handlers)
    BY <2>1, HandlerTypes, SMT
  <2>6. r \in Seq(Handlers) /\ Len(r) = Len(io.ready) + 1
    BY <2>4, <2>5, HandlerTypes, ReadyTypes
  <2>7. io' = t
    BY <1>6, <2>1 DEF Complete, IOState
  <2> HIDE DEF h, r, n, q
  <2>8. t \in IOState(Handlers)
    BY <2>1, <2>3, <2>6 DEF IOState
  <2>9. t.pending = n /\ t.ready = r /\ t.timer = io.timer /\ t.sendFailed = io.sendFailed
    BY <2>1 DEF IOState
  <2> HIDE DEF t
  <2>10. Count(t) = Count(io)
    <3>1. io.pending \in Nat /\ Len(io.ready) \in Nat /\ Len(r) = Len(io.ready) + 1
      BY <2>1, <2>6
    <3>2. QED
      BY <2>9, <3>1, SMT DEF Count, n
  <2>11. OneReceive' /\ (~ running' => Stopped')
    BY <2>2, <2>7, <2>9, <2>10, MoveStep
  <2>12. QED
    BY <2>2, <2>3, <2>4, <2>7, <2>8, <2>11 DEF IInv
<1>7. CASE Break
  <2> DEFINE q == <<>>
             t == [io EXCEPT !.sock = "broken", !.inbox = q]
  <2>1. q \in Seq(Datagrams) /\ io \in IOState(Possible)
    BY SMT DEF IInv
  <2>2. io' = t /\ faults < MaxFaults /\ faults' = faults + 1 /\ running
        /\ UNCHANGED <<running, data, unsent, served>>
    BY <1>7, Awake DEF Break
  <2> HIDE DEF q
  <2>3. t \in IOState(Possible) /\ t.pending = io.pending /\ t.ready = io.ready
        /\ t.timer = io.timer /\ t.sendFailed = io.sendFailed
    BY <2>1 DEF IOState
  <2> HIDE DEF t
  <2>4. Count(t) = Count(io)
    BY <2>3 DEF Count
  <2>5. OneReceive' /\ (~ running' => Stopped')
    BY <2>2, <2>3, <2>4, MoveStep
  <2>6. faults' \in 0 .. MaxFaults
    BY <2>2, UdpAssumption, SMT DEF IInv
  <2>7. QED
    BY <2>2, <2>3, <2>5, <2>6 DEF IInv, Possible
<1>8. CASE ReceiveError \/ ReportBroken
  <2> DEFINE h == IF ReceiveError THEN Aborted ELSE Failed
             r == Append(io.ready, h)
             n == io.pending - 1
             t == WithReady(io, n, r)
  <2>1. /\ io \in IOState(Possible) /\ io.pending \in Nat
        /\ io.ready \in Seq(Possible) /\ Len(io.ready) \in Nat
    BY FieldTypes DEF IInv
  <2>2. io.pending > 0 /\ running /\ UNCHANGED <<running, data, unsent, served>>
    BY <1>8, Awake DEF ReceiveError, ReportBroken
  <2>3. h \in Possible /\ n \in Nat
    BY <2>1, <2>2, HandlerTypes, SMT DEF Errors
  <2>4. r \in Seq(Possible) /\ Len(r) = Len(io.ready) + 1
    BY <2>1, <2>3, HandlerTypes, ReadyTypes
  <2>5. io' = t
    BY <1>8, <2>1 DEF ReceiveError, ReportBroken, IOState, WithReady
  <2>6. faults' \in 0 .. MaxFaults
    BY <1>8, UdpAssumption, SMT DEF ReceiveError, ReportBroken, IInv
  <2> HIDE DEF h, r, n
  <2>7. t \in IOState(Possible) /\ t.pending = n /\ t.ready = r
        /\ t.timer = io.timer /\ t.sendFailed = io.sendFailed
    <3>1. io \in IOState(Possible) /\ n \in Nat /\ r \in Seq(Possible)
      BY <2>1, <2>3, <2>4
    <3>2. QED
      BY <3>1, ReadyUpdate
  <2> HIDE DEF t
  <2>8. Count(t) = Count(io)
    <3>1. io.pending \in Nat /\ Len(io.ready) \in Nat /\ Len(r) = Len(io.ready) + 1
      BY <2>1, <2>4
    <3>2. t.pending = n /\ t.ready = r /\ t.timer = io.timer
      BY <2>7
    <3>3. QED
      BY <3>1, <3>2, SMT DEF Count, n
  <2>9. OneReceive' /\ (~ running' => Stopped')
    BY <2>2, <2>5, <2>7, <2>8, MoveStep
  <2>10. QED
    BY <2>2, <2>5, <2>6, <2>7, <2>9 DEF IInv, Possible
<1>9. CASE TimerExpires
  <2> DEFINE r == Append(io.ready, TimerFired)
             t == [io EXCEPT !.timer = "off", !.ready = r]
  <2>1. /\ io \in IOState(Possible) /\ io.pending \in Nat
        /\ io.ready \in Seq(Possible) /\ Len(io.ready) \in Nat
    BY FieldTypes DEF IInv
  <2>2. io.timer = "armed" /\ running
        /\ UNCHANGED <<running, data, unsent, faults, served>>
    BY <1>9, Awake DEF TimerExpires
  <2>3. TimerFired \in Possible
    BY HandlerTypes DEF Errors
  <2>4. r \in Seq(Possible) /\ Len(r) = Len(io.ready) + 1
    BY <2>1, <2>3, HandlerTypes, ReadyTypes
  <2>5. io' = t
    BY <1>9, <2>1 DEF TimerExpires, IOState
  <2> DEFINE H == Possible
  <2> HIDE DEF r, H
  <2>6. t \in IOState(H) /\ t.pending = io.pending /\ t.ready = r
        /\ t.timer = "off" /\ t.sendFailed = io.sendFailed
    <3>1. io \in IOState(H) /\ r \in Seq(H)
      BY <2>1, <2>4 DEF H
    <3>2. QED
      BY <3>1 DEF IOState
  <2> HIDE DEF t
  <2>7. Count(t) = Count(io)
    <3>1. io.pending \in Nat /\ Len(io.ready) \in Nat /\ Len(r) = Len(io.ready) + 1
          /\ io.timer = "armed"
      BY <2>1, <2>2, <2>4
    <3>2. t.pending = io.pending /\ t.ready = r /\ t.timer = "off"
      BY <2>6
    <3>3. QED
      BY <3>1, <3>2, SMT DEF Count
  <2>8. OneReceive' /\ (~ running' => Stopped')
    BY <2>2, <2>5, <2>6, <2>7, MoveStep
  <2>9. QED
    BY <2>2, <2>5, <2>6, <2>8 DEF IInv, Possible, H
<1>10. CASE UNCHANGED vars
  <2>1. UNCHANGED <<running, io, data, unsent, faults, served>>
    BY <1>10 DEF vars
  <2>2. QED
    BY <2>1 DEF IInv, Possible, OneReceive, Tokens, Stopped
<1>11. QED
  BY <1>1, <1>2, <1>3, <1>4, <1>5, <1>6, <1>7, <1>8, <1>9, <1>10 DEF Next, Handle

LEMMA IInvHolds == Spec => []IInv
BY InitIInv, StepIInv, PTL DEF Spec

-----------------------------------------------------------------------------

\* A running server always has an operation under way that leads to another
\* receive, and only one until a Send finds the descriptor invalid
\* (udp_server.cc:58-227, 229-246 and 248-285); every variable keeps its type.
THEOREM OneReceiveHolds == Spec => [](TypeOK /\ OneReceive)
<1>1. IInv => TypeOK /\ OneReceive
  <2> SUFFICES ASSUME IInv PROVE TypeOK /\ OneReceive
    OBVIOUS
  <2>1. io.ready \in Seq(Possible) /\ io \in IOState(Possible)
    BY FieldTypes DEF IInv
  <2>2. io.ready \in Seq(Handlers)
    BY <2>1, HandlerTypes, SMT
  <2>3. QED
    BY <2>1, <2>2, FieldTypes DEF IInv, TypeOK
<1>2. QED
  BY <1>1, IInvHolds, PTL

\* While the reopen timer is armed no reopen is attempted and a closed socket
\* stays closed, until a Send finds the descriptor invalid: nothing but the
\* timer is under way (udp_server.cc:248-285).
THEOREM BackoffHolds == Spec => BackoffRespected
<1>1. ASSUME IInv, [Next]_vars, io.timer = "armed", ~ io'.sendFailed
      PROVE  io'.openFails = io.openFails /\ (io.sock = "closed" => io'.sock = "closed")
  <2> DEFINE H == Possible
  <2>1. io \in IOState(H) /\ running
    BY <1>1, Awake DEF IInv
  <2>2. Errors \subseteq H
    BY HandlerTypes
  <2> HIDE DEF H
  <2>3. io.pending \in Nat /\ io.ready \in Seq(H) /\ Len(io.ready) \in Nat
    BY <2>1, FieldTypes
  <2>4. CASE io.sendFailed
    <3>1. CASE Handle
      <4>1. io.ready # <<>> /\ UNCHANGED running
        BY <3>1 DEF Handle, HandleShort, HandleQuery, HandleAborted, HandleFailed,
                    HandleTimer, NextHandler
      <4>2. \/ io' = Receive(Taken)
            \/ io' \in ReopenSocket(Taken)
            \/ \E out \in Send(Taken) : io' = Receive(out.io)
        BY <3>1 DEF Handle, HandleShort, HandleQuery, HandleAborted, HandleFailed,
                    HandleTimer
      <4>3. QED
        BY <1>1, <2>4, <4>1, <4>2, HandlerStep
    <3>2. CASE Stop
      <4> DEFINE c == Close(io)
      <4>1. c \in IOState(H) /\ c.sendFailed = io.sendFailed
        BY <2>1, <2>2, CloseFacts
      <4>2. io' = [c EXCEPT !.timer = "off"]
        BY <3>2 DEF Stop
      <4> HIDE DEF c
      <4>3. io'.sendFailed = c.sendFailed
        BY <4>1, <4>2 DEF IOState
      <4>4. QED
        BY <1>1, <2>4, <4>1, <4>3
    <3>3. ASSUME NEW d \in Datagrams, Arrive(d)
          PROVE  io'.sendFailed = io.sendFailed
      BY <2>1, <3>3 DEF Arrive, IOState
    <3>4. Complete => io'.sendFailed = io.sendFailed
      BY <2>1 DEF Complete, IOState
    <3>5. ReceiveError \/ ReportBroken => io'.sendFailed = io.sendFailed
      BY <2>1 DEF ReceiveError, ReportBroken, IOState
    <3>6. Break \/ TimerExpires => io'.sendFailed = io.sendFailed
      BY <2>1 DEF Break, TimerExpires, IOState
    <3>7. UNCHANGED vars => io' = io
      BY DEF vars
    <3>8. QED
      BY <1>1, <2>4, <3>1, <3>2, <3>3, <3>4, <3>5, <3>6, <3>7 DEF Next
  <2>5. CASE ~ io.sendFailed
    <3>1. io.pending = 0 /\ Len(io.ready) = 0
      BY <1>1, <2>1, <2>3, <2>5, SMT DEF IInv, OneReceive, Tokens
    <3>2. io.ready = <<>>
      BY <2>3, <3>1, SMT
    <3>3. ~ Handle
      BY <3>2 DEF Handle, HandleShort, HandleQuery, HandleAborted, HandleFailed,
                  HandleTimer, NextHandler
    <3>4. CASE Stop
      <4> DEFINE c == Close(io)
      <4>1. c \in IOState(H) /\ c.sock = "closed" /\ c.openFails = io.openFails
        BY <2>1, <2>2, CloseFacts
      <4>2. io' = [c EXCEPT !.timer = "off"]
        BY <3>4 DEF Stop
      <4> HIDE DEF c
      <4>3. QED
        BY <4>1, <4>2 DEF IOState
    <3>5. ASSUME NEW d \in Datagrams, Arrive(d)
          PROVE  io'.openFails = io.openFails /\ io'.sock = io.sock
      BY <2>1, <3>5 DEF Arrive, IOState
    <3>6. CASE Complete \/ ReceiveError \/ ReportBroken
      BY <3>1, <3>6, SMT DEF Complete, ReceiveError, ReportBroken
    <3>7. CASE Break
      BY <2>1, <3>7 DEF Break, IOState
    <3>8. CASE TimerExpires
      BY <2>1, <3>8 DEF TimerExpires, IOState
    <3>9. CASE UNCHANGED vars
      BY <3>9 DEF vars
    <3>10. QED
      BY <1>1, <3>3, <3>4, <3>5, <3>6, <3>7, <3>8, <3>9 DEF Next
  <2>6. QED
    BY <2>4, <2>5
<1>2. QED
  BY <1>1, IInvHolds, PTL DEF Spec, BackoffRespected

\* A stopped server opens no socket, posts no receive and arms no timer,
\* whatever handlers the loop still runs for it (udp_server.cc:39-46, 58-61).
THEOREM StopHolds == Spec => StopIsFinal
<1>1. ASSUME IInv, [Next]_vars, ~ running
      PROVE  io'.sock = "closed" /\ io'.pending = 0 /\ io'.timer = "off"
  <2>1. IInv'
    BY <1>1, StepIInv
  <2>2. ~ running'
    BY <1>1 DEF Next, Handle, HandleShort, HandleQuery, HandleFailed, HandleAborted,
       HandleTimer, Stop, Arrive, Complete, Break, ReceiveError, ReportBroken,
       TimerExpires, vars
  <2>3. QED
    BY <2>1, <2>2 DEF IInv, Stopped
<1>2. QED
  BY <1>1, IInvHolds, PTL DEF Spec, StopIsFinal

=============================================================================
