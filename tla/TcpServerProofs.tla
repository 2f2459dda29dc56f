-------------------------- MODULE TcpServerProofs ---------------------------
(***************************************************************************)
(* The acceptor of TcpServer, for any set of connections and any number of *)
(* faults: exactly one operation keeps it accepting, the reopen timer is   *)
(* respected and Stop is final.                                            *)
(*                                                                         *)
(* And one connection (TcpSession), for any set of frames, any size of     *)
(* reply and any send buffer: what the client receives is framed.          *)
(***************************************************************************)
EXTENDS TcpServer, TcpSession, SequenceTheorems, NaturalsInduction, WellFoundedInduction, TLAPS

\* OneAccept is inductive once Stop's effect on the acceptor is remembered.
IInv == /\ TypeOK
        /\ OneAccept
        /\ ~ running => acceptor = "closed"

\* What closing the acceptor appends to the handlers.
LEMMA AbortsType ==
    ASSUME NEW s \in Seq(Handlers), NEW n \in Nat
    PROVE  LET t == s \o [i \in 1 .. n |-> Aborted]
           IN  t \in Seq(Handlers) /\ Len(t) = Len(s) + n
<1> DEFINE a == [i \in 1 .. n |-> Aborted]
<1>1. Aborted \in Handlers
  BY DEF Handlers
<1>2. a \in Seq(Handlers) /\ Len(a) = n
  BY <1>1, SMT
<1>3. QED
  BY <1>2, SMT

\* The handler the loop takes next, and the handlers it leaves.
LEMMA TakeType ==
    ASSUME TypeOK, ready # <<>>
    PROVE  /\ Tail(ready) \in Seq(Handlers)
           /\ Len(Tail(ready)) = Len(ready) - 1
           /\ Len(ready) >= 1
           /\ Head(ready) \in Handlers
BY SMT DEF TypeOK

LEMMA HandlerTypes ==
    /\ Failed \in Handlers /\ Aborted \in Handlers /\ TimerFired \in Handlers
    /\ \A c \in Connections : Accepted(c) \in Handlers
BY DEF Handlers

\* Only a completed accept carries a connection.
LEMMA AcceptedConn ==
    ASSUME NEW h \in Handlers, h.op = "accepted"
    PROVE  h.conn \in Connections
BY DEF Handlers, Accepted, Failed, Aborted, TimerFired

LEMMA InitIInv == Init => IInv
BY TcpAssumption DEF Init, IInv, TypeOK, OneAccept, Armed

LEMMA AcceptStep ==
    ASSUME IInv, ready # <<>>, Accept,
           UNCHANGED <<running, acceptor, timer>>
    PROVE  /\ pending' \in Nat
           /\ ready' \in Seq(Handlers)
           /\ OneAccept'
<1>1. Tail(ready) \in Seq(Handlers) /\ Len(Tail(ready)) = Len(ready) - 1
      /\ Len(ready) >= 1
  BY TakeType DEF IInv
<1>2. Append(Tail(ready), Failed) \in Seq(Handlers)
      /\ Len(Append(Tail(ready), Failed)) = Len(ready)
  BY <1>1, HandlerTypes, SMT
<1>3. QED
  BY <1>1, <1>2, SMT DEF IInv, TypeOK, OneAccept, Accept, Armed

LEMMA ReopenStep ==
    ASSUME IInv, ready # <<>>, ReopenAcceptor, UNCHANGED running
    PROVE  /\ pending' \in Nat
           /\ ready' \in Seq(Handlers)
           /\ acceptor' \in {"open", "broken", "closed"}
           /\ timer' \in {"off", "armed"}
           /\ backlog' \subseteq Connections
           /\ openFails' \in 0 .. MaxOpenFails
           /\ OneAccept'
           /\ ~ running' => acceptor' = "closed"
<1>1. Tail(ready) \in Seq(Handlers) /\ Len(Tail(ready)) = Len(ready) - 1
      /\ Len(ready) >= 1 /\ pending \in Nat
  BY TakeType DEF IInv, TypeOK
<1> DEFINE t == Tail(ready) \o [i \in 1 .. pending |-> Aborted]
<1>2. t \in Seq(Handlers) /\ Len(t) = Len(ready) - 1 + pending
  BY <1>1, AbortsType
<1> HIDE DEF t
<1>3. CASE ~ running
  <2>1. ready' = Tail(ready)
        /\ UNCHANGED <<acceptor, pending, timer, backlog, openFails>>
    BY <1>3 DEF ReopenAcceptor
  <2>2. QED
    BY <1>1, <1>3, <2>1, SMT DEF IInv, TypeOK, OneAccept, Armed
<1>4. CASE running /\ ready' = t /\ acceptor' = "open" /\ pending' = 1
           /\ backlog' = {} /\ UNCHANGED <<timer, openFails>>
  BY <1>1, <1>2, <1>4, SMT DEF IInv, TypeOK, OneAccept, Armed
<1>5. CASE running /\ ready' = t /\ acceptor' = "closed" /\ pending' = 0
           /\ timer' = "armed" /\ backlog' = {}
           /\ openFails < MaxOpenFails /\ openFails' = openFails + 1
  BY <1>1, <1>2, <1>5, TcpAssumption, SMT DEF IInv, TypeOK, OneAccept, Armed
<1>6. QED
  BY <1>3, <1>4, <1>5 DEF ReopenAcceptor, t

LEMMA StepIInv == IInv /\ [Next]_vars => IInv'
<1> SUFFICES ASSUME IInv, [Next]_vars PROVE IInv'
  OBVIOUS
<1> USE DEF IInv
<1>1. CASE HandleAccepted
  <2>1. ready # <<>> /\ Head(ready).op = "accepted"
    BY <1>1 DEF HandleAccepted, NextHandler
  <2>2. Head(ready).conn \in Connections
    BY <2>1, TakeType, AcceptedConn
  <2>3. pending' \in Nat /\ ready' \in Seq(Handlers) /\ OneAccept'
    BY <1>1, <2>1, AcceptStep DEF HandleAccepted
  <2>4. QED
    BY <1>1, <2>2, <2>3 DEF HandleAccepted, TypeOK
<1>2. CASE HandleAborted
  <2>1. pending' \in Nat /\ ready' \in Seq(Handlers) /\ OneAccept'
    BY <1>2, AcceptStep DEF HandleAborted, NextHandler
  <2>2. QED
    BY <1>2, <2>1 DEF HandleAborted, TypeOK
<1>3. CASE HandleFailed \/ HandleTimer
  <2>1. ready # <<>> /\ ReopenAcceptor /\ UNCHANGED <<running, clients, sessions, faults>>
    BY <1>3 DEF HandleFailed, HandleTimer, NextHandler
  <2>2. QED
    BY <2>1, ReopenStep DEF TypeOK
<1>4. CASE Stop
  <2> DEFINE t == ready \o [i \in 1 .. pending |-> Aborted]
  <2>1. t \in Seq(Handlers) /\ Len(t) = Len(ready) + pending
    BY AbortsType DEF TypeOK
  <2> HIDE DEF t
  <2>2. ready' = t /\ pending' = 0 /\ timer' = "off" /\ ~ running'
        /\ running /\ running' \in BOOLEAN /\ acceptor' = "closed"
        /\ backlog' = {} /\ UNCHANGED <<clients, sessions, faults, openFails>>
    BY <1>4 DEF Stop, t
  <2>3. Len(t) <= 1
    BY <2>1, <2>2, SMT DEF TypeOK, OneAccept, Armed
  <2>4. OneAccept'
    BY <2>1, <2>2, <2>3, SMT DEF OneAccept, Armed
  <2>5. QED
    BY <2>1, <2>2, <2>4 DEF TypeOK
<1>5. ASSUME NEW c \in Connections, Connect(c)
      PROVE  IInv'
  BY <1>5 DEF Connect, TypeOK, OneAccept, Armed
<1>6. ASSUME NEW c \in Connections, Complete(c)
      PROVE  IInv'
  <2>1. Append(ready, Accepted(c)) \in Seq(Handlers)
        /\ Len(Append(ready, Accepted(c))) = Len(ready) + 1
    BY HandlerTypes, SMT DEF TypeOK
  <2>2. QED
    BY <1>6, <2>1, SMT DEF Complete, TypeOK, OneAccept, Armed
<1>7. CASE AcceptError
  <2>1. Append(ready, Aborted) \in Seq(Handlers)
        /\ Len(Append(ready, Aborted)) = Len(ready) + 1
    BY HandlerTypes, SMT DEF TypeOK
  <2>2. QED
    BY <1>7, <2>1, TcpAssumption, SMT DEF AcceptError, TypeOK, OneAccept, Armed
<1>8. CASE Break
  BY <1>8, TcpAssumption, SMT DEF Break, TypeOK, OneAccept, Armed
<1>9. CASE ReportBroken
  <2>1. Append(ready, Failed) \in Seq(Handlers)
        /\ Len(Append(ready, Failed)) = Len(ready) + 1
    BY HandlerTypes, SMT DEF TypeOK
  <2>2. QED
    BY <1>9, <2>1, SMT DEF ReportBroken, TypeOK, OneAccept, Armed
<1>10. CASE TimerExpires
  <2>1. Append(ready, TimerFired) \in Seq(Handlers)
        /\ Len(Append(ready, TimerFired)) = Len(ready) + 1
    BY HandlerTypes, SMT DEF TypeOK
  <2>2. QED
    BY <1>10, <2>1, SMT DEF TimerExpires, TypeOK, OneAccept, Armed
<1>11. CASE UNCHANGED vars
  BY <1>11 DEF vars, TypeOK, OneAccept, Armed
<1>12. QED
  BY <1>1, <1>2, <1>3, <1>4, <1>5, <1>6, <1>7, <1>8, <1>9, <1>10, <1>11
     DEF Next, Handle

LEMMA IInvHolds == Spec => []IInv
BY InitIInv, StepIInv, PTL DEF Spec

-----------------------------------------------------------------------------

\* Exactly one operation leads to the next accept while the server runs, and
\* none but a handler already under way once it is stopped (tcp_server.cc:246-291).
THEOREM OneAcceptHolds == Spec => [](TypeOK /\ OneAccept)
<1>1. IInv => TypeOK /\ OneAccept
  BY DEF IInv
<1>2. QED
  BY <1>1, IInvHolds, PTL

\* No acceptor is opened while the reopen timer is armed: nothing else is
\* under way that could run ReopenAcceptor (tcp_server.cc:272-291).
THEOREM BackoffHolds == Spec => BackoffRespected
<1>1. ASSUME IInv, [Next]_vars, timer = "armed"
      PROVE  openFails' = openFails /\ (acceptor = "closed" => acceptor' = "closed")
  <2>1. pending = 0 /\ ready = <<>>
    BY <1>1, SMT DEF IInv, TypeOK, OneAccept, Armed
  <2>2. CASE Handle
    BY <2>1, <2>2 DEF Handle, HandleAccepted, HandleAborted, HandleFailed,
                      HandleTimer, NextHandler
  <2>3. CASE Stop
    BY <2>3 DEF Stop
  <2>4. ASSUME NEW c \in Connections, Connect(c) \/ Complete(c)
        PROVE  openFails' = openFails /\ acceptor' = acceptor
    BY <2>4 DEF Connect, Complete
  <2>5. CASE AcceptError \/ ReportBroken \/ TimerExpires
    BY <2>5 DEF AcceptError, ReportBroken, TimerExpires
  <2>6. CASE Break
    BY <2>6 DEF Break
  <2>7. CASE UNCHANGED vars
    BY <2>7 DEF vars
  <2>8. QED
    BY <1>1, <2>2, <2>3, <2>4, <2>5, <2>6, <2>7 DEF Next
<1>2. QED
  BY <1>1, IInvHolds, PTL DEF Spec, BackoffRespected

\* A stopped server opens no acceptor and starts no accept, whatever handlers
\* the loop still runs for it (tcp_server.cc:227-235).
THEOREM StopHolds == Spec => StopIsFinal
<1>1. ASSUME IInv, [Next]_vars, ~ running
      PROVE  acceptor' = "closed" /\ pending' = 0
  <2>1. acceptor = "closed" /\ pending = 0 /\ timer # "armed"
    BY <1>1, SMT DEF IInv, TypeOK, OneAccept, Armed
  <2>2. CASE Handle
    BY <1>1, <2>1, <2>2 DEF Handle, HandleAccepted, HandleAborted, HandleFailed,
                            HandleTimer, Accept, ReopenAcceptor
  <2>3. CASE Stop
    BY <1>1, <2>3 DEF Stop
  <2>4. ASSUME NEW c \in Connections, Connect(c) \/ Complete(c)
        PROVE  FALSE
    BY <2>1, <2>4 DEF Connect, Complete
  <2>5. CASE AcceptError \/ ReportBroken \/ TimerExpires \/ Break
    BY <2>1, <2>5 DEF AcceptError, ReportBroken, TimerExpires, Break
  <2>6. CASE UNCHANGED vars
    BY <2>1, <2>6 DEF vars
  <2>7. QED
    BY <1>1, <2>2, <2>3, <2>4, <2>5, <2>6 DEF Next
<1>2. QED
  BY <1>1, IInvHolds, PTL DEF Spec, StopIsFinal

-----------------------------------------------------------------------------
(* TcpSession: the stream of replies *)

\* A nonempty set of numbers has a least member.
LEMMA LeastExists ==
    ASSUME NEW T, T \subseteq Nat, T # {}
    PROVE  \E x \in T : \A y \in T : x <= y
<1> DEFINE R == {ss \in Nat \X Nat : ss[1] < ss[2]}
<1>1. IsWellFoundedOn(R, Nat)
  BY NatLessThanWellFounded DEF OpToRel
<1>2. PICK x \in T : \A y \in T : ~ <<y, x>> \in R
  BY <1>1, WFMin
<1>3. ASSUME NEW y \in T PROVE x <= y
  <2>1. x \in Nat /\ y \in Nat /\ <<y, x>> \in Nat \X Nat
    OBVIOUS
  <2>2. y < x => <<y, x>> \in R
    BY <2>1
  <2> QED
    BY <1>2, <2>1, <2>2
<1> QED
  BY <1>3

\* Joining sequences, one after the other.
LEMMA FlattenSteps ==
    ASSUME NEW ss, NEW n \in Nat, n # 0, Len(ss) = n
    PROVE  \E f : /\ f[1] = ss[1]
                  /\ \A i \in 2 .. n : f[i] = f[i - 1] \o ss[i]
                  /\ FlattenSeq(ss) = f[n]
<1> DEFINE Joined(f, i) == IF i = 1 THEN ss[i] ELSE f[i - 1] \o ss[i]
           Body(f) == [i \in 1 .. n |-> Joined(f, i)]
           flatten == CHOOSE f : f = Body(f)
           Good(m) == \E f : \A j \in 1 .. n : j <= m => f[j] = Joined(f, j)
           Bad == {m \in Nat : ~ Good(m)}
<1>a. FlattenSeq(ss) = flatten[n]
  BY DEF FlattenSeq
<1>r. ASSUME NEW e, NEW f, NEW j \in 1 .. n, j # 1 => e[j - 1] = f[j - 1]
      PROVE  Joined(e, j) = Joined(f, j)
  BY <1>r
<1> HIDE DEF Joined
<1>1. Good(0)
  OBVIOUS
<1>2. ASSUME NEW m \in Nat, Good(m) PROVE Good(m + 1)
  <2>1. PICK f : \A j \in 1 .. n : j <= m => f[j] = Joined(f, j)
    BY <1>2
  <2> DEFINE e == Body(f)
  <2>2. \A j \in 1 .. n : e[j] = Joined(f, j)
    OBVIOUS
  <2> HIDE DEF e
  <2>3. ASSUME NEW j \in 1 .. n, j <= m + 1
        PROVE  Joined(f, j) = Joined(e, j)
    <3>1. ASSUME j # 1 PROVE e[j - 1] = f[j - 1]
      <4>1. j - 1 \in 1 .. n /\ j - 1 <= m
        BY <2>3, <3>1
      <4> QED
        BY <2>1, <2>2, <4>1
    <3> QED
      BY <1>r, <3>1
  <2> QED
    BY <2>2, <2>3
<1> HIDE DEF Good
<1>3. Bad = {}
  <2> SUFFICES ASSUME Bad # {} PROVE FALSE
    OBVIOUS
  <2>1. PICK m \in Bad : \A y \in Bad : m <= y
    BY LeastExists
  <2>2. m # 0 /\ m \in Nat
    BY <1>1
  <2>3. m - 1 \in Nat /\ ~ (m - 1 \in Bad)
    BY <2>1, <2>2
  <2>4. Good(m - 1)
    BY <2>3
  <2>5. Good((m - 1) + 1)
    BY <1>2, <2>3, <2>4
  <2> QED
    BY <2>2, <2>5
<1>5. \E f : f = Body(f)
  <2>1. PICK f : \A j \in 1 .. n : j <= n => f[j] = Joined(f, j)
    <3>1. Good(n)
      BY <1>3
    <3> QED
      BY <3>1 DEF Good
  <2> DEFINE e == Body(f)
  <2>2. ASSUME NEW j \in 1 .. n PROVE e[j] = f[j]
    BY <2>1
  <2>3. ASSUME NEW j \in 1 .. n PROVE Joined(f, j) = Joined(e, j)
    <3>1. ASSUME j # 1 PROVE e[j - 1] = f[j - 1]
      BY <2>2, <3>1
    <3> HIDE DEF e
    <3> QED
      BY <1>r, <3>1
  <2>4. e = Body(e)
    BY <2>3
  <2> QED
    BY <2>4
<1>6. flatten = Body(flatten)
  BY <1>5
<1> HIDE DEF flatten
<1>7. \A j \in 1 .. n : flatten[j] = Joined(flatten, j)
  BY <1>6
<1>8. flatten[1] = ss[1]
  BY <1>7 DEF Joined
<1>9. ASSUME NEW i \in 2 .. n PROVE flatten[i] = flatten[i - 1] \o ss[i]
  <2>1. i \in 1 .. n /\ i # 1
    OBVIOUS
  <2> QED
    BY <1>7, <2>1, Zenon DEF Joined
<1> QED
  BY <1>a, <1>8, <1>9

\* One sequence more.
LEMMA FlattenAppend ==
    ASSUME NEW T, NEW ss \in Seq(Seq(T)), NEW s \in Seq(T)
    PROVE  FlattenSeq(Append(ss, s)) = FlattenSeq(ss) \o s
<1> DEFINE us == Append(ss, s)
           n == Len(ss)
<1>1. /\ n \in Nat /\ Len(us) = n + 1 /\ us[n + 1] = s
      /\ \A i \in 1 .. n : us[i] = ss[i]
  OBVIOUS
<1>2. n + 1 \in Nat /\ n + 1 # 0
  BY <1>1
<1> HIDE DEF us, n
<1>3. PICK g : /\ g[1] = us[1]
               /\ \A i \in 2 .. n + 1 : g[i] = g[i - 1] \o us[i]
               /\ FlattenSeq(us) = g[n + 1]
  BY <1>1, <1>2, FlattenSteps
<1>4. CASE n = 0
  <2>1. FlattenSeq(us) = s
    BY <1>1, <1>3, <1>4
  <2>2. FlattenSeq(ss) = <<>>
    BY <1>4 DEF FlattenSeq, n
  <2> QED
    BY <2>1, <2>2 DEF us
<1>5. CASE n # 0
  <2>1. PICK f : /\ f[1] = ss[1]
                 /\ \A i \in 2 .. n : f[i] = f[i - 1] \o ss[i]
                 /\ FlattenSeq(ss) = f[n]
    BY <1>1, <1>5, FlattenSteps DEF n
  <2> DEFINE Bad == {i \in 1 .. n : f[i] # g[i]}
  <2>2. Bad = {}
    <3> SUFFICES ASSUME Bad # {} PROVE FALSE
      OBVIOUS
    <3>0. Bad \subseteq Nat
      BY <1>1
    <3>1. PICK i \in Bad : \A j \in Bad : i <= j
      BY <3>0, LeastExists
    <3>2. i # 1
      BY <1>1, <1>3, <1>5, <2>1
    <3>3. i \in 2 .. n /\ i \in 2 .. n + 1 /\ i \in 1 .. n /\ i - 1 \in 1 .. n /\ i - 1 < i
      BY <1>1, <3>2
    <3>4. f[i - 1] = g[i - 1]
      BY <3>1, <3>3
    <3>5. f[i] = f[i - 1] \o ss[i] /\ g[i] = g[i - 1] \o us[i] /\ us[i] = ss[i]
      BY <1>1, <1>3, <2>1, <3>3
    <3> QED
      BY <3>4, <3>5
  <2>3. n + 1 \in 2 .. n + 1 /\ n \in 1 .. n /\ (n + 1) - 1 = n
    BY <1>1, <1>5
  <2>4. g[n + 1] = g[n] \o s /\ g[n] = f[n]
    BY <1>1, <1>3, <2>2, <2>3
  <2> QED
    BY <1>3, <2>1, <2>4 DEF us
<1> QED
  BY <1>4, <1>5

\* Blocks and replies.
Blocks == [frame : Frames, at : Nat, prefix : Nat]
Replies == Frames \X (1 .. MaxReply)

\* The blocks of a reply.
Whole(x) == [i \in 1 .. x[2] |-> Block(x[1], i, x[2])]

\* A reply's blocks are as many as its size.
LEMMA WholeType ==
    ASSUME NEW x \in Replies
    PROVE  Whole(x) \in Seq(Blocks) /\ Len(Whole(x)) = x[2]
<1>1. x[1] \in Frames /\ x[2] \in Nat
  BY SessionAssumption DEF Replies
<1>2. ASSUME NEW i \in 1 .. x[2] PROVE Block(x[1], i, x[2]) \in Blocks
  BY <1>1 DEF Block, Blocks
<1> QED
  BY <1>1, <1>2 DEF Whole

\* One reply more makes the stream longer by its blocks.
LEMMA StreamAppend ==
    ASSUME NEW r \in Seq(Replies), NEW x \in Replies
    PROVE  Stream(Append(r, x)) = Stream(r) \o Whole(x)
<1> DEFINE Parts(q) == [k \in DOMAIN q |-> Whole(q[k])]
           n == Len(r)
<1>1. ASSUME NEW q PROVE Stream(q) = FlattenSeq(Parts(q))
  BY DEF Stream, Whole
<1>2. Parts(r) \in Seq(Seq(Blocks)) /\ Len(Parts(r)) = n
  <2>1. ASSUME NEW k \in 1 .. n PROVE Whole(r[k]) \in Seq(Blocks)
    BY WholeType
  <2> QED
    BY <2>1
<1>3. Parts(Append(r, x)) = Append(Parts(r), Whole(x))
  <2> DEFINE rx == Append(r, x)
  <2>1. /\ n \in Nat /\ DOMAIN rx = 1 .. n + 1 /\ rx[n + 1] = x
        /\ DOMAIN r = 1 .. n /\ \A k \in 1 .. n : rx[k] = r[k]
    OBVIOUS
  <2> HIDE DEF rx, n
  <2>2. \A k \in 1 .. n + 1 : Parts(rx)[k] = IF k = n + 1 THEN Whole(x) ELSE Whole(r[k])
    BY <2>1
  <2> DEFINE p == Parts(r)
             w == Whole(x)
  <2>3. \A k \in 1 .. n : p[k] = Whole(r[k])
    BY <2>1
  <2>4. p \in Seq(Seq(Blocks)) /\ Len(p) = n /\ w \in Seq(Blocks)
    BY <1>2, WholeType
  <2>6. Parts(rx) = [k \in 1 .. n + 1 |-> Parts(rx)[k]]
    BY <2>1
  <2> HIDE DEF p, w, Parts
  <2>5. /\ Append(p, w) = [k \in 1 .. n + 1 |-> Append(p, w)[k]]
        /\ \A k \in 1 .. n + 1 : Append(p, w)[k] = IF k = n + 1 THEN w ELSE p[k]
    <3>1. Append(p, w) \in Seq(Seq(Blocks)) /\ Len(Append(p, w)) = n + 1
      BY <2>4
    <3>2. ASSUME NEW k \in 1 .. n + 1
          PROVE  Append(p, w)[k] = IF k = n + 1 THEN w ELSE p[k]
      <4>1. CASE k = n + 1
        BY <2>4, <4>1
      <4>2. CASE k # n + 1
        BY <2>1, <2>4, <4>2
      <4> QED
        BY <4>1, <4>2
    <3> DEFINE a == Append(p, w)
    <3> HIDE DEF a
    <3>3. a \in Seq(Seq(Blocks)) /\ Len(a) = n + 1
      BY <3>1 DEF a
    <3>4. a = [k \in 1 .. n + 1 |-> a[k]]
      BY <3>3
    <3> QED
      BY <3>2, <3>4 DEF a
  <2>7. \A k \in 1 .. n + 1 : Append(p, w)[k] = Parts(rx)[k]
    BY <2>1, <2>2, <2>3, <2>5 DEF w
  <2>8. Append(p, w) = Parts(rx)
    BY <2>5, <2>6, <2>7
  <2> QED
    BY <2>8 DEF p, w, rx
<1> HIDE DEF Parts
<1>4. Whole(x) \in Seq(Blocks)
  BY WholeType
<1> QED
  BY <1>1, <1>2, <1>3, <1>4, FlattenAppend

\* The invariant of a session.
SessionTyped == /\ inbox \in Seq(Frames)
                /\ kept \in 0 .. SendBuffer
                /\ answered \in Seq(Replies)
                /\ late \in BOOLEAN

\* While every reply was written at once, nothing waits and the socket has been given
\* blocks only.
AtOnce == ~ late => writes = <<>> /\ wire \in Seq(Blocks)

\* No reply reaches the width of its prefix.
AllFit == \A k \in DOMAIN answered : answered[k][2] < Width

\* The socket has been given exactly the replies' stream.
InStream == ~ late /\ AllFit => wire = Stream(answered)

SessionIInv == SessionTyped /\ AtOnce /\ InStream

\* What Send writes at once.
LEMMA MinOfTwo ==
    ASSUME NEW a \in Nat, NEW b \in Nat
    PROVE  Min({a, b}) = IF a <= b THEN a ELSE b
  BY DEF Min

\* Send: a reply written at once goes whole to the end of the stream; any other sets late.
LEMMA SendKeeps ==
    ASSUME SessionIInv, NEW f \in Frames, NEW n \in 1 .. MaxReply,
           Send(f, n), inbox' \in Seq(Frames)
    PROVE  SessionIInv'
<1> DEFINE x == <<f, n>>
<1>0. x \in Replies /\ n \in Nat /\ Width \in Nat \ {0} /\ SendBuffer \in Nat /\ kept \in Nat
  BY SessionAssumption DEF Replies, SessionIInv, SessionTyped
<1>1. PICK space \in {SendBuffer - kept, IF writes # <<>> THEN 0 ELSE SendBuffer - kept} :
         LET now == [i \in 1 .. Min({n, space}) |-> Block(f, i, Prefix(n))]
         IN  /\ wire' = wire \o now
             /\ kept' = kept + Len(now)
             /\ writes' = IF Len(now) < n
                            THEN Append(writes, [frame |-> f, size |-> n,
                                                 next |-> Len(now) + 1])
                            ELSE writes
             /\ answered' = Append(answered, x)
             /\ late' = (late \/ Len(now) < n)
  BY DEF Send
<1> DEFINE l == Min({n, space})
           now == [i \in 1 .. l |-> Block(f, i, Prefix(n))]
<1>2. space \in Nat /\ space <= SendBuffer - kept
  BY <1>0 DEF SessionIInv, SessionTyped
<1>3. l \in Nat /\ l <= n /\ l <= SendBuffer - kept
  BY <1>0, <1>2, MinOfTwo
<1> HIDE DEF l
<1>4. Prefix(n) \in Nat /\ (n < Width => Prefix(n) = n)
  BY <1>0 DEF Prefix
<1>5. now \in Seq(Blocks) /\ Len(now) = l
  <2>1. ASSUME NEW i \in 1 .. l PROVE Block(f, i, Prefix(n)) \in Blocks
    BY <1>3, <1>4 DEF Block, Blocks
  <2> QED
    BY <1>3, <2>1
<1>6. /\ wire' = wire \o now /\ kept' = kept + l
      /\ writes' = IF l < n THEN Append(writes, [frame |-> f, size |-> n, next |-> l + 1])
                            ELSE writes
      /\ answered' = Append(answered, x)
      /\ late' = (late \/ l < n)
  BY <1>1, <1>5 DEF l
<1> HIDE DEF now, x
<1>7. SessionTyped'
  <2>1. kept' \in 0 .. SendBuffer
    BY <1>0, <1>3, <1>6
  <2>2. answered' \in Seq(Replies)
    BY <1>0, <1>6 DEF SessionIInv, SessionTyped
  <2>3. late' \in BOOLEAN
    BY <1>6 DEF SessionIInv, SessionTyped
  <2> QED
    BY <2>1, <2>2, <2>3 DEF SessionTyped
<1>a. ~ late' => ~ late /\ ~ (l < n)
  BY <1>6, Zenon
<1>b. ~ late' => l = n
  BY <1>0, <1>3, <1>a
<1>8. AtOnce'
  <2> SUFFICES ASSUME ~ late' PROVE writes' = <<>> /\ wire' \in Seq(Blocks)
    BY DEF AtOnce
  <2>1. writes = <<>> /\ wire \in Seq(Blocks)
    BY <1>a DEF SessionIInv, AtOnce
  <2>2. writes' = <<>>
    BY <1>6, <1>a, <2>1
  <2>3. wire' \in Seq(Blocks)
    BY <1>5, <1>6, <2>1
  <2> QED
    BY <2>2, <2>3
<1>9. ASSUME ~ late', AllFit' PROVE wire' = Stream(answered')
  <2>1. ~ late /\ l = n
    BY <1>9, <1>a, <1>b
  <2>2. answered \in Seq(Replies)
    BY DEF SessionIInv, SessionTyped
  <2>3. n < Width /\ AllFit
    <3> DEFINE a == answered
               b == answered'
    <3>1. /\ DOMAIN b = 1 .. Len(a) + 1 /\ Len(a) \in Nat /\ DOMAIN a = 1 .. Len(a)
          /\ b[Len(a) + 1] = x /\ \A k \in 1 .. Len(a) : b[k] = a[k]
      BY <1>0, <1>6, <2>2
    <3>2. \A k \in DOMAIN b : b[k][2] < Width
      BY <1>9 DEF AllFit
    <3> HIDE DEF a, b
    <3>3. x[2] < Width /\ \A k \in DOMAIN a : a[k][2] < Width
      BY <3>1, <3>2
    <3> QED
      BY <3>3 DEF AllFit, a, x
  <2>4. now = Whole(x)
    BY <1>4, <2>1, <2>3 DEF now, Whole, x
  <2>5. wire = Stream(answered)
    BY <2>1, <2>3 DEF SessionIInv, InStream
  <2>6. Stream(Append(answered, x)) = Stream(answered) \o Whole(x)
    BY <1>0, <2>2, StreamAppend
  <2> QED
    BY <1>6, <2>4, <2>5, <2>6
<1>10. InStream'
  BY <1>9 DEF InStream, Stream, AllFit
<1> QED
  BY <1>7, <1>8, <1>10 DEF SessionIInv

\* Only Send writes to the stream while nothing waits.
LEMMA SessionStep == SessionIInv /\ [SessionNext]_sessionVars => SessionIInv'
<1> SUFFICES ASSUME SessionIInv, [SessionNext]_sessionVars PROVE SessionIInv'
  OBVIOUS
<1>1. ASSUME SessionTyped', UNCHANGED <<writes, wire, answered, late>> PROVE SessionIInv'
  <2>1. AtOnce'
    BY <1>1 DEF SessionIInv, AtOnce
  <2>2. AllFit' => AllFit
    BY <1>1 DEF AllFit
  <2>3. ASSUME ~ late', AllFit' PROVE wire' = Stream(answered')
    BY <1>1, <2>2, <2>3 DEF SessionIInv, InStream
  <2>4. InStream'
    BY <2>3 DEF InStream, Stream, AllFit
  <2> QED
    BY <1>1, <2>1, <2>4 DEF SessionIInv
<1>2. ASSUME UNCHANGED <<answered, late>>, late, SessionTyped' PROVE SessionIInv'
  BY <1>2 DEF SessionIInv, AtOnce, InStream
<1>3. inbox # <<>> => Head(inbox) \in Frames /\ Tail(inbox) \in Seq(Frames)
  BY DEF SessionIInv, SessionTyped
<1>4. ASSUME UNCHANGED <<writes, wire, kept, answered, late>>, inbox' \in Seq(Frames)
      PROVE  SessionIInv'
  BY <1>1, <1>4 DEF SessionIInv, SessionTyped
<1>5. late = FALSE => writes = <<>>
  BY DEF SessionIInv, AtOnce
<1>6. late \in BOOLEAN
  BY DEF SessionIInv, SessionTyped
<1>7. CASE ReadLength
  BY <1>3, <1>4, <1>7 DEF ReadLength, SessionIInv, SessionTyped
<1>8. CASE ReadError
  BY <1>4, <1>8 DEF ReadError, SessionIInv, SessionTyped
<1>9. ASSUME NEW n \in 0 .. MaxReply, ReadMessage(n) PROVE SessionIInv'
  <2>1. inbox # <<>> /\ inbox' = Tail(inbox)
    BY <1>9 DEF ReadMessage
  <2>2. CASE n = 0
    BY <1>3, <1>4, <1>9, <2>1, <2>2 DEF ReadMessage
  <2>3. CASE n # 0
    <3>1. n \in 1 .. MaxReply
      BY <2>3, SessionAssumption
    <3>2. Send(Head(inbox), n)
      BY <1>9, <2>3 DEF ReadMessage
    <3> QED
      BY <1>3, <2>1, <3>1, <3>2, SendKeeps
  <2> QED
    BY <2>2, <2>3
<1>10. ASSUME NEW i \in DOMAIN writes, WriteMore(i) PROVE SessionIInv'
  <2>1. late
    BY <1>5, <1>6
  <2>2. UNCHANGED <<inbox, answered, late>> /\ kept < SendBuffer /\ kept' = kept + 1
    BY <1>10 DEF WriteMore
  <2>3. SessionTyped'
    BY <2>2, SessionAssumption DEF SessionIInv, SessionTyped
  <2> QED
    BY <1>2, <2>1, <2>2, <2>3
<1>11. CASE WriteError
  <2>1. late
    BY <1>5, <1>6, <1>11 DEF WriteError
  <2>2. SessionTyped' /\ UNCHANGED <<answered, late>>
    BY <1>11 DEF WriteError, SessionIInv, SessionTyped
  <2> QED
    BY <1>2, <2>1, <2>2
<1>12. ASSUME NEW f \in Frames, ClientSends(f) PROVE SessionIInv'
  <2>1. inbox' \in Seq(Frames)
    BY <1>12 DEF ClientSends, SessionIInv, SessionTyped
  <2> QED
    BY <1>4, <1>12, <2>1 DEF ClientSends
<1>13. CASE ClientReads
  <2>1. SessionTyped'
    BY <1>13, SessionAssumption DEF ClientReads, SessionIInv, SessionTyped
  <2> QED
    BY <1>1, <1>13, <2>1 DEF ClientReads
<1>14. CASE ClientDone \/ ClientGone
  BY <1>4, <1>14 DEF ClientDone, ClientGone, SessionIInv, SessionTyped
<1>15. CASE UNCHANGED sessionVars
  BY <1>4, <1>15 DEF sessionVars, SessionIInv, SessionTyped
<1> QED
  BY <1>7, <1>8, <1>9, <1>10, <1>11, <1>12, <1>13, <1>14, <1>15 DEF SessionNext, HandleSession

\* A client that keeps up receives the replies in the order of its queries, each whole
\* behind its own length, as long as none reaches 2^16 (tcp_server.cc:195-216).
THEOREM SessionFramed == SessionSpec => []FramedWhenWhole
<1>1. SessionInit => SessionIInv
  <2> SUFFICES ASSUME SessionInit PROVE SessionIInv
    OBVIOUS
  <2>1. SessionTyped
    <3>1. inbox = <<>> /\ answered = <<>> /\ kept = 0
      BY DEF SessionInit
    <3>2. late \in BOOLEAN
      BY DEF SessionInit
    <3>3. SendBuffer \in Nat
      BY SessionAssumption
    <3>4. inbox \in Seq(Frames) /\ answered \in Seq(Replies) /\ kept \in 0 .. SendBuffer
      BY <3>1, <3>3
    <3> QED
      BY <3>2, <3>4 DEF SessionTyped
  <2>2. AtOnce
    BY DEF SessionInit, AtOnce
  <2>3. Stream(<<>>) = <<>>
    BY DEF Stream, FlattenSeq
  <2>4. InStream
    BY <2>3 DEF SessionInit, InStream
  <2> QED
    BY <2>1, <2>2, <2>4 DEF SessionIInv
<1>2. SessionIInv /\ [SessionNext]_sessionVars => SessionIInv'
  BY SessionStep
<1>3. SessionIInv => FramedWhenWhole
  <2> SUFFICES ASSUME SessionIInv, ~ late, AllFit PROVE StreamFramed
    BY DEF FramedWhenWhole, AllFit
  <2>1. wire \in Seq(Blocks) /\ wire = Stream(answered)
    BY DEF SessionIInv, AtOnce, InStream
  <2>2. Len(wire) <= Len(wire)
    BY <2>1
  <2> QED
    BY <2>1, <2>2 DEF StreamFramed, IsPrefix
<1> QED
  BY <1>1, <1>2, <1>3, PTL DEF SessionSpec

=============================================================================
