----------------------------- MODULE TcpSession -----------------------------
(***************************************************************************)
(* One TCP connection (TcpSession in src/tcp_server.cc): length-prefixed   *)
(* queries are read one after the other, each is answered by an            *)
(* asynchronous write, and the next one is read without waiting for it.    *)
(*                                                                         *)
(* A query is a frame the client sent; what it is answered with is         *)
(* QueryDispatch's subject, here it is a number of blocks or nothing.      *)
(* Blocks are the unit in which the socket takes data: Send fills the      *)
(* socket's send buffer, and what does not fit is written later, when the  *)
(* client has read some of it, from a buffer that is gone by then.         *)
(***************************************************************************)
EXTENDS Integers, Sequences, SequencesExt

CONSTANTS Frames,      \* frames the client may send, each once
          Small,       \* those announcing fewer than 12 bytes
          MaxReply,    \* largest reply, in blocks
          Width,       \* 2^16: the length prefix counts modulo Width
          SendBuffer   \* blocks the socket's send buffer holds

ASSUME SessionAssumption ==
    /\ Small \subseteq Frames
    /\ MaxReply \in Nat \ {0} /\ Width \in Nat \ {0} /\ SendBuffer \in Nat \ {0}

VARIABLES peer,     \* the client: "sending", "done" (half-closed), "gone"
          unsent,   \* frames the client has not sent
          inbox,    \* frames received and not read
          reading,  \* the read under way: "length", "message" or "none"
          writes,   \* replies not completely written, in order of Send
          wire,     \* history: the blocks written to the socket
          kept,     \* blocks in the send buffer the client has not read
          answered, \* history: the frames handed to Send, with sizes, in order
          late      \* history: has a reply not been written at once?

sessionVars == <<peer, unsent, inbox, reading, writes, wire, kept, answered, late>>

\* A block of the stream: the reply it belongs to, its place in it and the length
\* its prefix announces.  Garbage is what the freed buffer may hold instead.
Block(f, i, n) == [frame |-> f, at |-> i, prefix |-> n]
Garbage(f) == [frame |-> f, at |-> 0, prefix |-> 0]

Write == [frame : Frames, size : 1 .. MaxReply, next : 1 .. MaxReply]

SessionTypeOK ==
    /\ peer \in {"sending", "done", "gone"}
    /\ unsent \subseteq Frames
    /\ inbox \in Seq(Frames)
    /\ reading \in {"length", "message", "none"}
    /\ writes \in Seq(Write)
    /\ kept \in 0 .. SendBuffer
    /\ answered \in Seq(Frames \X (1 .. MaxReply))
    /\ late \in BOOLEAN

\* The session object lives while an operation holds a reference to it.
Alive == reading # "none" \/ writes # <<>>

-----------------------------------------------------------------------------
(* The session *)

\* The constructor and Start.
SessionInit ==
    /\ peer = "sending"
    /\ unsent = Frames
    /\ inbox = <<>>
    /\ reading = "length"
    /\ writes = <<>>
    /\ wire = <<>>
    /\ kept = 0
    /\ answered = <<>>
    /\ late = FALSE

\* Two bytes announcing a frame; a frame too small ends the reading.
ReadLength ==
    /\ reading = "length" /\ inbox # <<>> /\ peer # "gone"
    /\ \/ /\ Head(inbox) \notin Small
          /\ reading' = "message"
          /\ UNCHANGED inbox
       \/ /\ Head(inbox) \in Small
          /\ reading' = "none"
          /\ inbox' = Tail(inbox)
    /\ UNCHANGED <<peer, unsent, writes, wire, kept, answered, late>>

\* Variant: the session survives a read error.
ReadError_Retry ==
    /\ reading # "none"
    /\ peer = "gone" \/ (peer = "done" /\ inbox = <<>>)
    /\ reading' = "length"
    /\ UNCHANGED <<peer, unsent, inbox, writes, wire, kept, answered, late>>

\* The client closed, or its connection is reset.
ReadError ==
    /\ reading # "none"
    /\ peer = "gone" \/ (peer = "done" /\ inbox = <<>>)
    /\ reading' = "none"
    /\ UNCHANGED <<peer, unsent, inbox, writes, wire, kept, answered, late>>

\* Variant: the prefix counts itself.
Prefix_Inclusive(n) == (n + 1) % Width

\* The length prefix of a reply of n blocks: two bytes.
Prefix(n) == n % Width

\* Send of a reply of n blocks: as much of it as the send buffer takes is written
\* here, while the message still exists, unless earlier writes are queued for
\* the socket (one that has just made progress is not).
Send(f, n) ==
    \E space \in {SendBuffer - kept, IF writes # <<>> THEN 0 ELSE SendBuffer - kept} :
       LET now == [i \in 1 .. Min({n, space}) |-> Block(f, i, Prefix(n))]
       IN  /\ wire' = wire \o now
           /\ kept' = kept + Len(now)
           /\ writes' = IF Len(now) < n
                          THEN Append(writes, [frame |-> f, size |-> n,
                                               next |-> Len(now) + 1])
                          ELSE writes
           /\ answered' = Append(answered, <<f, n>>)
           /\ late' = (late \/ Len(now) < n)

\* Variant: no further read.
ReadMessage_Once(n) ==
    /\ reading = "message" /\ inbox # <<>> /\ peer # "gone"
    /\ inbox' = Tail(inbox)
    /\ reading' = "none"
    /\ IF n = 0 THEN UNCHANGED <<writes, wire, kept, answered, late>>
       ELSE Send(Head(inbox), n)
    /\ UNCHANGED <<peer, unsent>>

\* A whole message: it is answered, or its answer is empty, and the next
\* length is read.
ReadMessage(n) ==
    /\ reading = "message" /\ inbox # <<>> /\ peer # "gone"
    /\ inbox' = Tail(inbox)
    /\ reading' = "length"
    /\ IF n = 0 THEN UNCHANGED <<writes, wire, kept, answered, late>>
       ELSE Send(Head(inbox), n)
    /\ UNCHANGED <<peer, unsent>>

\* The socket has room again: the reactor gives it to a write that waits, not
\* always the first (a write that made progress queues behind the others).
WriteMore(i) ==
    /\ i \in DOMAIN writes /\ kept < SendBuffer /\ peer # "gone"
    /\ \E b \in {Block(writes[i].frame, writes[i].next, Prefix(writes[i].size)),
                Garbage(writes[i].frame)} : wire' = Append(wire, b)
    /\ kept' = kept + 1
    /\ writes' = IF writes[i].next = writes[i].size THEN RemoveAt(writes, i)
                 ELSE Append(RemoveAt(writes, i), [writes[i] EXCEPT !.next = @ + 1])
    /\ UNCHANGED <<peer, unsent, inbox, reading, answered, late>>

WriteError ==
    /\ writes # <<>> /\ peer = "gone"
    /\ writes' = Tail(writes)
    /\ UNCHANGED <<peer, unsent, inbox, reading, wire, kept, answered, late>>

-----------------------------------------------------------------------------
(* The client *)

ClientSends(f) ==
    /\ f \in unsent /\ peer = "sending"
    /\ unsent' = unsent \ {f}
    /\ inbox' = Append(inbox, f)
    /\ UNCHANGED <<peer, reading, writes, wire, kept, answered, late>>

ClientReads ==
    /\ kept > 0 /\ peer # "gone"
    /\ kept' = kept - 1
    /\ UNCHANGED <<peer, unsent, inbox, reading, writes, wire, answered, late>>

ClientDone == /\ peer = "sending"
              /\ peer' = "done"
              /\ UNCHANGED <<unsent, inbox, reading, writes, wire, kept, answered, late>>

ClientGone == /\ peer # "gone"
              /\ peer' = "gone"
              /\ UNCHANGED <<unsent, inbox, reading, writes, wire, kept, answered, late>>

HandleSession ==
    \/ ReadLength
    \/ ReadError
    \/ \E n \in 0 .. MaxReply : ReadMessage(n)
    \/ \E i \in DOMAIN writes : WriteMore(i)
    \/ WriteError

SessionNext ==
    \/ HandleSession
    \/ \E f \in Frames : ClientSends(f)
    \/ ClientReads
    \/ ClientDone
    \/ ClientGone

SessionSpec == SessionInit /\ [][SessionNext]_sessionVars

\* The event loop runs what is ready, and a client reads what is sent to it.
FairSessionSpec == SessionSpec /\ WF_sessionVars(HandleSession) /\ WF_sessionVars(ClientReads)

-----------------------------------------------------------------------------
(* Properties *)

\* The stream the replies make up when each is written after the other.
Stream(replies) ==
    FlattenSeq([k \in DOMAIN replies |->
                  LET f == replies[k][1]
                      n == replies[k][2]
                  IN  [i \in 1 .. n |-> Block(f, i, n)]])

\* What the client receives is the replies in the order of its queries, each
\* whole behind its own length (include/tcp_server.h:25-26, "writes back the
\* response with the same 2-byte length prefix").
StreamFramed == IsPrefix(wire, Stream(answered))

\* The stream is right as long as the send buffer takes every reply at once and
\* no reply reaches 2^16, however the frames and the client's reads interleave.
FramedWhenWhole ==
    (~ late /\ \A k \in DOMAIN answered : answered[k][2] < Width) => StreamFramed

\* Some frame announcing fewer than 12 bytes has been read.
Refused == \E f \in Small : f \notin unsent \cup Range(inbox)

\* A frame received is read, however many replies before it are still being
\* written, unless the client goes away or an undersized frame ended the
\* session (tcp_server.cc:60-63; README.md:65).
Consumed == \A f \in Frames :
    (f \in Range(inbox)) ~> (f \notin Range(inbox) \/ peer = "gone" \/ Refused)

\* A session whose client closed or went away ends: no operation is left that
\* keeps the object and its socket.
Released == (peer # "sending") ~> ~ Alive

=============================================================================
