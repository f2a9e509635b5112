------------------------------- MODULE XComTask -------------------------------
(***************************************************************************)
(* The receiving side of XComTask (src/src/xcom/xcom_task.cpp): ReadCB()   *)
(* cuts the byte stream of a connection into messages, a head (type and    *)
(* size) followed by a body, until a message turns is_recv_msg_ off; from  *)
(* then on the bytes go to the business class in raw pieces.               *)
(*                                                                         *)
(* A byte of the stream is <<i, k>>: the k-th byte of the peer's i-th      *)
(* write.  A write is a message or a raw piece.  The kind of a message     *)
(* says what the message ReadCB of the business class does with it: "msg"  *)
(* nothing to the connection, "toRaw" set_is_recv_msg(false), "close"      *)
(* Close() and return false.                                               *)
(***************************************************************************)
EXTENDS Integers, Sequences, SequencesExt, FiniteSetsExt

CONSTANTS
  HeadSize,     \* sizeof(XMsgHead)
  MsgMaxSize,   \* MSG_MAX_SIZE
  ReadBufSize,  \* sizeof(read_buf_)
  ReadMax,      \* bytes libevent moves from the socket in one read event
  Outboxes,     \* the sequences of writes the peer may make
  Cuts          \* where the network may cut the stream between two read events:
                \* "message" at the end of a message, "body" not inside a head,
                \* "any" anywhere; raw pieces are cut anywhere

ASSUME FramingAssumption ==
  /\ {HeadSize, MsgMaxSize, ReadBufSize, ReadMax} \subseteq Nat \ {0}
  /\ Cuts \subseteq {"message", "body", "any"}
  /\ \A o \in Outboxes :
       o \in Seq([kind : {"msg", "toRaw", "close", "raw"}, size : Nat \ {0}])

VARIABLES
  outbox, cut,   \* what the peer writes and what the network does, from the start
  sent,          \* how many of its writes the peer has made
  wire,          \* bytes written, not read from the socket yet
  input,         \* the bufferevent's input buffer
  pc,            \* "idle" in the event loop, "closed" after Close, else in ReadCB()
  is_recv_msg_,
  msg_,          \* the message being received
  live,          \* number of body buffers allocated and not deleted
  got,           \* messages given to the message ReadCB (history)
  raw            \* bytes given to the raw ReadCB (history)

peer == <<outbox, cut, sent>>
vars == <<outbox, cut, sent, wire, input, pc, is_recv_msg_, msg_, live, got, raw>>

NoData == <<>>
Junk   == <<0, 0>>       \* an uninitialised byte of a new char[]
NoHead == [kind |-> "none", size |-> 0]
NoMsg  == [head |-> NoHead, data |-> NoData, recved |-> 0]   \* after memset

HeadLen(i) == IF outbox[i].kind = "raw" THEN 0 ELSE HeadSize
BytesOf(i) == [k \in 1 .. HeadLen(i) + outbox[i].size |-> <<i, k>>]
Body(i)    == [k \in 1 .. outbox[i].size |-> <<i, HeadLen(i) + k>>]

\* What a head that is not one may spell.
StrayHeads == [kind : {"msg", "toRaw", "close", "invalid"}, size : 1 .. 2]

TypeOK ==
  /\ sent \in 0 .. Len(outbox)
  /\ \A s \in {wire, input, raw} : \A k \in DOMAIN s : s[k][1] \in 1 .. sent
  /\ pc \in {"idle", "loop", "check", "body", "deliver", "closed"}
  /\ is_recv_msg_ \in BOOLEAN
  /\ msg_.head \in {NoHead} \cup StrayHeads \cup Range(outbox)
  /\ msg_.recved \in Nat
  /\ live \in Nat
  /\ \A k \in DOMAIN got : got[k].kind \in {"msg", "toRaw", "close"}

Init ==
  /\ outbox \in Outboxes /\ cut \in Cuts /\ sent = 0
  /\ wire = <<>> /\ input = <<>>
  /\ pc = "idle" /\ is_recv_msg_ = TRUE
  /\ msg_ = NoMsg /\ live = 0
  /\ got = <<>> /\ raw = <<>>
--------------------------------------------------------------------------------
\* The peer's XComTask::Write: the head and the body go out one after the other.
Write ==
  /\ sent < Len(outbox)
  /\ sent' = sent + 1
  /\ wire' = wire \o BytesOf(sent')
  /\ UNCHANGED <<outbox, cut, input, pc, is_recv_msg_, msg_, live, got, raw>>

\* May a read event end where the byte b is the next one of the stream?
MayCutBefore(b) ==
  \/ outbox[b[1]].kind = "raw" \/ b[2] = 1
  \/ cut = "body" /\ b[2] > HeadSize
  \/ cut = "any"

\* A read event: libevent moves what has come to the input buffer, then SReadCB.
ReadEvent ==
  /\ pc = "idle"
  /\ \E n \in 1 .. Min({Len(wire), ReadMax}) :
       /\ n < Len(wire) => MayCutBefore(wire[n + 1])
       /\ input' = input \o SubSeq(wire, 1, n)
       /\ wire' = SubSeq(wire, n + 1, Len(wire))
  /\ pc' = "loop"
  /\ UNCHANGED <<peer, is_recv_msg_, msg_, live, got, raw>>
--------------------------------------------------------------------------------
(* ReadCB(): each action is a part of one turn of its loop. *)

Taken(len)   == SubSeq(input, 1, len)
Discard(len) == input' = SubSeq(input, len + 1, Len(input))

\* Messages are off: up to sizeof(read_buf_) bytes go to the raw ReadCB.
ReadRaw ==
  /\ pc = "loop" /\ ~is_recv_msg_
  /\ LET len == Min({Len(input), ReadBufSize}) IN
     /\ Discard(len)
     /\ raw' = raw \o Taken(len)
     /\ pc' = IF len = 0 THEN "idle" ELSE "loop"
  /\ UNCHANGED <<peer, wire, is_recv_msg_, msg_, live, got>>

\* Reading a head whether or not a body is under way.
ReadHeadAlways ==
  /\ pc = "loop" /\ is_recv_msg_
  /\ LET len == Min({Len(input), HeadSize}) IN
     /\ Discard(len)
     /\ IF len < HeadSize
        THEN pc' = "idle" /\ UNCHANGED msg_
        ELSE pc' = "check" /\ \E h \in StrayHeads : msg_' = [msg_ EXCEPT !.head = h]
  /\ UNCHANGED <<peer, wire, is_recv_msg_, live, got, raw>>

\* With no body under way a head is read: nothing left, or only a part of a
\* head (which is then gone), ends ReadCB().
ReadHead ==
  /\ pc = "loop" /\ is_recv_msg_
  /\ IF msg_.data # NoData
     THEN pc' = "check" /\ UNCHANGED <<input, msg_>>
     ELSE LET len == Min({Len(input), HeadSize}) IN
          /\ Discard(len)
          /\ IF len < HeadSize
             THEN pc' = "idle" /\ UNCHANGED msg_
             ELSE /\ pc' = "check"
                  /\ \E h \in IF /\ input[1][2] = 1
                                 /\ outbox[input[1][1]].kind # "raw"
                              THEN {outbox[input[1][1]]}
                              ELSE StrayHeads :
                       msg_' = [msg_ EXCEPT !.head = h]
  /\ UNCHANGED <<peer, wire, is_recv_msg_, live, got, raw>>

\* A head out of range ends ReadCB().  Otherwise a buffer is allocated for the
\* body, also when the body is under way and has a buffer.
CheckHead ==
  /\ pc = "check"
  /\ IF msg_.head.kind = "invalid" \/ msg_.head.size > MsgMaxSize
     THEN pc' = "idle" /\ UNCHANGED <<msg_, live>>
     ELSE /\ pc' = "body"
          /\ msg_' = [msg_ EXCEPT !.data = [k \in 1 .. msg_.head.size |-> Junk]]
          /\ live' = live + 1
  /\ UNCHANGED <<peer, wire, input, is_recv_msg_, got, raw>>

\* ReadBody that takes what there is, be it more than the body.
ReadBodyGreedy ==
  /\ pc = "body"
  /\ LET len == Len(input) IN
     /\ Discard(len)
     /\ IF len = 0
        THEN pc' = "idle" /\ UNCHANGED msg_
        ELSE /\ msg_' = [msg_ EXCEPT
                  !.data = SubSeq(@, 1, msg_.recved) \o Taken(len),
                  !.recved = @ + len]
             /\ pc' = "deliver"
  /\ UNCHANGED <<peer, wire, is_recv_msg_, live, got, raw>>

\* What there is of the rest of the body is read behind what has been received.
\* (The code's readsize <= 0 cannot be: see WithinBuffer.)
ReadBody ==
  /\ pc = "body"
  /\ LET len  == Min({Len(input), msg_.head.size - msg_.recved})
         done == msg_.recved + len
     IN
     /\ Discard(len)
     /\ IF len = 0
        THEN pc' = "idle" /\ UNCHANGED msg_
        ELSE /\ msg_' = [msg_ EXCEPT
                  !.data = [k \in DOMAIN @ |-> IF k \in msg_.recved + 1 .. done
                                               THEN input[k - msg_.recved] ELSE @[k]],
                  !.recved = done]
             /\ pc' = IF done = msg_.head.size THEN "deliver" ELSE "loop"
  /\ UNCHANGED <<peer, wire, is_recv_msg_, live, got, raw>>

\* XComTask::Close deletes the buffer, clears msg_ and ends the task.
Close ==
  /\ pc' = "closed"
  /\ live' = IF msg_.data = NoData THEN live ELSE live - 1
  /\ msg_' = NoMsg

\* Deliver that ends ReadCB() after every message.
DeliverReturn ==
  /\ pc = "deliver"
  /\ got' = Append(got, [kind |-> msg_.head.kind, data |-> msg_.data])
  /\ is_recv_msg_' = (is_recv_msg_ /\ msg_.head.kind # "toRaw")
  /\ pc' = IF msg_.head.kind = "close" THEN "closed" ELSE "idle"
  /\ msg_' = NoMsg
  /\ live' = live - 1
  /\ UNCHANGED <<peer, wire, input, raw>>

\* Deliver without delete.
DeliverNoDelete ==
  /\ pc = "deliver"
  /\ got' = Append(got, [kind |-> msg_.head.kind, data |-> msg_.data])
  /\ is_recv_msg_' = (is_recv_msg_ /\ msg_.head.kind # "toRaw")
  /\ pc' = IF msg_.head.kind = "close" THEN "closed" ELSE "loop"
  /\ msg_' = NoMsg
  /\ UNCHANGED <<peer, wire, input, raw, live>>

\* Deliver that goes on behind a ReadCB that has closed the task.
DeliverGoOn ==
  /\ pc = "deliver"
  /\ got' = Append(got, [kind |-> msg_.head.kind, data |-> msg_.data])
  /\ is_recv_msg_' = (is_recv_msg_ /\ msg_.head.kind # "toRaw")
  /\ pc' = IF msg_.head.kind = "close" THEN "closed" ELSE "loop"
  /\ msg_' = NoMsg
  /\ live' = IF msg_.head.kind = "close" THEN live - 2 ELSE live - 1
  /\ UNCHANGED <<peer, wire, input, raw>>

\* the message ReadCB of the business class.  If it closes the task, Close has
\* deleted the buffer and ReadCB() ends, otherwise ReadCB() deletes it.
Deliver ==
  /\ pc = "deliver"
  /\ got' = Append(got, [kind |-> msg_.head.kind, data |-> msg_.data])
  /\ is_recv_msg_' = (is_recv_msg_ /\ msg_.head.kind # "toRaw")
  /\ \/ msg_.head.kind = "close" /\ Close
     \/ /\ msg_.head.kind # "close"
        /\ pc' = "loop" /\ msg_' = NoMsg /\ live' = live - 1
  /\ UNCHANGED <<peer, wire, input, raw>>

\* EventCB: end of file, an error or a timeout of the connection.
EventCB == pc = "idle" /\ Close /\ UNCHANGED <<peer, wire, input, is_recv_msg_, got, raw>>
--------------------------------------------------------------------------------
ReadCB == ReadRaw \/ ReadHead \/ CheckHead \/ ReadBody \/ Deliver

Next == Write \/ ReadEvent \/ ReadCB \/ EventCB

\* The peer writes what it has to, and the event loop reports what has come;
\* nothing forces the connection to break.
Fairness == WF_vars(Write) /\ WF_vars(ReadEvent) /\ WF_vars(ReadCB)

Spec == Init /\ [][Next]_vars /\ Fairness
--------------------------------------------------------------------------------
\* Every message given to the business class is the one the peer wrote at its
\* place: the same type, and in data "the message's content" (xmsg.h:45).
DeliveredIntact ==
  \A k \in DOMAIN got : got[k] = [kind |-> outbox[k].kind, data |-> Body(k)]

\* The receiver takes no message of more than MsgMaxSize bytes, which the sender does
\* not look at: behind one the stream is read at the wrong place.
Acceptable == \A k \in DOMAIN outbox : outbox[k].kind = "raw" \/ outbox[k].size <= MsgMaxSize
\* Raw pieces come behind a message that turns messages off.  Those of an upload that
\* is refused do not.
Announced == \A k \in DOMAIN outbox :
               outbox[k].kind = "raw" => \E j \in 1 .. k - 1 : outbox[j].kind = "toRaw"

Whole  == cut = "message" /\ Acceptable /\ Announced
Framed == cut # "any" /\ Acceptable /\ Announced

\* So it is for messages that come whole ...
WholeDelivered == Whole => DeliveredIntact

\* ... while with bodies cut anywhere the framing survives: the k-th message given
\* has the type and the size of the k-th one written, and its last byte, the \0
\* the business classes rely on when they use data as a string.
FramingKept ==
  Framed =>
    \A k \in DOMAIN got : /\ k <= sent
                          /\ got[k].kind = outbox[k].kind
                          /\ Len(got[k].data) = outbox[k].size
                          /\ Last(got[k].data) = Last(Body(k))

\* The raw bytes of the stream, and the messages in it.
RawBytes(i) == IF outbox[i].kind = "raw" THEN BytesOf(i) ELSE <<>>
RawStream   == FlattenSeq([i \in 1 .. Len(outbox) |-> RawBytes(i)])
Messages    == SelectSeq(outbox, LAMBDA w : w.kind # "raw")

\* Behind the message that turns messages off there are only raw pieces: a transfer
\* writes the file, and then nothing in this direction.
StaysRaw == \A k \in DOMAIN outbox : \A j \in 1 .. k - 1 :
              outbox[j].kind = "toRaw" => outbox[k].kind = "raw"

\* In raw mode no byte is lost, doubled or reordered, from the first one behind
\* the message that turned messages off (xcom_task.cpp:130-139).
RawInOrder == Framed /\ StaysRaw => IsPrefix(raw, RawStream)

\* One buffer is alive while a body is under way, none otherwise: "handle the
\* message, release the space" (xcom_task.cpp:180).  So it is for whole messages.
NoBufferLeak == Whole => live = IF msg_.data = NoData THEN 0 ELSE 1

\* ReadCB() only returns when it has read everything: the loop "makes sure that
\* all data in the bufferevent is read" (xcom_task.cpp:128).
DrainsInput == pc = "idle" => input = <<>>

\* The body is only written inside its buffer, and a message is only given when
\* the whole buffer was written, wherever the stream is cut, and also when a message
\* that was too long, or a file that was refused, is read as heads and bodies
\* (xcom_task.cpp:157-179).
WithinBuffer ==
  /\ pc \in {"body", "deliver"} => Len(msg_.data) = msg_.head.size
  /\ msg_.recved <= msg_.head.size
  /\ pc = "body" => msg_.recved < msg_.head.size
  /\ pc = "deliver" => msg_.recved = msg_.head.size

\* With heads whole, everything the peer writes is read and given to the business
\* class in the end, unless the connection is closed.
EverythingRead ==
  Framed /\ StaysRaw =>
    <>[](\/ pc = "closed"
         \/ /\ input = <<>>
            /\ Len(got) = Len(Messages) /\ Len(raw) = Len(RawStream))
===============================================================================
