----------------------------- MODULE XComTaskProofs -----------------------------
(***************************************************************************)
(* Theorems about the receiving side of XComTask, for heads, bodies,       *)
(* messages and read events of every size, from [][Next]_vars alone.       *)
(***************************************************************************)
EXTENDS XComTask, SequenceTheorems, WellFoundedInduction, TLAPS

Byte    == Nat \X Nat
Writes  == [kind : {"msg", "toRaw", "close", "raw"}, size : Nat \ {0}]
Heads   == [kind : {"msg", "toRaw", "close", "raw", "invalid", "none"}, size : Nat]
Kinds   == {"msg", "toRaw", "close"}

\* The types of the variables, to the last field.
Shape ==
  /\ outbox \in Seq(Writes) /\ sent \in 0 .. Len(outbox)
  /\ wire \in Seq(Byte) /\ input \in Seq(Byte) /\ raw \in Seq(Byte)
  /\ pc \in {"idle", "loop", "check", "body", "deliver", "closed"}
  /\ is_recv_msg_ \in BOOLEAN
  /\ msg_ \in [head : Heads, data : Seq(Byte), recved : Nat]
  /\ live \in Nat
  /\ got \in Seq([kind : Kinds, data : Seq(Byte)])

\* A body that is under way has a buffer of its size, into which less than its size
\* was read; only in message mode is there one.
BodyOK ==
  /\ msg_.data = NoData => msg_.recved = 0
  /\ msg_.data # NoData => /\ msg_.head.kind \in Kinds /\ msg_.head.size > 0
                           /\ Len(msg_.data) = msg_.head.size
                           /\ live > 0 /\ msg_.head.size <= MsgMaxSize
  /\ pc = "check" => msg_.head.kind \in Kinds \cup {"invalid"} /\ msg_.head.size > 0
  /\ pc \in {"body", "deliver"} => msg_.data # NoData
  /\ pc = "deliver" => msg_.recved = msg_.head.size
  /\ pc # "deliver" /\ msg_.data # NoData => msg_.recved < msg_.head.size
  /\ pc \in {"check", "body", "deliver"} => is_recv_msg_
  /\ pc = "closed" => msg_ = NoMsg

\* Every byte is one of a write that was made.
FromPeer(s) == \A k \in 1 .. Len(s) : s[k][1] \in 1 .. sent
Origin == FromPeer(wire) /\ FromPeer(input) /\ FromPeer(raw)

HeadOK == msg_.head \in {NoHead} \cup StrayHeads \cup Range(outbox)

RecvInv == Shape /\ BodyOK /\ Origin /\ HeadOK
--------------------------------------------------------------------------------
LEMMA MinOfTwo ==
  ASSUME NEW a \in Nat, NEW b \in Nat
  PROVE  Min({a, b}) = IF a <= b THEN a ELSE b
<1>1. CASE a <= b
  <2>1. \A x \in {a, b} : (\A y \in {a, b} : x <= y) => x = a
      BY <1>1
  <2>2. \A y \in {a, b} : a <= y
      BY <1>1
  <2> QED
      BY <1>1, <2>1, <2>2 DEF Min
<1>2. CASE ~(a <= b)
  <2>1. \A x \in {a, b} : (\A y \in {a, b} : x <= y) => x = b
      BY <1>2
  <2>2. \A y \in {a, b} : b <= y
      BY <1>2
  <2> QED
      BY <1>2, <2>1, <2>2 DEF Min
<1> QED
    BY <1>1, <1>2

\* The parts a sequence of bytes is cut in.
LEMMA CutBytes ==
  ASSUME NEW s \in Seq(Byte), NEW n \in 0 .. Len(s)
  PROVE  /\ SubSeq(s, 1, n) \in Seq(Byte) /\ Len(SubSeq(s, 1, n)) = n
         /\ \A k \in 1 .. n : SubSeq(s, 1, n)[k] = s[k]
         /\ SubSeq(s, n + 1, Len(s)) \in Seq(Byte)
         /\ Len(SubSeq(s, n + 1, Len(s))) = Len(s) - n
         /\ \A k \in 1 .. Len(s) - n : SubSeq(s, n + 1, Len(s))[k] = s[n + k]
<1>1. Len(s) \in Nat /\ n \in Nat /\ \A k \in 1 .. Len(s) : s[k] \in Byte
    BY LenProperties, ElementOfSeq
<1>2. /\ SubSeq(s, 1, n) \in Seq(Byte) /\ Len(SubSeq(s, 1, n)) = n
      /\ \A k \in 1 .. n : SubSeq(s, 1, n)[k] = s[k]
  <2>1. \A i \in 1 .. n : s[i] \in Byte
      BY <1>1
  <2>2. 1 \in Int /\ n \in Int
      BY <1>1
  <2>3. /\ SubSeq(s, 1, n) \in Seq(Byte)
        /\ Len(SubSeq(s, 1, n)) = IF 1 <= n THEN n - 1 + 1 ELSE 0
        /\ \A i \in 1 .. n - 1 + 1 : SubSeq(s, 1, n)[i] = s[1 + i - 1]
      BY <2>1, <2>2, SubSeqProperties
  <2> QED
      BY <1>1, <2>3
<1>3. /\ SubSeq(s, n + 1, Len(s)) \in Seq(Byte)
      /\ Len(SubSeq(s, n + 1, Len(s))) = Len(s) - n
      /\ \A k \in 1 .. Len(s) - n : SubSeq(s, n + 1, Len(s))[k] = s[n + k]
  <2>1. \A i \in n + 1 .. Len(s) : s[i] \in Byte
      BY <1>1
  <2>2. n + 1 \in Int /\ Len(s) \in Int
      BY <1>1
  <2>3. /\ SubSeq(s, n + 1, Len(s)) \in Seq(Byte)
        /\ Len(SubSeq(s, n + 1, Len(s))) = IF n + 1 <= Len(s) THEN Len(s) - (n + 1) + 1 ELSE 0
        /\ \A i \in 1 .. Len(s) - (n + 1) + 1 : SubSeq(s, n + 1, Len(s))[i] = s[n + 1 + i - 1]
      BY <2>1, <2>2, SubSeqProperties
  <2> QED
      BY <1>1, <2>3
<1> QED
    BY <1>2, <1>3

\* Two sequences of bytes of writes that were made, one behind the other.
LEMMA JoinBytes ==
  ASSUME NEW s \in Seq(Byte), NEW t \in Seq(Byte)
  PROVE  /\ s \o t \in Seq(Byte) /\ Len(s \o t) = Len(s) + Len(t)
         /\ \A k \in 1 .. Len(s) + Len(t) :
              (s \o t)[k] = IF k <= Len(s) THEN s[k] ELSE t[k - Len(s)]
  BY ConcatProperties

LEMMA JoinFromPeer ==
  ASSUME NEW s \in Seq(Byte), NEW t \in Seq(Byte), FromPeer(s), FromPeer(t)
  PROVE  FromPeer(s \o t)
<1>1. Len(s) \in Nat /\ Len(t) \in Nat
    BY LenProperties
<1>2. ASSUME NEW k \in 1 .. Len(s) + Len(t) PROVE (s \o t)[k][1] \in 1 .. sent
  <2>1. CASE k <= Len(s)
      BY <1>1, <2>1, JoinBytes DEF FromPeer
  <2>2. CASE k > Len(s)
    <3>1. k - Len(s) \in 1 .. Len(t)
        BY <1>1, <2>2
    <3> QED
        BY <1>1, <2>2, <3>1, JoinBytes DEF FromPeer
  <2> QED
      BY <1>1, <2>1, <2>2
<1> QED
    BY <1>2, JoinBytes DEF FromPeer

LEMMA CutFromPeer ==
  ASSUME NEW s \in Seq(Byte), NEW n \in 0 .. Len(s), FromPeer(s)
  PROVE  FromPeer(SubSeq(s, 1, n)) /\ FromPeer(SubSeq(s, n + 1, Len(s)))
<1>1. Len(s) \in Nat /\ n \in Nat
    BY LenProperties
<1>2. ASSUME NEW k \in 1 .. n PROVE SubSeq(s, 1, n)[k][1] \in 1 .. sent
    BY <1>1, CutBytes DEF FromPeer
<1>3. ASSUME NEW k \in 1 .. Len(s) - n PROVE SubSeq(s, n + 1, Len(s))[k][1] \in 1 .. sent
  <2>1. n + k \in 1 .. Len(s)
      BY <1>1
  <2> QED
      BY <2>1, CutBytes DEF FromPeer
<1> QED
    BY <1>2, <1>3, CutBytes DEF FromPeer
--------------------------------------------------------------------------------
LEMMA LengthsAreNat ==
  ASSUME Shape
  PROVE  /\ Len(input) \in Nat /\ Len(wire) \in Nat /\ Len(outbox) \in Nat /\ sent \in Nat
         /\ Len(got) \in Nat /\ msg_.recved \in Nat /\ msg_.head.size \in Nat
         /\ DOMAIN outbox = 1 .. Len(outbox) /\ DOMAIN got = 1 .. Len(got)
         /\ DOMAIN msg_.data = 1 .. Len(msg_.data) /\ Len(msg_.data) \in Nat
<1>1. msg_.data \in Seq(Byte) /\ msg_.head \in Heads
    BY DEF Shape
<1>2. Len(outbox) \in Nat /\ DOMAIN outbox = 1 .. Len(outbox)
    BY LenProperties DEF Shape
<1> QED
    BY <1>1, <1>2, LenProperties DEF Shape, Heads

\* What a write that is made brings.
LEMMA BytesOfWrite ==
  ASSUME Shape, NEW i \in 1 .. Len(outbox)
  PROVE  /\ HeadLen(i) \in Nat /\ outbox[i].size \in Nat \ {0}
         /\ BytesOf(i) \in Seq(Byte) /\ Len(BytesOf(i)) = HeadLen(i) + outbox[i].size
         /\ \A k \in 1 .. HeadLen(i) + outbox[i].size : BytesOf(i)[k] = <<i, k>>
<1>1. outbox[i] \in Writes /\ i \in Nat
    BY LengthsAreNat DEF Shape
<1>2. HeadLen(i) \in Nat /\ outbox[i].size \in Nat \ {0}
    BY <1>1, FramingAssumption DEF HeadLen, Writes
<1>3. \A k \in 1 .. HeadLen(i) + outbox[i].size : <<i, k>> \in Byte
    BY <1>1, <1>2 DEF Byte
<1>4. BytesOf(i) \in [1 .. HeadLen(i) + outbox[i].size -> Byte]
    BY <1>3 DEF BytesOf
<1>5. HeadLen(i) + outbox[i].size \in Nat
    BY <1>2
<1>6. BytesOf(i) \in Seq(Byte) /\ Len(BytesOf(i)) = HeadLen(i) + outbox[i].size
    BY <1>4, <1>5
<1> QED
    BY <1>2, <1>6 DEF BytesOf

LEMMA RecvInit == Init => RecvInv
<1> SUFFICES ASSUME Init PROVE RecvInv
    OBVIOUS
<1>1. outbox \in Seq(Writes) /\ sent = 0
    BY FramingAssumption DEF Init, Writes
<1>2. 0 \in 0 .. Len(outbox)
    BY <1>1, LenProperties
<1>3. NoMsg \in [head : Heads, data : Seq(Byte), recved : Nat]
    BY DEF NoMsg, NoHead, NoData, Heads
<1>4. Shape
    BY <1>1, <1>2, <1>3 DEF Init, Shape
<1>5. BodyOK
    BY DEF Init, BodyOK, NoMsg
<1>6. Origin /\ HeadOK
    BY DEF Init, Origin, FromPeer, HeadOK, NoMsg
<1> QED
    BY <1>4, <1>5, <1>6 DEF RecvInv

LEMMA RecvWrite == RecvInv /\ Write => RecvInv'
<1> SUFFICES ASSUME RecvInv, Write PROVE RecvInv'
    OBVIOUS
<1>1. /\ sent < Len(outbox) /\ sent' = sent + 1 /\ wire' = wire \o BytesOf(sent')
      /\ UNCHANGED <<outbox, cut, input, pc, is_recv_msg_, msg_, live, got, raw>>
    BY DEF Write
<1>2. sent \in Nat /\ sent' \in 1 .. Len(outbox) /\ sent' \in 0 .. Len(outbox)
    BY <1>1, LengthsAreNat DEF RecvInv
<1>3. /\ BytesOf(sent') \in Seq(Byte)
      /\ \A k \in 1 .. Len(BytesOf(sent')) : BytesOf(sent')[k] = <<sent', k>>
    BY <1>2, BytesOfWrite DEF RecvInv
<1>4. wire' \in Seq(Byte)
    BY <1>1, <1>3, JoinBytes DEF RecvInv, Shape
<1>5. Shape'
    BY <1>1, <1>2, <1>4 DEF RecvInv, Shape
<1>6. Origin'
  <2>1. \A s : FromPeer(s) => FromPeer(s)'
      BY <1>1, <1>2 DEF FromPeer
  <2>2. FromPeer(wire)'
    <3>1. wire \in Seq(Byte) /\ FromPeer(wire)
        BY DEF RecvInv, Shape, Origin
    <3>2. Len(wire) \in Nat /\ Len(BytesOf(sent')) \in Nat
        BY <1>3, <3>1, LenProperties
    <3>3. ASSUME NEW k \in 1 .. Len(wire) + Len(BytesOf(sent'))
          PROVE  (wire \o BytesOf(sent'))[k][1] \in 1 .. sent'
      <4>1. CASE k <= Len(wire)
          BY <1>1, <1>2, <1>3, <3>1, <3>2, <4>1, JoinBytes DEF FromPeer
      <4>2. CASE k > Len(wire)
        <5>1. k - Len(wire) \in 1 .. Len(BytesOf(sent'))
            BY <3>2, <4>2
        <5>2. (wire \o BytesOf(sent'))[k] = <<sent', k - Len(wire)>>
            BY <1>3, <3>1, <3>2, <4>2, <5>1, JoinBytes
        <5> QED
            BY <1>2, <5>2
      <4> QED
          BY <3>2, <4>1, <4>2
    <3> QED
        BY <1>1, <1>3, <3>1, <3>3, JoinBytes DEF FromPeer
  <2>3. FromPeer(input)' /\ FromPeer(raw)'
      BY <1>1, <1>2 DEF RecvInv, Origin, FromPeer
  <2> QED
      BY <2>2, <2>3 DEF Origin
<1>7. BodyOK' /\ HeadOK'
    BY <1>1 DEF RecvInv, BodyOK, HeadOK, StrayHeads
<1> QED
    BY <1>5, <1>6, <1>7 DEF RecvInv

LEMMA RecvReadEvent == RecvInv /\ ReadEvent => RecvInv'
<1> SUFFICES ASSUME RecvInv, ReadEvent PROVE RecvInv'
    OBVIOUS
<1>1. PICK n \in 1 .. Min({Len(wire), ReadMax}) :
        /\ input' = input \o SubSeq(wire, 1, n)
        /\ wire' = SubSeq(wire, n + 1, Len(wire))
    BY DEF ReadEvent
<1>2. /\ pc = "idle" /\ pc' = "loop"
      /\ UNCHANGED <<outbox, cut, sent, is_recv_msg_, msg_, live, got, raw>>
    BY DEF ReadEvent, peer
<1>3. n \in 0 .. Len(wire)
  <2>1. Len(wire) \in Nat /\ ReadMax \in Nat
      BY LengthsAreNat, FramingAssumption DEF RecvInv
  <2>2. Min({Len(wire), ReadMax}) \in 0 .. Len(wire)
      BY <2>1, MinOfTwo
  <2> QED
      BY <2>1, <2>2
<1>4. /\ wire \in Seq(Byte) /\ input \in Seq(Byte) /\ FromPeer(wire) /\ FromPeer(input)
    BY DEF RecvInv, Shape, Origin
<1>5. /\ SubSeq(wire, 1, n) \in Seq(Byte) /\ wire' \in Seq(Byte)
      /\ FromPeer(SubSeq(wire, 1, n)) /\ FromPeer(wire')
    BY <1>1, <1>3, <1>4, CutBytes, CutFromPeer
<1>6. input' \in Seq(Byte) /\ FromPeer(input')
    BY <1>1, <1>4, <1>5, JoinBytes, JoinFromPeer
<1>7. Shape'
    BY <1>2, <1>5, <1>6 DEF RecvInv, Shape
<1>8. Origin'
    BY <1>2, <1>5, <1>6 DEF RecvInv, Origin, FromPeer
<1>9. BodyOK' /\ HeadOK'
    BY <1>2 DEF RecvInv, BodyOK, HeadOK, StrayHeads
<1> QED
    BY <1>7, <1>8, <1>9 DEF RecvInv

\* What is left behind the first n bytes of the input buffer.
LEMMA DiscardOK ==
  ASSUME RecvInv, NEW n \in 0 .. Len(input), Discard(n)
  PROVE  /\ input' \in Seq(Byte) /\ FromPeer(input')
         /\ Taken(n) \in Seq(Byte) /\ Len(Taken(n)) = n /\ FromPeer(Taken(n))
<1>1. input \in Seq(Byte) /\ FromPeer(input)
    BY DEF RecvInv, Shape, Origin
<1> QED
    BY <1>1, CutBytes, CutFromPeer DEF Discard, Taken

LEMMA RecvReadRaw == RecvInv /\ ReadRaw => RecvInv'
<1> SUFFICES ASSUME RecvInv, ReadRaw PROVE RecvInv'
    OBVIOUS
<1>1. PICK len : /\ len = Min({Len(input), ReadBufSize})
                 /\ Discard(len) /\ raw' = raw \o Taken(len)
                 /\ pc' = IF len = 0 THEN "idle" ELSE "loop"
    BY DEF ReadRaw
<1>2. /\ pc = "loop" /\ ~is_recv_msg_
      /\ UNCHANGED <<outbox, cut, sent, wire, is_recv_msg_, msg_, live, got>>
    BY DEF ReadRaw, peer
<1>3. len \in 0 .. Len(input)
  <2>1. Len(input) \in Nat /\ ReadBufSize \in Nat
      BY LengthsAreNat, FramingAssumption DEF RecvInv
  <2>2. Min({Len(input), ReadBufSize}) \in 0 .. Len(input)
      BY <2>1, MinOfTwo
  <2> QED
      BY <1>1, <2>2
<1>4. /\ input' \in Seq(Byte) /\ FromPeer(input')
      /\ Taken(len) \in Seq(Byte) /\ FromPeer(Taken(len))
    BY <1>1, <1>3, DiscardOK
<1>5. raw' \in Seq(Byte) /\ FromPeer(raw')
    BY <1>1, <1>4, JoinBytes, JoinFromPeer DEF RecvInv, Shape, Origin
<1>6. Shape'
    BY <1>1, <1>2, <1>4, <1>5 DEF RecvInv, Shape
<1>7. Origin'
    BY <1>2, <1>4, <1>5 DEF RecvInv, Origin, FromPeer
<1>8. BodyOK' /\ HeadOK'
    BY <1>1, <1>2 DEF RecvInv, BodyOK, HeadOK, StrayHeads
<1> QED
    BY <1>6, <1>7, <1>8 DEF RecvInv

LEMMA RecvReadHead == RecvInv /\ ReadHead => RecvInv'
<1> SUFFICES ASSUME RecvInv, ReadHead PROVE RecvInv'
    OBVIOUS
<1>1. /\ pc = "loop" /\ is_recv_msg_
      /\ UNCHANGED <<outbox, cut, sent, wire, is_recv_msg_, live, got, raw>>
    BY DEF ReadHead, peer
<1>2. CASE msg_.data # NoData
  <2>1. pc' = "check" /\ UNCHANGED <<input, msg_>>
      BY <1>2 DEF ReadHead
  <2>2. Shape' /\ Origin' /\ HeadOK'
      BY <1>1, <2>1 DEF RecvInv, Shape, Origin, FromPeer, HeadOK, StrayHeads
  <2>3. BodyOK'
      BY <1>1, <1>2, <2>1 DEF RecvInv, BodyOK
  <2> QED
      BY <2>2, <2>3 DEF RecvInv
<1>3. CASE msg_.data = NoData
  <2>1. PICK len : /\ len = Min({Len(input), HeadSize}) /\ Discard(len)
                   /\ IF len < HeadSize
                      THEN pc' = "idle" /\ UNCHANGED msg_
                      ELSE /\ pc' = "check"
                           /\ \E h \in IF /\ input[1][2] = 1
                                          /\ outbox[input[1][1]].kind # "raw"
                                       THEN {outbox[input[1][1]]}
                                       ELSE StrayHeads :
                                msg_' = [msg_ EXCEPT !.head = h]
      BY <1>3 DEF ReadHead
  <2>2. len \in 0 .. Len(input) /\ HeadSize \in Nat \ {0} /\ Len(input) \in Nat
    <3>1. Len(input) \in Nat /\ HeadSize \in Nat \ {0}
        BY LengthsAreNat, FramingAssumption DEF RecvInv
    <3>2. Min({Len(input), HeadSize}) \in 0 .. Len(input)
        BY <3>1, MinOfTwo
    <3> QED
        BY <2>1, <3>1, <3>2
  <2>3. input' \in Seq(Byte) /\ FromPeer(input')
      BY <2>1, <2>2, DiscardOK
  <2>4. Origin'
      BY <1>1, <2>3 DEF RecvInv, Origin, FromPeer
  <2>5. CASE len < HeadSize
    <3>1. pc' = "idle" /\ msg_' = msg_
        BY <2>1, <2>5
    <3>2. Shape' /\ HeadOK'
        BY <1>1, <2>3, <3>1 DEF RecvInv, Shape, HeadOK, StrayHeads
    <3>3. BodyOK'
        BY <1>1, <1>3, <3>1 DEF RecvInv, BodyOK
    <3> QED
        BY <2>4, <3>2, <3>3 DEF RecvInv
  <2>6. CASE ~(len < HeadSize)
    <3>1. PICK h \in IF input[1][2] = 1 /\ outbox[input[1][1]].kind # "raw"
                     THEN {outbox[input[1][1]]} ELSE StrayHeads :
            pc' = "check" /\ msg_' = [msg_ EXCEPT !.head = h]
        BY <2>1, <2>6
    <3>2. /\ h \in Heads /\ h.kind \in Kinds \cup {"invalid"} /\ h.size > 0
          /\ h \in StrayHeads \cup Range(outbox)
      <4>1. CASE h \in StrayHeads
          BY <4>1 DEF StrayHeads, Heads, Kinds
      <4>2. CASE h = outbox[input[1][1]] /\ outbox[input[1][1]].kind # "raw"
        <5>1. 1 \in 1 .. Len(input)
            BY <2>2, <2>6
        <5>2. input[1][1] \in 1 .. sent
            BY <5>1 DEF RecvInv, Origin, FromPeer
        <5>3. input[1][1] \in 1 .. Len(outbox)
            BY <5>2, LengthsAreNat DEF RecvInv, Shape
        <5>4. outbox[input[1][1]] \in Writes
            BY <5>3 DEF RecvInv, Shape
        <5>5. h \in Range(outbox)
            BY <4>2, <5>3, LengthsAreNat DEF Range, RecvInv
        <5> QED
            BY <4>2, <5>4, <5>5 DEF Writes, Heads, Kinds
      <4> QED
          BY <3>1, <4>1, <4>2
    <3>3. /\ msg_'.head = h /\ msg_'.data = NoData /\ msg_'.recved = msg_.recved
          /\ msg_' \in [head : Heads, data : Seq(Byte), recved : Nat]
        BY <1>3, <3>1, <3>2 DEF RecvInv, Shape
    <3>4. Shape'
        BY <1>1, <2>3, <3>1, <3>3 DEF RecvInv, Shape
    <3>5. HeadOK'
        BY <1>1, <3>2, <3>3 DEF HeadOK, StrayHeads
    <3>6. BodyOK'
        BY <1>1, <1>3, <3>1, <3>2, <3>3 DEF RecvInv, BodyOK
    <3> QED
        BY <2>4, <3>4, <3>5, <3>6 DEF RecvInv
  <2> QED
      BY <2>5, <2>6
<1> QED
    BY <1>2, <1>3

LEMMA RecvCheckHead == RecvInv /\ CheckHead => RecvInv'
<1> SUFFICES ASSUME RecvInv, CheckHead PROVE RecvInv'
    OBVIOUS
<1>1. /\ pc = "check" /\ is_recv_msg_
      /\ UNCHANGED <<outbox, cut, sent, wire, input, is_recv_msg_, got, raw>>
    BY DEF CheckHead, peer, RecvInv, BodyOK
<1>2. Origin'
    BY <1>1 DEF RecvInv, Origin, FromPeer
<1>3. CASE msg_.head.kind = "invalid" \/ msg_.head.size > MsgMaxSize
  <2>1. pc' = "idle" /\ UNCHANGED <<msg_, live>>
      BY <1>3 DEF CheckHead
  <2> QED
      BY <1>1, <1>2, <2>1 DEF RecvInv, Shape, BodyOK, HeadOK, StrayHeads
<1>4. CASE ~(msg_.head.kind = "invalid" \/ msg_.head.size > MsgMaxSize)
  <2>1. /\ pc' = "body" /\ live' = live + 1
        /\ msg_' = [msg_ EXCEPT !.data = [k \in 1 .. msg_.head.size |-> Junk]]
      BY <1>4 DEF CheckHead
  <2>2. /\ msg_.head.size \in Nat \ {0} /\ msg_.head.kind \in Kinds /\ MsgMaxSize \in Nat
        /\ msg_.head.size <= MsgMaxSize
      BY <1>1, <1>4, LengthsAreNat, FramingAssumption DEF RecvInv, BodyOK
  <2>3. /\ [k \in 1 .. msg_.head.size |-> Junk] \in Seq(Byte)
        /\ Len([k \in 1 .. msg_.head.size |-> Junk]) = msg_.head.size
    <3>1. Junk \in Byte
        BY DEF Junk, Byte
    <3>2. [k \in 1 .. msg_.head.size |-> Junk] \in [1 .. msg_.head.size -> Byte]
        BY <3>1
    <3> QED
        BY <2>2, <3>2
  <2>4. /\ msg_'.head = msg_.head /\ msg_'.recved = msg_.recved
        /\ msg_'.data \in Seq(Byte) /\ Len(msg_'.data) = msg_.head.size
        /\ msg_' \in [head : Heads, data : Seq(Byte), recved : Nat]
      BY <2>1, <2>3 DEF RecvInv, Shape
  <2>5. msg_'.data # NoData
      BY <2>2, <2>4 DEF NoData
  <2>6. msg_.recved < msg_.head.size
      BY <1>1, <2>2 DEF RecvInv, BodyOK
  <2>7. live' \in Nat /\ live' > 0
      BY <2>1 DEF RecvInv, Shape
  <2>8. Shape'
      BY <1>1, <2>1, <2>4, <2>7 DEF RecvInv, Shape
  <2>9. BodyOK'
      BY <1>1, <2>1, <2>2, <2>4, <2>5, <2>6, <2>7 DEF BodyOK
  <2>10. HeadOK'
      BY <1>1, <2>4 DEF RecvInv, HeadOK, StrayHeads
  <2> QED
      BY <1>2, <2>8, <2>9, <2>10 DEF RecvInv
<1> QED
    BY <1>3, <1>4

\* What ReadBody takes and where it puts it.
LEMMA ReadBodyTakes ==
  ASSUME RecvInv, ReadBody
  PROVE  \E len \in 0 .. Len(input) :
           /\ Discard(len) /\ len = Min({Len(input), msg_.head.size - msg_.recved})
           /\ len <= msg_.head.size - msg_.recved /\ msg_.recved + len \in Nat
           /\ \/ len = 0 /\ pc' = "idle" /\ msg_' = msg_
              \/ /\ len > 0
                 /\ msg_'.head = msg_.head /\ msg_'.recved = msg_.recved + len
                 /\ msg_'.data =
                      [k \in DOMAIN msg_.data |->
                         IF k \in msg_.recved + 1 .. msg_.recved + len
                         THEN input[k - msg_.recved] ELSE msg_.data[k]]
                 /\ msg_'.data \in Seq(Byte) /\ Len(msg_'.data) = Len(msg_.data)
                 /\ msg_' \in [head : Heads, data : Seq(Byte), recved : Nat]
                 /\ pc' = IF msg_.recved + len = msg_.head.size THEN "deliver" ELSE "loop"
<1>1. PICK len : /\ len = Min({Len(input), msg_.head.size - msg_.recved})
                 /\ Discard(len)
                 /\ IF len = 0
                    THEN pc' = "idle" /\ UNCHANGED msg_
                    ELSE /\ msg_' = [msg_ EXCEPT
                              !.data = [k \in DOMAIN @ |->
                                          IF k \in msg_.recved + 1 .. msg_.recved + len
                                          THEN input[k - msg_.recved] ELSE @[k]],
                              !.recved = msg_.recved + len]
                         /\ pc' = IF msg_.recved + len = msg_.head.size
                                  THEN "deliver" ELSE "loop"
    BY DEF ReadBody
<1>2. /\ Len(input) \in Nat /\ msg_.recved \in Nat /\ msg_.head.size \in Nat
      /\ msg_.recved < msg_.head.size /\ DOMAIN msg_.data = 1 .. Len(msg_.data)
      /\ Len(msg_.data) \in Nat /\ msg_.data \in Seq(Byte)
    BY LengthsAreNat DEF RecvInv, BodyOK, ReadBody, Shape
<1>3. /\ len \in 0 .. Len(input) /\ len <= msg_.head.size - msg_.recved
      /\ msg_.recved + len \in Nat
  <2>1. msg_.head.size - msg_.recved \in Nat
      BY <1>2
  <2>2. /\ Min({Len(input), msg_.head.size - msg_.recved}) \in 0 .. Len(input)
        /\ Min({Len(input), msg_.head.size - msg_.recved}) <= msg_.head.size - msg_.recved
      BY <1>2, <2>1, MinOfTwo
  <2> QED
      BY <1>1, <1>2, <2>2
<1>4. CASE len = 0
    BY <1>1, <1>3, <1>4
<1>5. CASE len # 0
  <2> DEFINE d == [k \in DOMAIN msg_.data |->
                     IF k \in msg_.recved + 1 .. msg_.recved + len
                     THEN input[k - msg_.recved] ELSE msg_.data[k]]
  <2>1. d \in Seq(Byte) /\ Len(d) = Len(msg_.data)
    <3>1. ASSUME NEW k \in 1 .. Len(msg_.data)
          PROVE  (IF k \in msg_.recved + 1 .. msg_.recved + len
                  THEN input[k - msg_.recved] ELSE msg_.data[k]) \in Byte
      <4>1. CASE k \in msg_.recved + 1 .. msg_.recved + len
        <5>1. k - msg_.recved \in 1 .. Len(input)
            BY <1>2, <1>3, <4>1
        <5>2. input \in Seq(Byte)
            BY DEF RecvInv, Shape
        <5> QED
            BY <4>1, <5>1, <5>2
      <4>2. CASE k \notin msg_.recved + 1 .. msg_.recved + len
          BY <1>2, <4>2
      <4> QED
          BY <4>1, <4>2
    <3>2. d \in [1 .. Len(msg_.data) -> Byte]
        BY <1>2, <3>1
    <3> QED
        BY <1>2, <3>2
  <2>2. msg_' = [msg_ EXCEPT !.data = d, !.recved = msg_.recved + len]
      BY <1>1, <1>5
  <2>3. pc' = IF msg_.recved + len = msg_.head.size THEN "deliver" ELSE "loop"
      BY <1>1, <1>5
  <2> HIDE DEF d
  <2>4. /\ msg_'.head = msg_.head /\ msg_'.recved = msg_.recved + len /\ msg_'.data = d
        /\ msg_' \in [head : Heads, data : Seq(Byte), recved : Nat]
      BY <1>3, <2>1, <2>2 DEF RecvInv, Shape
  <2>5. len > 0
      BY <1>3, <1>5
  <2> QED
      BY <1>1, <1>3, <2>1, <2>3, <2>4, <2>5 DEF d
<1> QED
    BY <1>4, <1>5

LEMMA RecvReadBody == RecvInv /\ ReadBody => RecvInv'
<1> SUFFICES ASSUME RecvInv, ReadBody PROVE RecvInv'
    OBVIOUS
<1>1. /\ pc = "body" /\ is_recv_msg_ /\ msg_.data # NoData
      /\ UNCHANGED <<outbox, cut, sent, wire, is_recv_msg_, live, got, raw>>
    BY DEF ReadBody, peer, RecvInv, BodyOK
<1>2. PICK len \in 0 .. Len(input) :
           /\ Discard(len)
           /\ len <= msg_.head.size - msg_.recved /\ msg_.recved + len \in Nat
           /\ \/ len = 0 /\ pc' = "idle" /\ msg_' = msg_
              \/ /\ len > 0
                 /\ msg_'.head = msg_.head /\ msg_'.recved = msg_.recved + len
                 /\ msg_'.data \in Seq(Byte) /\ Len(msg_'.data) = Len(msg_.data)
                 /\ msg_' \in [head : Heads, data : Seq(Byte), recved : Nat]
                 /\ pc' = IF msg_.recved + len = msg_.head.size THEN "deliver" ELSE "loop"
    BY ReadBodyTakes, Zenon
<1>3. /\ msg_.head.size \in Nat /\ msg_.recved \in Nat /\ Len(msg_.data) = msg_.head.size
      /\ msg_.head.size > 0 /\ msg_.recved < msg_.head.size
    BY <1>1, LengthsAreNat DEF RecvInv, BodyOK
<1>4. input' \in Seq(Byte) /\ FromPeer(input')
    BY <1>2, DiscardOK
<1>5. Origin'
    BY <1>1, <1>4 DEF RecvInv, Origin, FromPeer
<1>6. CASE len = 0 /\ pc' = "idle" /\ msg_' = msg_
    BY <1>1, <1>4, <1>5, <1>6 DEF RecvInv, Shape, BodyOK, HeadOK, StrayHeads
<1>7. CASE /\ len > 0
           /\ msg_'.head = msg_.head /\ msg_'.recved = msg_.recved + len
           /\ msg_'.data \in Seq(Byte) /\ Len(msg_'.data) = Len(msg_.data)
           /\ msg_' \in [head : Heads, data : Seq(Byte), recved : Nat]
           /\ pc' = IF msg_.recved + len = msg_.head.size THEN "deliver" ELSE "loop"
  <2>1. Shape'
      BY <1>1, <1>4, <1>7 DEF RecvInv, Shape
  <2>2. HeadOK'
      BY <1>1, <1>7 DEF RecvInv, HeadOK, StrayHeads
  <2>3. msg_'.data # NoData
      BY <1>3, <1>7 DEF NoData
  <2>4. \/ pc' = "deliver" /\ msg_'.recved = msg_.head.size
        \/ pc' = "loop" /\ msg_'.recved < msg_.head.size
    <3>1. msg_.recved + len # msg_.head.size => msg_.recved + len < msg_.head.size
        BY <1>2, <1>3
    <3> QED
        BY <1>7, <3>1
  <2>5. BodyOK'
      BY <1>1, <1>7, <2>3, <2>4 DEF RecvInv, BodyOK
  <2> QED
      BY <1>5, <2>1, <2>2, <2>5 DEF RecvInv
<1> QED
    BY <1>2, <1>6, <1>7

LEMMA RecvDeliver == RecvInv /\ Deliver => RecvInv'
<1> SUFFICES ASSUME RecvInv, Deliver PROVE RecvInv'
    OBVIOUS
<1>1. /\ pc = "deliver" /\ msg_.data # NoData /\ msg_.head.kind \in Kinds
      /\ live \in Nat /\ live > 0 /\ live' = live - 1 /\ msg_' = NoMsg
      /\ pc' = (IF msg_.head.kind = "close" THEN "closed" ELSE "loop")
      /\ got' = Append(got, [kind |-> msg_.head.kind, data |-> msg_.data])
      /\ is_recv_msg_' = (is_recv_msg_ /\ msg_.head.kind # "toRaw")
      /\ UNCHANGED <<outbox, cut, sent, wire, input, raw>>
    BY DEF Deliver, Close, peer, RecvInv, BodyOK, Shape
<1>2. got' \in Seq([kind : Kinds, data : Seq(Byte)])
  <2>1. [kind |-> msg_.head.kind, data |-> msg_.data] \in [kind : Kinds, data : Seq(Byte)]
      BY <1>1 DEF RecvInv, Shape
  <2> QED
      BY <1>1, <2>1 DEF RecvInv, Shape
<1>3. NoMsg \in [head : Heads, data : Seq(Byte), recved : Nat]
    BY DEF NoMsg, NoHead, NoData, Heads
<1>4. live' \in Nat
    BY <1>1
<1>5. Shape'
    BY <1>1, <1>2, <1>3, <1>4 DEF RecvInv, Shape
<1>6. Origin'
    BY <1>1 DEF RecvInv, Origin, FromPeer
<1>7. HeadOK'
    BY <1>1 DEF HeadOK, NoMsg, StrayHeads
<1>8. BodyOK'
    BY <1>1 DEF BodyOK, NoMsg
<1> QED
    BY <1>5, <1>6, <1>7, <1>8 DEF RecvInv

LEMMA RecvEventCB == RecvInv /\ EventCB => RecvInv'
<1> SUFFICES ASSUME RecvInv, EventCB PROVE RecvInv'
    OBVIOUS
<1>1. /\ live' = (IF msg_.data = NoData THEN live ELSE live - 1) /\ msg_' = NoMsg
      /\ pc' = "closed"
      /\ UNCHANGED <<outbox, cut, sent, wire, input, is_recv_msg_, got, raw>>
    BY DEF EventCB, Close, peer
<1>2. live' \in Nat
    BY <1>1 DEF RecvInv, Shape, BodyOK
<1>3. NoMsg \in [head : Heads, data : Seq(Byte), recved : Nat]
    BY DEF NoMsg, NoHead, NoData, Heads
<1>4. Shape'
    BY <1>1, <1>2, <1>3 DEF RecvInv, Shape
<1>5. Origin'
    BY <1>1 DEF RecvInv, Origin, FromPeer
<1>6. HeadOK' /\ BodyOK'
    BY <1>1 DEF HeadOK, NoMsg, StrayHeads, BodyOK
<1> QED
    BY <1>4, <1>5, <1>6 DEF RecvInv

LEMMA RecvStutter == RecvInv /\ UNCHANGED vars => RecvInv'
  BY DEF vars, RecvInv, Shape, BodyOK, Origin, FromPeer, HeadOK, StrayHeads

LEMMA RecvNext == RecvInv /\ [Next]_vars => RecvInv'
  BY RecvWrite, RecvReadEvent, RecvReadRaw, RecvReadHead, RecvCheckHead, RecvReadBody,
     RecvDeliver, RecvEventCB, RecvStutter DEF Next, ReadCB

\* RecvInv holds in every state, whatever the peer writes and however it is cut.
THEOREM ReceiverInvariant == Spec => []RecvInv
  BY RecvInit, RecvNext, PTL DEF Spec

\* Type correctness of XComTask's msg_, of its buffers and of what it gives on.
THEOREM ReceiverTypes == Spec => []TypeOK
<1>1. RecvInv => TypeOK
  <2> SUFFICES ASSUME RecvInv PROVE TypeOK
      OBVIOUS
  <2>1. \A s \in {wire, input, raw} : \A k \in DOMAIN s : s[k][1] \in 1 .. sent
      BY DEF RecvInv, Shape, Origin, FromPeer
  <2>2. \A k \in DOMAIN got : got[k].kind \in Kinds
    <3>1. got \in Seq([kind : Kinds, data : Seq(Byte)])
        BY DEF RecvInv, Shape
    <3>2. \A k \in 1 .. Len(got) : got[k] \in [kind : Kinds, data : Seq(Byte)]
        BY <3>1, ElementOfSeq
    <3> QED
        BY <3>2, LengthsAreNat DEF RecvInv
  <2> QED
      BY <2>1, <2>2 DEF RecvInv, Shape, HeadOK, TypeOK, Kinds
<1> QED
    BY <1>1, ReceiverInvariant, PTL

\* ReadCB() writes a body only inside the buffer it has allocated for it and gives a
\* message only when its buffer is full, whatever the peer writes, however the stream
\* is cut and whatever is taken for a head.
THEOREM ReceiverStaysInBuffer == Spec => []WithinBuffer
<1>1. RecvInv => WithinBuffer
  <2> SUFFICES ASSUME RecvInv PROVE WithinBuffer
      OBVIOUS
  <2>1. msg_.recved \in Nat /\ msg_.head.size \in Nat
      BY LengthsAreNat DEF RecvInv
  <2> QED
      BY <2>1 DEF RecvInv, BodyOK, WithinBuffer
<1> QED
    BY <1>1, ReceiverInvariant, PTL
--------------------------------------------------------------------------------
(* The framing.  The stream is what is in the input buffer and then on the wire; *)
(* off[i] is where in it the i-th write begins (less one, and at most 0 when a   *)
(* part of it has been taken), off[sent + 1] is its end.                         *)

Total(i) == HeadLen(i) + outbox[i].size

ByteAt(s, t, k) == IF k <= Len(s) THEN s[k] ELSE t[k - Len(s)]
StreamByte(k)   == ByteAt(input, wire, k)

Layout(off) ==
  /\ off[sent + 1] = Len(input) + Len(wire)
  /\ \A i \in 1 .. sent : off[i + 1] = off[i] + Total(i)
  /\ \A i, j \in 1 .. sent + 1 : i <= j => off[i] <= off[j]
  /\ \A i \in 1 .. sent : \A c \in 1 .. Total(i) :
       off[i] + c > 0 => StreamByte(off[i] + c) = <<i, c>>

\* Where the network has cut the stream.
CutOK == wire # <<>> => MayCutBefore(wire[1])

Given == Len(got)

\* In message mode the next byte of the stream begins the message behind those that
\* were given, or goes on with it where its head and msg_.recved bytes were taken.
Position(off) ==
  is_recv_msg_ /\ pc # "closed" =>
    /\ Given <= sent
    /\ \A k \in 1 .. Given : got[k].kind # "toRaw"
    /\ pc \in {"idle", "loop"} /\ msg_.data = NoData => off[Given + 1] = 0
    /\ pc = "check" \/ (pc # "deliver" /\ msg_.data # NoData) =>
         /\ Given < sent /\ msg_.head = outbox[Given + 1] /\ msg_.head.kind # "raw"
         /\ off[Given + 1] + HeadSize + msg_.recved = 0
    /\ pc = "deliver" =>
         /\ Given < sent /\ msg_.head = outbox[Given + 1] /\ msg_.head.kind # "raw"
         /\ off[Given + 2] = 0
         /\ msg_.data[msg_.head.size] = <<Given + 1, HeadSize + msg_.head.size>>

FramesOK ==
  \A k \in 1 .. Given :
    /\ k <= sent /\ got[k].kind = outbox[k].kind /\ Len(got[k].data) = outbox[k].size
    /\ got[k].data[outbox[k].size] = <<k, HeadLen(k) + outbox[k].size>>

\* When the messages come whole a body is read at once.
WholeOK ==
  /\ msg_.data # NoData => pc \in {"body", "deliver"}
  /\ pc = "body" => msg_.recved = 0
  /\ pc = "deliver" => msg_.data = Body(Given + 1)
  /\ \A k \in 1 .. Given : got[k].data = Body(k)
  /\ live = IF msg_.data = NoData THEN 0 ELSE 1

FrameInv ==
  /\ CutOK
  /\ \E off \in [1 .. sent + 1 -> Int] : Layout(off) /\ (Framed => Position(off))
  /\ Framed => FramesOK
  /\ Whole => WholeOK

\* What the two parts of the stream do when bytes are taken from the first, moved
\* from the second to the first, or written behind the second.
LEMMA ByteTaken ==
  ASSUME NEW s \in Seq(Byte), NEW t \in Seq(Byte), NEW n \in 0 .. Len(s),
         NEW k \in Int, k > 0
  PROVE  ByteAt(SubSeq(s, n + 1, Len(s)), t, k) = ByteAt(s, t, k + n)
<1> DEFINE r == SubSeq(s, n + 1, Len(s))
<1>1. Len(s) \in Nat /\ n \in Nat /\ Len(r) = Len(s) - n
    BY CutBytes, LenProperties
<1>2. CASE k <= Len(r)
  <2>1. k \in 1 .. Len(s) - n /\ k + n <= Len(s) /\ n + k = k + n
      BY <1>1, <1>2
  <2>2. r[k] = s[n + k]
      BY <2>1, CutBytes
  <2> QED
      BY <1>2, <2>1, <2>2 DEF ByteAt
<1>3. CASE ~(k <= Len(r))
  <2> HIDE DEF r
  <2>1. ~(k + n <= Len(s)) /\ k - Len(r) = k + n - Len(s)
      BY <1>1, <1>3
  <2>2. ByteAt(r, t, k) = ByteAt(s, t, k + n)
      BY <1>3, <2>1 DEF ByteAt
  <2> QED
      BY <2>2 DEF r
<1> QED
    BY <1>2, <1>3

LEMMA ByteRead ==
  ASSUME NEW s \in Seq(Byte), NEW t \in Seq(Byte), NEW n \in 0 .. Len(t),
         NEW k \in 1 .. Len(s) + Len(t)
  PROVE  ByteAt(s \o SubSeq(t, 1, n), SubSeq(t, n + 1, Len(t)), k) = ByteAt(s, t, k)
<1> DEFINE a == SubSeq(t, 1, n)
           b == SubSeq(t, n + 1, Len(t))
<1>1. /\ Len(s) \in Nat /\ Len(t) \in Nat /\ n \in Nat /\ k \in Nat
      /\ a \in Seq(Byte) /\ Len(a) = n /\ Len(b) = Len(t) - n
    BY CutBytes, LenProperties
<1>2. Len(s \o a) = Len(s) + n
    BY <1>1, JoinBytes, ZenonT(40)
<1>3. CASE k <= Len(s)
  <2>1. k \in 1 .. Len(s) + Len(a) /\ k <= Len(s \o a)
      BY <1>1, <1>2, <1>3
  <2>2. (s \o a)[k] = s[k]
      BY <1>1, <1>3, <2>1, JoinBytes
  <2> QED
      BY <1>3, <2>1, <2>2 DEF ByteAt
<1>4. CASE ~(k <= Len(s)) /\ k <= Len(s) + n
  <2>1. k \in 1 .. Len(s) + Len(a) /\ k <= Len(s \o a) /\ k - Len(s) \in 1 .. n
      BY <1>1, <1>2, <1>4
  <2>2. (s \o a)[k] = a[k - Len(s)]
      BY <1>1, <1>4, <2>1, JoinBytes
  <2>3. a[k - Len(s)] = t[k - Len(s)]
      BY <2>1, CutBytes
  <2> QED
      BY <1>4, <2>1, <2>2, <2>3 DEF ByteAt
<1>5. CASE ~(k <= Len(s) + n)
  <2>1. /\ k - Len(s \o a) \in 1 .. Len(t) - n /\ n + (k - Len(s \o a)) = k - Len(s)
        /\ ~(k <= Len(s)) /\ ~(k <= Len(s \o a))
      BY <1>1, <1>2, <1>5
  <2>2. b[k - Len(s \o a)] = t[n + (k - Len(s \o a))]
      BY <2>1, CutBytes
  <2> QED
      BY <2>1, <2>2 DEF ByteAt
<1> QED
    BY <1>3, <1>4, <1>5

LEMMA ByteWritten ==
  ASSUME NEW s \in Seq(Byte), NEW t \in Seq(Byte), NEW b \in Seq(Byte),
         NEW k \in 1 .. Len(s) + Len(t) + Len(b)
  PROVE  /\ k <= Len(s) + Len(t) => ByteAt(s, t \o b, k) = ByteAt(s, t, k)
         /\ k > Len(s) + Len(t) => ByteAt(s, t \o b, k) = b[k - Len(s) - Len(t)]
<1>1. Len(s) \in Nat /\ Len(t) \in Nat /\ Len(b) \in Nat /\ k \in Nat
    BY LenProperties
<1>2. CASE k <= Len(s)
    BY <1>1, <1>2 DEF ByteAt
<1>3. CASE ~(k <= Len(s))
  <2>1. k - Len(s) \in 1 .. Len(t) + Len(b)
      BY <1>1, <1>3
  <2>2. (t \o b)[k - Len(s)] = IF k - Len(s) <= Len(t) THEN t[k - Len(s)]
                               ELSE b[k - Len(s) - Len(t)]
      BY <2>1, JoinBytes
  <2>3. k - Len(s) <= Len(t) <=> k <= Len(s) + Len(t)
      BY <1>1
  <2> QED
      BY <1>3, <2>2, <2>3 DEF ByteAt
<1> QED
    BY <1>2, <1>3

LEMMA WritesOK ==
  ASSUME Shape, NEW i \in 1 .. sent
  PROVE  /\ i \in 1 .. Len(outbox) /\ outbox[i] \in Writes
         /\ HeadLen(i) \in Nat /\ outbox[i].size \in Nat \ {0}
         /\ Total(i) \in Nat \ {0} /\ Total(i) >= outbox[i].size
         /\ outbox[i].kind # "raw" => HeadLen(i) = HeadSize
<1>1. i \in 1 .. Len(outbox)
    BY LengthsAreNat DEF Shape
<1>2. outbox[i] \in Writes
    BY <1>1 DEF Shape
<1>3. HeadLen(i) \in Nat /\ outbox[i].size \in Nat \ {0}
    BY <1>1, BytesOfWrite
<1>4. Total(i) \in Nat \ {0} /\ Total(i) >= outbox[i].size
    BY <1>3 DEF Total
<1> QED
    BY <1>1, <1>2, <1>3, <1>4 DEF HeadLen

\* The bytes of a write that was made end before the stream does.
LEMMA InStream ==
  ASSUME Shape, NEW off \in [1 .. sent + 1 -> Int], Layout(off),
         NEW i \in 1 .. sent, NEW c \in 1 .. Total(i)
  PROVE  off[i] + c <= Len(input) + Len(wire) /\ off[i] \in Int
<1>1. /\ sent \in Nat /\ Total(i) \in Nat /\ i + 1 \in 1 .. sent + 1
      /\ i \in 1 .. sent + 1 /\ sent + 1 \in 1 .. sent + 1 /\ i + 1 <= sent + 1
    BY WritesOK, LengthsAreNat, SMTT(30)
<1>2. /\ off[i + 1] = off[i] + Total(i) /\ off[i + 1] <= off[sent + 1]
      /\ off[sent + 1] = Len(input) + Len(wire)
    BY <1>1 DEF Layout
<1>3. off[i] \in Int /\ off[i + 1] \in Int /\ off[sent + 1] \in Int
    BY <1>1
<1> QED
    BY <1>1, <1>2, <1>3


\* Taking bytes of the input buffer moves the writes to the front.
LEMMA LayoutTaken ==
  ASSUME Shape, NEW off \in [1 .. sent + 1 -> Int], Layout(off),
         NEW n \in 0 .. Len(input), Discard(n), UNCHANGED <<outbox, sent, wire>>
  PROVE  \E o \in [1 .. sent' + 1 -> Int] :
           Layout(o)' /\ \A i \in 1 .. sent + 1 : o[i] = off[i] - n
<1>1. /\ input \in Seq(Byte) /\ wire \in Seq(Byte) /\ Len(input) \in Nat /\ Len(wire) \in Nat
      /\ n \in Nat /\ sent \in Nat
    BY LengthsAreNat DEF Shape
<1>0. PICK o \in [1 .. sent + 1 -> Int] : \A i \in 1 .. sent + 1 : o[i] = off[i] - n
  <2>1. [i \in 1 .. sent + 1 |-> off[i] - n] \in [1 .. sent + 1 -> Int]
      BY <1>1
  <2> QED
      BY <2>1
<1>2. /\ o \in [1 .. sent + 1 -> Int] /\ \A i \in 1 .. sent + 1 : o[i] = off[i] - n
      /\ \A i \in 1 .. sent + 1 : off[i] \in Int /\ o[i] \in Int
    BY <1>0
<1>3. o[sent + 1] = Len(input') + Len(wire')
  <2>1. sent + 1 \in 1 .. sent + 1
      BY <1>1
  <2>2. off[sent + 1] = Len(input) + Len(wire)
      BY DEF Layout
  <2>3. Len(input') = Len(input) - n
      BY <1>1, CutBytes DEF Discard
  <2> QED
      BY <1>1, <1>2, <2>1, <2>2, <2>3
<1>4. ASSUME NEW i \in 1 .. sent PROVE o[i + 1] = o[i] + Total(i)
  <2>1. i \in 1 .. sent + 1 /\ i + 1 \in 1 .. sent + 1
      BY <1>1
  <2>2. Total(i) \in Nat
      BY WritesOK
  <2>3. off[i + 1] = off[i] + Total(i)
      BY <2>1 DEF Layout
  <2> QED
      BY <1>1, <1>2, <2>1, <2>2, <2>3
<1>5. ASSUME NEW i \in 1 .. sent + 1, NEW j \in 1 .. sent + 1, i <= j PROVE o[i] <= o[j]
  <2>1. off[i] <= off[j]
      BY <1>5 DEF Layout
  <2> QED
      BY <1>1, <1>2, <2>1
<1>6. ASSUME NEW i \in 1 .. sent, NEW c \in 1 .. Total(i), o[i] + c > 0
      PROVE  ByteAt(input', wire', o[i] + c) = <<i, c>>
  <2>0. Total(i) \in Nat
      BY WritesOK
  <2>1. i \in 1 .. sent + 1 /\ c \in Nat
      BY <1>1, <2>0
  <2>2. off[i] \in Int /\ o[i] \in Int /\ o[i] = off[i] - n
      BY <1>2, <2>1
  <2>3. off[i] + c > 0 /\ o[i] + c \in Int /\ (o[i] + c) + n = off[i] + c
      BY <1>1, <1>6, <2>1, <2>2, SMTT(30)
  <2>4. ByteAt(input, wire, off[i] + c) = <<i, c>>
      BY <2>3 DEF Layout, StreamByte
  <2>5. ByteAt(input', wire, o[i] + c) = ByteAt(input, wire, (o[i] + c) + n)
      BY <1>1, <1>6, <2>3, ByteTaken DEF Discard
  <2> QED
      BY <2>3, <2>4, <2>5
<1>7. \A i : Total(i)' = Total(i)
    BY DEF Total, HeadLen
<1>8. Layout(o)'
  <2>1. sent' = sent
      OBVIOUS
  <2>2. (o[sent + 1] = Len(input) + Len(wire))'
      BY <1>3, <2>1
  <2>3. (\A i \in 1 .. sent : o[i + 1] = o[i] + Total(i))'
      BY <1>4, <1>7, <2>1
  <2>4. (\A i, j \in 1 .. sent + 1 : i <= j => o[i] <= o[j])'
      BY <1>5, <2>1
  <2>5. (\A i \in 1 .. sent : \A c \in 1 .. Total(i) :
           o[i] + c > 0 => StreamByte(o[i] + c) = <<i, c>>)'
      BY <1>6, <1>7, <2>1 DEF StreamByte
  <2> QED
      BY <2>2, <2>3, <2>4, <2>5 DEF Layout
<1> QED
    BY <1>0, <1>8

\* A read event leaves them where they are.
LEMMA LayoutRead ==
  ASSUME Shape, NEW off \in [1 .. sent + 1 -> Int], Layout(off),
         ReadEvent
  PROVE  Layout(off)'
<1>0. PICK n \in 1 .. Min({Len(wire), ReadMax}) :
        /\ input' = input \o SubSeq(wire, 1, n)
        /\ wire' = SubSeq(wire, n + 1, Len(wire))
    BY DEF ReadEvent
<1>1. /\ input \in Seq(Byte) /\ wire \in Seq(Byte) /\ Len(input) \in Nat /\ Len(wire) \in Nat
      /\ sent \in Nat /\ sent' = sent /\ outbox' = outbox
    BY LengthsAreNat DEF Shape, ReadEvent, peer
<1>6. n \in 0 .. Len(wire) /\ n \in Nat
  <2>1. ReadMax \in Nat /\ Len(wire) \in Nat
      BY <1>1, FramingAssumption
  <2>2. Min({Len(wire), ReadMax}) \in 0 .. Len(wire)
      BY <2>1, MinOfTwo
  <2> QED
      BY <1>1, <2>2
<1>2. Len(input') + Len(wire') = Len(input) + Len(wire)
  <2>1. /\ SubSeq(wire, 1, n) \in Seq(Byte) /\ Len(SubSeq(wire, 1, n)) = n
        /\ Len(wire') = Len(wire) - n
      BY <1>0, <1>1, <1>6, CutBytes
  <2>2. Len(input') = Len(input) + n
      BY <1>0, <1>1, <2>1, JoinBytes
  <2>3. Len(wire') = Len(wire) - n
      BY <2>1
  <2> QED
      BY <1>1, <1>6, <2>2, <2>3
<1>3. ASSUME NEW i \in 1 .. sent, NEW c \in 1 .. Total(i), off[i] + c > 0
      PROVE  ByteAt(input', wire', off[i] + c) = <<i, c>>
  <2>1. off[i] + c <= Len(input) + Len(wire) /\ off[i] \in Int
      BY InStream
  <2>2. Total(i) \in Nat /\ c \in Int
      BY WritesOK
  <2>3. off[i] + c \in 1 .. Len(input) + Len(wire)
      BY <1>1, <1>3, <2>1, <2>2
  <2>4. ByteAt(input', wire', off[i] + c) = ByteAt(input, wire, off[i] + c)
      BY <1>0, <1>1, <1>6, <2>3, ByteRead
  <2>5. ByteAt(input, wire, off[i] + c) = <<i, c>>
      BY <1>3 DEF Layout, StreamByte
  <2> QED
      BY <2>4, <2>5
<1>4. \A i : Total(i)' = Total(i)
    BY <1>1 DEF Total, HeadLen
<1>5. /\ off[sent + 1] = Len(input') + Len(wire')
      /\ \A i \in 1 .. sent : off[i + 1] = off[i] + Total(i)
      /\ \A i, j \in 1 .. sent + 1 : i <= j => off[i] <= off[j]
    BY <1>2 DEF Layout
<1>7. (off[sent + 1] = Len(input) + Len(wire))'
    BY <1>1, <1>5
<1>8. (\A i \in 1 .. sent : off[i + 1] = off[i] + Total(i))'
    BY <1>1, <1>4, <1>5
<1>9. (\A i, j \in 1 .. sent + 1 : i <= j => off[i] <= off[j])'
    BY <1>1, <1>5
<1>10. (\A i \in 1 .. sent : \A c \in 1 .. Total(i) :
          off[i] + c > 0 => StreamByte(off[i] + c) = <<i, c>>)'
    BY <1>1, <1>3, <1>4 DEF StreamByte
<1> QED
    BY <1>7, <1>8, <1>9, <1>10 DEF Layout

\* A write goes behind the end of the stream.
LEMMA LayoutWritten ==
  ASSUME Shape, NEW off \in [1 .. sent + 1 -> Int], Layout(off), Write
  PROVE  \E o \in [1 .. sent' + 1 -> Int] :
           Layout(o)' /\ \A i \in 1 .. sent + 1 : o[i] = off[i]
<1>0. PICK m : m = sent + 1
    OBVIOUS
<1>1. /\ input \in Seq(Byte) /\ wire \in Seq(Byte) /\ Len(input) \in Nat /\ Len(wire) \in Nat
      /\ sent \in Nat /\ m \in 1 .. Len(outbox) /\ m \in Nat /\ m = sent + 1
      /\ \A i \in 1 .. m : off[i] \in Int
  <2>1. Len(outbox) \in Nat /\ sent \in Nat /\ sent < Len(outbox)
      BY LengthsAreNat DEF Write
  <2>2. m \in 1 .. Len(outbox) /\ m \in Nat
      BY <1>0, <2>1
  <2>3. \A i \in 1 .. m : off[i] \in Int
      BY <1>0, <2>1
  <2> QED
      BY <1>0, <2>1, <2>2, <2>3, LengthsAreNat DEF Shape
<1>2. /\ sent' = m /\ wire' = wire \o BytesOf(m) /\ input' = input /\ outbox' = outbox
    BY <1>0 DEF Write
<1>3. /\ BytesOf(m) \in Seq(Byte) /\ Len(BytesOf(m)) = Total(m) /\ Total(m) \in Nat
      /\ \A k \in 1 .. Total(m) : BytesOf(m)[k] = <<m, k>>
    BY <1>1, BytesOfWrite DEF Total
<1>4. PICK o \in [1 .. m + 1 -> Int] :
        /\ o[m + 1] = off[m] + Total(m)
        /\ \A i \in 1 .. m : o[i] = off[i]
  <2> DEFINE f == [i \in 1 .. m + 1 |-> IF i = m + 1 THEN off[m] + Total(m) ELSE off[i]]
  <2>1. ASSUME NEW i \in 1 .. m + 1
        PROVE  (IF i = m + 1 THEN off[m] + Total(m) ELSE off[i]) \in Int
    <3>1. off[m] \in Int
        BY <1>1
    <3>2. i # m + 1 => i \in 1 .. m
        BY <1>1
    <3> QED
        BY <1>1, <1>3, <3>1, <3>2
  <2>2. m + 1 \in 1 .. m + 1 /\ \A i \in 1 .. m : i \in 1 .. m + 1 /\ i # m + 1
      BY <1>1
  <2>3. f \in [1 .. m + 1 -> Int] /\ f[m + 1] = off[m] + Total(m) /\ \A i \in 1 .. m : f[i] = off[i]
      BY <2>1, <2>2
  <2> QED
      BY <2>3
<1>5. off[m] = Len(input) + Len(wire) /\ off[m] \in Nat
    BY <1>1 DEF Layout
<1>6. o[m + 1] = Len(input') + Len(wire')
  <2>1. Len(wire') = Len(wire) + Total(m) /\ Len(input') = Len(input)
      BY <1>1, <1>2, <1>3, JoinBytes
  <2>2. Total(m) \in Nat /\ Len(wire) \in Nat /\ Len(input) \in Nat
      BY <1>1, <1>3
  <2>3. o[m + 1] = (Len(input) + Len(wire)) + Total(m)
      BY <1>4, <1>5
  <2> QED
      BY <2>1, <2>2, <2>3
<1>7. ASSUME NEW i \in 1 .. m PROVE o[i + 1] = o[i] + Total(i)
  <2>1. CASE i = m
      BY <1>4, <2>1
  <2>2. CASE i # m
    <3>1. i \in 1 .. sent /\ i + 1 \in 1 .. m
        BY <1>1, <2>2
    <3>2. off[i + 1] = off[i] + Total(i)
        BY <3>1 DEF Layout
    <3> QED
        BY <1>4, <3>1, <3>2
  <2> QED
      BY <2>1, <2>2
<1>8. ASSUME NEW i \in 1 .. m + 1, NEW j \in 1 .. m + 1, i <= j PROVE o[i] <= o[j]
  <2>1. \A x \in 1 .. m : o[x] = off[x] /\ off[x] <= off[m]
    <3>1. ASSUME NEW x \in 1 .. m PROVE off[x] <= off[m]
      <4>1. x \in 1 .. sent + 1 /\ m \in 1 .. sent + 1 /\ x <= m
          BY <1>1
      <4> QED
          BY <1>1, <4>1 DEF Layout
    <3> QED
        BY <1>4, <3>1
  <2>2. CASE j = m + 1 /\ i = m + 1
    <3>1. o[i] \in Int
        BY <1>4
    <3> QED
        BY <2>2, <3>1
  <2>3. CASE j = m + 1 /\ i # m + 1
    <3>1. i \in 1 .. m
        BY <1>1, <2>3
    <3>2. o[i] <= off[m] /\ o[i] \in Int /\ off[m] \in Int /\ o[j] = off[m] + Total(m)
        BY <1>1, <1>4, <2>1, <2>3, <3>1
    <3> QED
        BY <1>3, <3>2
  <2>4. CASE j # m + 1
    <3>1. i \in 1 .. m /\ j \in 1 .. m
        BY <1>1, <1>8, <2>4
    <3>2. off[i] <= off[j]
        BY <1>1, <1>8, <3>1 DEF Layout
    <3> QED
        BY <1>4, <3>1, <3>2
  <2> QED
      BY <2>2, <2>3, <2>4
<1>9. ASSUME NEW i \in 1 .. m, NEW c \in 1 .. Total(i), o[i] + c > 0
      PROVE  ByteAt(input', wire', o[i] + c) = <<i, c>>
  <2>1. CASE i = m
    <3>1. c \in Nat /\ c >= 1 /\ c <= Total(m) /\ o[i] = off[m]
        BY <1>3, <1>4, <2>1, <1>1
    <3>2. /\ o[i] + c \in 1 .. Len(input) + Len(wire) + Total(m)
          /\ o[i] + c > Len(input) + Len(wire)
          /\ (o[i] + c) - Len(input) - Len(wire) = c
      <4>1. /\ Total(m) \in Nat /\ Len(input) \in Nat /\ Len(wire) \in Nat
            /\ o[i] = Len(input) + Len(wire)
          BY <1>1, <1>3, <1>5, <3>1
      <4> QED
          BY <3>1, <4>1
    <3>3. ByteAt(input, wire \o BytesOf(m), o[i] + c)
            = BytesOf(m)[(o[i] + c) - Len(input) - Len(wire)]
      <4>1. o[i] + c \in 1 .. Len(input) + Len(wire) + Len(BytesOf(m))
          BY <1>3, <3>2
      <4>2. input \in Seq(Byte) /\ wire \in Seq(Byte) /\ BytesOf(m) \in Seq(Byte)
          BY <1>1, <1>3
      <4> QED
          BY <3>2, <4>1, <4>2, ByteWritten
    <3> QED
        BY <1>2, <1>3, <2>1, <3>2, <3>3
  <2>2. CASE i # m
    <3>1. i \in 1 .. sent /\ o[i] = off[i] /\ off[i] \in Int
        BY <1>1, <1>4, <2>2
    <3>0. Total(i) \in Nat
        BY <3>1, WritesOK
    <3>2. off[i] + c <= Len(input) + Len(wire)
        BY <3>1, InStream
    <3>6. c \in Nat
        BY <3>0
    <3>3. /\ o[i] + c \in 1 .. Len(input) + Len(wire) + Len(BytesOf(m))
          /\ o[i] + c <= Len(input) + Len(wire)
      <4>1. Len(BytesOf(m)) \in Nat /\ Len(input) \in Nat /\ Len(wire) \in Nat
          BY <1>1, <1>3
      <4> QED
          BY <1>9, <3>1, <3>2, <3>6, <4>1
    <3>4. ByteAt(input, wire \o BytesOf(m), o[i] + c) = ByteAt(input, wire, o[i] + c)
        BY <1>1, <1>3, <3>3, ByteWritten, SMTT(30)
    <3>5. ByteAt(input, wire, off[i] + c) = <<i, c>>
        BY <1>9, <3>1 DEF Layout, StreamByte
    <3> QED
        BY <1>2, <3>1, <3>4, <3>5
  <2> QED
      BY <2>1, <2>2
<1>10. \A i : Total(i)' = Total(i)
    BY <1>2 DEF Total, HeadLen
<1>11. Layout(o)'
  <2>1. sent' = m
      BY <1>2
  <2>2. (o[sent + 1] = Len(input) + Len(wire))'
      BY <1>6, <2>1
  <2>3. (\A i \in 1 .. sent : o[i + 1] = o[i] + Total(i))'
      BY <1>7, <1>10, <2>1
  <2>4. (\A i, j \in 1 .. sent + 1 : i <= j => o[i] <= o[j])'
      BY <1>8, <2>1
  <2>5. (\A i \in 1 .. sent : \A c \in 1 .. Total(i) :
           o[i] + c > 0 => StreamByte(o[i] + c) = <<i, c>>)'
      BY <1>9, <1>10, <2>1 DEF StreamByte
  <2> QED
      BY <2>2, <2>3, <2>4, <2>5 DEF Layout
<1>12. sent' = m /\ sent + 1 = m
    BY <1>0, <1>2
<1> QED
    BY <1>4, <1>11, <1>12

\* Only what was written, taken and given moves the framing.
LEMMA LayoutSame ==
  ASSUME NEW off, Layout(off), UNCHANGED <<outbox, sent, wire, input>>
  PROVE  Layout(off)'
  BY DEF Layout, StreamByte, ByteAt, Total, HeadLen

LEMMA CutSame ==
  ASSUME CutOK, UNCHANGED <<outbox, cut, wire>>
  PROVE  CutOK'
  BY DEF CutOK, MayCutBefore

LEMMA FramesSame ==
  ASSUME Shape, FramesOK, UNCHANGED <<outbox, got>>, sent' \in Nat, sent <= sent'
  PROVE  FramesOK'
<1>1. sent \in Nat /\ Len(got) \in Nat
    BY LengthsAreNat
<1>2. ASSUME NEW k \in 1 .. Len(got)
      PROVE  /\ k <= sent' /\ got[k].kind = outbox[k].kind
             /\ Len(got[k].data) = outbox[k].size
             /\ got[k].data[outbox[k].size] = <<k, HeadLen(k) + outbox[k].size>>
    BY <1>1 DEF FramesOK, Given
<1> QED
    BY <1>2 DEF FramesOK, Given, HeadLen

LEMMA FramedSame ==
  ASSUME UNCHANGED <<outbox, cut>>
  PROVE  Framed' = Framed /\ Whole' = Whole
  BY DEF Framed, Whole, Acceptable, Announced

LEMMA FrameInit == Init => FrameInv
<1> SUFFICES ASSUME Init PROVE FrameInv
    OBVIOUS
<1>1. /\ sent = 0 /\ wire = <<>> /\ input = <<>> /\ got = <<>> /\ msg_ = NoMsg
      /\ pc = "idle" /\ live = 0
    BY DEF Init
<1>2. CutOK /\ FramesOK
    BY <1>1 DEF CutOK, FramesOK, Given
<1>3. WholeOK
    BY <1>1 DEF WholeOK, Given, NoMsg
<1>4. PICK off \in [1 .. sent + 1 -> Int] : off[1] = 0
  <2>1. [i \in 1 .. 1 |-> 0] \in [1 .. 1 -> Int] /\ [i \in 1 .. 1 |-> 0][1] = 0
      OBVIOUS
  <2>2. sent + 1 = 1
      BY <1>1
  <2> QED
      BY <2>1, <2>2
<1>5. Layout(off)
  <2>1. off[sent + 1] = Len(input) + Len(wire)
      BY <1>1, <1>4
  <2>2. \A i, j \in 1 .. sent + 1 : i <= j => off[i] <= off[j]
      BY <1>1, <1>4
  <2>3. \A i \in 1 .. sent : FALSE
      BY <1>1
  <2> QED
      BY <2>1, <2>2, <2>3 DEF Layout
<1>6. Position(off)
    BY <1>1, <1>4 DEF Position, Given, NoMsg
<1> QED
    BY <1>2, <1>3, <1>4, <1>5, <1>6 DEF FrameInv

LEMMA FrameWrite == RecvInv /\ FrameInv /\ Write => FrameInv'
<1> SUFFICES ASSUME RecvInv, FrameInv, Write PROVE FrameInv'
    OBVIOUS
<1>1. /\ sent < Len(outbox) /\ sent' = sent + 1 /\ wire' = wire \o BytesOf(sent')
      /\ UNCHANGED <<outbox, cut, input, pc, is_recv_msg_, msg_, live, got, raw>>
    BY DEF Write
<1>2. Shape /\ sent \in Nat /\ sent' \in Nat /\ sent <= sent' /\ Len(outbox) \in Nat
  <2>1. Shape /\ sent \in Nat /\ Len(outbox) \in Nat
      BY LengthsAreNat DEF RecvInv
  <2> QED
      BY <1>1, <2>1
<1>3. Framed' = Framed /\ Whole' = Whole
    BY <1>1, FramedSame
<1>4. CutOK'
  <2>1. /\ wire \in Seq(Byte) /\ Len(wire) \in Nat /\ sent' \in 1 .. Len(outbox)
      BY <1>1, <1>2, LengthsAreNat DEF Shape
  <2>2. /\ BytesOf(sent') \in Seq(Byte) /\ Len(BytesOf(sent')) \in Nat \ {0}
        /\ BytesOf(sent')[1] = <<sent', 1>>
    <3>1. /\ HeadLen(sent') + outbox[sent'].size \in Nat \ {0}
          /\ BytesOf(sent') \in Seq(Byte)
          /\ Len(BytesOf(sent')) = HeadLen(sent') + outbox[sent'].size
          /\ \A k \in 1 .. HeadLen(sent') + outbox[sent'].size : BytesOf(sent')[k] = <<sent', k>>
        BY <1>2, <2>1, BytesOfWrite
    <3>2. 1 \in 1 .. HeadLen(sent') + outbox[sent'].size
        BY <3>1
    <3> QED
        BY <3>1, <3>2
  <2>3. CASE wire = <<>>
    <3>1. wire'[1] = <<sent', 1>>
        BY <1>1, <2>2, <2>3
    <3> QED
        BY <3>1 DEF CutOK, MayCutBefore
  <2>4. CASE wire # <<>>
    <3>1. Len(wire) > 0
        BY <2>1, <2>4, EmptySeq
    <3>2. 1 \in 1 .. Len(wire) + Len(BytesOf(sent')) /\ 1 <= Len(wire)
        BY <2>1, <2>2, <3>1
    <3>3. wire'[1] = wire[1]
        BY <1>1, <2>1, <2>2, <3>2, JoinBytes
    <3> QED
        BY <1>1, <2>4, <3>3 DEF CutOK, MayCutBefore, FrameInv
  <2> QED
      BY <2>3, <2>4
<1>5. PICK off \in [1 .. sent + 1 -> Int] : Layout(off) /\ (Framed => Position(off))
    BY DEF FrameInv
<1>6. PICK o \in [1 .. sent' + 1 -> Int] :
        Layout(o)' /\ \A i \in 1 .. sent + 1 : o[i] = off[i]
    BY <1>2, <1>5, LayoutWritten
<1>7. Framed => Position(o)'
  <2> SUFFICES ASSUME Framed, is_recv_msg_, pc # "closed" PROVE Position(o)'
      BY <1>1 DEF Position
  <2>1. Position(off) /\ Given \in Nat
      BY <1>2, <1>5, LengthsAreNat DEF Given
  <2>2. /\ Given <= sent => o[Given + 1] = off[Given + 1]
        /\ Given < sent => o[Given + 2] = off[Given + 2]
    <3>1. \A x \in Nat : /\ x <= sent => x + 1 \in 1 .. sent + 1
                         /\ x < sent => x + 2 \in 1 .. sent + 1
        BY <1>2
    <3>2. \A i \in 1 .. sent + 1 : o[i] = off[i]
        BY <1>6
    <3>3. Given \in Nat
        BY <2>1
    <3> QED
        BY <3>1, <3>2, <3>3
  <2>3. Given' = Given
      BY <1>1 DEF Given
  <2>4. /\ Given <= sent' /\ (Given < sent => Given < sent')
      BY <1>1, <1>2, <2>1 DEF Position
  <2> QED
      BY <1>1, <2>1, <2>2, <2>3, <2>4 DEF Position
<1>8. Framed => FramesOK'
    BY <1>1, <1>2, FramesSame DEF FrameInv
<1>9. Whole => WholeOK'
    BY <1>1 DEF FrameInv, WholeOK, Given, Body, HeadLen
<1> QED
    BY <1>3, <1>4, <1>6, <1>7, <1>8, <1>9 DEF FrameInv

LEMMA FrameReadEvent == RecvInv /\ FrameInv /\ ReadEvent => FrameInv'
<1> SUFFICES ASSUME RecvInv, FrameInv, ReadEvent PROVE FrameInv'
    OBVIOUS
<1>1. PICK n \in 1 .. Min({Len(wire), ReadMax}) :
        /\ n < Len(wire) => MayCutBefore(wire[n + 1])
        /\ wire' = SubSeq(wire, n + 1, Len(wire))
    BY DEF ReadEvent
<1>2. /\ pc = "idle" /\ pc' = "loop"
      /\ UNCHANGED <<outbox, cut, sent, is_recv_msg_, msg_, live, got, raw>>
    BY DEF ReadEvent, peer
<1>3. Shape /\ sent \in Nat /\ Len(wire) \in Nat /\ wire \in Seq(Byte)
    BY LengthsAreNat DEF RecvInv, Shape
<1>4. n \in 0 .. Len(wire) /\ n \in Nat
  <2>1. ReadMax \in Nat /\ Len(wire) \in Nat
      BY <1>3, FramingAssumption
  <2>2. Min({Len(wire), ReadMax}) \in 0 .. Len(wire)
      BY <2>1, MinOfTwo
  <2> QED
      BY <2>1, <2>2
<1>5. Framed' = Framed /\ Whole' = Whole
    BY <1>2, FramedSame
<1>6. CutOK'
  <2>1. CASE wire' = <<>>
      BY <2>1 DEF CutOK
  <2>2. CASE wire' # <<>>
    <3>1. /\ Len(wire') = Len(wire) - n
          /\ \A k \in 1 .. Len(wire) - n : wire'[k] = wire[n + k]
          /\ wire' \in Seq(Byte)
        BY <1>1, <1>3, <1>4, CutBytes
    <3>2. Len(wire') > 0
        BY <2>2, <3>1, EmptySeq
    <3>3. 1 \in 1 .. Len(wire) - n /\ n < Len(wire)
        BY <1>3, <1>4, <3>1, <3>2
    <3>4. wire'[1] = wire[n + 1] /\ MayCutBefore(wire[n + 1])
        BY <1>1, <3>1, <3>3
    <3> QED
        BY <1>2, <3>4 DEF CutOK, MayCutBefore
  <2> QED
      BY <2>1, <2>2
<1>7. PICK off \in [1 .. sent + 1 -> Int] : Layout(off) /\ (Framed => Position(off))
    BY DEF FrameInv
<1>8. Layout(off)'
    BY <1>3, <1>7, LayoutRead
<1>9. Framed => Position(off)'
    BY <1>2, <1>7 DEF Position, Given
<1>10. Framed => FramesOK'
    BY <1>2, <1>3, FramesSame DEF FrameInv
<1>11. Whole => WholeOK'
    BY <1>2 DEF FrameInv, WholeOK, Given, Body, HeadLen
<1> QED
    BY <1>2, <1>5, <1>6, <1>7, <1>8, <1>9, <1>10, <1>11 DEF FrameInv

LEMMA FrameReadRaw == RecvInv /\ FrameInv /\ ReadRaw => FrameInv'
<1> SUFFICES ASSUME RecvInv, FrameInv, ReadRaw PROVE FrameInv'
    OBVIOUS
<1>1. PICK len : len = Min({Len(input), ReadBufSize}) /\ Discard(len)
    BY DEF ReadRaw
<1>2. /\ pc = "loop" /\ ~is_recv_msg_ /\ pc' \in {"idle", "loop"}
      /\ UNCHANGED <<outbox, cut, sent, wire, is_recv_msg_, msg_, live, got>>
    BY DEF ReadRaw, peer
<1>3. Shape /\ sent \in Nat /\ Len(input) \in Nat /\ msg_.data \in Seq(Byte)
    BY LengthsAreNat DEF RecvInv, Shape
<1>4. len \in 0 .. Len(input)
  <2>1. ReadBufSize \in Nat
      BY FramingAssumption
  <2>2. Min({Len(input), ReadBufSize}) \in 0 .. Len(input)
      BY <1>3, <2>1, MinOfTwo
  <2> QED
      BY <1>1, <2>2
<1>5. Framed' = Framed /\ Whole' = Whole /\ CutOK'
    BY <1>2, FramedSame, CutSame DEF FrameInv
<1>6. PICK off \in [1 .. sent + 1 -> Int] : Layout(off)
    BY DEF FrameInv
<1>7. PICK o \in [1 .. sent' + 1 -> Int] : Layout(o)'
    BY <1>1, <1>2, <1>3, <1>4, <1>6, LayoutTaken
<1>8. Position(o)'
    BY <1>2 DEF Position
<1>9. Framed => FramesOK'
    BY <1>2, <1>3, FramesSame DEF FrameInv
<1>10. Whole => WholeOK'
    BY <1>2 DEF FrameInv, WholeOK, Given, Body, HeadLen
<1> QED
    BY <1>5, <1>7, <1>8, <1>9, <1>10 DEF FrameInv

LEMMA FrameCheckHead == RecvInv /\ FrameInv /\ CheckHead => FrameInv'
<1> SUFFICES ASSUME RecvInv, FrameInv, CheckHead PROVE FrameInv'
    OBVIOUS
<1>1. /\ pc = "check" /\ is_recv_msg_
      /\ UNCHANGED <<outbox, cut, sent, wire, input, is_recv_msg_, got, raw>>
    BY DEF CheckHead, peer, RecvInv, BodyOK
<1>2. Shape /\ sent \in Nat /\ Len(got) \in Nat
    BY LengthsAreNat DEF RecvInv
<1>3. Framed' = Framed /\ Whole' = Whole /\ CutOK'
    BY <1>1, FramedSame, CutSame DEF FrameInv
<1>4. PICK off \in [1 .. sent + 1 -> Int] : Layout(off) /\ (Framed => Position(off))
    BY DEF FrameInv
<1>5. Layout(off)'
    BY <1>1, <1>4, LayoutSame
<1>6. Framed => /\ pc' = "body" /\ live' = live + 1
                /\ msg_' = [msg_ EXCEPT !.data = [k \in 1 .. msg_.head.size |-> Junk]]
  <2> SUFFICES ASSUME Framed
               PROVE  ~(msg_.head.kind = "invalid" \/ msg_.head.size > MsgMaxSize)
      BY DEF CheckHead
  <2>1. /\ Given < sent /\ msg_.head = outbox[Given + 1] /\ msg_.head.kind # "raw"
      BY <1>1, <1>4 DEF Position
  <2>2. Given + 1 \in 1 .. sent
      BY <1>2, <2>1 DEF Given
  <2>3. Given + 1 \in 1 .. Len(outbox) /\ outbox[Given + 1] \in Writes
      BY <1>2, <2>2, WritesOK
  <2>4. outbox[Given + 1].kind = "raw" \/ outbox[Given + 1].size <= MsgMaxSize
      BY <1>2, <2>3, LengthsAreNat DEF Framed, Acceptable
  <2>5. msg_.head.size \in Nat /\ MsgMaxSize \in Nat
      BY <1>2, LengthsAreNat, FramingAssumption
  <2> QED
      BY <2>1, <2>3, <2>4, <2>5 DEF Writes
<1>7. Framed => msg_'.data # NoData /\ msg_'.head = msg_.head /\ msg_'.recved = msg_.recved
  <2> SUFFICES ASSUME Framed
               PROVE  /\ msg_'.data # NoData /\ msg_'.head = msg_.head
                      /\ msg_'.recved = msg_.recved
      OBVIOUS
  <2>1. msg_ \in [head : Heads, data : Seq(Byte), recved : Nat] /\ msg_.head.size \in Nat \ {0}
      BY <1>1, <1>2, LengthsAreNat DEF RecvInv, BodyOK, Shape
  <2>2. [k \in 1 .. msg_.head.size |-> Junk] # <<>>
    <3>1. 1 \in 1 .. msg_.head.size
        BY <2>1
    <3>2. DOMAIN [k \in 1 .. msg_.head.size |-> Junk] # DOMAIN <<>>
        BY <3>1
    <3> QED
        BY <3>2
  <2> QED
      BY <1>6, <2>1, <2>2 DEF NoData
<1>8. Framed => Position(off)'
    BY <1>1, <1>4, <1>6, <1>7 DEF Position, Given
<1>9. Framed => FramesOK'
    BY <1>1, <1>2, FramesSame DEF FrameInv
<1>10. Whole => WholeOK'
  <2> SUFFICES ASSUME Whole PROVE WholeOK'
      OBVIOUS
  <2>1. Framed
      BY DEF Whole, Framed
  <2>2. WholeOK /\ msg_.data = NoData /\ live = 0 /\ msg_.recved = 0
      BY <1>1 DEF FrameInv, WholeOK, RecvInv, BodyOK
  <2> QED
      BY <1>1, <1>6, <1>7, <2>1, <2>2 DEF WholeOK, Given, Body, HeadLen
<1> QED
    BY <1>1, <1>3, <1>4, <1>5, <1>8, <1>9, <1>10 DEF FrameInv

LEMMA FrameEventCB == RecvInv /\ FrameInv /\ EventCB => FrameInv'
<1> SUFFICES ASSUME RecvInv, FrameInv, EventCB PROVE FrameInv'
    OBVIOUS
<1>1. /\ pc = "idle" /\ live' = (IF msg_.data = NoData THEN live ELSE live - 1)
      /\ msg_' = NoMsg /\ pc' = "closed"
      /\ UNCHANGED <<outbox, cut, sent, wire, input, is_recv_msg_, got, raw>>
    BY DEF EventCB, Close, peer
<1>2. Shape /\ sent \in Nat
    BY LengthsAreNat DEF RecvInv
<1>3. Framed' = Framed /\ Whole' = Whole /\ CutOK'
    BY <1>1, FramedSame, CutSame DEF FrameInv
<1>4. PICK off \in [1 .. sent + 1 -> Int] : Layout(off)
    BY DEF FrameInv
<1>5. Layout(off)' /\ Position(off)'
    BY <1>1, <1>4, LayoutSame DEF Position
<1>6. Framed => FramesOK'
    BY <1>1, <1>2, FramesSame DEF FrameInv
<1>7. Whole => WholeOK'
    BY <1>1 DEF FrameInv, WholeOK, Given, Body, HeadLen, NoMsg
<1> QED
    BY <1>1, <1>3, <1>4, <1>5, <1>6, <1>7 DEF FrameInv

\* Where the bytes of a write are that has not been taken, or not all of it.
LEMMA BytesPlaced ==
  ASSUME Shape, NEW off \in [1 .. sent + 1 -> Int], Layout(off),
         NEW i \in 1 .. sent, NEW c \in 1 .. Total(i), NEW x \in Nat \ {0}, off[i] + c = x
  PROVE  /\ x <= Len(input) => input[x] = <<i, c>>
         /\ x = Len(input) + 1 => wire # <<>> /\ wire[1] = <<i, c>>
<1>1. Len(input) \in Nat /\ Len(wire) \in Nat /\ wire \in Seq(Byte)
    BY LengthsAreNat DEF Shape
<1>2. ByteAt(input, wire, x) = <<i, c>>
    BY DEF Layout, StreamByte
<1>3. x <= Len(input) + Len(wire)
    BY InStream
<1>4. x <= Len(input) => input[x] = <<i, c>>
    BY <1>2 DEF ByteAt
<1>5. CASE x = Len(input) + 1
  <2>1. Len(wire) # 0 /\ x - Len(input) = 1 /\ ~(x <= Len(input))
      BY <1>1, <1>3, <1>5
  <2>2. wire[1] = <<i, c>>
      BY <1>2, <2>1 DEF ByteAt
  <2>3. wire # <<>>
      BY <2>1, EmptySeq
  <2> QED
      BY <1>4, <2>2, <2>3
<1> QED
    BY <1>4, <1>5

\* Raw pieces come only behind the message that turns messages off.
LEMMA NextIsMessage ==
  ASSUME RecvInv, Framed, FramesOK, NEW g \in Nat, g = Given, g < sent,
         \A k \in 1 .. Given : got[k].kind # "toRaw"
  PROVE  outbox[g + 1].kind # "raw"
<1> SUFFICES ASSUME outbox[g + 1].kind = "raw" PROVE FALSE
    OBVIOUS
<1>1. Shape /\ sent \in Nat
    BY LengthsAreNat DEF RecvInv
<1>2. g + 1 \in 1 .. sent
    BY <1>1
<1>3. g + 1 \in DOMAIN outbox
    BY <1>1, <1>2, WritesOK, LengthsAreNat
<1>4. PICK j \in 1 .. (g + 1) - 1 : outbox[j].kind = "toRaw"
    BY <1>3 DEF Framed, Announced
<1>5. j \in 1 .. g
    BY <1>4
<1> QED
    BY <1>4, <1>5 DEF FramesOK

\* A head is not cut, so that one is there as soon as its first byte is.
LEMMA HeadWhole ==
  ASSUME RecvInv, Framed, CutOK, FramesOK,
         NEW off \in [1 .. sent + 1 -> Int], Layout(off),
         NEW g \in Nat, g = Given, g <= sent, off[g + 1] = 0,
         \A k \in 1 .. Given : got[k].kind # "toRaw", input # <<>>
  PROVE  /\ g < sent /\ outbox[g + 1].kind # "raw"
         /\ input[1] = <<g + 1, 1>> /\ Len(input) >= HeadSize
<1>1. /\ Shape /\ sent \in Nat /\ Len(input) \in Nat /\ Len(wire) \in Nat
      /\ input \in Seq(Byte) /\ HeadSize \in Nat \ {0}
    BY LengthsAreNat, FramingAssumption DEF RecvInv, Shape
<1>2. Len(input) > 0
    BY <1>1, EmptySeq
<1>3. g < sent
  <2>1. CASE g = sent
    <3>1. off[sent + 1] = Len(input) + Len(wire)
        BY DEF Layout
    <3> QED
        BY <1>1, <1>2, <2>1, <3>1
  <2> QED
      BY <1>1, <2>1
<1>4. outbox[g + 1].kind # "raw"
    BY <1>3, NextIsMessage
<1>5. g + 1 \in 1 .. sent
    BY <1>1, <1>3
<1>6. Total(g + 1) \in Nat /\ Total(g + 1) > HeadSize
  <2>1. HeadLen(g + 1) = HeadSize /\ outbox[g + 1].size \in Nat \ {0}
      BY <1>1, <1>4, <1>5, WritesOK
  <2> QED
      BY <1>1, <2>1 DEF Total
<1>7. \A c \in 1 .. Total(g + 1) :
        /\ c <= Len(input) => input[c] = <<g + 1, c>>
        /\ c = Len(input) + 1 => wire # <<>> /\ wire[1] = <<g + 1, c>>
  <2> SUFFICES ASSUME NEW c \in 1 .. Total(g + 1)
               PROVE  /\ c <= Len(input) => input[c] = <<g + 1, c>>
                      /\ c = Len(input) + 1 => wire # <<>> /\ wire[1] = <<g + 1, c>>
      OBVIOUS
  <2>1. c \in Nat \ {0} /\ off[g + 1] + c = c
      BY <1>6
  <2>2. \A x \in Nat \ {0} : off[g + 1] + c = x =>
          /\ x <= Len(input) => input[x] = <<g + 1, c>>
          /\ x = Len(input) + 1 => wire # <<>> /\ wire[1] = <<g + 1, c>>
      BY <1>1, <1>5, BytesPlaced, Zenon
  <2> QED
      BY <2>1, <2>2
<1>8. 1 \in 1 .. Total(g + 1) /\ 1 <= Len(input)
    BY <1>1, <1>2, <1>6
<1>9. Len(input) >= HeadSize
  <2> SUFFICES ASSUME Len(input) < HeadSize PROVE FALSE
      BY <1>1
  <2>1. Len(input) + 1 \in 1 .. Total(g + 1)
      BY <1>1, <1>2, <1>6
  <2>2. wire # <<>> /\ wire[1] = <<g + 1, Len(input) + 1>>
      BY <1>7, <2>1
  <2>3. MayCutBefore(<<g + 1, Len(input) + 1>>)
      BY <2>2 DEF CutOK
  <2>4. ~(Len(input) + 1 = 1) /\ ~(Len(input) + 1 > HeadSize)
      BY <1>1, <1>2
  <2> QED
      BY <1>4, <2>3, <2>4 DEF MayCutBefore, Framed
<1> QED
    BY <1>3, <1>4, <1>7, <1>8, <1>9

\* A message that is not cut has its body there when its head has been taken.
LEMMA BodyWhole ==
  ASSUME RecvInv, Whole, CutOK,
         NEW off \in [1 .. sent + 1 -> Int], Layout(off),
         NEW g \in Nat, g < sent, off[g + 1] + HeadSize = 0, outbox[g + 1].kind # "raw"
  PROVE  /\ Len(input) >= outbox[g + 1].size
         /\ \A k \in 1 .. outbox[g + 1].size : input[k] = <<g + 1, HeadSize + k>>
<1> DEFINE size == outbox[g + 1].size
<1>1. Shape /\ sent \in Nat /\ Len(input) \in Nat /\ HeadSize \in Nat \ {0}
    BY LengthsAreNat, FramingAssumption DEF RecvInv
<1>2. g + 1 \in 1 .. sent
    BY <1>1
<1>3. HeadLen(g + 1) = HeadSize /\ size \in Nat \ {0}
    BY <1>1, <1>2, WritesOK
<1>4. off[g + 1] \in Int
  <2>1. g + 1 \in 1 .. sent + 1
      BY <1>1
  <2> QED
      BY <2>1
<1> HIDE DEF size
<1>5. Total(g + 1) = HeadSize + size
    BY <1>3 DEF Total, size
<1>6. \A k \in 1 .. size :
        /\ k <= Len(input) => input[k] = <<g + 1, HeadSize + k>>
        /\ k = Len(input) + 1 => wire # <<>> /\ wire[1] = <<g + 1, HeadSize + k>>
  <2> SUFFICES ASSUME NEW k \in 1 .. size
               PROVE  /\ k <= Len(input) => input[k] = <<g + 1, HeadSize + k>>
                      /\ k = Len(input) + 1 => wire # <<>> /\ wire[1] = <<g + 1, HeadSize + k>>
      OBVIOUS
  <2>1. k \in Nat \ {0} /\ HeadSize + k \in 1 .. Total(g + 1)
      BY <1>1, <1>3, <1>5
  <2>2. off[g + 1] + (HeadSize + k) = k
      BY <1>1, <1>4, <2>1, SMTT(30)
  <2> QED
      BY <1>1, <1>2, <2>1, <2>2, BytesPlaced, ZenonT(40)
<1>7. Len(input) >= size
  <2> SUFFICES ASSUME Len(input) < size PROVE FALSE
      BY <1>1, <1>3
  <2>1. Len(input) + 1 \in 1 .. size
      BY <1>1, <1>3
  <2>2. wire # <<>> /\ wire[1] = <<g + 1, HeadSize + (Len(input) + 1)>>
      BY <1>6, <2>1
  <2>3. MayCutBefore(<<g + 1, HeadSize + (Len(input) + 1)>>)
      BY <2>2 DEF CutOK
  <2>4. ~(HeadSize + (Len(input) + 1) = 1)
      BY <1>1
  <2> QED
      BY <2>3, <2>4 DEF MayCutBefore, Whole
<1>8. \A k \in 1 .. size : k <= Len(input)
    BY <1>1, <1>3, <1>7
<1> QED
    BY <1>6, <1>7, <1>8 DEF size

LEMMA FrameReadHead == RecvInv /\ FrameInv /\ ReadHead => FrameInv'
<1> SUFFICES ASSUME RecvInv, FrameInv, ReadHead PROVE FrameInv'
    OBVIOUS
<1>1. /\ pc = "loop" /\ is_recv_msg_
      /\ UNCHANGED <<outbox, cut, sent, wire, is_recv_msg_, live, got, raw>>
    BY DEF ReadHead, peer
<1>2. /\ Shape /\ sent \in Nat /\ Len(input) \in Nat /\ Len(got) \in Nat
      /\ HeadSize \in Nat \ {0} /\ msg_ \in [head : Heads, data : Seq(Byte), recved : Nat]
    BY LengthsAreNat, FramingAssumption DEF RecvInv, Shape
<1>3. Framed' = Framed /\ Whole' = Whole /\ CutOK'
    BY <1>1, FramedSame, CutSame DEF FrameInv
<1>4. PICK off \in [1 .. sent + 1 -> Int] : Layout(off) /\ (Framed => Position(off))
    BY DEF FrameInv
<1>5. Framed => FramesOK'
    BY <1>1, <1>2, FramesSame DEF FrameInv
<1>6. Given' = Given /\ Given \in Nat
    BY <1>1, <1>2 DEF Given
<1>7. CASE msg_.data # NoData
  <2>1. pc' = "check" /\ UNCHANGED <<input, msg_>>
      BY <1>7 DEF ReadHead
  <2>2. Layout(off)'
      BY <1>1, <1>4, <2>1, LayoutSame
  <2>3. Framed => Position(off)'
      BY <1>1, <1>4, <1>6, <1>7, <2>1 DEF Position
  <2>4. Whole => WholeOK'
      BY <1>1, <1>7 DEF FrameInv, WholeOK
  <2> QED
      BY <1>1, <1>3, <1>4, <1>5, <2>2, <2>3, <2>4 DEF FrameInv
<1>8. CASE msg_.data = NoData
  <2>1. PICK len : /\ len = Min({Len(input), HeadSize}) /\ Discard(len)
                   /\ IF len < HeadSize
                      THEN pc' = "idle" /\ UNCHANGED msg_
                      ELSE /\ pc' = "check"
                           /\ \E h \in IF /\ input[1][2] = 1
                                          /\ outbox[input[1][1]].kind # "raw"
                                       THEN {outbox[input[1][1]]}
                                       ELSE StrayHeads :
                                msg_' = [msg_ EXCEPT !.head = h]
      BY <1>8 DEF ReadHead
  <2>2. /\ len \in 0 .. Len(input) /\ len \in Nat
        /\ len = IF Len(input) <= HeadSize THEN Len(input) ELSE HeadSize
    <3>1. Min({Len(input), HeadSize}) = IF Len(input) <= HeadSize THEN Len(input) ELSE HeadSize
        BY <1>2, MinOfTwo
    <3> QED
        BY <1>2, <2>1, <3>1
  <2>3. msg_'.data = NoData /\ msg_'.recved = 0 /\ msg_.recved = 0
      BY <1>2, <1>8, <2>1 DEF RecvInv, BodyOK
  <2>4. PICK o \in [1 .. sent' + 1 -> Int] :
          Layout(o)' /\ \A i \in 1 .. sent + 1 : o[i] = off[i] - len
      BY <1>1, <1>2, <1>4, <2>1, <2>2, LayoutTaken
  <2>5. Framed => Position(o)'
    <3> SUFFICES ASSUME Framed PROVE Position(o)'
        OBVIOUS
    <3>1. PICK g \in Nat : g = Given
        BY <1>6
    <3>2. /\ g <= sent /\ off[g + 1] = 0
          /\ \A k \in 1 .. Given : got[k].kind # "toRaw"
        BY <1>1, <1>4, <1>8, <3>1 DEF Position
    <3>3. g + 1 \in 1 .. sent + 1
        BY <1>2, <3>2
    <3>4. o[g + 1] = 0 - len
        BY <2>4, <3>2, <3>3
    <3>5. CASE input = <<>>
      <4>1. len = 0 /\ pc' = "idle" /\ UNCHANGED msg_
          BY <1>2, <2>1, <2>2, <3>5, EmptySeq
      <4>2. o[g + 1] = 0
          BY <3>4, <4>1
      <4> QED
          BY <1>1, <1>6, <2>3, <3>1, <3>2, <4>1, <4>2 DEF Position
    <3>6. CASE input # <<>>
      <4>1. /\ g < sent /\ outbox[g + 1].kind # "raw"
            /\ input[1] = <<g + 1, 1>> /\ Len(input) >= HeadSize
          BY <1>4, <3>1, <3>2, <3>6, HeadWhole DEF FrameInv
      <4>2. len = HeadSize
          BY <1>2, <2>2, <4>1
      <4>3. pc' = "check" /\ msg_' = [msg_ EXCEPT !.head = outbox[g + 1]]
          BY <1>2, <2>1, <4>1, <4>2
      <4>4. msg_'.head = outbox[g + 1]
          BY <1>2, <4>3
      <4>5. o[g + 1] + HeadSize + msg_'.recved = 0
          BY <1>2, <2>3, <3>4, <4>2
      <4> QED
          BY <1>1, <1>6, <3>1, <3>2, <4>1, <4>3, <4>4, <4>5 DEF Position
    <3> QED
        BY <3>5, <3>6
  <2>6. Whole => WholeOK'
    <3>1. pc' \in {"idle", "check"}
        BY <2>1
    <3>2. Whole => live = 0 /\ \A k \in 1 .. Given : got[k].data = Body(k)
        BY <1>8 DEF FrameInv, WholeOK
    <3> QED
        BY <1>1, <1>6, <2>3, <3>1, <3>2 DEF WholeOK, Body, HeadLen
  <2> QED
      BY <1>1, <1>3, <1>5, <2>4, <2>5, <2>6 DEF FrameInv
<1> QED
    BY <1>7, <1>8

LEMMA FrameDeliver == RecvInv /\ FrameInv /\ Deliver => FrameInv'
<1> SUFFICES ASSUME RecvInv, FrameInv, Deliver PROVE FrameInv'
    OBVIOUS
<1>1. /\ pc = "deliver" /\ is_recv_msg_ /\ msg_.data # NoData /\ msg_.head.kind \in Kinds
      /\ Len(msg_.data) = msg_.head.size
      /\ live \in Nat /\ live' = live - 1 /\ msg_' = NoMsg
      /\ pc' = (IF msg_.head.kind = "close" THEN "closed" ELSE "loop")
      /\ got' = Append(got, [kind |-> msg_.head.kind, data |-> msg_.data])
      /\ is_recv_msg_' = (is_recv_msg_ /\ msg_.head.kind # "toRaw")
      /\ UNCHANGED <<outbox, cut, sent, wire, input, raw>>
    BY SMTT(30) DEF Deliver, Close, peer, RecvInv, BodyOK, Shape
<1>2. PICK g \in Nat : g = Given
    BY LengthsAreNat DEF RecvInv, Given
<1>3. /\ Shape /\ sent \in Nat /\ Given' = g + 1 /\ \A k \in 1 .. g : got'[k] = got[k]
      /\ got'[g + 1] = [kind |-> msg_.head.kind, data |-> msg_.data]
  <2>1. got \in Seq([kind : Kinds, data : Seq(Byte)]) /\ Len(got) = g
      BY <1>2 DEF RecvInv, Shape, Given
  <2>2. [kind |-> msg_.head.kind, data |-> msg_.data] \in [kind : Kinds, data : Seq(Byte)]
      BY <1>1 DEF RecvInv, Shape
  <2> QED
      BY <1>1, <2>1, <2>2, LengthsAreNat DEF RecvInv, Given
<1>4. Framed' = Framed /\ Whole' = Whole /\ CutOK'
    BY <1>1, FramedSame, CutSame DEF FrameInv
<1>5. PICK off \in [1 .. sent + 1 -> Int] : Layout(off) /\ (Framed => Position(off))
    BY DEF FrameInv
<1>6. Layout(off)'
    BY <1>1, <1>5, LayoutSame
<1>7. Framed => /\ g < sent /\ msg_.head = outbox[g + 1] /\ msg_.head.kind # "raw"
                /\ off[g + 2] = 0
                /\ msg_.data[msg_.head.size] = <<g + 1, HeadSize + msg_.head.size>>
                /\ \A k \in 1 .. g : got[k].kind # "toRaw"
    BY <1>1, <1>2, <1>5 DEF Position
<1>8. Framed => Position(off)'
  <2> SUFFICES ASSUME Framed, msg_.head.kind # "toRaw", pc' = "loop" PROVE Position(off)'
      BY <1>1 DEF Position
  <2>1. g + 1 <= sent /\ (g + 1) + 1 = g + 2
      BY <1>3, <1>7
  <2>2. \A k \in 1 .. g + 1 : got'[k].kind # "toRaw"
    <3>1. \A k \in 1 .. g + 1 : k \in 1 .. g \/ k = g + 1
        OBVIOUS
    <3> QED
        BY <1>3, <1>7, <3>1, SMTT(30)
  <2>3. msg_'.data = NoData
      BY <1>1 DEF NoMsg
  <2> QED
      BY <1>1, <1>3, <1>7, <2>1, <2>2, <2>3 DEF Position
<1>9. Framed => FramesOK'
  <2> SUFFICES ASSUME Framed, NEW k \in 1 .. g + 1
               PROVE  /\ k <= sent /\ got'[k].kind = outbox[k].kind
                      /\ Len(got'[k].data) = outbox[k].size
                      /\ got'[k].data[outbox[k].size] = <<k, HeadLen(k) + outbox[k].size>>
      BY <1>1, <1>3 DEF FramesOK, HeadLen
  <2>1. CASE k \in 1 .. g
      BY <1>2, <1>3, <2>1 DEF FrameInv, FramesOK
  <2>2. CASE k = g + 1
    <3>1. k <= sent /\ outbox[k] = msg_.head
        BY <1>3, <1>7, <2>2
    <3>2. HeadLen(k) = HeadSize
        BY <1>7, <3>1 DEF HeadLen
    <3>3. got'[k].kind = msg_.head.kind /\ got'[k].data = msg_.data
        BY <1>3, <2>2
    <3>4. Len(msg_.data) = msg_.head.size
        BY <1>1
    <3>5. msg_.data[msg_.head.size] = <<k, HeadSize + msg_.head.size>>
        BY <1>7, <2>2
    <3> QED
        BY <3>1, <3>2, <3>3, <3>4, <3>5
  <2> QED
      BY <2>1, <2>2
<1>10. Whole => WholeOK'
  <2> SUFFICES ASSUME Whole PROVE WholeOK'
      OBVIOUS
  <2>1. msg_'.data = NoData /\ pc' # "body" /\ pc' # "deliver" /\ live' = 0
      BY <1>1 DEF NoMsg, FrameInv, WholeOK
  <2>2. ASSUME NEW k \in 1 .. g + 1 PROVE got'[k].data = Body(k)
    <3>1. CASE k \in 1 .. g
        BY <1>2, <1>3, <3>1 DEF FrameInv, WholeOK
    <3>2. CASE k = g + 1
      <4>1. got'[k].data = msg_.data
          BY <1>3, <3>2
      <4>2. msg_.data = Body(Given + 1)
          BY <1>1 DEF FrameInv, WholeOK
      <4> QED
          BY <1>2, <3>2, <4>1, <4>2
    <3> QED
        BY <3>1, <3>2
  <2> QED
      BY <1>1, <1>3, <2>1, <2>2 DEF WholeOK, Body, HeadLen
<1> QED
    BY <1>1, <1>4, <1>5, <1>6, <1>8, <1>9, <1>10 DEF FrameInv

LEMMA FrameStutter == RecvInv /\ FrameInv /\ UNCHANGED vars => FrameInv'
<1> SUFFICES ASSUME RecvInv, FrameInv, UNCHANGED vars PROVE FrameInv'
    OBVIOUS
<1>1. UNCHANGED <<outbox, cut, sent, wire, input, pc, is_recv_msg_, msg_, live, got, raw>>
    BY DEF vars
<1>2. Shape /\ sent \in Nat
    BY LengthsAreNat DEF RecvInv
<1>3. Framed' = Framed /\ Whole' = Whole /\ CutOK'
    BY <1>1, FramedSame, CutSame DEF FrameInv
<1>4. PICK off \in [1 .. sent + 1 -> Int] : Layout(off) /\ (Framed => Position(off))
    BY DEF FrameInv
<1>5. Layout(off)' /\ (Framed => Position(off)')
    BY <1>1, <1>4, LayoutSame DEF Position, Given
<1>6. Framed => FramesOK'
    BY <1>1, <1>2, FramesSame DEF FrameInv
<1>7. Whole => WholeOK'
    BY <1>1 DEF FrameInv, WholeOK, Given, Body, HeadLen
<1> QED
    BY <1>1, <1>3, <1>4, <1>5, <1>6, <1>7 DEF FrameInv

LEMMA FrameReadBody == RecvInv /\ FrameInv /\ ReadBody => FrameInv'
<1> SUFFICES ASSUME RecvInv, FrameInv, ReadBody PROVE FrameInv'
    OBVIOUS
<1>1. /\ pc = "body" /\ is_recv_msg_ /\ msg_.data # NoData
      /\ Len(msg_.data) = msg_.head.size /\ msg_.recved < msg_.head.size
      /\ UNCHANGED <<outbox, cut, sent, wire, is_recv_msg_, live, got, raw>>
    BY DEF ReadBody, peer, RecvInv, BodyOK
<1>2. /\ Shape /\ sent \in Nat /\ Len(input) \in Nat /\ HeadSize \in Nat \ {0}
      /\ msg_.recved \in Nat /\ msg_.head.size \in Nat
      /\ DOMAIN msg_.data = 1 .. msg_.head.size
    BY <1>1, LengthsAreNat, FramingAssumption DEF RecvInv
<1>3. PICK len \in 0 .. Len(input) :
        /\ Discard(len) /\ len = Min({Len(input), msg_.head.size - msg_.recved})
        /\ len <= msg_.head.size - msg_.recved /\ msg_.recved + len \in Nat
        /\ \/ len = 0 /\ pc' = "idle" /\ msg_' = msg_
           \/ /\ len > 0
              /\ msg_'.head = msg_.head /\ msg_'.recved = msg_.recved + len
              /\ msg_'.data =
                   [k \in DOMAIN msg_.data |->
                      IF k \in msg_.recved + 1 .. msg_.recved + len
                      THEN input[k - msg_.recved] ELSE msg_.data[k]]
              /\ msg_'.data \in Seq(Byte) /\ Len(msg_'.data) = Len(msg_.data)
              /\ msg_' \in [head : Heads, data : Seq(Byte), recved : Nat]
              /\ pc' = IF msg_.recved + len = msg_.head.size THEN "deliver" ELSE "loop"
    BY ReadBodyTakes, Zenon
<1>4. len \in Nat /\ len <= Len(input) /\ len <= msg_.head.size - msg_.recved
    BY <1>2, <1>3
<1>5. Framed' = Framed /\ Whole' = Whole /\ CutOK'
    BY <1>1, FramedSame, CutSame DEF FrameInv
<1>6. PICK off \in [1 .. sent + 1 -> Int] : Layout(off) /\ (Framed => Position(off))
    BY DEF FrameInv
<1>7. PICK o \in [1 .. sent' + 1 -> Int] :
        Layout(o)' /\ \A i \in 1 .. sent + 1 : o[i] = off[i] - len
    BY <1>1, <1>2, <1>3, <1>6, LayoutTaken, SMTT(30)
<1>8. Framed => FramesOK'
    BY <1>1, <1>2, FramesSame DEF FrameInv
<1>9. PICK g \in Nat : g = Given
    BY LengthsAreNat DEF RecvInv, Given
<1>10. Given' = g
    BY <1>1, <1>9 DEF Given
<1>11. Framed => /\ g < sent /\ msg_.head = outbox[g + 1] /\ msg_.head.kind # "raw"
                 /\ off[g + 1] + HeadSize + msg_.recved = 0
                 /\ \A k \in 1 .. g : got[k].kind # "toRaw"
    BY <1>1, <1>6, <1>9 DEF Position
<1>12. Framed => o[g + 1] + HeadSize + (msg_.recved + len) = 0
  <2> SUFFICES ASSUME Framed PROVE o[g + 1] + HeadSize + (msg_.recved + len) = 0
      OBVIOUS
  <2>1. g + 1 \in 1 .. sent + 1
      BY <1>2, <1>11
  <2>2. o[g + 1] = off[g + 1] - len /\ off[g + 1] \in Int
      BY <1>7, <2>1
  <2>3. off[g + 1] + HeadSize + msg_.recved = 0
      BY <1>11
  <2> QED
      BY <1>2, <1>4, <2>2, <2>3, SMTT(30)
<1>13. /\ msg_.recved \in Nat /\ msg_.head.size \in Nat
       /\ Len(input) \in Nat /\ HeadSize \in Nat \ {0}
       /\ msg_.recved < msg_.head.size
    BY <1>1, <1>2
<1>14. Whole => /\ Framed /\ msg_.recved = 0 /\ live = 1 /\ len = msg_.head.size
                /\ \A k \in 1 .. g : got[k].data = Body(k)
                /\ \A k \in 1 .. msg_.head.size : input[k] = <<g + 1, HeadSize + k>>
  <2> SUFFICES ASSUME Whole
               PROVE  /\ Framed /\ msg_.recved = 0 /\ live = 1 /\ len = msg_.head.size
                      /\ \A k \in 1 .. g : got[k].data = Body(k)
                      /\ \A k \in 1 .. msg_.head.size : input[k] = <<g + 1, HeadSize + k>>
      OBVIOUS
  <2>1. Framed /\ msg_.recved = 0 /\ live = 1 /\ \A k \in 1 .. g : got[k].data = Body(k)
      BY <1>1, <1>9 DEF Framed, Whole, FrameInv, WholeOK
  <2>2. /\ g < sent /\ msg_.head = outbox[g + 1] /\ outbox[g + 1].kind # "raw"
        /\ off[g + 1] + HeadSize + msg_.recved = 0
      BY <1>11, <2>1
  <2>3. off[g + 1] + HeadSize = 0
    <3>1. g + 1 \in 1 .. sent + 1
        BY <1>2, <2>2
    <3>2. off[g + 1] \in Int
        BY <3>1
    <3> QED
        BY <1>13, <2>1, <2>2, <3>2
  <2>4. CutOK /\ Layout(off)
      BY <1>6 DEF FrameInv
  <2>5. /\ Len(input) >= outbox[g + 1].size
        /\ \A k \in 1 .. outbox[g + 1].size : input[k] = <<g + 1, HeadSize + k>>
      BY <2>2, <2>3, <2>4, BodyWhole
  <2>6. Len(input) >= msg_.head.size /\ msg_.head.size - msg_.recved = msg_.head.size
      BY <1>13, <2>1, <2>2, <2>5
  <2>7. len = Min({Len(input), msg_.head.size})
      BY <1>3, <2>6
  <2>8. len = msg_.head.size
    <3>1. Min({Len(input), msg_.head.size})
            = IF Len(input) <= msg_.head.size THEN Len(input) ELSE msg_.head.size
        BY <1>13, MinOfTwo
    <3> QED
        BY <1>13, <2>6, <2>7, <3>1
  <2> QED
      BY <2>1, <2>2, <2>5, <2>8
<1>15. CASE len = 0 /\ pc' = "idle" /\ msg_' = msg_
  <2>1. Framed => Position(o)'
    <3> SUFFICES ASSUME Framed PROVE Position(o)'
        OBVIOUS
    <3>1. o[g + 1] + HeadSize + msg_'.recved = 0
        BY <1>12, <1>13, <1>15
    <3>2. \A k \in 1 .. g : got[k].kind # "toRaw"
        BY <1>11
    <3>3. g < sent /\ g <= sent /\ msg_'.head = outbox[g + 1] /\ msg_'.head.kind # "raw"
        BY <1>2, <1>11, <1>15
    <3> QED
        BY <1>1, <1>10, <1>15, <3>1, <3>2, <3>3 DEF Position
  <2>2. Whole => FALSE
      BY <1>13, <1>14, <1>15
  <2> QED
      BY <1>1, <1>5, <1>7, <1>8, <2>1, <2>2 DEF FrameInv
<1>16. CASE /\ len > 0
            /\ msg_'.head = msg_.head /\ msg_'.recved = msg_.recved + len
            /\ msg_'.data =
                 [k \in DOMAIN msg_.data |->
                    IF k \in msg_.recved + 1 .. msg_.recved + len
                    THEN input[k - msg_.recved] ELSE msg_.data[k]]
            /\ msg_'.data \in Seq(Byte) /\ Len(msg_'.data) = Len(msg_.data)
            /\ msg_' \in [head : Heads, data : Seq(Byte), recved : Nat]
            /\ pc' = IF msg_.recved + len = msg_.head.size THEN "deliver" ELSE "loop"
  <2>0. /\ msg_'.head = msg_.head /\ msg_'.recved = msg_.recved + len
        /\ msg_'.data \in Seq(Byte) /\ Len(msg_'.data) = msg_.head.size
        /\ pc' = IF msg_.recved + len = msg_.head.size THEN "deliver" ELSE "loop"
      BY <1>1, <1>16
  <2>1. msg_'.data # NoData
    <3>1. Len(msg_'.data) # 0
        BY <1>13, <2>0
    <3> QED
        BY <3>1 DEF NoData
  <2>2. \A k \in 1 .. msg_.head.size :
          msg_'.data[k] = IF k \in msg_.recved + 1 .. msg_.recved + len
                          THEN input[k - msg_.recved] ELSE msg_.data[k]
      BY <1>2, <1>16
  <2>3. CASE msg_.recved + len = msg_.head.size
    <3>1. pc' = "deliver"
        BY <2>0, <2>3
    <3>2. Framed => Position(o)'
      <4> SUFFICES ASSUME Framed PROVE Position(o)'
          OBVIOUS
      <4>1. g + 1 \in 1 .. sent /\ g + 1 \in 1 .. sent + 1 /\ (g + 1) + 1 = g + 2
          BY <1>2, <1>11
      <4>2. Total(g + 1) = HeadSize + msg_.head.size
        <5>1. HeadLen(g + 1) = HeadSize
            BY <1>11 DEF HeadLen
        <5> QED
            BY <1>11, <5>1 DEF Total
      <4>3. o[g + 2] = 0
        <5>1. (o[(g + 1) + 1] = o[g + 1] + Total(g + 1))'
            BY <1>1, <1>7, <4>1 DEF Layout
        <5>2. o[g + 2] = o[g + 1] + (HeadSize + msg_.head.size)
            BY <1>1, <4>1, <4>2, <5>1 DEF Total, HeadLen
        <5>3. o[g + 1] \in Int /\ o[g + 1] + HeadSize + msg_.head.size = 0
            BY <1>1, <1>7, <1>12, <2>3, <4>1
        <5> QED
            BY <1>2, <5>2, <5>3
      <4>4. msg_'.data[msg_.head.size] = <<g + 1, HeadSize + msg_.head.size>>
        <5>0. PICK x : x = msg_.head.size - msg_.recved
            OBVIOUS
        <5>1. /\ x \in Nat \ {0} /\ x <= Len(input)
              /\ msg_.head.size \in 1 .. msg_.head.size
              /\ msg_.head.size \in msg_.recved + 1 .. msg_.recved + len
            BY <1>4, <1>13, <2>3, <5>0
        <5>2. msg_'.data[msg_.head.size] = input[x]
            BY <2>2, <5>0, <5>1
        <5>3. HeadSize + msg_.head.size \in 1 .. Total(g + 1)
            BY <1>13, <4>2
        <5>4. off[g + 1] + (HeadSize + msg_.head.size) = x
          <6>1. off[g + 1] \in Int /\ off[g + 1] + HeadSize + msg_.recved = 0
              BY <1>11, <4>1
          <6>2. PICK a \in Int, h \in Int, r \in Int, z \in Int :
                  a = off[g + 1] /\ h = HeadSize /\ r = msg_.recved /\ z = msg_.head.size
              BY <1>13, <6>1
          <6>3. a + h + r = 0
              BY <6>1, <6>2
          <6>4. a + (h + z) = z - r
              BY <6>3
          <6> QED
              BY <5>0, <6>2, <6>4
        <5>5. Shape /\ Layout(off)
            BY <1>2, <1>6
        <5>6. input[x] = <<g + 1, HeadSize + msg_.head.size>>
            BY <4>1, <5>1, <5>3, <5>4, <5>5, BytesPlaced, ZenonT(40)
        <5> QED
            BY <5>2, <5>6
      <4>5. /\ g < sent /\ g <= sent /\ msg_'.head = outbox[g + 1] /\ msg_'.head.kind # "raw"
            /\ \A k \in 1 .. g : got[k].kind # "toRaw"
          BY <1>2, <1>11, <2>0
      <4>6. msg_'.data[msg_'.head.size] = <<g + 1, HeadSize + msg_'.head.size>>
          BY <2>0, <4>4
      <4> QED
          BY <1>1, <1>10, <3>1, <4>3, <4>5, <4>6 DEF Position
    <3>3. Whole => WholeOK'
      <4> SUFFICES ASSUME Whole PROVE WholeOK'
          OBVIOUS
      <4>1. /\ msg_.recved = 0 /\ live = 1 /\ \A k \in 1 .. g : got[k].data = Body(k)
            /\ \A k \in 1 .. msg_.head.size : input[k] = <<g + 1, HeadSize + k>>
            /\ len = msg_.head.size
          BY <1>14
      <4>2. ASSUME NEW k \in 1 .. msg_.head.size
            PROVE  msg_'.data[k] = <<g + 1, HeadSize + k>>
        <5>1. k \in msg_.recved + 1 .. msg_.recved + len /\ k - msg_.recved = k
            BY <1>13, <4>1
        <5> QED
            BY <2>2, <4>1, <5>1
      <4>3. msg_'.data = [k \in 1 .. msg_.head.size |-> <<g + 1, HeadSize + k>>]
        <5>1. DOMAIN msg_'.data = 1 .. msg_.head.size
            BY <2>0
        <5> QED
            BY <1>2, <1>16, <4>2
      <4>4. msg_'.data = Body(g + 1)
          BY <1>11, <1>14, <4>3 DEF Body, HeadLen
      <4>5. (msg_.data = Body(g + 1))'
          BY <1>1, <4>4 DEF Body, HeadLen
      <4>6. (\A k \in 1 .. g : got[k].data = Body(k))'
          BY <1>1, <4>1 DEF Body, HeadLen
      <4> QED
          BY <1>1, <1>10, <2>1, <3>1, <4>1, <4>5, <4>6 DEF WholeOK
    <3> QED
        BY <1>1, <1>5, <1>7, <1>8, <3>2, <3>3 DEF FrameInv
  <2>4. CASE msg_.recved + len # msg_.head.size
    <3>1. pc' = "loop"
        BY <2>0, <2>4
    <3>2. Framed => Position(o)'
      <4> SUFFICES ASSUME Framed PROVE Position(o)'
          OBVIOUS
      <4>1. /\ g < sent /\ g <= sent /\ msg_'.head = outbox[g + 1] /\ msg_'.head.kind # "raw"
            /\ \A k \in 1 .. g : got[k].kind # "toRaw"
          BY <1>2, <1>11, <2>0
      <4>2. o[g + 1] + HeadSize + msg_'.recved = 0
          BY <1>12, <2>0
      <4> QED
          BY <1>1, <1>10, <2>1, <3>1, <4>1, <4>2 DEF Position
    <3>3. Whole => FALSE
        BY <1>13, <1>14, <2>4
    <3> QED
        BY <1>1, <1>5, <1>7, <1>8, <3>2, <3>3 DEF FrameInv
  <2> QED
      BY <2>3, <2>4
<1> QED
    BY <1>3, <1>15, <1>16

LEMMA FrameNext == RecvInv /\ FrameInv /\ [Next]_vars => FrameInv'
  BY FrameWrite, FrameReadEvent, FrameReadRaw, FrameReadHead, FrameCheckHead,
     FrameReadBody, FrameDeliver, FrameEventCB, FrameStutter DEF Next, ReadCB

\* However the network cuts the bodies, ReadCB() is never out of step with the stream.
THEOREM FramingInvariant == Spec => []FrameInv
  BY ReceiverInvariant, FrameInit, FrameNext, PTL DEF Spec

\* With bodies cut anywhere the k-th message given to the business class has the type,
\* the size and the last byte of the k-th one written.
THEOREM ReceiverKeepsFraming == Spec => []FramingKept
<1>1. RecvInv /\ FrameInv => FramingKept
  <2> SUFFICES ASSUME RecvInv, FrameInv, Framed, NEW k \in DOMAIN got
               PROVE  /\ k <= sent
                      /\ got[k].kind = outbox[k].kind
                      /\ Len(got[k].data) = outbox[k].size
                      /\ Last(got[k].data) = Last(Body(k))
      BY DEF FramingKept
  <2>1. Shape /\ sent \in Nat /\ k \in 1 .. Given /\ k \in Nat
      BY LengthsAreNat DEF RecvInv, Given
  <2>2. /\ k <= sent /\ got[k].kind = outbox[k].kind /\ Len(got[k].data) = outbox[k].size
        /\ got[k].data[outbox[k].size] = <<k, HeadLen(k) + outbox[k].size>>
      BY <2>1 DEF FrameInv, FramesOK
  <2>3. k \in 1 .. sent
      BY <2>1, <2>2
  <2>4. HeadLen(k) \in Nat /\ outbox[k].size \in Nat \ {0}
      BY <2>1, <2>3, WritesOK
  <2>5. Len(Body(k)) = outbox[k].size
      BY <2>4 DEF Body
  <2>6. Body(k)[outbox[k].size] = <<k, HeadLen(k) + outbox[k].size>>
      BY <2>4 DEF Body
  <2> QED
      BY <2>2, <2>5, <2>6 DEF Last
<1> QED
    BY <1>1, ReceiverInvariant, FramingInvariant, PTL

\* Messages that come whole are given as they were written.
THEOREM ReceiverDeliversWhole == Spec => []WholeDelivered
<1>1. RecvInv /\ FrameInv => WholeDelivered
  <2> SUFFICES ASSUME RecvInv, FrameInv, Whole, NEW k \in DOMAIN got
               PROVE  got[k] = [kind |-> outbox[k].kind, data |-> Body(k)]
      BY DEF WholeDelivered, DeliveredIntact
  <2>1. k \in 1 .. Given
      BY LengthsAreNat DEF RecvInv, Given
  <2>2. got[k].kind = outbox[k].kind /\ got[k].data = Body(k)
      BY <2>1 DEF FrameInv, FramesOK, WholeOK, Framed, Whole
  <2>3. got[k] \in [kind : Kinds, data : Seq(Byte)]
    <3>1. got \in Seq([kind : Kinds, data : Seq(Byte)]) /\ k \in 1 .. Len(got)
        BY <2>1 DEF RecvInv, Shape, Given
    <3> QED
        BY <3>1, ElementOfSeq
  <2> QED
      BY <2>2, <2>3
<1> QED
    BY <1>1, ReceiverInvariant, FramingInvariant, PTL

\* While messages come whole every buffer is released with its message.
THEOREM ReceiverLeaksNothing == Spec => []NoBufferLeak
<1>1. FrameInv => NoBufferLeak
    BY DEF FrameInv, WholeOK, NoBufferLeak
<1> QED
    BY <1>1, FramingInvariant, PTL
--------------------------------------------------------------------------------
(* FlattenSeq, by the least counterexample. *)

LEMMA LeastNat ==
  ASSUME NEW T \in SUBSET Nat, T # {}
  PROVE  \E n \in T : \A m \in T : n <= m
<1> DEFINE R == OpToRel(<, Nat)
<1>1. IsWellFoundedOn(R, Nat)
    BY NatLessThanWellFounded, Zenon
<1>2. PICK n \in T : \A m \in T : << m, n >> \notin R
    BY <1>1, WFMin, Zenon
<1>3. \A m \in T : ~(m < n)
    BY <1>2 DEF OpToRel
<1> QED
    BY <1>3

\* What FlattenSeq computes along s, up to n.
FlatUpTo(s, n, g) ==
  g = [i \in 1 .. n |-> IF i = 1 THEN s[i] ELSE g[i - 1] \o s[i]]

LEMMA FlatMore ==
  ASSUME NEW s, NEW n \in Nat, n # 0, NEW g, FlatUpTo(s, n - 1, g)
  PROVE  \E h : FlatUpTo(s, n, h)
<1> DEFINE e == IF n = 1 THEN s[n] ELSE g[n - 1] \o s[n]
           h == [i \in 1 .. n |-> IF i = n THEN e ELSE g[i]]
<1>1. ASSUME NEW i \in 1 .. n PROVE h[i] = IF i = 1 THEN s[i] ELSE h[i - 1] \o s[i]
  <2>1. CASE i = n
    <3>1. h[i] = e
        BY <2>1
    <3>2. n # 1 => h[n - 1] = g[n - 1]
        OBVIOUS
    <3> QED
        BY <2>1, <3>1, <3>2
  <2>2. CASE i # n
    <3>1. i \in 1 .. n - 1 /\ h[i] = g[i]
        BY <2>2
    <3>2. g[i] = IF i = 1 THEN s[i] ELSE g[i - 1] \o s[i]
        BY <3>1 DEF FlatUpTo
    <3>3. i # 1 => h[i - 1] = g[i - 1]
        BY <2>2
    <3> QED
        BY <3>1, <3>2, <3>3
  <2> QED
      BY <2>1, <2>2
<1>2. h = [i \in 1 .. n |-> IF i = 1 THEN s[i] ELSE h[i - 1] \o s[i]]
  <2>1. h = [i \in 1 .. n |-> h[i]]
      OBVIOUS
  <2> HIDE DEF h
  <2> QED
      BY <1>1, <2>1
<1> HIDE DEF h
<1> QED
    BY <1>2 DEF FlatUpTo

LEMMA FlatExists ==
  ASSUME NEW s
  PROVE  \A n \in Nat : \E g : FlatUpTo(s, n, g)
<1> DEFINE T == {n \in Nat : ~ \E g : FlatUpTo(s, n, g)}
<1>1. CASE T = {}
    BY <1>1
<1>2. CASE T # {}
  <2>1. PICK n \in T : \A m \in T : n <= m
      BY <1>2, LeastNat
  <2>2. n # 0
    <3>1. FlatUpTo(s, 0, << >>)
        BY DEF FlatUpTo
    <3> QED
        BY <2>1, <3>1
  <2>3. n - 1 \in Nat /\ ~(n <= n - 1)
      BY <2>1, <2>2
  <2>4. \E g : FlatUpTo(s, n - 1, g)
      BY <2>1, <2>3
  <2>5. \E g : FlatUpTo(s, n, g)
      BY <2>1, <2>2, <2>4, FlatMore
  <2> QED
      BY <2>1, <2>5
<1> QED
    BY <1>1, <1>2

LEMMA FlattenIs ==
  ASSUME NEW s, Len(s) \in Nat, Len(s) # 0
  PROVE  \E g : FlatUpTo(s, Len(s), g) /\ FlattenSeq(s) = g[Len(s)]
<1> DEFINE flatten[i \in 1 .. Len(s)] == IF i = 1 THEN s[i] ELSE flatten[i - 1] \o s[i]
<1>1. PICK g : FlatUpTo(s, Len(s), g)
    BY FlatExists, Zenon
<1>2. flatten = [i \in 1 .. Len(s) |-> IF i = 1 THEN s[i] ELSE flatten[i - 1] \o s[i]]
    BY <1>1, Zenon DEF FlatUpTo
<1>3. FlattenSeq(s) = flatten[Len(s)]
    BY DEF FlattenSeq
<1> HIDE DEF flatten
<1>4. FlatUpTo(s, Len(s), flatten)
    BY <1>2 DEF FlatUpTo
<1> QED
    BY <1>3, <1>4


\* One more piece goes behind what the pieces before it make.
LEMMA FlattenMore ==
  ASSUME NEW n \in Nat \ {0}, NEW s, NEW t, Len(s) = n, Len(t) = n + 1,
         \A i \in 1 .. n : t[i] = s[i]
  PROVE  FlattenSeq(t) = FlattenSeq(s) \o t[n + 1]
<1>1. PICK g : FlatUpTo(s, n, g) /\ FlattenSeq(s) = g[n]
    BY FlattenIs
<1>2. PICK h : FlatUpTo(t, n + 1, h) /\ FlattenSeq(t) = h[n + 1]
  <2>1. Len(t) \in Nat /\ Len(t) # 0
      OBVIOUS
  <2> QED
      BY <2>1, FlattenIs
<1>3. \A i \in 1 .. n : g[i] = IF i = 1 THEN s[i] ELSE g[i - 1] \o s[i]
    BY <1>1 DEF FlatUpTo
<1>4. \A i \in 1 .. n + 1 : h[i] = IF i = 1 THEN t[i] ELSE h[i - 1] \o t[i]
    BY <1>2 DEF FlatUpTo
<1> DEFINE T == {i \in 1 .. n : g[i] # h[i]}
<1>5. T = {}
  <2> SUFFICES ASSUME T # {} PROVE FALSE
      OBVIOUS
  <2>1. T \in SUBSET Nat
      OBVIOUS
  <2>2. PICK i \in T : \A j \in T : i <= j
      BY <2>1, LeastNat
  <2>3. i \in 1 .. n /\ i \in 1 .. n + 1 /\ g[i] # h[i]
      BY <2>2
  <2>4. i # 1
      BY <1>3, <1>4, <2>3
  <2>5. i - 1 \in 1 .. n /\ ~(i <= i - 1)
      BY <2>3, <2>4
  <2>6. g[i - 1] = h[i - 1]
      BY <2>2, <2>5
  <2> QED
      BY <1>3, <1>4, <2>3, <2>4, <2>6
<1>6. g[n] = h[n]
  <2>1. n \in 1 .. n
      OBVIOUS
  <2> QED
      BY <1>5, <2>1
<1>7. h[n + 1] = h[n] \o t[n + 1]
  <2>1. n + 1 \in 1 .. n + 1 /\ n + 1 # 1 /\ (n + 1) - 1 = n
      OBVIOUS
  <2> QED
      BY <1>4, <2>1
<1> QED
    BY <1>1, <1>2, <1>6, <1>7

\* The raw bytes of the first n writes.
RawOf(n) == FlattenSeq([i \in 1 .. n |-> RawBytes(i)])

LEMMA RawNone == RawOf(0) = <<>>
<1>1. [i \in 1 .. 0 |-> RawBytes(i)] = <<>>
    OBVIOUS
<1> QED
    BY <1>1 DEF RawOf, FlattenSeq

LEMMA RawMore ==
  ASSUME Shape, NEW n \in Nat, n < Len(outbox), RawOf(n) \in Seq(Byte)
  PROVE  RawOf(n + 1) = RawOf(n) \o RawBytes(n + 1) /\ RawBytes(n + 1) \in Seq(Byte)
<1>1. RawBytes(n + 1) \in Seq(Byte)
  <2>1. n + 1 \in 1 .. Len(outbox)
      BY LengthsAreNat
  <2> QED
      BY <2>1, BytesOfWrite, EmptySeq DEF RawBytes
<1> DEFINE s == [i \in 1 .. n |-> RawBytes(i)]
           t == [i \in 1 .. n + 1 |-> RawBytes(i)]
<1>2. CASE n = 0
  <2>1. Len(t) = 1 /\ t[1] = RawBytes(1)
      BY <1>2
  <2>2. PICK g : FlatUpTo(t, 1, g) /\ FlattenSeq(t) = g[1]
    <3> HIDE DEF t
    <3>1. Len(t) \in Nat /\ Len(t) # 0
        BY <2>1
    <3> QED
        BY <2>1, <3>1, FlattenIs
  <2>3. g[1] = t[1]
    <3> HIDE DEF t
    <3> QED
        BY <2>2 DEF FlatUpTo
  <2>4. RawOf(n + 1) = RawBytes(1)
      BY <1>2, <2>1, <2>2, <2>3 DEF RawOf
  <2> QED
      BY <1>1, <1>2, <2>4, RawNone, ConcatEmptySeq
<1>3. CASE n # 0
  <2>1. Len(s) = n /\ Len(t) = n + 1
      OBVIOUS
  <2>2. t[n + 1] = RawBytes(n + 1) /\ \A i \in 1 .. n : t[i] = s[i]
      OBVIOUS
  <2>3. FlattenSeq(t) = FlattenSeq(s) \o t[n + 1]
    <3> HIDE DEF s, t
    <3> QED
        BY <1>3, <2>1, <2>2, FlattenMore
  <2> QED
      BY <1>1, <2>2, <2>3 DEF RawOf
<1> QED
    BY <1>2, <1>3

LEMMA RawTypes ==
  ASSUME Shape
  PROVE  \A n \in 0 .. Len(outbox) : RawOf(n) \in Seq(Byte)
<1> DEFINE T == {n \in 0 .. Len(outbox) : RawOf(n) \notin Seq(Byte)}
<1> SUFFICES ASSUME T # {} PROVE FALSE
    OBVIOUS
<1>1. T \in SUBSET Nat
    OBVIOUS
<1>2. PICK n \in T : \A m \in T : n <= m
    BY <1>1, LeastNat
<1>3. n # 0
    BY <1>2, RawNone, EmptySeq
<1>4. Len(outbox) \in Nat /\ n \in 0 .. Len(outbox) /\ RawOf(n) \notin Seq(Byte)
    BY <1>2, LengthsAreNat
<1>5. PICK m \in Nat : n = m + 1 /\ m < Len(outbox) /\ m \in 0 .. Len(outbox) /\ ~(n <= m)
  <2>1. n - 1 \in Nat /\ n = (n - 1) + 1 /\ n - 1 < Len(outbox)
      BY <1>3, <1>4
  <2>2. n - 1 \in 0 .. Len(outbox) /\ ~(n <= n - 1)
      BY <1>4, <2>1
  <2> QED
      BY <2>1, <2>2
<1>6. RawOf(m) \in Seq(Byte)
    BY <1>2, <1>5
<1>7. RawOf(n) \in Seq(Byte)
    BY <1>5, <1>6, RawMore, ConcatProperties
<1> QED
    BY <1>4, <1>7

\* What is written later goes behind.
LEMMA RawGrows ==
  ASSUME Shape, NEW n \in 0 .. Len(outbox), NEW m \in n .. Len(outbox)
  PROVE  /\ Len(RawOf(n)) <= Len(RawOf(m))
         /\ \A k \in 1 .. Len(RawOf(n)) : RawOf(m)[k] = RawOf(n)[k]
<1> DEFINE P(i) == /\ Len(RawOf(n)) <= Len(RawOf(i))
                   /\ \A k \in 1 .. Len(RawOf(n)) : RawOf(i)[k] = RawOf(n)[k]
           T == {i \in n .. Len(outbox) : ~P(i)}
<1> SUFFICES ASSUME T # {} PROVE FALSE
    OBVIOUS
<1>0. Len(outbox) \in Nat /\ n \in Nat
    BY LengthsAreNat
<1>1. T \in SUBSET Nat
    BY <1>0
<1>2. PICK i \in T : \A j \in T : i <= j
    BY <1>1, LeastNat
<1>3. i \in n .. Len(outbox) /\ ~P(i)
    BY <1>2
<1>4. Len(RawOf(n)) \in Nat
    BY RawTypes, LenProperties
<1>5. i # n
    BY <1>3, <1>4
<1>6. PICK j \in Nat : i = j + 1 /\ j < Len(outbox) /\ j \in n .. Len(outbox) /\ ~(i <= j)
  <2>1. i - 1 \in Nat /\ i = (i - 1) + 1 /\ i - 1 < Len(outbox)
      BY <1>0, <1>3, <1>5
  <2>2. i - 1 \in n .. Len(outbox) /\ ~(i <= i - 1)
      BY <1>0, <1>3, <1>5
  <2> QED
      BY <2>1, <2>2
<1>7. P(j)
    BY <1>2, <1>6
<1>8. RawOf(j) \in Seq(Byte) /\ RawBytes(i) \in Seq(Byte) /\ RawOf(i) = RawOf(j) \o RawBytes(i)
  <2>1. j \in 0 .. Len(outbox)
      BY <1>0, <1>6
  <2>2. RawOf(j) \in Seq(Byte)
      BY <2>1, RawTypes
  <2> QED
      BY <1>6, <2>2, RawMore
<1>9. /\ Len(RawOf(j)) \in Nat /\ Len(RawBytes(i)) \in Nat
      /\ Len(RawOf(i)) = Len(RawOf(j)) + Len(RawBytes(i))
      /\ \A k \in 1 .. Len(RawOf(j)) : RawOf(i)[k] = RawOf(j)[k]
  <2>1. Len(RawOf(j)) \in Nat /\ Len(RawBytes(i)) \in Nat
      BY <1>8, LenProperties
  <2>2. Len(RawOf(i)) = Len(RawOf(j)) + Len(RawBytes(i))
      BY <1>8, JoinBytes
  <2>3. ASSUME NEW k \in 1 .. Len(RawOf(j)) PROVE RawOf(i)[k] = RawOf(j)[k]
    <3>1. k \in 1 .. Len(RawOf(j)) + Len(RawBytes(i)) /\ k <= Len(RawOf(j))
        BY <2>1
    <3> QED
        BY <1>8, <3>1, JoinBytes
  <2> QED
      BY <2>1, <2>2, <2>3
<1>10. P(i)
  <2> HIDE DEF T
  <2>1. \A k \in 1 .. Len(RawOf(n)) : k \in 1 .. Len(RawOf(j))
      BY <1>4, <1>7, <1>9
  <2> QED
      BY <1>4, <1>7, <1>9, <2>1
<1> QED
    BY <1>3, <1>10
--------------------------------------------------------------------------------
(* The raw bytes. *)

\* Nothing is given raw before messages are turned off; from then on what was given
\* and what is still under way are together the raw bytes of the writes made.
RawInv ==
  Framed /\ StaysRaw =>
    IF is_recv_msg_
    THEN raw = <<>>
    ELSE /\ \E j \in 1 .. sent : outbox[j].kind = "toRaw"
         /\ raw \o (input \o wire) = RawOf(sent)

LEMMA SameBytes ==
  ASSUME NEW s \in Seq(Byte), NEW t \in Seq(Byte), Len(s) = Len(t),
         \A k \in 1 .. Len(s) : s[k] = t[k]
  PROVE  s = t
  BY SeqEqual

LEMMA JoinThree ==
  ASSUME NEW a \in Seq(Byte), NEW b \in Seq(Byte), NEW c \in Seq(Byte)
  PROVE  (a \o b) \o c = a \o (b \o c)
  BY ConcatAssociative

LEMMA RawSame ==
  ASSUME UNCHANGED <<outbox, cut>>
  PROVE  /\ (Framed /\ StaysRaw)' = (Framed /\ StaysRaw)
         /\ \A n : RawOf(n)' = RawOf(n)
<1>1. \A i : RawBytes(i)' = RawBytes(i)
    BY DEF RawBytes, BytesOf, HeadLen
<1>2. \A n : RawOf(n)' = RawOf(n)
    BY <1>1 DEF RawOf
<1> QED
    BY <1>2, FramedSame DEF StaysRaw

\* The raw bytes when the messages end where the reading position is: all that is
\* under way.
LEMMA AllIsRaw ==
  ASSUME Shape, NEW off \in [1 .. sent + 1 -> Int], Layout(off),
         NEW g \in 0 .. sent, off[g + 1] = 0,
         \A i \in 1 .. g : outbox[i].kind # "raw",
         \A i \in g + 1 .. sent : outbox[i].kind = "raw"
  PROVE  input \o wire = RawOf(sent)
<1>1. /\ sent \in Nat /\ g \in Nat /\ Len(outbox) \in Nat /\ sent <= Len(outbox)
      /\ Len(input) \in Nat /\ Len(wire) \in Nat
    BY LengthsAreNat DEF Shape
<1>2. \A n \in 0 .. sent : RawOf(n) \in Seq(Byte) /\ Len(RawOf(n)) \in Nat
  <2>1. \A n \in 0 .. sent : n \in 0 .. Len(outbox)
      BY <1>1
  <2> QED
      BY <2>1, RawTypes, LenProperties
<1>3. ASSUME NEW n \in Nat, n < sent
      PROVE  RawOf(n + 1) = RawOf(n) \o RawBytes(n + 1)
  <2>1. n \in 0 .. sent /\ n < Len(outbox)
      BY <1>1, <1>3
  <2> QED
      BY <1>2, <2>1, RawMore
<1> DEFINE P(n) == IF n <= g THEN RawOf(n) = <<>>
                   ELSE /\ Len(RawOf(n)) = off[n + 1]
                        /\ \A k \in 1 .. off[n + 1] : RawOf(n)[k] = StreamByte(k)
           T == {n \in 0 .. sent : ~P(n)}
<1>4. T = {}
  <2> SUFFICES ASSUME T # {} PROVE FALSE
      OBVIOUS
  <2>1. T \in SUBSET Nat
      BY <1>1
  <2>2. PICK n \in T : \A m \in T : n <= m
      BY <2>1, LeastNat
  <2>3. n \in 0 .. sent /\ ~P(n)
      BY <2>2
  <2>4. n # 0
      BY <1>1, <2>3, RawNone
  <2>5. PICK m \in Nat : n = m + 1 /\ m < sent /\ m \in 0 .. sent /\ ~(n <= m)
    <3>1. /\ n - 1 \in Nat /\ n = (n - 1) + 1 /\ n - 1 < sent
          /\ n - 1 \in 0 .. sent /\ ~(n <= n - 1)
        BY <1>1, <2>3, <2>4
    <3> QED
        BY <3>1
  <2>6. P(m)
      BY <2>2, <2>5
  <2>7. RawOf(n) = RawOf(m) \o RawBytes(n) /\ RawOf(m) \in Seq(Byte)
      BY <1>2, <1>3, <2>5
  <2>8. CASE n <= g
    <3>1. m <= g /\ n \in 1 .. g
        BY <1>1, <2>5, <2>8
    <3>2. RawOf(m) = <<>> /\ RawBytes(n) = <<>>
        BY <2>6, <3>1 DEF RawBytes
    <3>3. RawOf(n) = <<>>
        BY <2>7, <3>2, ConcatEmptySeq
    <3> QED
        BY <2>3, <2>8, <3>3
  <2>9. CASE ~(n <= g)
    <3>1. n \in 1 .. sent /\ n \in g + 1 .. sent /\ n \in 1 .. Len(outbox)
        BY <1>1, <2>3, <2>4, <2>9
    <3>2. RawBytes(n) = BytesOf(n)
        BY <3>1 DEF RawBytes
    <3>3. /\ BytesOf(n) \in Seq(Byte) /\ Len(BytesOf(n)) = Total(n) /\ Total(n) \in Nat
          /\ \A k \in 1 .. Total(n) : BytesOf(n)[k] = <<n, k>>
        BY <3>1, BytesOfWrite DEF Total
    <3>4. /\ off[n + 1] = off[n] + Total(n) /\ off[n] \in Int
          /\ \A c \in 1 .. Total(n) : off[n] + c > 0 => StreamByte(off[n] + c) = <<n, c>>
        BY <1>1, <3>1 DEF Layout
    <3>5. Len(RawOf(m)) = off[n] /\ \A k \in 1 .. off[n] : RawOf(m)[k] = StreamByte(k)
      <4>1. CASE m <= g
        <5>1. m = g /\ n = g + 1
            BY <1>1, <2>5, <2>9, <4>1
        <5>2. RawOf(m) = <<>> /\ off[n] = 0
            BY <2>6, <5>1
        <5> QED
            BY <5>2
      <4>2. CASE ~(m <= g)
          BY <2>5, <2>6, <4>2
      <4> QED
          BY <4>1, <4>2
    <3>6. off[n] \in Nat
        BY <1>2, <2>5, <3>5
    <3>7. Len(RawOf(n)) = off[n + 1]
        BY <2>7, <3>2, <3>3, <3>4, <3>5, JoinBytes
    <3>8. ASSUME NEW k \in 1 .. off[n + 1] PROVE RawOf(n)[k] = StreamByte(k)
      <4>1. (RawOf(m) \o BytesOf(n))[k] = IF k <= off[n] THEN RawOf(m)[k]
                                          ELSE BytesOf(n)[k - off[n]]
        <5>1. k \in 1 .. Len(RawOf(m)) + Len(BytesOf(n))
            BY <3>3, <3>4, <3>5
        <5>2. RawOf(m) \in Seq(Byte) /\ BytesOf(n) \in Seq(Byte) /\ Len(RawOf(m)) = off[n]
            BY <2>7, <3>3, <3>5
        <5>3. (RawOf(m) \o BytesOf(n))[k] = IF k <= Len(RawOf(m)) THEN RawOf(m)[k]
                                            ELSE BytesOf(n)[k - Len(RawOf(m))]
            BY <5>1, <5>2, JoinBytes, Zenon
        <5> QED
            BY <5>2, <5>3, Zenon
      <4>2. CASE k <= off[n]
        <5>1. k \in 1 .. off[n]
            BY <3>6, <4>2
        <5> QED
            BY <2>7, <3>2, <3>5, <4>1, <4>2, <5>1
      <4>3. CASE ~(k <= off[n])
        <5>1. k - off[n] \in 1 .. Total(n) /\ off[n] + (k - off[n]) = k /\ k > 0
            BY <3>3, <3>4, <3>6, <4>3
        <5>2. StreamByte(k) = <<n, k - off[n]>>
          <6>1. \A c \in 1 .. Total(n) : off[n] + c > 0 => StreamByte(off[n] + c) = <<n, c>>
              BY <3>4
          <6> HIDE <3>4
          <6> QED
              BY <5>1, <6>1
        <5>3. BytesOf(n)[k - off[n]] = <<n, k - off[n]>>
            BY <3>3, <5>1
        <5> QED
            BY <2>7, <3>2, <4>1, <4>3, <5>2, <5>3
      <4> QED
          BY <4>2, <4>3
    <3>9. P(n)
        BY <2>9, <3>7, <3>8
    <3> QED
        BY <2>3, <3>9
  <2> QED
      BY <2>8, <2>9
<1>5. P(sent)
  <2>1. sent \in 0 .. sent
      BY <1>1
  <2> QED
      BY <1>4, <2>1
<1>6. input \in Seq(Byte) /\ wire \in Seq(Byte) /\ RawOf(sent) \in Seq(Byte)
  <2>1. sent \in 0 .. sent
      BY <1>1
  <2> QED
      BY <1>2, <2>1 DEF Shape
<1>7. /\ input \o wire \in Seq(Byte) /\ Len(input \o wire) = off[sent + 1]
      /\ \A k \in 1 .. off[sent + 1] : (input \o wire)[k] = StreamByte(k)
  <2>1. off[sent + 1] = Len(input) + Len(wire)
      BY DEF Layout
  <2> QED
      BY <1>6, <2>1, JoinBytes DEF StreamByte, ByteAt
<1>8. /\ Len(RawOf(sent)) = off[sent + 1]
      /\ \A k \in 1 .. off[sent + 1] : RawOf(sent)[k] = StreamByte(k)
  <2>1. CASE sent <= g
    <3>1. sent = g /\ off[sent + 1] = 0
        BY <1>1, <2>1
    <3>2. RawOf(sent) = <<>>
        BY <1>5, <2>1
    <3> QED
        BY <3>1, <3>2
  <2>2. CASE ~(sent <= g)
      BY <1>5, <2>2
  <2> QED
      BY <2>1, <2>2
<1> QED
  <2>1. Len(input \o wire) = Len(RawOf(sent))
      BY <1>7, <1>8
  <2>2. \A k \in 1 .. Len(input \o wire) : (input \o wire)[k] = RawOf(sent)[k]
      BY <1>7, <1>8
  <2> QED
      BY <1>6, <1>7, <2>1, <2>2, SameBytes, Zenon

\* Bytes that only move from one part to the next stay in order.
LEMMA Regroup ==
  ASSUME NEW a \in Seq(Byte), NEW b \in Seq(Byte), NEW c \in Seq(Byte),
         NEW n \in 0 .. Len(b)
  PROVE  /\ a \o (b \o c) = (a \o SubSeq(b, 1, n)) \o (SubSeq(b, n + 1, Len(b)) \o c)
         /\ a \o b = (a \o SubSeq(b, 1, n)) \o SubSeq(b, n + 1, Len(b))
         /\ (a \o b) \o c = a \o (b \o c)
<1> DEFINE x == SubSeq(b, 1, n)
           y == SubSeq(b, n + 1, Len(b))
<1>1. x \in Seq(Byte) /\ y \in Seq(Byte) /\ Len(x) = n /\ Len(y) = Len(b) - n
    BY CutBytes
<1>2. x \o y = b
  <2>1. Len(x) + Len(y) = Len(b)
    <3>1. Len(b) \in Nat /\ n \in Nat
        BY LenProperties
    <3> HIDE DEF x, y
    <3> QED
        BY <1>1, <3>1
  <2>2. x \o y \in Seq(Byte) /\ Len(x \o y) = Len(b)
      BY <1>1, <2>1, JoinBytes, ZenonT(30)
  <2>3. ASSUME NEW k \in 1 .. Len(b) PROVE (x \o y)[k] = b[k]
    <3>1. Len(b) \in Nat /\ n \in Nat /\ k \in Nat
        BY LenProperties
    <3>2. (x \o y)[k] = IF k <= Len(x) THEN x[k] ELSE y[k - Len(x)]
      <4>1. k \in 1 .. Len(x) + Len(y)
          BY <2>1
      <4> HIDE DEF x, y
      <4> QED
          BY <1>1, <4>1, JoinBytes, Zenon
    <3>3. CASE k <= n
      <4>1. k \in 1 .. n
          BY <3>1, <3>3
      <4>2. x[k] = b[k]
          BY <4>1, CutBytes
      <4> HIDE DEF x, y
      <4> QED
          BY <1>1, <3>2, <3>3, <4>2
    <3>4. CASE ~(k <= n)
      <4>1. k - n \in 1 .. Len(b) - n /\ n + (k - n) = k
          BY <3>1, <3>4
      <4>2. y[k - n] = b[n + (k - n)]
          BY <4>1, CutBytes
      <4> HIDE DEF x, y
      <4> QED
          BY <1>1, <3>2, <3>4, <4>1, <4>2
    <3> QED
        BY <3>3, <3>4
  <2> HIDE DEF x, y
  <2> QED
      BY <2>2, <2>3, SameBytes
<1> HIDE DEF x, y
<1>3. (a \o x) \o (y \o c) = a \o ((x \o y) \o c)
  <2>1. y \o c \in Seq(Byte) /\ x \o y \in Seq(Byte)
      BY <1>1, JoinBytes
  <2>2. (a \o x) \o (y \o c) = a \o (x \o (y \o c))
      BY <1>1, <2>1, JoinThree, Zenon
  <2>3. x \o (y \o c) = (x \o y) \o c
      BY <1>1, JoinThree, Zenon
  <2> QED
      BY <2>2, <2>3
<1>4. (a \o x) \o y = a \o (x \o y)
    BY <1>1, JoinThree, Zenon
<1>5. (a \o b) \o c = a \o (b \o c)
    BY JoinThree, Zenon
<1> QED
    BY <1>2, <1>3, <1>4, <1>5 DEF x, y

LEMMA RawInit == Init => RawInv
  BY DEF Init, RawInv

\* The parts of the stream are sequences of bytes.
LEMMA Parts ==
  ASSUME RecvInv
  PROVE  /\ raw \in Seq(Byte) /\ input \in Seq(Byte) /\ wire \in Seq(Byte)
         /\ sent \in Nat /\ Len(outbox) \in Nat /\ sent <= Len(outbox)
  BY LengthsAreNat DEF RecvInv, Shape

LEMMA RawWrite == RecvInv /\ RawInv /\ Write => RawInv'
<1> SUFFICES ASSUME RecvInv, RawInv, Write PROVE RawInv'
    OBVIOUS
<1>1. /\ sent < Len(outbox) /\ sent' = sent + 1 /\ wire' = wire \o BytesOf(sent + 1)
      /\ UNCHANGED <<outbox, cut, input, is_recv_msg_, raw>>
    BY DEF Write
<1>2. (Framed /\ StaysRaw)' = (Framed /\ StaysRaw) /\ \A n : RawOf(n)' = RawOf(n)
    BY <1>1, RawSame
<1>3. Shape /\ sent + 1 \in 1 .. Len(outbox) /\ sent \in 0 .. Len(outbox)
    BY <1>1, Parts DEF RecvInv
<1> SUFFICES ASSUME Framed, StaysRaw, ~is_recv_msg_
             PROVE  /\ \E j \in 1 .. sent + 1 : outbox[j].kind = "toRaw"
                    /\ raw \o (input \o (wire \o BytesOf(sent + 1))) = RawOf(sent + 1)
  <2>1. RawOf(sent)' = RawOf(sent + 1)
      BY <1>1 DEF RawOf, RawBytes, BytesOf, HeadLen
  <2> QED
      BY <1>1, <1>2, <2>1 DEF RawInv
<1>4. PICK j \in 1 .. sent : outbox[j].kind = "toRaw"
    BY DEF RawInv
<1>5. RawBytes(sent + 1) = BytesOf(sent + 1) /\ j \in 1 .. sent + 1
  <2>1. j \in 1 .. (sent + 1) - 1 /\ sent + 1 \in DOMAIN outbox
      BY <1>3, Parts, LengthsAreNat
  <2>2. outbox[sent + 1].kind = "raw"
      BY <1>4, <2>1 DEF StaysRaw
  <2> QED
      BY <2>1, <2>2, Parts DEF RawBytes
<1>6. RawOf(sent + 1) = RawOf(sent) \o BytesOf(sent + 1) /\ BytesOf(sent + 1) \in Seq(Byte)
    BY <1>1, <1>3, <1>5, Parts, RawTypes, RawMore
<1>7. raw \o (input \o (wire \o BytesOf(sent + 1)))
        = (raw \o (input \o wire)) \o BytesOf(sent + 1)
  <2>1. (input \o wire) \o BytesOf(sent + 1) = input \o (wire \o BytesOf(sent + 1))
      BY <1>6, Parts, JoinThree, Zenon
  <2>2. input \o wire \in Seq(Byte)
      BY Parts, JoinBytes
  <2>3. (raw \o (input \o wire)) \o BytesOf(sent + 1)
          = raw \o ((input \o wire) \o BytesOf(sent + 1))
      BY <1>6, <2>2, Parts, JoinThree, Zenon
  <2> QED
      BY <2>1, <2>3, Zenon
<1>8. raw \o (input \o wire) = RawOf(sent)
    BY DEF RawInv
<1> QED
    BY <1>4, <1>5, <1>6, <1>7, <1>8

LEMMA RawReadEvent == RecvInv /\ RawInv /\ ReadEvent => RawInv'
<1> SUFFICES ASSUME RecvInv, RawInv, ReadEvent PROVE RawInv'
    OBVIOUS
<1>1. PICK n \in 1 .. Min({Len(wire), ReadMax}) :
        /\ input' = input \o SubSeq(wire, 1, n)
        /\ wire' = SubSeq(wire, n + 1, Len(wire))
    BY DEF ReadEvent
<1>2. UNCHANGED <<outbox, cut, sent, is_recv_msg_, raw>>
    BY DEF ReadEvent, peer
<1>3. n \in 0 .. Len(wire)
  <2>1. Len(wire) \in Nat /\ ReadMax \in Nat
      BY LengthsAreNat, FramingAssumption DEF RecvInv
  <2>2. Min({Len(wire), ReadMax}) \in 0 .. Len(wire)
      BY <2>1, MinOfTwo
  <2> QED
      BY <2>1, <2>2
<1>4. input \o wire = input' \o wire'
    BY <1>1, <1>3, Parts, Regroup, Zenon
<1>5. (Framed /\ StaysRaw)' = (Framed /\ StaysRaw) /\ RawOf(sent)' = RawOf(sent)
  <2>1. RawOf(sent)' = RawOf(sent)
      BY <1>2 DEF RawOf, RawBytes, BytesOf, HeadLen
  <2> QED
      BY <1>2, <2>1, RawSame
<1> QED
    BY <1>2, <1>4, <1>5 DEF RawInv

LEMMA RawReadRaw == RecvInv /\ RawInv /\ ReadRaw => RawInv'
<1> SUFFICES ASSUME RecvInv, RawInv, ReadRaw PROVE RawInv'
    OBVIOUS
<1>1. PICK len : /\ len = Min({Len(input), ReadBufSize}) /\ Discard(len)
                 /\ raw' = raw \o Taken(len)
    BY DEF ReadRaw
<1>2. ~is_recv_msg_ /\ UNCHANGED <<outbox, cut, sent, wire, is_recv_msg_>>
    BY DEF ReadRaw, peer
<1>3. len \in 0 .. Len(input)
  <2>1. Len(input) \in Nat /\ ReadBufSize \in Nat
      BY LengthsAreNat, FramingAssumption DEF RecvInv
  <2>2. Min({Len(input), ReadBufSize}) \in 0 .. Len(input)
      BY <2>1, MinOfTwo
  <2> QED
      BY <1>1, <2>2
<1>4. /\ input' = SubSeq(input, len + 1, Len(input))
      /\ raw' = raw \o SubSeq(input, 1, len)
    BY <1>1 DEF Discard, Taken
<1>5. raw \o (input \o wire) = raw' \o (input' \o wire)
    BY <1>3, <1>4, Parts, Regroup, Zenon
<1>6. (Framed /\ StaysRaw)' = (Framed /\ StaysRaw) /\ RawOf(sent)' = RawOf(sent)
  <2>1. RawOf(sent)' = RawOf(sent)
      BY <1>2 DEF RawOf, RawBytes, BytesOf, HeadLen
  <2> QED
      BY <1>2, <2>1, RawSame
<1> QED
    BY <1>2, <1>5, <1>6 DEF RawInv

\* A step that leaves the connection and the raw bytes alone; in message mode the input
\* may be taken.
LEMMA RawKept ==
  ASSUME RawInv, UNCHANGED <<outbox, cut, sent, is_recv_msg_, raw>>,
         ~is_recv_msg_ => UNCHANGED <<input, wire>>
  PROVE  RawInv'
<1>1. (Framed /\ StaysRaw)' = (Framed /\ StaysRaw) /\ RawOf(sent)' = RawOf(sent)
  <2>1. RawOf(sent)' = RawOf(sent)
      BY DEF RawOf, RawBytes, BytesOf, HeadLen
  <2> QED
      BY <2>1, RawSame
<1> QED
    BY <1>1 DEF RawInv

LEMMA RawDeliver == RecvInv /\ FrameInv /\ RawInv /\ Deliver => RawInv'
<1> SUFFICES ASSUME RecvInv, FrameInv, RawInv, Deliver PROVE RawInv'
    OBVIOUS
<1>1. /\ pc = "deliver" /\ is_recv_msg_
      /\ is_recv_msg_' = (is_recv_msg_ /\ msg_.head.kind # "toRaw")
      /\ UNCHANGED <<outbox, cut, sent, wire, input, raw>>
    BY DEF Deliver, peer, RecvInv, BodyOK
<1>2. CASE msg_.head.kind # "toRaw"
    BY <1>1, <1>2, RawKept
<1>3. CASE msg_.head.kind = "toRaw"
  <2>1. (Framed /\ StaysRaw)' = (Framed /\ StaysRaw) /\ RawOf(sent)' = RawOf(sent)
    <3>1. RawOf(sent)' = RawOf(sent)
        BY <1>1 DEF RawOf, RawBytes, BytesOf, HeadLen
    <3> QED
        BY <1>1, <3>1, RawSame
  <2> SUFFICES ASSUME Framed, StaysRaw
               PROVE  /\ \E j \in 1 .. sent : outbox[j].kind = "toRaw"
                      /\ raw \o (input \o wire) = RawOf(sent)
      BY <1>1, <1>3, <2>1 DEF RawInv
  <2>2. PICK off \in [1 .. sent + 1 -> Int] : Layout(off) /\ Position(off)
      BY DEF FrameInv
  <2>3. PICK g \in Nat : g = Given
      BY LengthsAreNat DEF RecvInv, Given
  <2>4. g < sent /\ outbox[g + 1].kind = "toRaw" /\ off[g + 2] = 0
      BY <1>1, <1>3, <2>2, <2>3 DEF Position
  <2>5. Shape /\ sent \in Nat /\ g + 1 \in 1 .. sent /\ g + 1 \in 0 .. sent
      BY <2>4, Parts DEF RecvInv
  <2>6. ASSUME NEW i \in 1 .. g + 1 PROVE outbox[i].kind # "raw"
    <3>1. CASE i = g + 1
        BY <2>4, <3>1
    <3>2. CASE i # g + 1
      <4>1. i \in 1 .. Given
          BY <2>3, <3>2
      <4>2. got[i].kind = outbox[i].kind
          BY <4>1 DEF FrameInv, FramesOK
      <4>3. got[i] \in [kind : Kinds, data : Seq(Byte)]
          BY <4>1, ElementOfSeq DEF Given, RecvInv, Shape
      <4> QED
          BY <4>2, <4>3 DEF Kinds
    <3> QED
        BY <3>1, <3>2
  <2>7. ASSUME NEW i \in (g + 1) + 1 .. sent PROVE outbox[i].kind = "raw"
    <3>1. i \in DOMAIN outbox /\ g + 1 \in 1 .. i - 1
        BY <2>5, Parts, LengthsAreNat
    <3> QED
        BY <2>4, <3>1 DEF StaysRaw
  <2>8. off[(g + 1) + 1] = 0
      BY <2>4
  <2>9. input \o wire = RawOf(sent)
      BY <2>2, <2>5, <2>6, <2>7, <2>8, AllIsRaw
  <2>10. raw = <<>> /\ input \o wire \in Seq(Byte)
      BY <1>1, Parts, JoinBytes DEF RawInv
  <2>11. raw \o (input \o wire) = input \o wire
      BY <2>10, ConcatEmptySeq
  <2> QED
      BY <2>4, <2>5, <2>9, <2>11
<1> QED
    BY <1>2, <1>3

LEMMA RawNext == RecvInv /\ FrameInv /\ RawInv /\ [Next]_vars => RawInv'
<1> SUFFICES ASSUME RecvInv, FrameInv, RawInv, [Next]_vars PROVE RawInv'
    OBVIOUS
<1>1. CASE ReadHead
  <2>1. is_recv_msg_ /\ UNCHANGED <<outbox, cut, sent, is_recv_msg_, raw>>
      BY <1>1 DEF ReadHead, peer
  <2> QED
      BY <2>1, RawKept
<1>2. CASE CheckHead
  <2>1. UNCHANGED <<outbox, cut, sent, is_recv_msg_, raw, input, wire>>
      BY <1>2 DEF CheckHead, peer
  <2> QED
      BY <2>1, RawKept
<1>3. CASE ReadBody
  <2>1. is_recv_msg_ /\ UNCHANGED <<outbox, cut, sent, is_recv_msg_, raw>>
      BY <1>3 DEF ReadBody, peer, RecvInv, BodyOK
  <2> QED
      BY <2>1, RawKept
<1>4. CASE EventCB
  <2>1. UNCHANGED <<outbox, cut, sent, is_recv_msg_, raw, input, wire>>
      BY <1>4 DEF EventCB, peer
  <2> QED
      BY <2>1, RawKept
<1>5. CASE UNCHANGED vars
  <2>1. UNCHANGED <<outbox, cut, sent, is_recv_msg_, raw, input, wire>>
      BY <1>5 DEF vars
  <2> QED
      BY <2>1, RawKept
<1> QED
    BY <1>1, <1>2, <1>3, <1>4, <1>5, RawWrite, RawReadEvent, RawReadRaw, RawDeliver
       DEF Next, ReadCB

\* No raw byte is on the way twice, or nowhere, from the switch on.
THEOREM RawInvariant == Spec => []RawInv
  BY ReceiverInvariant, FramingInvariant, RawInit, RawNext, PTL DEF Spec

\* The business class is given the raw bytes of the stream in their order, from the
\* first one on, wherever the network cuts bodies and raw pieces.
THEOREM ReceiverKeepsRawOrder == Spec => []RawInOrder
<1>1. RecvInv /\ RawInv => RawInOrder
  <2> SUFFICES ASSUME RecvInv, RawInv, Framed, StaysRaw PROVE IsPrefix(raw, RawStream)
      BY DEF RawInOrder
  <2>1. Shape /\ Len(outbox) \in 0 .. Len(outbox) /\ sent \in 0 .. Len(outbox)
      BY Parts DEF RecvInv
  <2>2. RawStream = RawOf(Len(outbox)) /\ RawStream \in Seq(Byte)
      BY <2>1, RawTypes DEF RawStream, RawOf
  <2>3. /\ Len(raw) <= Len(RawStream) /\ Len(raw) \in Nat /\ Len(RawStream) \in Nat
        /\ \A k \in 1 .. Len(raw) : raw[k] = RawStream[k]
    <3>0. Len(raw) \in Nat /\ Len(RawStream) \in Nat
        BY <2>2, Parts, LenProperties
    <3>1. CASE is_recv_msg_
      <4>1. raw = <<>>
          BY <3>1 DEF RawInv
      <4>2. Len(raw) = 0
          BY <4>1
      <4> QED
          BY <3>0, <4>2
    <3>2. CASE ~is_recv_msg_
      <4>1. raw \o (input \o wire) = RawOf(sent) /\ input \o wire \in Seq(Byte)
          BY <3>2, Parts, JoinBytes DEF RawInv
      <4>2. Len(input \o wire) \in Nat
          BY <4>1, LenProperties
      <4>3. /\ Len(RawOf(sent)) = Len(raw) + Len(input \o wire)
            /\ \A k \in 1 .. Len(raw) : RawOf(sent)[k] = raw[k]
        <5>1. Len(raw \o (input \o wire)) = Len(raw) + Len(input \o wire)
            BY <4>1, Parts, JoinBytes, Zenon
        <5>2. ASSUME NEW k \in 1 .. Len(raw) PROVE (raw \o (input \o wire))[k] = raw[k]
          <6>1. k \in 1 .. Len(raw) + Len(input \o wire) /\ k <= Len(raw)
              BY <3>0, <4>2
          <6> QED
              BY <4>1, <6>1, Parts, JoinBytes, Zenon
        <5> QED
            BY <4>1, <5>1, <5>2
      <4>4. /\ Len(RawOf(sent)) <= Len(RawStream)
            /\ \A k \in 1 .. Len(RawOf(sent)) : RawStream[k] = RawOf(sent)[k]
        <5>1. Len(outbox) \in sent .. Len(outbox)
            BY <2>1, Parts
        <5> QED
            BY <2>1, <2>2, <5>1, RawGrows, Zenon
      <4>5. \A k \in 1 .. Len(raw) : k \in 1 .. Len(RawOf(sent))
          BY <3>0, <4>2, <4>3
      <4> QED
          BY <3>0, <4>2, <4>3, <4>4, <4>5
    <3> QED
        BY <3>1, <3>2
  <2>4. SubSeq(raw, 1, Len(raw)) = SubSeq(RawStream, 1, Len(raw))
    <3>1. Len(raw) \in 0 .. Len(raw) /\ Len(raw) \in 0 .. Len(RawStream)
        BY <2>3
    <3>2. /\ SubSeq(raw, 1, Len(raw)) \in Seq(Byte) /\ Len(SubSeq(raw, 1, Len(raw))) = Len(raw)
          /\ \A k \in 1 .. Len(raw) : SubSeq(raw, 1, Len(raw))[k] = raw[k]
        BY <3>1, Parts, CutBytes, Zenon
    <3>3. /\ SubSeq(RawStream, 1, Len(raw)) \in Seq(Byte)
          /\ Len(SubSeq(RawStream, 1, Len(raw))) = Len(raw)
          /\ \A k \in 1 .. Len(raw) : SubSeq(RawStream, 1, Len(raw))[k] = RawStream[k]
        BY <2>2, <3>1, CutBytes, Zenon
    <3>4. \A k \in 1 .. Len(raw) : SubSeq(raw, 1, Len(raw))[k] = SubSeq(RawStream, 1, Len(raw))[k]
        BY <2>3, <3>2, <3>3, Zenon
    <3> QED
        BY <3>2, <3>3, <3>4, SameBytes, Zenon
  <2> QED
      BY <2>3, <2>4 DEF IsPrefix
<1> QED
    BY <1>1, ReceiverInvariant, RawInvariant, PTL
===============================================================================
