----------------------------- MODULE XUploadProofs -----------------------------
(***************************************************************************)
(* Theorems about an upload, for files, pieces and wires of every size and *)
(* whatever goes wrong, from [][Next]_vars alone: no fairness is used.     *)
(***************************************************************************)
EXTENDS XUpload, FileStreamProofs

\* The items the client writes, by their number: UPLOAD_INFO, then the file.
Sent == [j \in Nat \ {0} |-> IF j = 1 THEN Msg("UPLOAD_INFO", client.filesize) ELSE Data(j - 1)]

\* The items the server writes.
Answers == [j \in Nat \ {0} |-> IF j = 1 THEN Msg("UPLOAD_ACCEPT", 0)
                                ELSE Msg("UPLOAD_COMPLETE", 0)]

\* How many of them either has written.
Written  == IF client.ifs = "none" THEN 0 ELSE client.pos + 1
Answered == IF server.ofs = "none" THEN 0 ELSE IF server.ofs = "open" THEN 1 ELSE 2

\* The client reads its file while it is open, and from no file sends nothing.
ClientOK ==
  /\ client.reading <=> client.in # <<>>
  /\ client.reading => client.state = "open"
  /\ client.state \in {"connecting", "failed"} => client.ifs = "none" /\ server.state = "none"
  /\ client.ifs = "none" => client.pos = 0 /\ client.filesize = 0 /\ client.out = <<>>
  /\ client.state = "closed" => client.out = <<>>
  /\ client.pos <= file

\* The server's file holds a beginning of the client's, and it is closed when it
\* has the size that was announced.
ServerOK ==
  /\ server.reading => server.state = "open" /\ server.in # <<>>
  /\ server.state # "open" => server.in = <<>> /\ server.out = <<>>
  /\ server.state = "none" => server.ofs = "none"
  /\ server.ofs = "none" => server.isRecvMsg /\ server.stored = <<>> /\ server.recvSize = 0
  /\ server.ofs # "none" => /\ ~server.isRecvMsg
                            /\ server.filesize = client.filesize /\ server.filesize > 0
                            /\ server.stored = Content(server.recvSize)
  /\ server.ofs = "open" => server.recvSize # server.filesize
  /\ server.ofs = "closed" => server.recvSize = server.filesize

\* Of the e items that were written to it the server has taken b, and the others are
\* on their way.
Forward(b, e) ==
  /\ server.state # "closed" => Pipe(server.in, up, client.out, Sent, b, e)
  /\ server.state # "closed" /\ client.state # "closed" => e = Written
  /\ server.ofs # "none" => b >= 1
  /\ server.ofs = "open" /\ server.state = "open" => b = server.recvSize + 1

\* Of the e answers that were written to it the client has taken a, and the others
\* are on their way.
Backward(a, e) ==
  /\ client.state # "closed" => Pipe(client.in, down, server.out, Answers, a, e)
  /\ server.state # "closed" /\ client.state # "closed" => e = Answered
  /\ a <= e /\ e <= Answered
  /\ client.uploadCB = IF a >= 2 THEN 1 ELSE 0

\* The inductive invariant.
UpInv == /\ TypeOK /\ ClientOK /\ ServerOK /\ SendingGoesOn
         /\ \E b, e \in Nat : Forward(b, e)
         /\ \E a, e \in Nat : Backward(a, e)
--------------------------------------------------------------------------------
\* Behind UPLOAD_INFO the items are the bytes of the file.
LEMMA Shift ==
  \A s \in Seq(Items) : \A a \in Nat : Run(s, Sent, a + 1) <=> Run(s, Bytes, a)
<1> SUFFICES ASSUME NEW s \in Seq(Items), NEW a \in Nat
             PROVE  Run(s, Sent, a + 1) <=> Run(s, Bytes, a)
    OBVIOUS
<1>1. ASSUME NEW k \in 1 .. Len(s) PROVE Sent[(a + 1) + k] = Bytes[a + k]
  <2>1. /\ (a + 1) + k \in Nat \ {0} /\ (a + 1) + k # 1 /\ (a + 1) + k - 1 = a + k
        /\ a + k \in Nat \ {0}
      BY LenProperties
  <2> QED
      BY <2>1 DEF Sent, Bytes
<1> QED
    BY <1>1 DEF Run

\* What the types of UpInv say of the records.
LEMMA Fields ==
  ASSUME TypeOK
  PROVE  /\ client.in \in Seq(Items) /\ client.out \in Seq(Items)
         /\ server.in \in Seq(Items) /\ server.out \in Seq(Items) /\ server.stored \in Seq(Items)
         /\ up \in Seq(Items) /\ down \in Seq(Items)
         /\ Len(client.in) \in Nat /\ Len(client.out) \in Nat /\ Len(server.in) \in Nat
         /\ Len(server.out) \in Nat /\ Len(up) \in Nat /\ Len(down) \in Nat
         /\ client.pos \in Nat /\ client.filesize \in Nat /\ file \in Nat
         /\ server.recvSize \in Nat /\ server.filesize \in Nat
  BY LenProperties DEF TypeOK

LEMMA Messages ==
  /\ \A k \in Nat : Data(k) \in Items /\ Msg("UPLOAD_INFO", k) \in Items
  /\ Msg("UPLOAD_ACCEPT", 0) \in Items /\ Msg("UPLOAD_COMPLETE", 0) \in Items
  BY DEF Msg, Data, Items, ItemTypes

LEMMA ServerReadEventStep == UpInv /\ ServerReadEvent => UpInv'
<1> SUFFICES ASSUME UpInv, ServerReadEvent PROVE UpInv'
    OBVIOUS
<1>1. PICK n \in 1 .. Len(up) :
        /\ server' = [server EXCEPT !.in = @ \o Upto(up, n), !.reading = TRUE]
        /\ up' = Behind(up, n)
    BY DEF ServerReadEvent
<1>2. /\ server'.in = server.in \o Upto(up, n) /\ server'.reading = TRUE
      /\ server'.state = server.state /\ server'.out = server.out /\ server'.ofs = server.ofs
      /\ server'.isRecvMsg = server.isRecvMsg /\ server'.filesize = server.filesize
      /\ server'.recvSize = server.recvSize /\ server'.stored = server.stored
      /\ UNCHANGED <<faults, file, client, down>> /\ server.state = "open"
    BY <1>1 DEF UpInv, TypeOK, ServerReadEvent, Waiting
<1>3. /\ server'.in \in Seq(Items) /\ Len(server'.in) = Len(server.in) + n
      /\ up' \in Seq(Items)
      /\ \A f : \A a, e \in Nat :
           Pipe(server.in, up, client.out, f, a, e) =>
             Pipe(server'.in, up', client.out, f, a, e)
  <2>1. /\ server.in \in Seq(Items) /\ up \in Seq(Items) /\ client.out \in Seq(Items)
        /\ n \in 0 .. Len(up)
      BY <1>1, Fields DEF UpInv
  <2>2. /\ server.in \o Upto(up, n) \in Seq(Items)
        /\ Len(server.in \o Upto(up, n)) = Len(server.in) + n
        /\ Behind(up, n) \in Seq(Items)
        /\ \A f : \A a, e \in Nat :
             Pipe(server.in, up, client.out, f, a, e) =>
               Pipe(server.in \o Upto(up, n), Behind(up, n), client.out, f, a, e)
    <3>1. PICK s \in Seq(Items), t \in Seq(Items), u \in Seq(Items) :
            s = server.in /\ t = up /\ u = client.out
        BY <2>1
    <3>2. n \in 0 .. Len(t)
        BY <2>1, <3>1
    <3>3. /\ s \o Upto(t, n) \in Seq(Items) /\ Len(s \o Upto(t, n)) = Len(s) + n
          /\ Behind(t, n) \in Seq(Items)
          /\ \A f : \A a, e \in Nat :
               Pipe(s, t, u, f, a, e) => Pipe(s \o Upto(t, n), Behind(t, n), u, f, a, e)
        BY <3>2, Receive
    <3> QED
        BY <3>1, <3>3
  <2> QED
      BY <1>1, <1>2, <2>2
<1>4. TypeOK'
    BY <1>1, <1>2, <1>3 DEF UpInv, TypeOK
<1>5. ClientOK' /\ SendingGoesOn'
    BY <1>2 DEF UpInv, ClientOK, SendingGoesOn
<1>6. ServerOK'
    BY <1>2, <1>3, Fields, SMTT(30) DEF UpInv, ServerOK
<1>7. ASSUME NEW b \in Nat, NEW e \in Nat, Forward(b, e) PROVE Forward(b, e)'
  <2>1. Sent' = Sent /\ Written' = Written
      BY <1>2 DEF Sent, Written
  <2>2. Pipe(server'.in, up', client.out, Sent, b, e)
      BY <1>2, <1>3, <1>7 DEF Forward
  <2> QED
      BY <1>2, <1>7, <2>1, <2>2 DEF Forward
<1>8. ASSUME NEW a \in Nat, NEW e \in Nat, Backward(a, e) PROVE Backward(a, e)'
    BY <1>2, <1>8 DEF Backward, Answered, Answers
<1> QED
    BY <1>4, <1>5, <1>6, <1>7, <1>8 DEF UpInv

LEMMA ServerSendStep == UpInv /\ ServerSend => UpInv'
<1> SUFFICES ASSUME UpInv, ServerSend PROVE UpInv'
    OBVIOUS
<1>1. PICK n \in 1 .. AtMost(Len(server.out), WireCap - Len(down)) :
        /\ down' = down \o Upto(server.out, n)
        /\ server' = [server EXCEPT !.out = Behind(@, n)]
    BY DEF ServerSend
<1>2. /\ server'.out = Behind(server.out, n)
      /\ server'.state = server.state /\ server'.in = server.in /\ server'.ofs = server.ofs
      /\ server'.isRecvMsg = server.isRecvMsg /\ server'.filesize = server.filesize
      /\ server'.recvSize = server.recvSize /\ server'.stored = server.stored
      /\ server'.reading = server.reading
      /\ UNCHANGED <<faults, file, client, up>> /\ server.state = "open"
    BY <1>1 DEF UpInv, TypeOK, ServerSend, Waiting
<1>3. /\ server'.out \in Seq(Items) /\ down' \in Seq(Items)
      /\ \A f : \A a, e \in Nat :
           Pipe(client.in, down, server.out, f, a, e) =>
             Pipe(client.in, down', server'.out, f, a, e)
  <2>1. /\ client.in \in Seq(Items) /\ down \in Seq(Items) /\ server.out \in Seq(Items)
        /\ Len(server.out) \in Nat /\ Len(down) \in Nat
      BY Fields DEF UpInv
  <2>2. n \in 0 .. Len(server.out)
      BY <1>1, <2>1, StreamAssumption DEF AtMost
  <2>3. /\ down \o Upto(server.out, n) \in Seq(Items) /\ Behind(server.out, n) \in Seq(Items)
        /\ \A f : \A a, e \in Nat :
             Pipe(client.in, down, server.out, f, a, e) =>
               Pipe(client.in, down \o Upto(server.out, n), Behind(server.out, n), f, a, e)
      BY <2>1, <2>2, Send
  <2> QED
      BY <1>1, <1>2, <2>3
<1>4. TypeOK'
    BY <1>1, <1>2, <1>3 DEF UpInv, TypeOK
<1>5. ClientOK' /\ SendingGoesOn' /\ ServerOK'
    BY <1>2 DEF UpInv, ClientOK, SendingGoesOn, ServerOK
<1>6. ASSUME NEW b \in Nat, NEW e \in Nat, Forward(b, e) PROVE Forward(b, e)'
    BY <1>2, <1>6 DEF Forward, Sent, Written
<1>7. ASSUME NEW a \in Nat, NEW e \in Nat, Backward(a, e) PROVE Backward(a, e)'
    BY <1>2, <1>3, <1>7 DEF Backward, Answered, Answers
<1> QED
    BY <1>4, <1>5, <1>6, <1>7 DEF UpInv

LEMMA ConnectStep == UpInv /\ Connect => UpInv'
<1> SUFFICES ASSUME UpInv, Connect PROVE UpInv'
    OBVIOUS
<1>1. /\ client.state = "connecting" /\ client.ifs = "none" /\ client.out = <<>>
      /\ client.pos = 0 /\ server.state = "none" /\ server.ofs = "none"
      /\ UNCHANGED <<faults, file, server, up, down>>
    BY DEF Connect, UpInv, ClientOK, ServerOK
<1>2. CASE client' = [client EXCEPT !.state = "open", !.ifs = "open", !.filesize = file,
                                    !.out = <<Msg("UPLOAD_INFO", file)>>]
  <2>1. /\ client'.state = "open" /\ client'.ifs = "open" /\ client'.filesize = file
        /\ client'.out = <<Msg("UPLOAD_INFO", file)>>
        /\ client'.in = client.in /\ client'.reading = client.reading
        /\ client'.pos = client.pos /\ client'.uploadCB = client.uploadCB
      BY <1>2 DEF UpInv, TypeOK
  <2>2. /\ client'.out = Append(client.out, Msg("UPLOAD_INFO", file))
        /\ client'.out \in Seq(Items) /\ client'.out # <<>>
    <3>1. Msg("UPLOAD_INFO", file) \in Items
        BY Messages, Fields DEF UpInv
    <3> QED
        BY <1>1, <2>1, <3>1
  <2>3. TypeOK'
      BY <1>1, <1>2, <2>2 DEF UpInv, TypeOK
  <2>4. ClientOK' /\ ServerOK' /\ SendingGoesOn'
      BY <1>1, <2>1, <2>2, Fields DEF UpInv, ClientOK, ServerOK, SendingGoesOn
  <2>5. ASSUME NEW b \in Nat, NEW e \in Nat, Forward(b, e) PROVE Forward(0, 1)'
    <3>1. b + Len(server.in) + Len(up) + Len(client.out) = 0
        BY <1>1, <2>5 DEF Forward, Written, Pipe
    <3>2. Len(server.in) = 0 /\ Len(up) = 0 /\ Len(client.out) = 0
      <4>1. Len(server.in) \in Nat /\ Len(up) \in Nat /\ Len(client.out) \in Nat
          BY Fields DEF UpInv
      <4>2. \A h, i, j, k \in Nat : h + i + j + k = 0 => i = 0 /\ j = 0 /\ k = 0
          OBVIOUS
      <4> QED
          BY <3>1, <4>1, <4>2
    <3>3. Pipe(server.in, up, client.out, Sent', 0, 0)
        BY <3>2 DEF Pipe, Run
    <3>4. Sent'[1] = Msg("UPLOAD_INFO", file)
        BY <2>1 DEF Sent
    <3>5. Pipe(server.in, up, Append(client.out, Msg("UPLOAD_INFO", file)), Sent', 0, 1)
      <4>1. /\ server.in \in Seq(Items) /\ up \in Seq(Items) /\ client.out \in Seq(Items)
            /\ Msg("UPLOAD_INFO", file) \in Items
          BY Messages, Fields DEF UpInv
      <4>2. 0 \in Nat /\ Msg("UPLOAD_INFO", file) = Sent'[0 + 1]
          BY <3>4
      <4>3. Pipe(server.in, up, Append(client.out, Msg("UPLOAD_INFO", file)), Sent', 0, 0 + 1)
          BY <3>3, <4>1, <4>2, WriteOne
      <4> QED
          BY <4>3
    <3> QED
        BY <1>1, <2>1, <2>2, <3>5 DEF Forward, Written
  <2>6. ASSUME NEW a \in Nat, NEW e \in Nat, Backward(a, e) PROVE Backward(a, e)'
      BY <1>1, <2>1, <2>6 DEF Backward, Answered, Answers
  <2> QED
      BY <2>3, <2>4, <2>5, <2>6 DEF UpInv
<1>3. CASE client' = [client EXCEPT !.state = "open"]
  <2>1. /\ client'.state = "open" /\ client'.ifs = client.ifs
        /\ client'.filesize = client.filesize /\ client'.out = client.out
        /\ client'.in = client.in /\ client'.reading = client.reading
        /\ client'.pos = client.pos /\ client'.uploadCB = client.uploadCB
      BY <1>3 DEF UpInv, TypeOK
  <2>2. TypeOK'
      BY <1>1, <1>3 DEF UpInv, TypeOK
  <2>3. ClientOK' /\ ServerOK' /\ SendingGoesOn'
      BY <1>1, <2>1 DEF UpInv, ClientOK, ServerOK, SendingGoesOn
  <2>4. ASSUME NEW b \in Nat, NEW e \in Nat, Forward(b, e) PROVE Forward(b, e)'
      BY <1>1, <2>1, <2>4 DEF Forward, Sent, Written
  <2>5. ASSUME NEW a \in Nat, NEW e \in Nat, Backward(a, e) PROVE Backward(a, e)'
      BY <1>1, <2>1, <2>5 DEF Backward, Answered, Answers
  <2> QED
      BY <2>2, <2>3, <2>4, <2>5 DEF UpInv
<1> QED
    BY <1>2, <1>3 DEF Connect

LEMMA ServerInitStep == UpInv /\ ServerInit => UpInv'
<1> SUFFICES ASSUME UpInv, ServerInit PROVE UpInv'
    OBVIOUS
<1>1. /\ server.state = "none" /\ client.state \in {"open", "closed"}
      /\ server' = [server EXCEPT !.state = "open"]
      /\ UNCHANGED <<faults, file, client, up, down>>
    BY DEF ServerInit
<1>2. /\ server'.state = "open" /\ server'.in = server.in /\ server'.out = server.out
      /\ server'.ofs = server.ofs /\ server'.isRecvMsg = server.isRecvMsg
      /\ server'.filesize = server.filesize /\ server'.recvSize = server.recvSize
      /\ server'.stored = server.stored /\ server'.reading = server.reading
    BY <1>1 DEF UpInv, TypeOK
<1>3. TypeOK'
    BY <1>1 DEF UpInv, TypeOK
<1>4. ClientOK' /\ SendingGoesOn' /\ ServerOK'
    BY <1>1, <1>2 DEF UpInv, ClientOK, SendingGoesOn, ServerOK
<1>5. ASSUME NEW b \in Nat, NEW e \in Nat, Forward(b, e) PROVE Forward(b, e)'
    BY <1>1, <1>2, <1>5 DEF Forward, Sent, Written, UpInv, ServerOK
<1>6. ASSUME NEW a \in Nat, NEW e \in Nat, Backward(a, e) PROVE Backward(a, e)'
    BY <1>1, <1>2, <1>6 DEF Backward, Answered, Answers
<1> QED
    BY <1>3, <1>4, <1>5, <1>6 DEF UpInv

LEMMA GrowStep == UpInv /\ Grow => UpInv'
<1> SUFFICES ASSUME UpInv, Grow PROVE UpInv'
    OBVIOUS
<1>1. /\ file' = file + 1 /\ file \in Nat /\ client.pos \in Nat
      /\ UNCHANGED <<faults, client, server, up, down>>
    BY Fields DEF Grow, UpInv
<1>2. TypeOK'
    BY <1>1 DEF UpInv, TypeOK
<1>3. ClientOK' /\ SendingGoesOn' /\ ServerOK'
    BY <1>1 DEF UpInv, ClientOK, SendingGoesOn, ServerOK
<1>4. ASSUME NEW b \in Nat, NEW e \in Nat, Forward(b, e) PROVE Forward(b, e)'
    BY <1>1, <1>4 DEF Forward, Sent, Written
<1>5. ASSUME NEW a \in Nat, NEW e \in Nat, Backward(a, e) PROVE Backward(a, e)'
    BY <1>1, <1>5 DEF Backward, Answered, Answers
<1> QED
    BY <1>2, <1>3, <1>4, <1>5 DEF UpInv

LEMMA StutterStep == UpInv /\ UNCHANGED vars => UpInv'
<1> SUFFICES ASSUME UpInv, UNCHANGED vars PROVE UpInv'
    OBVIOUS
<1>1. UNCHANGED <<faults, file, client, server, up, down>>
    BY DEF vars
<1>2. TypeOK' /\ ClientOK' /\ SendingGoesOn' /\ ServerOK'
    BY <1>1 DEF UpInv, TypeOK, ClientOK, SendingGoesOn, ServerOK
<1>3. ASSUME NEW b \in Nat, NEW e \in Nat, Forward(b, e) PROVE Forward(b, e)'
    BY <1>1, <1>3 DEF Forward, Sent, Written
<1>4. ASSUME NEW a \in Nat, NEW e \in Nat, Backward(a, e) PROVE Backward(a, e)'
    BY <1>1, <1>4 DEF Backward, Answered, Answers
<1> QED
    BY <1>2, <1>3, <1>4 DEF UpInv

\* The server closes: what it has not sent is lost.
LEMMA ServerClosesStep ==
  ASSUME UpInv, Waiting(server), server' = Closed(server),
         UNCHANGED <<faults, file, client, up, down>>
  PROVE  UpInv'
<1>0. <<>> \in Seq(Items)
    OBVIOUS
<1>1. /\ server'.state = "closed" /\ server'.in = <<>> /\ server'.out = <<>>
      /\ server'.reading = FALSE /\ server'.ofs = server.ofs
      /\ server'.isRecvMsg = server.isRecvMsg /\ server'.filesize = server.filesize
      /\ server'.recvSize = server.recvSize /\ server'.stored = server.stored
      /\ server.state = "open"
    BY DEF UpInv, TypeOK, Closed, Waiting
<1>2. TypeOK'
    BY <1>0 DEF UpInv, TypeOK, Closed
<1>3. ClientOK' /\ SendingGoesOn' /\ ServerOK'
    BY <1>1 DEF UpInv, ClientOK, SendingGoesOn, ServerOK
<1>4. ASSUME NEW b \in Nat, NEW e \in Nat, Forward(b, e) PROVE Forward(b, e)'
    BY <1>1, <1>4 DEF Forward
<1>5. ASSUME NEW a \in Nat, NEW e \in Nat, Backward(a, e)
      PROVE  \E d \in Nat : Backward(a, d)'
  <2>1. /\ client.in \in Seq(Items) /\ down \in Seq(Items) /\ server.out \in Seq(Items)
        /\ Answered \in Nat
      BY Fields DEF UpInv, Answered
  <2>2. CASE client.state = "closed"
      BY <1>1, <1>5, <2>2 DEF Backward, Answered, Answers
  <2>3. CASE client.state # "closed"
    <3>1. PICK d \in Nat : a <= d /\ d <= e /\ Pipe(client.in, down, <<>>, Answers, a, d)
        BY <1>5, <2>1, <2>3, Lost DEF Backward
    <3>2. a <= d /\ d <= Answered
        BY <1>5, <2>1, <3>1 DEF Backward
    <3> QED
        BY <1>1, <1>5, <3>1, <3>2 DEF Backward, Answered, Answers
  <2> QED
      BY <2>2, <2>3
<1> QED
    BY <1>2, <1>3, <1>4, <1>5 DEF UpInv

LEMMA ServerEofStep == UpInv /\ ServerEof => UpInv'
  BY ServerClosesStep DEF ServerEof

LEMMA ServerBreakStep == UpInv /\ ServerBreak => UpInv'
  BY ServerClosesStep DEF ServerBreak

\* The client closes: what it has not sent is lost.
LEMMA ClientClosesStep ==
  ASSUME UpInv, Waiting(client), client' = Closed(client),
         UNCHANGED <<faults, file, server, up, down>>
  PROVE  UpInv'
<1>0. <<>> \in Seq(Items)
    OBVIOUS
<1>1. /\ client'.state = "closed" /\ client'.in = <<>> /\ client'.out = <<>>
      /\ client'.reading = FALSE /\ client'.ifs = client.ifs
      /\ client'.pos = client.pos /\ client'.filesize = client.filesize
      /\ client'.uploadCB = client.uploadCB /\ client.state = "open"
    BY DEF UpInv, TypeOK, Closed, Waiting
<1>2. TypeOK'
    BY <1>0 DEF UpInv, TypeOK, Closed
<1>3. ClientOK' /\ SendingGoesOn' /\ ServerOK'
    BY <1>1 DEF UpInv, ClientOK, SendingGoesOn, ServerOK
<1>4. ASSUME NEW b \in Nat, NEW e \in Nat, Forward(b, e)
      PROVE  \E d \in Nat : Forward(b, d)'
  <2>1. /\ server.in \in Seq(Items) /\ up \in Seq(Items) /\ client.out \in Seq(Items)
        /\ Sent' = Sent
      BY <1>1, Fields DEF UpInv, Sent
  <2>2. CASE server.state = "closed"
      BY <1>1, <1>4, <2>2 DEF Forward
  <2>3. CASE server.state # "closed"
    <3>1. PICK d \in Nat : Pipe(server.in, up, <<>>, Sent, b, d)
        BY <1>4, <2>1, <2>3, Lost DEF Forward
    <3> QED
        BY <1>1, <1>4, <2>1, <3>1 DEF Forward
  <2> QED
      BY <2>2, <2>3
<1>5. ASSUME NEW a \in Nat, NEW e \in Nat, Backward(a, e) PROVE Backward(a, e)'
    BY <1>1, <1>5 DEF Backward, Answered
<1> QED
    BY <1>2, <1>3, <1>4, <1>5 DEF UpInv

LEMMA ClientEofStep == UpInv /\ ClientEof => UpInv'
  BY ClientClosesStep DEF ClientEof

\* An error or a timeout, also while the client connects.
LEMMA ClientBreakStep == UpInv /\ ClientBreak => UpInv'
<1> SUFFICES ASSUME UpInv, ClientBreak PROVE UpInv'
    OBVIOUS
<1>1. CASE client.state = "open"
    BY <1>1, ClientClosesStep DEF ClientBreak
<1>2. CASE client.state # "open"
  <2>1. /\ client.state = "connecting" /\ client' = [client EXCEPT !.state = "failed"]
        /\ UNCHANGED <<faults, file, server, up, down>>
      BY <1>2 DEF ClientBreak, Waiting
  <2>2. /\ client'.state = "failed" /\ client'.ifs = client.ifs
        /\ client'.filesize = client.filesize /\ client'.out = client.out
        /\ client'.in = client.in /\ client'.reading = client.reading
        /\ client'.pos = client.pos /\ client'.uploadCB = client.uploadCB
      BY <2>1 DEF UpInv, TypeOK
  <2>3. TypeOK'
      BY <2>1 DEF UpInv, TypeOK
  <2>4. ClientOK' /\ SendingGoesOn' /\ ServerOK'
      BY <2>1, <2>2 DEF UpInv, ClientOK, SendingGoesOn, ServerOK
  <2>5. ASSUME NEW b \in Nat, NEW e \in Nat, Forward(b, e) PROVE Forward(b, e)'
      BY <2>1, <2>2, <2>5 DEF Forward, Sent, Written
  <2>6. ASSUME NEW a \in Nat, NEW e \in Nat, Backward(a, e) PROVE Backward(a, e)'
      BY <2>1, <2>2, <2>6 DEF Backward, Answered, Answers
  <2> QED
      BY <2>3, <2>4, <2>5, <2>6 DEF UpInv
<1> QED
    BY <1>1, <1>2

LEMMA ClientReadEventStep == UpInv /\ ClientReadEvent => UpInv'
<1> SUFFICES ASSUME UpInv, ClientReadEvent PROVE UpInv'
    OBVIOUS
<1>1. PICK n \in 1 .. Len(down) :
        /\ client' = [client EXCEPT !.in = Upto(down, n), !.reading = TRUE]
        /\ down' = Behind(down, n)
    BY DEF ClientReadEvent
<1>2. /\ client'.in = Upto(down, n) /\ client'.reading = TRUE
      /\ client'.state = client.state /\ client'.out = client.out /\ client'.ifs = client.ifs
      /\ client'.pos = client.pos /\ client'.filesize = client.filesize
      /\ client'.uploadCB = client.uploadCB
      /\ UNCHANGED <<faults, file, server, up>>
      /\ client.state = "open" /\ client.in = <<>>
    BY <1>1 DEF UpInv, TypeOK, ClientReadEvent, Waiting, ClientOK
<1>3. /\ client'.in \in Seq(Items) /\ client'.in # <<>> /\ down' \in Seq(Items)
      /\ \A f : \A a, e \in Nat :
           Pipe(client.in, down, server.out, f, a, e) =>
             Pipe(client'.in, down', server.out, f, a, e)
  <2>1. /\ client.in \in Seq(Items) /\ down \in Seq(Items) /\ server.out \in Seq(Items)
        /\ n \in 0 .. Len(down) /\ n > 0
    <3>1. client.in \in Seq(Items) /\ down \in Seq(Items) /\ server.out \in Seq(Items)
        BY Fields DEF UpInv
    <3> QED
        BY <1>1, <3>1
  <2>2. /\ Behind(down, n) \in Seq(Items)
        /\ \A f : \A a, e \in Nat :
             Pipe(client.in, down, server.out, f, a, e) =>
               Pipe(client.in \o Upto(down, n), Behind(down, n), server.out, f, a, e)
    <3>1. PICK s \in Seq(Items), t \in Seq(Items), u \in Seq(Items) :
            s = client.in /\ t = down /\ u = server.out
        BY <2>1
    <3>2. n \in 0 .. Len(t)
        BY <2>1, <3>1
    <3>3. /\ Behind(t, n) \in Seq(Items)
          /\ \A f : \A a, e \in Nat :
               Pipe(s, t, u, f, a, e) => Pipe(s \o Upto(t, n), Behind(t, n), u, f, a, e)
        BY <3>2, Receive
    <3> QED
        BY <3>1, <3>3
  <2>3. Upto(down, n) \in Seq(Items) /\ Len(Upto(down, n)) = n
      BY <2>1, Cut
  <2>4. Upto(down, n) # <<>> /\ client.in \o Upto(down, n) = Upto(down, n)
      BY <1>2, <2>1, <2>3, ConcatEmptySeq
  <2> QED
      BY <1>1, <1>2, <2>2, <2>3, <2>4
<1>4. TypeOK'
    BY <1>1, <1>2, <1>3 DEF UpInv, TypeOK
<1>5. ClientOK' /\ SendingGoesOn' /\ ServerOK'
    BY <1>2, <1>3 DEF UpInv, ClientOK, SendingGoesOn, ServerOK
<1>6. ASSUME NEW b \in Nat, NEW e \in Nat, Forward(b, e) PROVE Forward(b, e)'
    BY <1>2, <1>6 DEF Forward, Sent, Written
<1>7. ASSUME NEW a \in Nat, NEW e \in Nat, Backward(a, e) PROVE Backward(a, e)'
    BY <1>2, <1>3, <1>7 DEF Backward, Answered, Answers
<1> QED
    BY <1>4, <1>5, <1>6, <1>7 DEF UpInv

\* A task takes n items of its input buffer.
LEMMA ServerTakes ==
  ASSUME UpInv, server.reading, NEW n \in 0 .. Len(server.in)
  PROVE  /\ Behind(server.in, n) \in Seq(Items) /\ server.state = "open"
         /\ \A b, e \in Nat : Forward(b, e) =>
              /\ Run(Upto(server.in, n), Sent, b)
              /\ Pipe(Behind(server.in, n), up, client.out, Sent, b + n, e)
              /\ b + n \in Nat /\ b + n <= e
<1>1. /\ server.in \in Seq(Items) /\ up \in Seq(Items) /\ client.out \in Seq(Items)
      /\ server.state = "open"
    BY Fields DEF UpInv, ServerOK
<1>2. Behind(server.in, n) \in Seq(Items)
    BY <1>1, Cut
<1>3. ASSUME NEW b \in Nat, NEW e \in Nat, Forward(b, e)
      PROVE  /\ Run(Upto(server.in, n), Sent, b)
             /\ Pipe(Behind(server.in, n), up, client.out, Sent, b + n, e)
             /\ b + n \in Nat /\ b + n <= e
  <2>1. Pipe(server.in, up, client.out, Sent, b, e)
      BY <1>1, <1>3 DEF Forward
  <2> QED
      BY <1>1, <2>1, Take
<1> QED
    BY <1>1, <1>2, <1>3

LEMMA ServerStrayHeadStep == UpInv /\ ServerStrayHead => UpInv'
<1> SUFFICES ASSUME UpInv, ServerStrayHead PROVE UpInv'
    OBVIOUS
<1>1. /\ server.reading /\ server.isRecvMsg
      /\ UNCHANGED <<faults, file, client, up, down>>
    BY DEF ServerStrayHead
<1>2. PICK n \in 0 .. Len(server.in) :
        server' = [server EXCEPT !.in = Behind(@, n), !.reading = FALSE]
  <2>1. AtMost(Len(server.in), HeadSize) \in 0 .. Len(server.in)
    <3>1. Len(server.in) \in Nat
        BY Fields DEF UpInv
    <3> QED
        BY <3>1, UploadAssumption DEF AtMost
  <2> QED
      BY <2>1 DEF ServerStrayHead
<1>3. /\ server'.in = Behind(server.in, n) /\ server'.reading = FALSE
      /\ server'.state = server.state /\ server'.out = server.out /\ server'.ofs = server.ofs
      /\ server'.isRecvMsg = server.isRecvMsg /\ server'.filesize = server.filesize
      /\ server'.recvSize = server.recvSize /\ server'.stored = server.stored
      /\ server.ofs = "none"
    BY <1>1, <1>2 DEF UpInv, TypeOK, ServerOK
<1>4. Behind(server.in, n) \in Seq(Items) /\ server.state = "open"
    BY <1>1, ServerTakes
<1>5. TypeOK'
    BY <1>1, <1>2, <1>4 DEF UpInv, TypeOK
<1>6. ClientOK' /\ SendingGoesOn' /\ ServerOK'
    BY <1>1, <1>3, <1>4 DEF UpInv, ClientOK, SendingGoesOn, ServerOK
<1>7. ASSUME NEW b \in Nat, NEW e \in Nat, Forward(b, e)
      PROVE  b + n \in Nat /\ Forward(b + n, e)'
  <2>1. /\ Pipe(Behind(server.in, n), up, client.out, Sent, b + n, e)
        /\ b + n \in Nat
      BY <1>1, <1>7, ServerTakes
  <2>2. Sent' = Sent /\ Written' = Written
      BY <1>1 DEF Sent, Written
  <2> QED
      BY <1>1, <1>3, <1>4, <1>7, <2>1, <2>2 DEF Forward
<1>8. ASSUME NEW a \in Nat, NEW e \in Nat, Backward(a, e) PROVE Backward(a, e)'
    BY <1>1, <1>3, <1>8 DEF Backward, Answered, Answers
<1> QED
    BY <1>5, <1>6, <1>7, <1>8 DEF UpInv

LEMMA UploadStep == UpInv /\ Upload => UpInv'
<1> SUFFICES ASSUME UpInv, Upload PROVE UpInv'
    OBVIOUS
<1> DEFINE s == [Consume(server, 1) EXCEPT !.filesize = Head(server.in).n]
<1>1. /\ server.reading /\ server.isRecvMsg /\ Head(server.in).type = "UPLOAD_INFO"
      /\ UNCHANGED <<faults, file, client, up, down>>
      /\ server.ofs = "none" /\ server.stored = <<>> /\ server.recvSize = 0
      /\ server.state = "open" /\ server.in # <<>>
    BY DEF Upload, UpInv, ServerOK, TypeOK
<1>2. PICK b \in Nat, e \in Nat : Forward(b, e)
    BY DEF UpInv
<1>3. /\ b = 0 /\ e >= 1 /\ Head(server.in) = Msg("UPLOAD_INFO", client.filesize)
      /\ 1 \in 0 .. Len(server.in)
  <2>1. /\ server.in \in Seq(Items) /\ up \in Seq(Items) /\ client.out \in Seq(Items)
        /\ Len(server.in) \in Nat
      BY Fields DEF UpInv
  <2>2. Head(server.in) = Sent[b + 1] /\ b + 1 <= e /\ 1 <= Len(server.in)
      BY <1>1, <1>2, <2>1, First DEF Forward
  <2>3. b = 0
      BY <1>1, <2>2 DEF Sent, Data
  <2> QED
      BY <2>1, <2>2, <2>3 DEF Sent
<1>4. /\ Behind(server.in, 1) \in Seq(Items)
      /\ Pipe(Behind(server.in, 1), up, client.out, Sent, 1, e)
  <2>1. Pipe(Behind(server.in, 1), up, client.out, Sent, b + 1, e)
      BY <1>1, <1>2, <1>3, ServerTakes
  <2> QED
      BY <1>1, <1>3, <2>1, ServerTakes
<1>5. /\ s.in = Behind(server.in, 1) /\ s.reading = (Behind(server.in, 1) # <<>>)
      /\ s.filesize = client.filesize /\ s.state = "open" /\ s.out = server.out
      /\ s.ofs = "none" /\ s.isRecvMsg = server.isRecvMsg /\ s.recvSize = 0
      /\ s.stored = <<>>
      /\ s \in [state : {"none", "open", "closed"}, reading : BOOLEAN,
                 in : Seq(Items), out : Seq(Items), isRecvMsg : BOOLEAN,
                 ofs : {"none", "open", "closed"}, filesize : Nat,
                 recvSize : Nat, stored : Seq(Items)]
  <2> DEFINE r == Consume(server, 1)
  <2>1. /\ r.in = Behind(server.in, 1) /\ r.reading = (Behind(server.in, 1) # <<>>)
        /\ r.state = "open" /\ r.out = server.out /\ r.ofs = "none"
        /\ r.isRecvMsg = server.isRecvMsg /\ r.recvSize = 0 /\ r.stored = <<>>
        /\ r \in [state : {"none", "open", "closed"}, reading : BOOLEAN,
                   in : Seq(Items), out : Seq(Items), isRecvMsg : BOOLEAN,
                   ofs : {"none", "open", "closed"}, filesize : Nat,
                   recvSize : Nat, stored : Seq(Items)]
    <3> DEFINE in == Behind(server.in, 1)
    <3>1. /\ r \in [state : {"none", "open", "closed"}, reading : BOOLEAN,
                     in : Seq(Items), out : Seq(Items), isRecvMsg : BOOLEAN,
                     ofs : {"none", "open", "closed"}, filesize : Nat,
                     recvSize : Nat, stored : Seq(Items)]
          /\ r = [server EXCEPT !.in = in, !.reading = (in # <<>>)]
        BY <1>4 DEF Consume, UpInv, TypeOK
    <3> HIDE DEF r, in
    <3>2. /\ r.in = in /\ r.reading = (in # <<>>) /\ r.state = server.state
          /\ r.out = server.out /\ r.ofs = server.ofs /\ r.isRecvMsg = server.isRecvMsg
          /\ r.recvSize = server.recvSize /\ r.stored = server.stored
        BY <3>1 DEF UpInv, TypeOK
    <3> QED
        BY <1>1, <3>1, <3>2 DEF in
  <2>2. Head(server.in).n = client.filesize /\ client.filesize \in Nat
      BY <1>3, Fields, SMTT(30) DEF UpInv, Msg
  <2>3. s = [r EXCEPT !.filesize = client.filesize]
      BY <2>2
  <2> HIDE DEF r, s
  <2> QED
      BY <2>1, <2>2, <2>3
<1>6. \/ server' = s
      \/ /\ s.filesize > 0
         /\ server' = [s EXCEPT !.ofs = "open", !.isRecvMsg = FALSE, !.recvSize = 0,
                                !.out = Append(@, Msg("UPLOAD_ACCEPT", 0))]
    BY DEF Upload
<1> HIDE DEF s
<1>7. Sent' = Sent /\ Written' = Written
    BY <1>1 DEF Sent, Written
<1>8. CASE server' = s
  <2>1. TypeOK'
      BY <1>1, <1>5, <1>8 DEF UpInv, TypeOK
  <2>2. ClientOK' /\ SendingGoesOn' /\ ServerOK'
      BY <1>1, <1>5, <1>8 DEF UpInv, ClientOK, SendingGoesOn, ServerOK
  <2>3. Forward(1, e)'
      BY <1>1, <1>2, <1>4, <1>5, <1>7, <1>8 DEF Forward
  <2>4. ASSUME NEW a \in Nat, NEW d \in Nat, Backward(a, d) PROVE Backward(a, d)'
      BY <1>1, <1>5, <1>8, <2>4 DEF Backward, Answered, Answers
  <2> QED
      BY <2>1, <2>2, <2>3, <2>4 DEF UpInv
<1>9. CASE /\ s.filesize > 0
           /\ server' = [s EXCEPT !.ofs = "open", !.isRecvMsg = FALSE, !.recvSize = 0,
                                  !.out = Append(@, Msg("UPLOAD_ACCEPT", 0))]
  <2>1. /\ server'.in = s.in /\ server'.reading = s.reading
        /\ server'.filesize = client.filesize /\ server'.state = "open"
        /\ server'.out = Append(server.out, Msg("UPLOAD_ACCEPT", 0))
        /\ server'.ofs = "open" /\ server'.isRecvMsg = FALSE /\ server'.recvSize = 0
        /\ server'.stored = <<>> /\ client.filesize > 0
      BY <1>5, <1>9
  <2>2. server'.out \in Seq(Items)
    <3>1. server.out \in Seq(Items) /\ Msg("UPLOAD_ACCEPT", 0) \in Items
        BY Fields, Messages DEF UpInv
    <3> QED
        BY <2>1, <3>1
  <2>3. TypeOK'
      BY <1>1, <1>5, <1>9, <2>1, <2>2 DEF UpInv, TypeOK
  <2>4. <<>> = Content(0)
      BY ContentZero
  <2>5. ClientOK' /\ SendingGoesOn' /\ ServerOK'
      BY <1>1, <1>5, <2>1, <2>4 DEF UpInv, ClientOK, SendingGoesOn, ServerOK
  <2>6. Forward(1, e)'
      BY <1>1, <1>2, <1>4, <1>5, <1>7, <2>1 DEF Forward
  <2>7. ASSUME NEW a \in Nat, NEW d \in Nat, Backward(a, d)
        PROVE  \E c \in Nat : Backward(a, c)'
    <3>1. Answers' = Answers /\ Answered = 0 /\ Answered' = 1
        BY <1>1, <2>1 DEF Answers, Answered
    <3>2. CASE client.state = "closed"
        BY <1>1, <2>1, <2>7, <3>1, <3>2 DEF Backward
    <3>3. CASE client.state # "closed"
      <4>1. /\ client.in \in Seq(Items) /\ down \in Seq(Items) /\ server.out \in Seq(Items)
            /\ Msg("UPLOAD_ACCEPT", 0) \in Items
          BY Fields, Messages DEF UpInv
      <4>2. Pipe(client.in, down, server.out, Answers, a, 0) /\ d = 0 /\ a <= 0
          BY <1>1, <2>7, <3>1, <3>3 DEF Backward
      <4>3. Msg("UPLOAD_ACCEPT", 0) = Answers[0 + 1] /\ 0 \in Nat
          BY DEF Answers
      <4>4. Pipe(client.in, down, Append(server.out, Msg("UPLOAD_ACCEPT", 0)), Answers, a, 0 + 1)
          BY <4>1, <4>2, <4>3, WriteOne
      <4>5. Backward(a, 1)'
          BY <1>1, <2>1, <2>7, <3>1, <4>2, <4>4 DEF Backward
      <4> QED
          BY <4>5
    <3> QED
        BY <3>2, <3>3
  <2> QED
      BY <2>3, <2>5, <2>6, <2>7 DEF UpInv
<1> QED
    BY <1>6, <1>8, <1>9

\* The server's file grows by what follows in the client's.
LEMMA StoresNext ==
  ASSUME TypeOK, ServerOK, server.ofs = "open", NEW w \in Seq(Items), Run(w, Sent, server.recvSize + 1)
  PROVE  /\ server.stored \o w \in Seq(Items)
         /\ server.stored \o w = Content(server.recvSize + Len(w))
<1>1. /\ server.recvSize \in Nat /\ server.stored \in Seq(Items)
      /\ server.stored = Content(server.recvSize)
    BY Fields DEF ServerOK
<1>2. Len(server.stored) = server.recvSize /\ Run(server.stored, Bytes, 0)
    BY <1>1, ContentOK
<1>3. Run(w, Bytes, 0 + Len(server.stored))
  <2>1. server.recvSize \in Nat
      BY <1>1
  <2>2. \A a \in Nat : Run(w, Sent, a + 1) => Run(w, Bytes, a)
      BY Shift
  <2>3. Run(w, Bytes, server.recvSize)
      BY <2>1, <2>2
  <2>4. 0 + Len(server.stored) = server.recvSize
      BY <1>2, <2>1
  <2> QED
      BY <2>3, <2>4
<1>4. /\ server.stored \o w \in Seq(Items)
      /\ Len(server.stored \o w) = Len(server.stored) + Len(w)
      /\ Run(server.stored \o w, Bytes, 0)
    BY <1>1, <1>2, <1>3, RunConcat
<1> QED
    BY <1>2, <1>4, RunIsContent

LEMMA ServerRawReadCBStep == UpInv /\ ServerRawReadCB => UpInv'
<1> SUFFICES ASSUME UpInv, ServerRawReadCB PROVE UpInv'
    OBVIOUS
<1>1. /\ server.reading /\ ~server.isRecvMsg /\ server.state = "open" /\ server.in # <<>>
      /\ UNCHANGED <<faults, file, client, up, down>>
      /\ server.ofs # "none" /\ server.filesize = client.filesize /\ server.filesize > 0
    BY DEF ServerRawReadCB, UpInv, ServerOK
<1>2. PICK n \in 1 .. Len(server.in) : n = AtMost(Len(server.in), BufSize)
  <2>1. server.in \in Seq(Items) /\ Len(server.in) \in Nat
      BY Fields DEF UpInv
  <2>2. Len(server.in) >= 1
      BY <1>1, <2>1, EmptySeq
  <2> QED
      BY <2>1, <2>2, StreamAssumption DEF AtMost
<1>3. /\ Behind(server.in, n) \in Seq(Items) /\ n \in Nat /\ n >= 1
      /\ Upto(server.in, n) \in Seq(Items) /\ Len(Upto(server.in, n)) = n
      /\ \A b, e \in Nat : Forward(b, e) =>
           /\ Run(Upto(server.in, n), Sent, b)
           /\ Pipe(Behind(server.in, n), up, client.out, Sent, b + n, e)
           /\ b + n \in Nat /\ b + n <= e
  <2>1. n \in 0 .. Len(server.in) /\ server.in \in Seq(Items) /\ n \in Nat /\ n >= 1
      BY <1>2, Fields DEF UpInv
  <2> QED
      BY <1>1, <2>1, ServerTakes, Cut
<1> DEFINE s == Consume(server, n)
           w == [s EXCEPT !.stored = @ \o Upto(server.in, n), !.recvSize = s.recvSize + n]
           c == [w EXCEPT !.ofs = "closed", !.out = Append(@, Msg("UPLOAD_COMPLETE", 0))]
<1>4. /\ s.in = Behind(server.in, n) /\ s.reading = (Behind(server.in, n) # <<>>)
      /\ s.state = "open" /\ s.out = server.out /\ s.ofs = server.ofs
      /\ s.isRecvMsg = server.isRecvMsg /\ s.recvSize = server.recvSize
      /\ s.filesize = server.filesize /\ s.stored = server.stored
      /\ s \in [state : {"none", "open", "closed"}, reading : BOOLEAN,
                 in : Seq(Items), out : Seq(Items), isRecvMsg : BOOLEAN,
                 ofs : {"none", "open", "closed"}, filesize : Nat,
                 recvSize : Nat, stored : Seq(Items)]
    BY <1>1, <1>3 DEF Consume, UpInv, TypeOK
<1>5. server' = IF s.ofs # "open" THEN s
                ELSE IF s.recvSize + n # w.filesize THEN w ELSE c
    BY <1>2 DEF ServerRawReadCB
<1> HIDE DEF s
<1>6. Sent' = Sent /\ Written' = Written /\ Answers' = Answers
    BY <1>1 DEF Sent, Written, Answers
<1>7. PICK b \in Nat, e \in Nat : Forward(b, e)
    BY DEF UpInv
<1>8. /\ Pipe(Behind(server.in, n), up, client.out, Sent, b + n, e)
      /\ Run(Upto(server.in, n), Sent, b) /\ b + n \in Nat /\ b + n >= 1
    BY <1>3, <1>7
<1>9. CASE server.ofs # "open"
  <2>1. server' = s
      BY <1>4, <1>5, <1>9
  <2>2. TypeOK'
      BY <1>1, <1>4, <2>1 DEF UpInv, TypeOK
  <2>3. ClientOK' /\ SendingGoesOn' /\ ServerOK'
      BY <1>1, <1>4, <2>1 DEF UpInv, ClientOK, SendingGoesOn, ServerOK
  <2>4. Forward(b + n, e)'
      BY <1>1, <1>4, <1>6, <1>7, <1>8, <1>9, <2>1 DEF Forward
  <2>5. ASSUME NEW a \in Nat, NEW d \in Nat, Backward(a, d) PROVE Backward(a, d)'
      BY <1>1, <1>4, <1>6, <2>1, <2>5 DEF Backward, Answered
  <2> QED
      BY <1>8, <2>2, <2>3, <2>4, <2>5 DEF UpInv
<1>10. CASE server.ofs = "open"
  <2>1. b = server.recvSize + 1 /\ server.recvSize \in Nat
      BY <1>1, <1>7, <1>10, Fields DEF Forward, UpInv
  <2>2. b + n = server.recvSize + n + 1 /\ server.recvSize + n \in Nat
    <3>1. n \in Nat
        BY <1>3
    <3> QED
        BY <2>1, <3>1
  <2>3. /\ server.stored \o Upto(server.in, n) \in Seq(Items)
        /\ server.stored \o Upto(server.in, n) = Content(server.recvSize + n)
    <3>1. Run(Upto(server.in, n), Sent, server.recvSize + 1)
        BY <1>8, <2>1
    <3> QED
        BY <1>3, <1>10, <3>1, StoresNext DEF UpInv
  <2>4. /\ w.stored = Content(server.recvSize + n) /\ w.recvSize = server.recvSize + n
        /\ w.in = s.in /\ w.reading = s.reading /\ w.state = "open" /\ w.out = server.out
        /\ w.ofs = "open" /\ w.isRecvMsg = server.isRecvMsg /\ w.filesize = server.filesize
        /\ w \in [state : {"none", "open", "closed"}, reading : BOOLEAN,
                   in : Seq(Items), out : Seq(Items), isRecvMsg : BOOLEAN,
                   ofs : {"none", "open", "closed"}, filesize : Nat,
                   recvSize : Nat, stored : Seq(Items)]
    <3>1. w = [s EXCEPT !.stored = Content(server.recvSize + n),
                        !.recvSize = server.recvSize + n]
        BY <1>4, <2>3
    <3>2. Content(server.recvSize + n) \in Seq(Items)
        BY <2>3
    <3> HIDE DEF w
    <3> QED
        BY <1>4, <1>10, <2>2, <3>1, <3>2
  <2> HIDE DEF w
  <2>5. CASE server.recvSize + n # server.filesize
    <3>1. server' = w
        BY <1>4, <1>5, <1>10, <2>4, <2>5
    <3>2. TypeOK'
        BY <1>1, <2>4, <3>1 DEF UpInv, TypeOK
    <3>6. ClientOK' /\ SendingGoesOn'
        BY <1>1, <2>4, <3>1 DEF UpInv, ClientOK, SendingGoesOn
    <3>7. ServerOK'
      <4>1. /\ ~server.isRecvMsg /\ server.filesize = client.filesize /\ server.filesize > 0
            /\ UNCHANGED <<client, file>>
          BY <1>1, <1>10 DEF UpInv, ServerOK
      <4>2. server'.reading => server'.in # <<>>
          BY <1>4, <2>4, <3>1
      <4> QED
          BY <2>4, <2>5, <3>1, <4>1, <4>2 DEF ServerOK, Content, Data
    <3>3. ClientOK' /\ SendingGoesOn' /\ ServerOK'
        BY <3>6, <3>7
    <3>4. Forward(b + n, e)'
        BY <1>1, <1>4, <1>6, <1>7, <1>8, <2>4, <2>2, <3>1 DEF Forward
    <3>5. ASSUME NEW a \in Nat, NEW d \in Nat, Backward(a, d) PROVE Backward(a, d)'
        BY <1>1, <1>6, <1>10, <2>4, <3>1, <3>5 DEF Backward, Answered
    <3> QED
        BY <1>8, <3>2, <3>3, <3>4, <3>5 DEF UpInv
  <2>6. CASE server.recvSize + n = server.filesize
    <3>1. server' = c
        BY <1>4, <1>5, <1>10, <2>4, <2>6
    <3>2. /\ server'.stored = Content(server.recvSize + n)
          /\ server'.recvSize = server.recvSize + n
          /\ server'.in = s.in /\ server'.reading = s.reading /\ server'.state = "open"
          /\ server'.out = Append(server.out, Msg("UPLOAD_COMPLETE", 0))
          /\ server'.ofs = "closed" /\ server'.isRecvMsg = server.isRecvMsg
          /\ server'.filesize = server.filesize
        BY <2>4, <3>1
    <3>3. server.out \in Seq(Items) /\ Msg("UPLOAD_COMPLETE", 0) \in Items
        BY Fields, Messages DEF UpInv
    <3>4. Append(server.out, Msg("UPLOAD_COMPLETE", 0)) \in Seq(Items)
        BY <3>3
    <3>5. TypeOK'
        BY <1>1, <2>4, <3>1, <3>4 DEF UpInv, TypeOK
    <3>6. ClientOK' /\ SendingGoesOn' /\ ServerOK'
        BY <1>1, <1>4, <2>6, <3>2 DEF UpInv, ClientOK, SendingGoesOn, ServerOK
    <3>7. Forward(b + n, e)'
        BY <1>1, <1>4, <1>6, <1>7, <1>8, <3>2 DEF Forward
    <3>8. ASSUME NEW a \in Nat, NEW d \in Nat, Backward(a, d)
          PROVE  \E k \in Nat : Backward(a, k)'
      <4>1. Answered = 1 /\ Answered' = 2
          BY <1>10, <3>2 DEF Answered
      <4>2. CASE client.state = "closed"
          BY <1>1, <1>6, <3>2, <3>8, <4>1, <4>2 DEF Backward
      <4>3. CASE client.state # "closed"
        <5>1. client.in \in Seq(Items) /\ down \in Seq(Items) /\ server.out \in Seq(Items)
            BY Fields DEF UpInv
        <5>2. Pipe(client.in, down, server.out, Answers, a, 1) /\ a <= 1
            BY <1>1, <3>8, <4>1, <4>3 DEF Backward
        <5>3. Msg("UPLOAD_COMPLETE", 0) = Answers[1 + 1] /\ 1 \in Nat
            BY DEF Answers
        <5>4. Pipe(client.in, down, Append(server.out, Msg("UPLOAD_COMPLETE", 0)), Answers,
                   a, 1 + 1)
            BY <3>3, <5>1, <5>2, <5>3, WriteOne
        <5>5. Backward(a, 2)'
            BY <1>1, <1>6, <3>2, <3>8, <4>1, <5>2, <5>4 DEF Backward
        <5> QED
            BY <5>5
      <4> QED
          BY <4>2, <4>3
    <3> QED
        BY <1>8, <3>5, <3>6, <3>7, <3>8 DEF UpInv
  <2> QED
      BY <2>5, <2>6
<1> QED
    BY <1>9, <1>10

\* The client takes the answer that comes next.
LEMMA ClientTakes ==
  ASSUME UpInv, client.reading, NEW a \in Nat, NEW e \in Nat, Backward(a, e)
  PROVE  /\ Behind(client.in, 1) \in Seq(Items)
         /\ Head(client.in) = Answers[a + 1] /\ a + 1 <= e /\ e <= Answered
         /\ Pipe(Behind(client.in, 1), down, server.out, Answers, a + 1, e)
<1>1. client.state = "open" /\ client.in # <<>>
    BY DEF UpInv, ClientOK
<1>2. /\ client.in \in Seq(Items) /\ down \in Seq(Items) /\ server.out \in Seq(Items)
      /\ Len(client.in) \in Nat
      /\ Pipe(client.in, down, server.out, Answers, a, e)
    BY <1>1, Fields DEF UpInv, Backward
<1>3. Head(client.in) = Answers[a + 1] /\ a + 1 <= e /\ 1 \in 0 .. Len(client.in)
  <2>1. PICK s \in Seq(Items) : s = client.in /\ s # <<>> /\ Len(s) \in Nat
      BY <1>1, <1>2
  <2>2. Head(s) = Answers[a + 1] /\ a + 1 <= e /\ 1 <= Len(s)
      BY <1>2, <2>1, First
  <2> QED
      BY <2>1, <2>2
<1> QED
    BY <1>2, <1>3, Take, Cut DEF Backward

LEMMA ClientReadCBStep == UpInv /\ ClientReadCB => UpInv'
<1> SUFFICES ASSUME UpInv, ClientReadCB PROVE UpInv'
    OBVIOUS
<1>1. /\ client.reading /\ client.state = "open" /\ client.in # <<>>
      /\ UNCHANGED <<faults, file, server, up, down>>
    BY DEF ClientReadCB, UpInv, ClientOK
<1>2. PICK a \in Nat, e \in Nat : Backward(a, e)
    BY DEF UpInv
<1>3. /\ Behind(client.in, 1) \in Seq(Items)
      /\ Head(client.in) = Answers[a + 1] /\ a + 1 <= e /\ e <= Answered
      /\ Pipe(Behind(client.in, 1), down, server.out, Answers, a + 1, e)
    BY <1>1, <1>2, ClientTakes
<1>4. Answered \in 0 .. 2 /\ Answered' = Answered /\ Answers' = Answers
    BY <1>1 DEF Answered, Answers
<1>5. \/ a = 0 /\ Head(client.in).type = "UPLOAD_ACCEPT" /\ client.uploadCB = 0
      \/ a = 1 /\ Head(client.in).type # "UPLOAD_ACCEPT" /\ client.uploadCB = 0
    BY <1>2, <1>3, <1>4 DEF Answers, Msg, Backward
<1> DEFINE c == Consume(client, 1)
<1>6. /\ c.in = Behind(client.in, 1) /\ c.reading = (Behind(client.in, 1) # <<>>)
      /\ c.state = "open" /\ c.out = client.out /\ c.ifs = client.ifs
      /\ c.pos = client.pos /\ c.filesize = client.filesize /\ c.uploadCB = client.uploadCB
      /\ c \in [state : {"connecting", "failed", "open", "closed"}, reading : BOOLEAN,
                 in : Seq(Items), out : Seq(Items),
                 ifs : {"none", "open", "closed"}, pos : Nat, filesize : Nat,
                 uploadCB : Nat]
    BY <1>1, <1>3 DEF Consume, UpInv, TypeOK
<1>7. client' = IF Head(client.in).type = "UPLOAD_ACCEPT"
                THEN IF c.out = <<>> THEN WriteCB(c) ELSE c
                ELSE [c EXCEPT !.uploadCB = @ + 1]
    BY DEF ClientReadCB
<1> HIDE DEF c
<1>8. \/ client' = c /\ a = 0
      \/ client' = [c EXCEPT !.uploadCB = @ + 1] /\ a = 1
  <2>1. c.out = <<>> => c.ifs # "open"
      BY <1>1, <1>6 DEF UpInv, SendingGoesOn
  <2> QED
      BY <1>5, <1>7, <2>1 DEF WriteCB
<1>9. /\ client'.in = Behind(client.in, 1) /\ client'.reading = (Behind(client.in, 1) # <<>>)
      /\ client'.state = "open" /\ client'.out = client.out /\ client'.ifs = client.ifs
      /\ client'.pos = client.pos /\ client'.filesize = client.filesize
      /\ client'.uploadCB = (IF a = 1 THEN 1 ELSE 0)
    BY <1>5, <1>6, <1>8
<1>10. TypeOK'
  <2>1. c.uploadCB + 1 \in Nat
      BY <1>6
  <2>2. client' \in [state : {"connecting", "failed", "open", "closed"}, reading : BOOLEAN,
                     in : Seq(Items), out : Seq(Items),
                     ifs : {"none", "open", "closed"}, pos : Nat, filesize : Nat,
                     uploadCB : Nat]
      BY <1>6, <1>8, <2>1
  <2> QED
      BY <1>1, <2>2 DEF UpInv, TypeOK
<1>11. ClientOK' /\ SendingGoesOn' /\ ServerOK'
    BY <1>1, <1>9 DEF UpInv, ClientOK, SendingGoesOn, ServerOK
<1>12. ASSUME NEW b \in Nat, NEW d \in Nat, Forward(b, d) PROVE Forward(b, d)'
    BY <1>1, <1>9, <1>12 DEF Forward, Sent, Written
<1>13. Backward(a + 1, e)'
    BY <1>1, <1>2, <1>3, <1>4, <1>5, <1>9 DEF Backward
<1> QED
    BY <1>10, <1>11, <1>12, <1>13 DEF UpInv

LEMMA ClientSendStep == UpInv /\ ClientSend => UpInv'
<1> SUFFICES ASSUME UpInv, ClientSend PROVE UpInv'
    OBVIOUS
<1>1. PICK n \in 1 .. AtMost(Len(client.out), WireCap - Len(up)) :
        /\ up' = up \o Upto(client.out, n)
        /\ LET c == [client EXCEPT !.out = Behind(@, n)] IN
           client' = IF c.out = <<>> THEN WriteCB(c) ELSE c
    BY DEF ClientSend
<1>2. client.state = "open" /\ ~client.reading /\ UNCHANGED <<faults, file, server, down>>
    BY DEF ClientSend, Waiting
<1>3. /\ up \o Upto(client.out, n) \in Seq(Items) /\ Behind(client.out, n) \in Seq(Items)
      /\ \A f : \A b, e \in Nat :
           Pipe(server.in, up, client.out, f, b, e) =>
             Pipe(server.in, up \o Upto(client.out, n), Behind(client.out, n), f, b, e)
  <2>1. /\ server.in \in Seq(Items) /\ up \in Seq(Items) /\ client.out \in Seq(Items)
        /\ Len(client.out) \in Nat /\ Len(up) \in Nat
      BY Fields DEF UpInv
  <2>2. n \in 0 .. Len(client.out)
      BY <1>1, <2>1, StreamAssumption DEF AtMost
  <2> QED
      BY <2>1, <2>2, Send
<1> DEFINE c == [client EXCEPT !.out = Behind(@, n)]
<1>4. /\ c.out = Behind(client.out, n) /\ c.in = client.in /\ c.reading = client.reading
      /\ c.state = "open" /\ c.ifs = client.ifs /\ c.pos = client.pos
      /\ c.filesize = client.filesize /\ c.uploadCB = client.uploadCB
      /\ c \in [state : {"connecting", "failed", "open", "closed"}, reading : BOOLEAN,
                 in : Seq(Items), out : Seq(Items),
                 ifs : {"none", "open", "closed"}, pos : Nat, filesize : Nat,
                 uploadCB : Nat]
    BY <1>2, <1>3 DEF UpInv, TypeOK
<1>5. client' = IF c.out = <<>> THEN WriteCB(c) ELSE c
    BY <1>1
<1> HIDE DEF c
<1>6. CASE client' = c /\ (c.out = <<>> => client.ifs # "open")
  <2>1. TypeOK'
      BY <1>1, <1>2, <1>3, <1>4, <1>6 DEF UpInv, TypeOK
  <2>2. client.ifs = "none" => Behind(client.out, n) = <<>>
    <3>1. ASSUME client.ifs = "none" PROVE FALSE
      <4>1. client.out = <<>> /\ Len(up) \in Nat
          BY <3>1, Fields DEF UpInv, ClientOK
      <4>2. AtMost(Len(client.out), WireCap - Len(up)) <= 0
          BY <4>1, StreamAssumption DEF AtMost
      <4>3. n \in 1 .. AtMost(Len(client.out), WireCap - Len(up))
          OBVIOUS
      <4> QED
          BY <4>1, <4>2, <4>3, StreamAssumption DEF AtMost
    <3> QED
        BY <3>1
  <2>3. ClientOK' /\ SendingGoesOn' /\ ServerOK'
      BY <1>2, <1>4, <1>6, <2>2 DEF UpInv, ClientOK, SendingGoesOn, ServerOK
  <2>4. ASSUME NEW b \in Nat, NEW e \in Nat, Forward(b, e) PROVE Forward(b, e)'
    <3>1. Sent' = Sent /\ Written' = Written
        BY <1>4, <1>6 DEF Sent, Written
    <3>2. up' = up \o Upto(client.out, n) /\ client'.out = Behind(client.out, n)
        BY <1>1, <1>4, <1>6
    <3>3. server.state # "closed" => Pipe(server.in, up', client'.out, Sent, b, e)
        BY <1>3, <2>4, <3>2 DEF Forward
    <3>4. client'.state = client.state /\ server' = server
        BY <1>2, <1>4, <1>6
    <3> QED
        BY <2>4, <3>1, <3>3, <3>4 DEF Forward
  <2>5. ASSUME NEW a \in Nat, NEW e \in Nat, Backward(a, e) PROVE Backward(a, e)'
      BY <1>2, <1>4, <1>6, <2>5 DEF Backward, Answered, Answers
  <2> QED
      BY <2>1, <2>3, <2>4, <2>5 DEF UpInv
<1>7. CASE client' = WriteCB(c) /\ c.out = <<>> /\ client.ifs = "open"
  <2> DEFINE piece == Piece(client.pos, file)
  <2>1. /\ piece \in Seq(Items) /\ Len(piece) \in Nat /\ client.pos + Len(piece) \in Nat
        /\ client.pos + Len(piece) <= file
        /\ Run(piece, Sent, client.pos + 1)
        /\ ~ReadsEof(client.pos, file) => Len(piece) > 0
    <3>1. client.pos \in Nat /\ file \in Nat /\ client.pos <= file
        BY Fields DEF UpInv, ClientOK
    <3>2. /\ piece \in Seq({Data(j) : j \in Nat \ {0}}) /\ Len(piece) \in Nat
          /\ client.pos + Len(piece) <= file /\ Run(piece, Bytes, client.pos)
          /\ ~ReadsEof(client.pos, file) => Len(piece) > 0
        BY <3>1, PieceOK
    <3>3. piece \in Seq(Items)
      <4>1. {Data(j) : j \in Nat \ {0}} \subseteq Items
          BY Messages
      <4> QED
          BY <3>2, <4>1
    <3>4. Run(piece, Sent, client.pos + 1)
        BY <3>1, <3>2, <3>3, Shift
    <3>5. client.pos + Len(piece) \in Nat
        BY <3>1, <3>2
    <3> QED
        BY <3>2, <3>3, <3>4, <3>5
  <2>2. /\ client'.out = piece /\ client'.pos = client.pos + Len(piece)
        /\ client'.ifs = (IF ReadsEof(client.pos, file) THEN "closed" ELSE "open")
        /\ client'.in = client.in /\ client'.reading = client.reading
        /\ client'.state = "open" /\ client'.filesize = client.filesize
        /\ client'.uploadCB = client.uploadCB
        /\ client' \in [state : {"connecting", "failed", "open", "closed"}, reading : BOOLEAN,
                        in : Seq(Items), out : Seq(Items),
                        ifs : {"none", "open", "closed"}, pos : Nat, filesize : Nat,
                        uploadCB : Nat]
    <3>1. client' = [c EXCEPT !.out = @ \o piece, !.pos = @ + Len(piece),
                              !.ifs = IF ReadsEof(client.pos, file) THEN "closed" ELSE "open"]
        BY <1>4, <1>7 DEF WriteCB
    <3>2. c.out \o piece = piece /\ c.pos + Len(piece) = client.pos + Len(piece)
        BY <1>4, <1>7, <2>1, ConcatEmptySeq
    <3>3. client' = [c EXCEPT !.out = piece, !.pos = client.pos + Len(piece),
                              !.ifs = IF ReadsEof(client.pos, file) THEN "closed" ELSE "open"]
        BY <3>1, <3>2
    <3> HIDE DEF piece
    <3> QED
        BY <1>4, <2>1, <3>3
  <2> HIDE DEF piece
  <2>3. piece # <<>> \/ ReadsEof(client.pos, file)
      BY <2>1
  <2>4. TypeOK'
      BY <1>1, <1>2, <1>3, <2>2 DEF UpInv, TypeOK
  <2>5. ClientOK' /\ SendingGoesOn' /\ ServerOK'
      BY <1>2, <1>7, <2>1, <2>2, <2>3 DEF UpInv, ClientOK, SendingGoesOn, ServerOK
  <2>6. Sent' = Sent
      BY <2>2 DEF Sent
  <2>7. ASSUME NEW b \in Nat, NEW e \in Nat, Forward(b, e)
        PROVE  \E d \in Nat : Forward(b, d)'
    <3>1. PICK d \in Nat : d = e + Len(piece)
        BY <2>1
    <3>2. CASE server.state = "closed"
        BY <1>2, <2>2, <2>7, <3>2 DEF Forward
    <3>3. CASE server.state # "closed"
      <4>1. e = client.pos + 1 /\ client.pos \in Nat
          BY <1>2, <1>7, <2>7, <3>3, Fields DEF Forward, Written, UpInv
      <4>2. Pipe(server.in, up \o Upto(client.out, n), <<>>, Sent, b, e)
          BY <1>3, <1>4, <1>7, <2>7, <3>3 DEF Forward
      <4>3. Pipe(server.in, up \o Upto(client.out, n), piece, Sent, b, e + Len(piece))
        <5>1. server.in \in Seq(Items) /\ <<>> \in Seq(Items) /\ Run(piece, Sent, e)
            BY <2>1, <4>1, Fields DEF UpInv
        <5>2. Pipe(server.in, up \o Upto(client.out, n), <<>> \o piece, Sent, b, e + Len(piece))
            BY <1>3, <2>1, <4>2, <5>1, Write
        <5>3. <<>> \o piece = piece
            BY <2>1, ConcatEmptySeq
        <5> QED
            BY <5>2, <5>3
      <4>4. e + Len(piece) = client.pos + Len(piece) + 1
          BY <2>1, <4>1
      <4>5. Written' = d
          BY <2>2, <3>1, <4>4 DEF Written
      <4>6. Pipe(server.in, up', client'.out, Sent, b, d)
          BY <1>1, <2>2, <3>1, <4>3
      <4> QED
          BY <1>2, <2>2, <2>6, <2>7, <4>5, <4>6 DEF Forward
    <3> QED
        BY <3>2, <3>3
  <2>8. ASSUME NEW a \in Nat, NEW e \in Nat, Backward(a, e) PROVE Backward(a, e)'
      BY <1>2, <2>2, <2>8 DEF Backward, Answered, Answers
  <2> QED
      BY <2>4, <2>5, <2>7, <2>8 DEF UpInv
<1> QED
    BY <1>4, <1>5, <1>6, <1>7 DEF WriteCB
--------------------------------------------------------------------------------
LEMMA UpInit == Init => UpInv
<1> SUFFICES ASSUME Init PROVE UpInv
    OBVIOUS
<1>1. /\ client.state = "connecting" /\ client.reading = FALSE /\ client.in = <<>>
      /\ client.out = <<>> /\ client.ifs = "none" /\ client.pos = 0 /\ client.filesize = 0
      /\ client.uploadCB = 0
    BY DEF Init
<1>2. /\ server.state = "none" /\ server.reading = FALSE /\ server.in = <<>>
      /\ server.out = <<>> /\ server.isRecvMsg = TRUE /\ server.ofs = "none"
      /\ server.filesize = 0 /\ server.recvSize = 0 /\ server.stored = <<>>
    BY DEF Init
<1>3. up = <<>> /\ down = <<>> /\ faults \subseteq Faults /\ file \in Nat
    BY UploadAssumption DEF Init
<1>4. TypeOK
  <2>1. <<>> \in Seq(Items)
      OBVIOUS
  <2> QED
      BY <1>3, <2>1 DEF Init, TypeOK
<1>5. ClientOK /\ ServerOK /\ SendingGoesOn
    BY <1>1, <1>2, <1>3 DEF ClientOK, ServerOK, SendingGoesOn
<1>6. Forward(0, 0) /\ Backward(0, 0)
    BY <1>1, <1>2, <1>3 DEF Forward, Backward, Written, Answered, Pipe, Run
<1> QED
    BY <1>4, <1>5, <1>6 DEF UpInv

LEMMA UpNext == UpInv /\ [Next]_vars => UpInv'
  BY ConnectStep, ClientSendStep, ClientReadEventStep, ClientReadCBStep, ClientEofStep,
     ClientBreakStep, ServerInitStep, ServerReadEventStep, UploadStep, ServerRawReadCBStep,
     ServerStrayHeadStep, ServerSendStep, ServerEofStep, ServerBreakStep, GrowStep, StutterStep
  DEF Next, ClientStep, ServerStep, ServerReadCB, ClientError, ClientTimeout, ServerError,
      ServerTimeout

\* UpInv holds in every state of every upload.
THEOREM UploadInvariant == Spec => []UpInv
  BY UpInit, UpNext, PTL DEF Spec

\* Type correctness: the fields of XUploadTask and XFileServerTask, the connection.
THEOREM UploadTypes == Spec => []TypeOK
<1>1. UpInv => TypeOK
    BY DEF UpInv
<1> QED
    BY <1>1, UploadInvariant, PTL

\* For every file and piece size: while the client's file is open there is output
\* whose sending triggers XUploadTask::WriteCB again.
THEOREM UploadGoesOn == Spec => []SendingGoesOn
<1>1. UpInv => SendingGoesOn
    BY DEF UpInv
<1> QED
    BY <1>1, UploadInvariant, PTL

\* UploadCB is called at most once, and only when XFileServerTask has stored what
\* was announced and closed the file, whatever the other side or the link does.
THEOREM UploadCompletes == Spec => []CompleteMeansStored
<1>1. UpInv => CompleteMeansStored
  <2> SUFFICES ASSUME UpInv PROVE CompleteMeansStored
      OBVIOUS
  <2>1. PICK a \in Nat, e \in Nat : Backward(a, e)
      BY DEF UpInv
  <2>2. client.uploadCB = (IF a >= 2 THEN 1 ELSE 0) /\ a <= e /\ e <= Answered
      BY <2>1 DEF Backward
  <2>3. client.uploadCB = 1 => server.ofs = "closed"
      BY <2>2 DEF Answered, UpInv, TypeOK
  <2> QED
      BY <2>2, <2>3 DEF UpInv, ServerOK, CompleteMeansStored
<1> QED
    BY <1>1, UploadInvariant, PTL

\* The bytes that XUploadTask has read are those in the server's file followed by
\* those in the server's buffer, on the wire and in the client's buffer.
THEOREM UploadLosesNothing == Spec => []NothingLost
<1>1. UpInv => NothingLost
  <2> SUFFICES ASSUME UpInv, client.state = "open", server.state = "open", server.ofs = "open"
               PROVE  server.stored \o (server.in \o up \o client.out) = Content(client.pos)
      BY DEF NothingLost
  <2> DEFINE w == server.in \o up \o client.out
  <2>1. PICK b \in Nat, e \in Nat : Forward(b, e)
      BY DEF UpInv
  <2>2. /\ Pipe(server.in, up, client.out, Sent, b, e)
        /\ e = Written /\ b = server.recvSize + 1
      BY <2>1 DEF Forward
  <2>3. w \in Seq(Items) /\ Run(w, Sent, b) /\ b + Len(w) = e
    <3>1. server.in \in Seq(Items) /\ up \in Seq(Items) /\ client.out \in Seq(Items)
        BY Fields DEF UpInv
    <3>2. \A f : \A i, j \in Nat : Pipe(server.in, up, client.out, f, i, j) =>
            w \in Seq(Items) /\ Run(w, f, i) /\ i + Len(w) = j
        BY <3>1, All
    <3> HIDE DEF w
    <3> QED
        BY <2>2, <3>2
  <2> HIDE DEF w
  <2>4. server.stored \o w = Content(server.recvSize + Len(w))
      BY <2>2, <2>3, StoresNext DEF UpInv
  <2>5. server.recvSize + Len(w) = client.pos
    <3>1. server.recvSize \in Nat /\ client.pos \in Nat /\ Len(w) \in Nat
        BY <2>3, Fields, LenProperties DEF UpInv
    <3>2. e = 0 \/ e = client.pos + 1
        BY <2>2 DEF Written
    <3>3. PICK r \in Nat, p \in Nat, l \in Nat :
            r = server.recvSize /\ p = client.pos /\ l = Len(w)
        BY <3>1
    <3>4. b = r + 1 /\ b + l = e /\ (e = 0 \/ e = p + 1)
        BY <2>2, <2>3, <3>2, <3>3
    <3>5. r + l = p
        BY <3>4
    <3> QED
        BY <3>3, <3>5
  <2> QED
      BY <2>4, <2>5 DEF w
<1> QED
    BY <1>1, UploadInvariant, PTL
--------------------------------------------------------------------------------
LEMMA SameContent == \A k \in Nat : FT!Content(k) = Content(k)
  BY DEF FT!Content, Content, FT!Data, Data

LEMMA StoreMaps == UpInv /\ UpInv' /\ ServerRawReadCB => FT!Store \/ UNCHANGED FT!vars
<1> SUFFICES ASSUME UpInv, UpInv', ServerRawReadCB
             PROVE  FT!Store \/ UNCHANGED FT!vars
    OBVIOUS
<1>1. UNCHANGED <<faults, file, client>> /\ server.in # <<>> /\ server.filesize > 0
    BY DEF ServerRawReadCB, UpInv, ServerOK
<1>2. PICK n \in Nat \ {0} : n = AtMost(Len(server.in), BufSize)
  <2>1. server.in \in Seq(Items) /\ Len(server.in) \in Nat
      BY Fields DEF UpInv
  <2>2. Len(server.in) >= 1
      BY <1>1, <2>1, EmptySeq
  <2> QED
      BY <2>1, <2>2, StreamAssumption DEF AtMost
<1>3. \/ server.ofs # "open" /\ server'.ofs = server.ofs /\ server'.stored = server.stored
      \/ /\ server.ofs = "open" /\ server'.ofs \in {"open", "closed"}
         /\ server'.recvSize = server.recvSize + n
    BY <1>2 DEF ServerRawReadCB, Consume, UpInv, TypeOK
<1>4. CASE server.ofs # "open" /\ server'.ofs = server.ofs /\ server'.stored = server.stored
    BY <1>1, <1>4 DEF FT!vars
<1>5. CASE /\ server.ofs = "open" /\ server'.ofs \in {"open", "closed"}
           /\ server'.recvSize = server.recvSize + n
  <2>1. /\ server.recvSize \in Nat /\ server'.recvSize \in Nat
        /\ server'.recvSize > server.recvSize
        /\ client.filesize \in Nat /\ client.filesize > 0
        /\ server.recvSize # client.filesize
        /\ server.stored = Content(server.recvSize)
        /\ server'.stored = Content(server'.recvSize)
        /\ server'.ofs = "closed" => server'.recvSize = client.filesize
    <3>1. server.recvSize \in Nat /\ client.filesize \in Nat
        BY Fields DEF UpInv
    <3>2. server'.recvSize \in Nat /\ server'.recvSize > server.recvSize
        BY <1>2, <1>5, <3>1
    <3>3. /\ server.filesize = client.filesize /\ server.filesize > 0
          /\ server.recvSize # server.filesize /\ server.stored = Content(server.recvSize)
        BY <1>5 DEF UpInv, ServerOK
    <3>4. /\ server'.filesize = client'.filesize /\ server'.stored = Content(server'.recvSize)
          /\ server'.ofs = "closed" => server'.recvSize = server'.filesize
        BY <1>5 DEF UpInv, ServerOK
    <3> QED
        BY <1>1, <3>1, <3>2, <3>3, <3>4
  <2>2. /\ Len(server.stored) = server.recvSize /\ Len(server'.stored) = server'.recvSize
        /\ Len(Content(client.filesize)) = client.filesize
      BY <2>1, ContentOK
  <2>3. ~FT!Complete
      BY <2>1, <2>2, SameContent DEF FT!Complete
  <2>4. /\ Len(server'.stored) > Len(server.stored)
        /\ server'.stored = FT!Content(Len(server'.stored))
      BY <2>1, <2>2, SameContent
  <2>5. server'.ofs = "closed" => FT!Complete'
      BY <1>1, <2>1, SameContent DEF FT!Complete
  <2> QED
      BY <1>1, <1>5, <2>3, <2>4, <2>5 DEF FT!Store
<1> QED
    BY <1>3, <1>4, <1>5

LEMMA AnnounceMaps == UpInv /\ Connect => FT!Announce \/ UNCHANGED FT!vars
<1> SUFFICES ASSUME UpInv, Connect
             PROVE  FT!Announce \/ UNCHANGED FT!vars
    OBVIOUS
<1>1. /\ UNCHANGED <<faults, file, server>> /\ client.filesize = 0 /\ server.stored = <<>>
      /\ file \in Nat /\ client'.uploadCB = client.uploadCB
      /\ client'.filesize = 0 \/ client'.filesize = file
    BY Fields DEF Connect, UpInv, ClientOK, ServerOK, TypeOK
<1>2. CASE client'.filesize = 0
    BY <1>1, <1>2 DEF FT!vars
<1>3. CASE client'.filesize \in Nat \ {0}
    BY <1>1, <1>3 DEF FT!Announce
<1> QED
    BY <1>1, <1>2, <1>3

LEMMA AcknowledgeMaps == UpInv /\ ClientReadCB => FT!Acknowledge \/ UNCHANGED FT!vars
<1> SUFFICES ASSUME UpInv, ClientReadCB
             PROVE  FT!Acknowledge \/ UNCHANGED FT!vars
    OBVIOUS
<1>1. UNCHANGED <<faults, file, server>> /\ client'.filesize = client.filesize
    BY DEF ClientReadCB, Consume, WriteCB, UpInv, TypeOK
<1>2. PICK a \in Nat, e \in Nat : Backward(a, e)
    BY DEF UpInv
<1>3. Head(client.in) = Answers[a + 1] /\ a + 1 <= e /\ e <= Answered
    BY <1>2, ClientTakes DEF ClientReadCB
<1>4. CASE a = 0
  <2>1. Head(client.in).type = "UPLOAD_ACCEPT"
      BY <1>3, <1>4 DEF Answers, Msg
  <2>2. client'.uploadCB = client.uploadCB
      BY <2>1 DEF ClientReadCB, Consume, WriteCB, UpInv, TypeOK
  <2> QED
      BY <1>1, <2>2 DEF FT!vars
<1>5. CASE a # 0
  <2>1. a = 1 /\ server.ofs = "closed" /\ client.uploadCB = 0
    <3>1. a = 1 /\ Answered = 2
      <4>1. Answered \in {0, 1, 2}
          BY DEF Answered
      <4> QED
          BY <1>3, <1>5, <4>1
    <3>2. server.ofs = "closed"
        BY <3>1 DEF Answered, UpInv, TypeOK
    <3> QED
        BY <1>2, <3>1, <3>2 DEF Backward
  <2>2. Head(client.in).type # "UPLOAD_ACCEPT"
      BY <1>3, <2>1 DEF Answers, Msg
  <2>3. client'.uploadCB = client.uploadCB + 1
      BY <2>2 DEF ClientReadCB, Consume, UpInv, TypeOK
  <2> QED
      BY <1>1, <2>1, <2>3 DEF FT!Acknowledge
<1> QED
    BY <1>4, <1>5

\* The other steps leave what FileTransfer speaks of.
LEMMA OthersMap ==
  ASSUME UpInv,
         \/ ClientSend \/ ClientReadEvent \/ ClientEof \/ ClientBreak
         \/ ServerInit \/ ServerReadEvent \/ Upload \/ ServerStrayHead
         \/ ServerSend \/ ServerEof \/ ServerBreak \/ Grow \/ UNCHANGED vars
  PROVE  UNCHANGED FT!vars
<1>1. CASE ClientSend \/ ClientReadEvent \/ ClientEof \/ ClientBreak
  <2>1. UNCHANGED <<faults, file, server>>
      BY <1>1 DEF ClientSend, ClientReadEvent, ClientEof, ClientBreak
  <2>2. client'.filesize = client.filesize /\ client'.uploadCB = client.uploadCB
    <3>1. CASE ClientSend
      <4>1. PICK n \in 1 .. AtMost(Len(client.out), WireCap - Len(up)) :
              LET c == [client EXCEPT !.out = Behind(@, n)] IN
              client' = IF c.out = <<>> THEN WriteCB(c) ELSE c
          BY <3>1 DEF ClientSend
      <4> DEFINE c == [client EXCEPT !.out = Behind(@, n)]
      <4>2. c.filesize = client.filesize /\ c.uploadCB = client.uploadCB
          BY DEF UpInv, TypeOK
      <4>3. client' = WriteCB(c) \/ client' = c
          BY <4>1
      <4> QED
          BY <4>2, <4>3 DEF WriteCB, UpInv, TypeOK
    <3>2. CASE ClientReadEvent
        BY <3>2, ZenonT(40) DEF ClientReadEvent, UpInv, TypeOK
    <3>3. CASE ClientEof
        BY <3>3 DEF ClientEof, Closed, UpInv, TypeOK
    <3>4. CASE ClientBreak
        BY <3>4 DEF ClientBreak, Closed, UpInv, TypeOK
    <3> QED
        BY <1>1, <3>1, <3>2, <3>3, <3>4
  <2> QED
      BY <2>1, <2>2 DEF FT!vars
<1>2. CASE ServerInit \/ ServerReadEvent \/ Upload \/ ServerStrayHead
           \/ ServerSend \/ ServerEof \/ ServerBreak
  <2>1. UNCHANGED <<faults, file, client>>
      BY <1>2 DEF ServerInit, ServerReadEvent, Upload, ServerStrayHead, ServerSend,
                  ServerEof, ServerBreak
  <2>2. server'.stored = server.stored /\ (server'.ofs = "closed") = (server.ofs = "closed")
    <3>1. CASE Upload
      <4>1. server.ofs = "none"
          BY <3>1 DEF Upload, UpInv, ServerOK, TypeOK
      <4>2. server'.stored = server.stored /\ server'.ofs \in {"none", "open"}
          BY <3>1, <4>1 DEF Upload, Consume, UpInv, TypeOK
      <4> QED
          BY <4>1, <4>2
    <3>2. CASE ServerReadEvent \/ ServerStrayHead \/ ServerSend
        BY <3>2 DEF ServerReadEvent, ServerStrayHead, ServerSend, UpInv, TypeOK
    <3>3. CASE ServerInit \/ ServerEof \/ ServerBreak
        BY <3>3 DEF ServerInit, ServerEof, ServerBreak, Closed, UpInv, TypeOK
    <3> QED
        BY <1>2, <3>1, <3>2, <3>3
  <2> QED
      BY <2>1, <2>2 DEF FT!vars
<1>3. CASE Grow
  <2>1. UNCHANGED <<faults, client, server>> /\ faults # {}
      BY <1>3 DEF Grow
  <2> QED
      BY <2>1 DEF FT!vars
<1>4. CASE UNCHANGED vars
    BY <1>4 DEF vars, FT!vars
<1> QED
    BY <1>1, <1>2, <1>3, <1>4

\* The safety part of ImplementsTransfer: every step of an upload is a step of
\* FileTransfer, or one that FileTransfer does not see.  What XFileServerTask stores
\* is at any time a beginning of the client's file; it closes the file when it has
\* the announced size, and only then UploadCB is called.
THEOREM UploadIsTransfer == Spec => FT!Init /\ [][FT!Next]_(FT!vars)
<1>1. Init => FT!Init
    BY DEF Init, FT!Init
<1>2. UpInv /\ UpInv' /\ [Next]_vars => [FT!Next]_(FT!vars)
  <2> SUFFICES ASSUME UpInv, UpInv', [Next]_vars
               PROVE  FT!Next \/ UNCHANGED FT!vars
      OBVIOUS
  <2>1. \/ Connect \/ ClientReadCB \/ ServerRawReadCB
        \/ \/ ClientSend \/ ClientReadEvent \/ ClientEof \/ ClientBreak
           \/ ServerInit \/ ServerReadEvent \/ Upload \/ ServerStrayHead
           \/ ServerSend \/ ServerEof \/ ServerBreak \/ Grow \/ UNCHANGED vars
      BY DEF Next, ClientStep, ServerStep, ServerReadCB, ClientError, ClientTimeout,
             ServerError, ServerTimeout
  <2> QED
      BY <2>1, AnnounceMaps, AcknowledgeMaps, StoreMaps, OthersMap DEF FT!Next
<1> QED
    BY <1>1, <1>2, UploadInvariant, PTL DEF Spec
===============================================================================
