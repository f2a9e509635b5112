---------------------------- MODULE XDownloadProofs ----------------------------
(***************************************************************************)
(* Theorems about a download, for files, pieces and wires of every size    *)
(* and whatever goes wrong, from [][Next]_vars alone: no fairness is used. *)
(***************************************************************************)
EXTENDS XDownload, FileStreamProofs

\* The items the client writes, by their number.
Asked == [j \in Nat \ {0} |-> IF j = 1 THEN Msg("DOWNLOAD_INFO", 0)
                              ELSE Msg("DOWNLOAD_COMPLETE", 0)]

\* The items the server writes when the file has m bytes as it opens it:
\* DOWNLOAD_ACCEPT, then the file.
Sent(m) == [j \in Nat \ {0} |-> IF j = 1 THEN Msg("DOWNLOAD_ACCEPT", m) ELSE Data(j - 1)]

\* How many of them either has written.
Requested == IF client.ofs = "none" THEN 0 ELSE IF client.ofs = "open" THEN 1 ELSE 2
Written   == IF server.ifs = "none" THEN 0 ELSE server.pos + 1

\* The local file holds a beginning of the server's; DownloadCB is called, and the
\* file closed, when it has the size that was announced.
ClientOK ==
  /\ client.reading => client.state = "open" /\ client.in # <<>>
  /\ ~client.reading => client.in = <<>>
  /\ client.state \in {"connecting", "failed"} => client.ofs = "none" /\ server.state = "none"
  /\ client.ofs = "none" \/ client.state = "closed" => client.out = <<>>
  /\ client.ofs = "none" => client.isRecvMsg
  /\ client.isRecvMsg => /\ client.stored = <<>> /\ client.recvSize = 0 /\ client.filesize = 0
                         /\ client.ofs # "closed" /\ ~client.calling
  /\ ~client.isRecvMsg => client.stored = Content(client.recvSize)
  /\ client.calling => client.state = "open" /\ client.ofs = "open"
  /\ client.ofs = "open" /\ ~client.calling =>
       client.recvSize = 0 \/ client.recvSize # client.filesize
  /\ client.calling \/ client.ofs = "closed" =>
       client.recvSize = client.filesize /\ client.filesize > 0
  /\ client.downloadCB = IF client.calling \/ client.ofs = "closed" THEN 1 ELSE 0

\* As long as the server's file is open there is output whose sending brings the
\* next WriteCB, which closes the file when it meets the end.
ServerOK ==
  /\ server.reading <=> server.in # <<>>
  /\ server.reading => server.state = "open"
  /\ server.state # "open" => server.in = <<>> /\ server.out = <<>>
  /\ server.state = "none" => server.ifs = "none"
  /\ server.ifs = "none" => server.pos = 0 /\ server.out = <<>>
  /\ server.pos <= file
  /\ server.state = "open" /\ server.ifs = "open" => server.out # <<>>
  /\ server.served => server.state = "closed"

\* Of the e items that were written to it the server has taken a, and the others
\* are on their way.
Forward(a, e) ==
  /\ server.state # "closed" => Pipe(server.in, up, client.out, Asked, a, e)
  /\ server.state # "closed" /\ client.state # "closed" => e = Requested
  /\ a <= e /\ e <= Requested
  /\ server.ifs # "none" => a >= 1
  /\ server.served => a >= 2

\* The file had m bytes, and of the e items that were written to it the client has
\* taken b, and the others are on their way.
Backward(b, e, m) ==
  /\ client.state # "closed" => Pipe(client.in, down, server.out, Sent(m), b, e)
  /\ server.state # "closed" /\ client.state # "closed" => e = Written
  /\ b <= e /\ e <= Written
  /\ server.state = "open" => b + Len(server.out) <= Written
  /\ client.isRecvMsg <=> b = 0
  /\ ~client.isRecvMsg => client.filesize = m /\ b >= client.recvSize + 1
  /\ client.ofs = "open" /\ ~client.isRecvMsg => b = client.recvSize + 1
  /\ server.ifs # "none" /\ "grow" \notin faults => m = file

\* The inductive invariant.
DownInv == /\ TypeOK /\ ClientOK /\ ServerOK /\ ServedClosesFile
           /\ \E a, e \in Nat : Forward(a, e)
           /\ \E b, e, m \in Nat : Backward(b, e, m)
--------------------------------------------------------------------------------
\* What the types of DownInv say of the records.
LEMMA Fields ==
  ASSUME TypeOK
  PROVE  /\ client.in \in Seq(Items) /\ client.out \in Seq(Items) /\ client.stored \in Seq(Items)
         /\ server.in \in Seq(Items) /\ server.out \in Seq(Items)
         /\ up \in Seq(Items) /\ down \in Seq(Items)
         /\ Len(client.in) \in Nat /\ Len(client.out) \in Nat /\ Len(server.in) \in Nat
         /\ Len(server.out) \in Nat /\ Len(up) \in Nat /\ Len(down) \in Nat
         /\ client.recvSize \in Nat /\ client.filesize \in Nat
         /\ server.pos \in Nat /\ file \in Nat
  BY LenProperties DEF TypeOK

LEMMA Messages ==
  /\ \A k \in Nat : Data(k) \in Items /\ Msg("DOWNLOAD_ACCEPT", k) \in Items
  /\ Msg("DOWNLOAD_INFO", 0) \in Items /\ Msg("DOWNLOAD_COMPLETE", 0) \in Items
  BY DEF Msg, Data, Items, ItemTypes

\* Behind DOWNLOAD_ACCEPT the items are the bytes of the file.
LEMMA Shift ==
  \A m : \A s \in Seq(Items) : \A a \in Nat : Run(s, Sent(m), a + 1) <=> Run(s, Bytes, a)
<1> SUFFICES ASSUME NEW m, NEW s \in Seq(Items), NEW a \in Nat
             PROVE  Run(s, Sent(m), a + 1) <=> Run(s, Bytes, a)
    OBVIOUS
<1>1. ASSUME NEW k \in 1 .. Len(s) PROVE Sent(m)[(a + 1) + k] = Bytes[a + k]
  <2>1. /\ (a + 1) + k \in Nat \ {0} /\ (a + 1) + k # 1 /\ (a + 1) + k - 1 = a + k
        /\ a + k \in Nat \ {0}
      BY LenProperties
  <2> QED
      BY <2>1 DEF Sent, Bytes
<1> QED
    BY <1>1 DEF Run

LEMMA CountsAreNat ==
  ASSUME TypeOK PROVE Written \in Nat /\ Requested \in Nat
<1>1. server.pos \in Nat
    BY Fields
<1> QED
    BY <1>1 DEF Written, Requested

LEMMA ClientReadEventStep == DownInv /\ ClientReadEvent => DownInv'
<1> SUFFICES ASSUME DownInv, ClientReadEvent PROVE DownInv'
    OBVIOUS
<1>1. PICK n \in 1 .. Len(down) :
        /\ client' = [client EXCEPT !.in = Upto(down, n), !.reading = TRUE]
        /\ down' = Behind(down, n)
    BY DEF ClientReadEvent
<1>2. /\ client'.in = Upto(down, n) /\ client'.reading = TRUE
      /\ client'.state = client.state /\ client'.out = client.out /\ client'.ofs = client.ofs
      /\ client'.isRecvMsg = client.isRecvMsg /\ client'.filesize = client.filesize
      /\ client'.recvSize = client.recvSize /\ client'.stored = client.stored
      /\ client'.calling = client.calling /\ client'.downloadCB = client.downloadCB
      /\ UNCHANGED <<faults, file, server, up>>
      /\ client.state = "open" /\ client.in = <<>>
    BY <1>1 DEF DownInv, TypeOK, ClientReadEvent, ClientWaiting, ClientOK
<1>3. /\ client'.in \in Seq(Items) /\ client'.in # <<>> /\ down' \in Seq(Items)
      /\ \A f : \A b, e \in Nat :
           Pipe(client.in, down, server.out, f, b, e) =>
             Pipe(client'.in, down', server.out, f, b, e)
  <2>1. /\ client.in \in Seq(Items) /\ down \in Seq(Items) /\ server.out \in Seq(Items)
        /\ n \in 0 .. Len(down) /\ n > 0
    <3>1. client.in \in Seq(Items) /\ down \in Seq(Items) /\ server.out \in Seq(Items)
        BY Fields DEF DownInv
    <3> QED
        BY <1>1, <3>1
  <2>2. /\ Behind(down, n) \in Seq(Items)
        /\ \A f : \A b, e \in Nat :
             Pipe(client.in, down, server.out, f, b, e) =>
               Pipe(client.in \o Upto(down, n), Behind(down, n), server.out, f, b, e)
    <3>1. PICK s \in Seq(Items), t \in Seq(Items), u \in Seq(Items) :
            s = client.in /\ t = down /\ u = server.out
        BY <2>1
    <3>2. n \in 0 .. Len(t)
        BY <2>1, <3>1
    <3>3. /\ Behind(t, n) \in Seq(Items)
          /\ \A f : \A b, e \in Nat :
               Pipe(s, t, u, f, b, e) => Pipe(s \o Upto(t, n), Behind(t, n), u, f, b, e)
        BY <3>2, Receive
    <3> QED
        BY <3>1, <3>3
  <2>3. Upto(down, n) \in Seq(Items) /\ Len(Upto(down, n)) = n
      BY <2>1, Cut
  <2>4. Upto(down, n) # <<>> /\ client.in \o Upto(down, n) = Upto(down, n)
      BY <1>2, <2>1, <2>3, ConcatEmptySeq
  <2> QED
      BY <1>1, <1>2, <2>2, <2>3, <2>4
<1>4. TypeOK'
    BY <1>1, <1>2, <1>3 DEF DownInv, TypeOK
<1>5. ClientOK' /\ ServerOK' /\ ServedClosesFile'
    BY <1>2, <1>3 DEF DownInv, ClientOK, ServerOK, ServedClosesFile
<1>6. ASSUME NEW a \in Nat, NEW e \in Nat, Forward(a, e) PROVE Forward(a, e)'
    BY <1>2, <1>6 DEF Forward, Asked, Requested
<1>7. ASSUME NEW b \in Nat, NEW e \in Nat, NEW m \in Nat, Backward(b, e, m)
      PROVE  Backward(b, e, m)'
    BY <1>2, <1>3, <1>7 DEF Backward, Sent, Written
<1> QED
    BY <1>4, <1>5, <1>6, <1>7 DEF DownInv

LEMMA ServerReadEventStep == DownInv /\ ServerReadEvent => DownInv'
<1> SUFFICES ASSUME DownInv, ServerReadEvent PROVE DownInv'
    OBVIOUS
<1>1. PICK n \in 1 .. Len(up) :
        /\ server' = [server EXCEPT !.in = Upto(up, n), !.reading = TRUE]
        /\ up' = Behind(up, n)
    BY DEF ServerReadEvent
<1>2. /\ server'.in = Upto(up, n) /\ server'.reading = TRUE
      /\ server'.state = server.state /\ server'.out = server.out /\ server'.ifs = server.ifs
      /\ server'.pos = server.pos /\ server'.served = server.served
      /\ UNCHANGED <<faults, file, client, down>>
      /\ server.state = "open" /\ server.in = <<>>
    BY <1>1 DEF DownInv, TypeOK, ServerReadEvent, ServerWaiting, ServerOK
<1>3. /\ server'.in \in Seq(Items) /\ server'.in # <<>> /\ up' \in Seq(Items)
      /\ \A f : \A a, e \in Nat :
           Pipe(server.in, up, client.out, f, a, e) =>
             Pipe(server'.in, up', client.out, f, a, e)
  <2>1. /\ server.in \in Seq(Items) /\ up \in Seq(Items) /\ client.out \in Seq(Items)
        /\ n \in 0 .. Len(up) /\ n > 0
    <3>1. server.in \in Seq(Items) /\ up \in Seq(Items) /\ client.out \in Seq(Items)
        BY Fields DEF DownInv
    <3> QED
        BY <1>1, <3>1
  <2>2. /\ Behind(up, n) \in Seq(Items)
        /\ \A f : \A a, e \in Nat :
             Pipe(server.in, up, client.out, f, a, e) =>
               Pipe(server.in \o Upto(up, n), Behind(up, n), client.out, f, a, e)
    <3>1. PICK s \in Seq(Items), t \in Seq(Items), u \in Seq(Items) :
            s = server.in /\ t = up /\ u = client.out
        BY <2>1
    <3>2. n \in 0 .. Len(t)
        BY <2>1, <3>1
    <3>3. /\ Behind(t, n) \in Seq(Items)
          /\ \A f : \A a, e \in Nat :
               Pipe(s, t, u, f, a, e) => Pipe(s \o Upto(t, n), Behind(t, n), u, f, a, e)
        BY <3>2, Receive
    <3> QED
        BY <3>1, <3>3
  <2>3. Upto(up, n) \in Seq(Items) /\ Len(Upto(up, n)) = n
      BY <2>1, Cut
  <2>4. Upto(up, n) # <<>> /\ server.in \o Upto(up, n) = Upto(up, n)
      BY <1>2, <2>1, <2>3, ConcatEmptySeq
  <2> QED
      BY <1>1, <1>2, <2>2, <2>3, <2>4
<1>4. TypeOK'
    BY <1>1, <1>2, <1>3 DEF DownInv, TypeOK
<1>5. ClientOK' /\ ServerOK' /\ ServedClosesFile'
    BY <1>2, <1>3 DEF DownInv, ClientOK, ServerOK, ServedClosesFile
<1>6. ASSUME NEW a \in Nat, NEW e \in Nat, Forward(a, e) PROVE Forward(a, e)'
    BY <1>2, <1>3, <1>6 DEF Forward, Asked, Requested
<1>7. ASSUME NEW b \in Nat, NEW e \in Nat, NEW m \in Nat, Backward(b, e, m)
      PROVE  Backward(b, e, m)'
    BY <1>2, <1>7 DEF Backward, Sent, Written
<1> QED
    BY <1>4, <1>5, <1>6, <1>7 DEF DownInv

LEMMA ClientSendStep == DownInv /\ ClientSend => DownInv'
<1> SUFFICES ASSUME DownInv, ClientSend PROVE DownInv'
    OBVIOUS
<1>1. PICK n \in 1 .. AtMost(Len(client.out), WireCap - Len(up)) :
        /\ up' = up \o Upto(client.out, n)
        /\ client' = [client EXCEPT !.out = Behind(@, n)]
    BY DEF ClientSend
<1>2. /\ client'.out = Behind(client.out, n) /\ client'.in = client.in
      /\ client'.reading = client.reading
      /\ client'.state = client.state /\ client'.ofs = client.ofs
      /\ client'.isRecvMsg = client.isRecvMsg /\ client'.filesize = client.filesize
      /\ client'.recvSize = client.recvSize /\ client'.stored = client.stored
      /\ client'.calling = client.calling /\ client'.downloadCB = client.downloadCB
      /\ UNCHANGED <<faults, file, server, down>> /\ client.state = "open"
    BY <1>1 DEF DownInv, TypeOK, ClientSend, ClientWaiting
<1>3. /\ client'.out \in Seq(Items) /\ up' \in Seq(Items)
      /\ client.out # <<>>
      /\ \A f : \A a, e \in Nat :
           Pipe(server.in, up, client.out, f, a, e) =>
             Pipe(server.in, up', client'.out, f, a, e)
  <2>1. /\ server.in \in Seq(Items) /\ up \in Seq(Items) /\ client.out \in Seq(Items)
        /\ Len(client.out) \in Nat /\ Len(up) \in Nat
      BY Fields DEF DownInv
  <2>2. n \in 0 .. Len(client.out) /\ n > 0
      BY <1>1, <2>1, StreamAssumption DEF AtMost
  <2>3. client.out # <<>>
    <3>1. Len(client.out) > 0
        BY <2>1, <2>2
    <3> QED
        BY <2>1, <3>1, EmptySeq
  <2>4. /\ up \o Upto(client.out, n) \in Seq(Items) /\ Behind(client.out, n) \in Seq(Items)
        /\ \A f : \A a, e \in Nat :
             Pipe(server.in, up, client.out, f, a, e) =>
               Pipe(server.in, up \o Upto(client.out, n), Behind(client.out, n), f, a, e)
      BY <2>1, <2>2, Send
  <2> QED
      BY <1>1, <1>2, <2>3, <2>4
<1>4. TypeOK'
    BY <1>1, <1>2, <1>3 DEF DownInv, TypeOK
<1>5. ClientOK' /\ ServerOK' /\ ServedClosesFile'
    BY <1>2, <1>3 DEF DownInv, ClientOK, ServerOK, ServedClosesFile
<1>6. ASSUME NEW a \in Nat, NEW e \in Nat, Forward(a, e) PROVE Forward(a, e)'
    BY <1>2, <1>3, <1>6 DEF Forward, Asked, Requested
<1>7. ASSUME NEW b \in Nat, NEW e \in Nat, NEW m \in Nat, Backward(b, e, m)
      PROVE  Backward(b, e, m)'
    BY <1>2, <1>7 DEF Backward, Sent, Written
<1> QED
    BY <1>4, <1>5, <1>6, <1>7 DEF DownInv

LEMMA ConnectStep == DownInv /\ Connect => DownInv'
<1> SUFFICES ASSUME DownInv, Connect PROVE DownInv'
    OBVIOUS
<1>1. /\ client.state = "connecting" /\ client.ofs = "none" /\ client.out = <<>>
      /\ client.isRecvMsg /\ client.recvSize = 0 /\ ~client.calling
      /\ server.state = "none" /\ UNCHANGED <<faults, file, server, up, down>>
    BY DEF Connect, DownInv, ClientOK, ServerOK
<1>2. CASE client' = [client EXCEPT !.state = "open", !.ofs = "open",
                                    !.out = <<Msg("DOWNLOAD_INFO", 0)>>]
  <2>1. /\ client'.state = "open" /\ client'.ofs = "open"
        /\ client'.out = <<Msg("DOWNLOAD_INFO", 0)>>
        /\ client'.in = client.in /\ client'.reading = client.reading
        /\ client'.isRecvMsg = client.isRecvMsg /\ client'.filesize = client.filesize
        /\ client'.recvSize = client.recvSize /\ client'.stored = client.stored
        /\ client'.calling = client.calling /\ client'.downloadCB = client.downloadCB
      BY <1>2 DEF DownInv, TypeOK
  <2>2. client'.out = Append(client.out, Msg("DOWNLOAD_INFO", 0)) /\ client'.out \in Seq(Items)
      BY <1>1, <2>1, Messages
  <2>3. TypeOK'
      BY <1>1, <1>2, <2>2 DEF DownInv, TypeOK
  <2>4. ClientOK' /\ ServerOK' /\ ServedClosesFile'
      BY <1>1, <2>1 DEF DownInv, ClientOK, ServerOK, ServedClosesFile
  <2>5. ASSUME NEW a \in Nat, NEW e \in Nat, Forward(a, e) PROVE Forward(a, 1)'
    <3>1. e = 0 /\ a <= 0 /\ Pipe(server.in, up, client.out, Asked, a, 0)
        BY <1>1, <2>5 DEF Forward, Requested
    <3>2. /\ server.in \in Seq(Items) /\ up \in Seq(Items) /\ client.out \in Seq(Items)
          /\ Msg("DOWNLOAD_INFO", 0) \in Items
        BY Messages, Fields DEF DownInv
    <3>3. 0 \in Nat /\ Msg("DOWNLOAD_INFO", 0) = Asked[0 + 1]
        BY DEF Asked
    <3>4. Pipe(server.in, up, Append(client.out, Msg("DOWNLOAD_INFO", 0)), Asked, a, 0 + 1)
        BY <3>1, <3>2, <3>3, WriteOne
    <3>5. Asked' = Asked /\ Requested' = 1
        BY <2>1 DEF Asked, Requested
    <3> QED
        BY <1>1, <2>1, <2>2, <2>5, <3>1, <3>4, <3>5 DEF Forward
  <2>6. ASSUME NEW b \in Nat, NEW e \in Nat, NEW m \in Nat, Backward(b, e, m)
        PROVE  Backward(b, e, m)'
      BY <1>1, <2>1, <2>6 DEF Backward, Sent, Written
  <2> QED
      BY <2>3, <2>4, <2>5, <2>6 DEF DownInv
<1>3. CASE client' = [client EXCEPT !.state = "open"]
  <2>1. /\ client'.state = "open" /\ client'.ofs = client.ofs /\ client'.out = client.out
        /\ client'.in = client.in /\ client'.reading = client.reading
        /\ client'.isRecvMsg = client.isRecvMsg /\ client'.filesize = client.filesize
        /\ client'.recvSize = client.recvSize /\ client'.stored = client.stored
        /\ client'.calling = client.calling /\ client'.downloadCB = client.downloadCB
      BY <1>3 DEF DownInv, TypeOK
  <2>2. TypeOK'
      BY <1>1, <1>3 DEF DownInv, TypeOK
  <2>3. ClientOK' /\ ServerOK' /\ ServedClosesFile'
      BY <1>1, <2>1 DEF DownInv, ClientOK, ServerOK, ServedClosesFile
  <2>4. ASSUME NEW a \in Nat, NEW e \in Nat, Forward(a, e) PROVE Forward(a, e)'
      BY <1>1, <2>1, <2>4 DEF Forward, Asked, Requested
  <2>5. ASSUME NEW b \in Nat, NEW e \in Nat, NEW m \in Nat, Backward(b, e, m)
        PROVE  Backward(b, e, m)'
      BY <1>1, <2>1, <2>5 DEF Backward, Sent, Written
  <2> QED
      BY <2>2, <2>3, <2>4, <2>5 DEF DownInv
<1> QED
    BY <1>2, <1>3 DEF Connect

LEMMA ServerInitStep == DownInv /\ ServerInit => DownInv'
<1> SUFFICES ASSUME DownInv, ServerInit PROVE DownInv'
    OBVIOUS
<1>1. /\ server.state = "none" /\ client.state \in {"open", "closed"}
      /\ server' = [server EXCEPT !.state = "open"]
      /\ UNCHANGED <<faults, file, client, up, down>>
      /\ server.ifs = "none" /\ server.out = <<>> /\ ~server.served
    BY DEF ServerInit, DownInv, ServerOK
<1>2. /\ server'.state = "open" /\ server'.in = server.in /\ server'.out = server.out
      /\ server'.reading = server.reading /\ server'.ifs = server.ifs
      /\ server'.pos = server.pos /\ server'.served = server.served
    BY <1>1 DEF DownInv, TypeOK
<1>3. TypeOK'
    BY <1>1 DEF DownInv, TypeOK
<1>4. ClientOK' /\ ServerOK' /\ ServedClosesFile'
    BY <1>1, <1>2 DEF DownInv, ClientOK, ServerOK, ServedClosesFile
<1>5. ASSUME NEW a \in Nat, NEW e \in Nat, Forward(a, e) PROVE Forward(a, e)'
    BY <1>1, <1>2, <1>5 DEF Forward, Asked, Requested
<1>6. ASSUME NEW b \in Nat, NEW e \in Nat, NEW m \in Nat, Backward(b, e, m)
      PROVE  Backward(b, e, m)'
  <2>1. b + Len(server.out) <= Written
    <3>1. Written = 0 /\ Len(server.out) = 0
        BY <1>1 DEF Written
    <3>2. b <= 0
        BY <1>6, <3>1 DEF Backward
    <3> QED
        BY <3>1, <3>2
  <2>2. Written' = Written /\ Sent(m)' = Sent(m)
      BY <1>2 DEF Written, Sent
  <2> QED
      BY <1>1, <1>2, <1>6, <2>1, <2>2 DEF Backward
<1> QED
    BY <1>3, <1>4, <1>5, <1>6 DEF DownInv

LEMMA GrowStep == DownInv /\ Grow => DownInv'
<1> SUFFICES ASSUME DownInv, Grow PROVE DownInv'
    OBVIOUS
<1>1. /\ file' = file + 1 /\ file \in Nat /\ server.pos \in Nat /\ "grow" \in faults
      /\ UNCHANGED <<faults, client, server, up, down>>
    BY Fields DEF Grow, DownInv
<1>2. TypeOK'
    BY <1>1 DEF DownInv, TypeOK
<1>3. ClientOK' /\ ServerOK' /\ ServedClosesFile'
    BY <1>1 DEF DownInv, ClientOK, ServerOK, ServedClosesFile
<1>4. ASSUME NEW a \in Nat, NEW e \in Nat, Forward(a, e) PROVE Forward(a, e)'
    BY <1>1, <1>4 DEF Forward, Asked, Requested
<1>5. ASSUME NEW b \in Nat, NEW e \in Nat, NEW m \in Nat, Backward(b, e, m)
      PROVE  Backward(b, e, m)'
    BY <1>1, <1>5 DEF Backward, Sent, Written
<1> QED
    BY <1>2, <1>3, <1>4, <1>5 DEF DownInv

LEMMA StutterStep == DownInv /\ UNCHANGED vars => DownInv'
<1> SUFFICES ASSUME DownInv, UNCHANGED vars PROVE DownInv'
    OBVIOUS
<1>1. UNCHANGED <<faults, file, client, server, up, down>>
    BY DEF vars
<1>2. TypeOK' /\ ClientOK' /\ ServerOK' /\ ServedClosesFile'
    BY <1>1 DEF DownInv, TypeOK, ClientOK, ServerOK, ServedClosesFile
<1>3. ASSUME NEW a \in Nat, NEW e \in Nat, Forward(a, e) PROVE Forward(a, e)'
    BY <1>1, <1>3 DEF Forward, Asked, Requested
<1>4. ASSUME NEW b \in Nat, NEW e \in Nat, NEW m \in Nat, Backward(b, e, m)
      PROVE  Backward(b, e, m)'
    BY <1>1, <1>4 DEF Backward, Sent, Written
<1> QED
    BY <1>2, <1>3, <1>4 DEF DownInv

\* What the server has not sent is lost as it closes.
LEMMA OutputLost ==
  ASSUME DownInv, NEW b \in Nat, NEW e \in Nat, NEW m \in Nat, Backward(b, e, m)
  PROVE  \E d \in Nat : /\ b <= d /\ d <= Written
                        /\ client.state # "closed" => Pipe(client.in, down, <<>>, Sent(m), b, d)
<1>1. /\ client.in \in Seq(Items) /\ down \in Seq(Items) /\ server.out \in Seq(Items)
      /\ Written \in Nat
    BY Fields, CountsAreNat DEF DownInv
<1>2. CASE client.state = "closed"
    BY <1>2 DEF Backward
<1>3. CASE client.state # "closed"
  <2>1. Pipe(client.in, down, server.out, Sent(m), b, e)
      BY <1>3 DEF Backward
  <2>2. PICK d \in Nat : b <= d /\ d <= e /\ Pipe(client.in, down, <<>>, Sent(m), b, d)
      BY <1>1, <2>1, Lost
  <2>3. d <= Written
      BY <1>1, <2>2 DEF Backward
  <2> QED
      BY <2>2, <2>3
<1> QED
    BY <1>2, <1>3

LEMMA ServerClosesStep ==
  ASSUME DownInv, ServerWaiting, server' = Closed(server),
         UNCHANGED <<faults, file, client, up, down>>
  PROVE  DownInv'
<1>0. <<>> \in Seq(Items)
    OBVIOUS
<1>1. /\ server'.state = "closed" /\ server'.in = <<>> /\ server'.out = <<>>
      /\ server'.reading = FALSE /\ server'.ifs = server.ifs
      /\ server'.pos = server.pos /\ server'.served = server.served
      /\ server.state = "open"
    BY DEF DownInv, TypeOK, Closed, ServerWaiting
<1>2. TypeOK'
    BY <1>0 DEF DownInv, TypeOK, Closed
<1>3. ClientOK' /\ ServerOK' /\ ServedClosesFile'
    BY <1>1 DEF DownInv, ClientOK, ServerOK, ServedClosesFile
<1>4. ASSUME NEW a \in Nat, NEW e \in Nat, Forward(a, e) PROVE Forward(a, e)'
    BY <1>1, <1>4 DEF Forward, Asked, Requested
<1>5. ASSUME NEW b \in Nat, NEW e \in Nat, NEW m \in Nat, Backward(b, e, m)
      PROVE  \E d \in Nat : Backward(b, d, m)'
  <2>1. PICK d \in Nat : /\ b <= d /\ d <= Written
                         /\ client.state # "closed" => Pipe(client.in, down, <<>>, Sent(m), b, d)
      BY <1>5, OutputLost
  <2>2. Written' = Written /\ Sent(m)' = Sent(m)
      BY <1>1 DEF Written, Sent
  <2>3. Backward(b, d, m)'
      BY <1>1, <1>5, <2>1, <2>2 DEF Backward
  <2> QED
      BY <2>3
<1> QED
    BY <1>2, <1>3, <1>4, <1>5 DEF DownInv

LEMMA ServerEofStep == DownInv /\ ServerEof => DownInv'
  BY ServerClosesStep DEF ServerEof

LEMMA ServerBreakStep == DownInv /\ ServerBreak => DownInv'
  BY ServerClosesStep DEF ServerBreak

LEMMA ClientClosesStep ==
  ASSUME DownInv, ClientWaiting, client' = Closed(client),
         UNCHANGED <<faults, file, server, up, down>>
  PROVE  DownInv'
<1>0. <<>> \in Seq(Items)
    OBVIOUS
<1>1. /\ client'.state = "closed" /\ client'.in = <<>> /\ client'.out = <<>>
      /\ client'.reading = FALSE /\ client'.ofs = client.ofs
      /\ client'.isRecvMsg = client.isRecvMsg /\ client'.filesize = client.filesize
      /\ client'.recvSize = client.recvSize /\ client'.stored = client.stored
      /\ client'.calling = client.calling /\ client'.downloadCB = client.downloadCB
      /\ client.state = "open" /\ ~client.calling
    BY DEF DownInv, TypeOK, Closed, ClientWaiting
<1>2. TypeOK'
    BY <1>0 DEF DownInv, TypeOK, Closed
<1>3. ClientOK' /\ ServerOK' /\ ServedClosesFile'
    BY <1>1 DEF DownInv, ClientOK, ServerOK, ServedClosesFile
<1>4. ASSUME NEW a \in Nat, NEW e \in Nat, Forward(a, e)
      PROVE  \E d \in Nat : Forward(a, d)'
  <2>1. /\ server.in \in Seq(Items) /\ up \in Seq(Items) /\ client.out \in Seq(Items)
        /\ Requested \in Nat /\ Requested' = Requested /\ Asked' = Asked
      BY <1>1, Fields DEF DownInv, Requested, Asked
  <2>2. CASE server.state = "closed"
      BY <1>1, <1>4, <2>1, <2>2 DEF Forward
  <2>3. CASE server.state # "closed"
    <3>1. PICK d \in Nat : a <= d /\ d <= e /\ Pipe(server.in, up, <<>>, Asked, a, d)
        BY <1>4, <2>1, <2>3, Lost DEF Forward
    <3>2. d <= Requested
        BY <1>4, <2>1, <3>1 DEF Forward
    <3> QED
        BY <1>1, <1>4, <2>1, <3>1, <3>2 DEF Forward
  <2> QED
      BY <2>2, <2>3
<1>5. ASSUME NEW b \in Nat, NEW e \in Nat, NEW m \in Nat, Backward(b, e, m)
      PROVE  Backward(b, e, m)'
    BY <1>1, <1>5 DEF Backward, Sent, Written
<1> QED
    BY <1>2, <1>3, <1>4, <1>5 DEF DownInv

LEMMA ClientEofStep == DownInv /\ ClientEof => DownInv'
  BY ClientClosesStep DEF ClientEof

\* An error or a timeout, also while the client connects.
LEMMA ClientBreakStep == DownInv /\ ClientBreak => DownInv'
<1> SUFFICES ASSUME DownInv, ClientBreak PROVE DownInv'
    OBVIOUS
<1>1. CASE client.state = "open"
    BY <1>1, ClientClosesStep DEF ClientBreak
<1>2. CASE client.state # "open"
  <2>1. /\ client.state = "connecting" /\ client' = [client EXCEPT !.state = "failed"]
        /\ UNCHANGED <<faults, file, server, up, down>>
      BY <1>2 DEF ClientBreak, ClientWaiting
  <2>2. /\ client'.state = "failed" /\ client'.ofs = client.ofs /\ client'.out = client.out
        /\ client'.in = client.in /\ client'.reading = client.reading
        /\ client'.isRecvMsg = client.isRecvMsg /\ client'.filesize = client.filesize
        /\ client'.recvSize = client.recvSize /\ client'.stored = client.stored
        /\ client'.calling = client.calling /\ client'.downloadCB = client.downloadCB
      BY <2>1 DEF DownInv, TypeOK
  <2>3. TypeOK'
      BY <2>1 DEF DownInv, TypeOK
  <2>4. ClientOK' /\ ServerOK' /\ ServedClosesFile'
      BY <2>1, <2>2 DEF DownInv, ClientOK, ServerOK, ServedClosesFile
  <2>5. ASSUME NEW a \in Nat, NEW e \in Nat, Forward(a, e) PROVE Forward(a, e)'
      BY <2>1, <2>2, <2>5 DEF Forward, Asked, Requested
  <2>6. ASSUME NEW b \in Nat, NEW e \in Nat, NEW m \in Nat, Backward(b, e, m)
        PROVE  Backward(b, e, m)'
      BY <2>1, <2>2, <2>6 DEF Backward, Sent, Written
  <2> QED
      BY <2>3, <2>4, <2>5, <2>6 DEF DownInv
<1> QED
    BY <1>1, <1>2

\* DownloadCB() has returned: the file is closed and DOWNLOAD_COMPLETE written.
LEMMA DownloadCBReturnsStep == DownInv /\ DownloadCBReturns => DownInv'
<1> SUFFICES ASSUME DownInv, DownloadCBReturns PROVE DownInv'
    OBVIOUS
<1>1. /\ client.calling /\ client.ofs = "open" /\ client.state = "open" /\ ~client.isRecvMsg
      /\ client' = [client EXCEPT !.calling = FALSE, !.ofs = "closed",
                                  !.out = Append(@, Msg("DOWNLOAD_COMPLETE", 0))]
      /\ UNCHANGED <<faults, file, server, up, down>>
    BY DEF DownloadCBReturns, DownInv, ClientOK
<1>2. /\ client'.out = Append(client.out, Msg("DOWNLOAD_COMPLETE", 0))
      /\ client'.calling = FALSE /\ client'.ofs = "closed"
      /\ client'.in = client.in /\ client'.reading = client.reading
      /\ client'.state = client.state
      /\ client'.isRecvMsg = client.isRecvMsg /\ client'.filesize = client.filesize
      /\ client'.recvSize = client.recvSize /\ client'.stored = client.stored
      /\ client'.downloadCB = client.downloadCB
    BY <1>1 DEF DownInv, TypeOK
<1>3. client.out \in Seq(Items) /\ Msg("DOWNLOAD_COMPLETE", 0) \in Items
    BY Fields, Messages DEF DownInv
<1>4. client'.out \in Seq(Items)
    BY <1>2, <1>3
<1>5. TypeOK'
    BY <1>1, <1>2, <1>4 DEF DownInv, TypeOK
<1>6. ClientOK' /\ ServerOK' /\ ServedClosesFile'
    BY <1>1, <1>2 DEF DownInv, ClientOK, ServerOK, ServedClosesFile
<1>7. ASSUME NEW a \in Nat, NEW e \in Nat, Forward(a, e)
      PROVE  \E d \in Nat : Forward(a, d)'
  <2>1. Requested = 1 /\ Requested' = 2 /\ Asked' = Asked
      BY <1>1, <1>2 DEF Requested, Asked
  <2>2. CASE server.state = "closed"
      BY <1>1, <1>2, <1>7, <2>1, <2>2 DEF Forward
  <2>3. CASE server.state # "closed"
    <3>1. Pipe(server.in, up, client.out, Asked, a, 1) /\ a <= 1
        BY <1>1, <1>7, <2>1, <2>3 DEF Forward
    <3>2. Msg("DOWNLOAD_COMPLETE", 0) = Asked[1 + 1] /\ 1 \in Nat
        BY DEF Asked
    <3>3. server.in \in Seq(Items) /\ up \in Seq(Items)
        BY Fields DEF DownInv
    <3>4. Pipe(server.in, up, Append(client.out, Msg("DOWNLOAD_COMPLETE", 0)), Asked, a, 1 + 1)
        BY <1>3, <3>1, <3>2, <3>3, WriteOne
    <3>5. Forward(a, 2)'
        BY <1>1, <1>2, <1>7, <2>1, <3>1, <3>4 DEF Forward
    <3> QED
        BY <3>5
  <2> QED
      BY <2>2, <2>3
<1>8. ASSUME NEW b \in Nat, NEW e \in Nat, NEW m \in Nat, Backward(b, e, m)
      PROVE  Backward(b, e, m)'
    BY <1>1, <1>2, <1>8 DEF Backward, Sent, Written
<1> QED
    BY <1>5, <1>6, <1>7, <1>8 DEF DownInv

\* The client takes n items of its input buffer.
LEMMA ClientTakes ==
  ASSUME DownInv, client.reading, NEW n \in 0 .. Len(client.in),
         NEW b \in Nat, NEW e \in Nat, NEW m \in Nat, Backward(b, e, m)
  PROVE  /\ Behind(client.in, n) \in Seq(Items) /\ Run(Upto(client.in, n), Sent(m), b)
         /\ Pipe(Behind(client.in, n), down, server.out, Sent(m), b + n, e)
         /\ b + n \in Nat /\ b + n <= e /\ e <= Written
         /\ server.state = "open" => b + n + Len(server.out) <= Written
         /\ Head(client.in) = Sent(m)[b + 1] /\ b + 1 <= e /\ 1 <= Len(client.in)
<1>1. client.state = "open" /\ client.in # <<>> /\ e <= Written
    BY DEF DownInv, ClientOK, Backward
<1>2. /\ client.in \in Seq(Items) /\ down \in Seq(Items) /\ server.out \in Seq(Items)
      /\ Pipe(client.in, down, server.out, Sent(m), b, e)
    BY <1>1, Fields DEF DownInv, Backward
<1>3. Head(client.in) = Sent(m)[b + 1] /\ b + 1 <= e /\ 1 <= Len(client.in)
    BY <1>1, <1>2, First
<1>4. /\ Run(Upto(client.in, n), Sent(m), b)
      /\ Pipe(Behind(client.in, n), down, server.out, Sent(m), b + n, e)
      /\ b + n \in Nat /\ b + n <= e
    BY <1>2, Take
<1>5. Behind(client.in, n) \in Seq(Items)
    BY <1>2, Cut
<1>6. b + n + Len(server.out) <= e
  <2>1. (b + n) + Len(Behind(client.in, n)) + Len(down) + Len(server.out) = e
      BY <1>4 DEF Pipe
  <2>2. Len(Behind(client.in, n)) \in Nat /\ Len(down) \in Nat /\ Len(server.out) \in Nat
      BY <1>2, <1>5, LenProperties
  <2>3. \A h, i, j, k, l \in Nat : h + i + j + k = l => h + k <= l
      OBVIOUS
  <2> QED
      BY <1>4, <2>1, <2>2, <2>3
<1>7. Written \in Nat /\ Len(server.out) \in Nat
    BY Fields, CountsAreNat DEF DownInv
<1>8. b + n + Len(server.out) <= Written
  <2>1. \A h, i, j, k \in Nat : h + i <= j /\ j <= k => h + i <= k
      OBVIOUS
  <2>2. b + n \in Nat /\ Len(server.out) \in Nat /\ Written \in Nat /\ e <= Written
      BY <1>1, <1>4, <1>7
  <2> QED
      BY <1>6, <2>1, <2>2
<1> QED
    BY <1>1, <1>3, <1>4, <1>5, <1>8

LEMMA AcceptedStep == DownInv /\ Accepted => DownInv'
<1> SUFFICES ASSUME DownInv, Accepted PROVE DownInv'
    OBVIOUS
<1>1. /\ client.reading /\ ~client.calling /\ client.isRecvMsg
      /\ client' = [Consume(client, 1) EXCEPT !.isRecvMsg = FALSE, !.recvSize = 0,
                                              !.filesize = Head(client.in).n]
      /\ UNCHANGED <<faults, file, server, up, down>>
      /\ client.state = "open" /\ client.in # <<>> /\ client.stored = <<>>
      /\ client.recvSize = 0 /\ client.ofs # "closed"
    BY DEF Accepted, DownInv, ClientOK
<1>2. PICK b \in Nat, e \in Nat, m \in Nat : Backward(b, e, m)
    BY DEF DownInv
<1>3. PICK a \in Nat, d \in Nat : Forward(a, d)
    BY DEF DownInv
<1>4. 1 \in 0 .. Len(client.in)
  <2>1. client.in \in Seq(Items)
      BY Fields DEF DownInv
  <2>2. Len(client.in) \in Nat /\ Len(client.in) # 0
      BY <1>1, <2>1, EmptySeq
  <2> QED
      BY <2>2
<1>5. /\ Behind(client.in, 1) \in Seq(Items) /\ b = 0
      /\ Pipe(Behind(client.in, 1), down, server.out, Sent(m), 1, e)
      /\ 1 <= e /\ e <= Written
      /\ server.state = "open" => 1 + Len(server.out) <= Written
      /\ Head(client.in) = Msg("DOWNLOAD_ACCEPT", m)
  <2>1. b = 0
      BY <1>1, <1>2 DEF Backward
  <2>2. \A n \in 0 .. Len(client.in) :
          /\ Behind(client.in, n) \in Seq(Items)
          /\ Pipe(Behind(client.in, n), down, server.out, Sent(m), b + n, e)
          /\ b + n <= e /\ e <= Written
          /\ server.state = "open" => b + n + Len(server.out) <= Written
          /\ Head(client.in) = Sent(m)[b + 1]
      BY <1>1, <1>2, ClientTakes
  <2>3. /\ Behind(client.in, 1) \in Seq(Items)
        /\ Pipe(Behind(client.in, 1), down, server.out, Sent(m), b + 1, e)
        /\ b + 1 <= e /\ e <= Written
        /\ server.state = "open" => b + 1 + Len(server.out) <= Written
        /\ Head(client.in) = Sent(m)[b + 1]
      BY <1>4, <2>2, Zenon
  <2>4. b + 1 = 1 /\ Sent(m)[1] = Msg("DOWNLOAD_ACCEPT", m)
      BY <2>1 DEF Sent
  <2> QED
      BY <2>1, <2>3, <2>4
<1>6. server.ifs # "none" /\ client.ofs = "open"
  <2>1. server.ifs # "none"
      BY <1>5 DEF Written
  <2>2. client.ofs # "none"
      BY <1>3, <2>1 DEF Forward, Requested
  <2> QED
      BY <1>1, <2>1, <2>2 DEF DownInv, TypeOK
<1>7. /\ client'.in = Behind(client.in, 1) /\ client'.reading = (Behind(client.in, 1) # <<>>)
      /\ client'.isRecvMsg = FALSE /\ client'.recvSize = 0 /\ client'.filesize = m
      /\ client'.state = client.state /\ client'.out = client.out /\ client'.ofs = client.ofs
      /\ client'.stored = client.stored /\ client'.calling = client.calling
      /\ client'.downloadCB = client.downloadCB
      /\ client' \in [state : {"connecting", "failed", "open", "closed"}, reading : BOOLEAN,
                      in : Seq(Items), out : Seq(Items), isRecvMsg : BOOLEAN,
                      ofs : {"none", "open", "closed"}, filesize : Nat, recvSize : Nat,
                      stored : Seq(Items), calling : BOOLEAN, downloadCB : Nat]
  <2> DEFINE c == Consume(client, 1)
  <2>1. /\ c.in = Behind(client.in, 1) /\ c.reading = (Behind(client.in, 1) # <<>>)
        /\ c.state = client.state /\ c.out = client.out /\ c.ofs = client.ofs
        /\ c.stored = client.stored /\ c.calling = client.calling
        /\ c.downloadCB = client.downloadCB
        /\ c \in [state : {"connecting", "failed", "open", "closed"}, reading : BOOLEAN,
                  in : Seq(Items), out : Seq(Items), isRecvMsg : BOOLEAN,
                  ofs : {"none", "open", "closed"}, filesize : Nat, recvSize : Nat,
                  stored : Seq(Items), calling : BOOLEAN, downloadCB : Nat]
      BY <1>5 DEF Consume, DownInv, TypeOK
  <2>2. client' = [c EXCEPT !.isRecvMsg = FALSE, !.recvSize = 0, !.filesize = m]
    <3>1. Head(client.in).n = m
        BY <1>5 DEF Msg
    <3> QED
        BY <1>1, <3>1
  <2> HIDE DEF c
  <2> QED
      BY <2>1, <2>2
<1>8. TypeOK'
    BY <1>1, <1>7 DEF DownInv, TypeOK
<1>9. ClientOK' /\ ServerOK' /\ ServedClosesFile'
  <2>1. Content(0) = <<>> /\ Content(0)' = Content(0)
      BY ContentZero DEF Content, Data
  <2>2. client.downloadCB = 0 /\ client.calling = FALSE
      BY <1>1, <1>6 DEF DownInv, ClientOK, TypeOK
  <2>3. ClientOK'
    <3>1. client'.reading = (client'.in # <<>>)
        BY <1>7, Zenon
    <3>2. /\ client'.state = "open" /\ client'.ofs = "open" /\ client'.isRecvMsg = FALSE
          /\ client'.calling = FALSE /\ client'.recvSize = 0 /\ client'.downloadCB = 0
          /\ client'.stored = <<>>
        BY <1>1, <1>6, <1>7, <2>2, Zenon
    <3>3. (client.stored = Content(client.recvSize))'
        BY <2>1, <3>2, Zenon
    <3> QED
        BY <3>1, <3>2, <3>3 DEF ClientOK
  <2>4. ServerOK' /\ ServedClosesFile'
      BY <1>1 DEF DownInv, ServerOK, ServedClosesFile
  <2> QED
      BY <2>3, <2>4
<1>10. Forward(a, d)'
    BY <1>1, <1>3, <1>7 DEF Forward, Asked, Requested
<1>11. Backward(1, e, m)'
  <2>1. Written' = Written /\ Sent(m)' = Sent(m)
      BY <1>1 DEF Written, Sent
  <2> QED
      BY <1>1, <1>2, <1>5, <1>7, <2>1 DEF Backward
<1> QED
    BY <1>8, <1>9, <1>10, <1>11 DEF DownInv

\* The local file grows by what follows in the server's.
LEMMA StoresNext ==
  ASSUME TypeOK, ClientOK, ~client.isRecvMsg, NEW m \in Nat, NEW w \in Seq(Items),
         Run(w, Sent(m), client.recvSize + 1)
  PROVE  /\ client.stored \o w \in Seq(Items)
         /\ client.stored \o w = Content(client.recvSize + Len(w))
<1>1. /\ client.recvSize \in Nat /\ client.stored \in Seq(Items)
      /\ client.stored = Content(client.recvSize)
    BY Fields DEF ClientOK
<1>2. Len(client.stored) = client.recvSize /\ Run(client.stored, Bytes, 0)
    BY <1>1, ContentOK
<1>3. Run(w, Bytes, 0 + Len(client.stored))
  <2>1. client.recvSize \in Nat
      BY <1>1
  <2>2. \A a \in Nat : Run(w, Sent(m), a + 1) => Run(w, Bytes, a)
      BY Shift
  <2>3. Run(w, Bytes, client.recvSize)
      BY <2>1, <2>2
  <2>4. 0 + Len(client.stored) = client.recvSize
      BY <1>2, <2>1
  <2> QED
      BY <2>3, <2>4
<1>4. /\ client.stored \o w \in Seq(Items)
      /\ Len(client.stored \o w) = Len(client.stored) + Len(w)
      /\ Run(client.stored \o w, Bytes, 0)
    BY <1>1, <1>2, <1>3, RunConcat
<1> QED
    BY <1>2, <1>4, RunIsContent

LEMMA ClientRawReadCBStep == DownInv /\ ClientRawReadCB => DownInv'
<1> SUFFICES ASSUME DownInv, ClientRawReadCB PROVE DownInv'
    OBVIOUS
<1>1. /\ client.reading /\ ~client.calling /\ ~client.isRecvMsg /\ client.ofs # "none"
      /\ UNCHANGED <<faults, file, server, up, down>>
      /\ client.state = "open" /\ client.in # <<>>
    BY DEF ClientRawReadCB, DownInv, ClientOK
<1>2. PICK n \in 1 .. Len(client.in) : n = AtMost(Len(client.in), BufSize)
  <2>1. client.in \in Seq(Items) /\ Len(client.in) \in Nat
      BY Fields DEF DownInv
  <2>2. Len(client.in) >= 1
      BY <1>1, <2>1, EmptySeq
  <2> QED
      BY <2>1, <2>2, StreamAssumption DEF AtMost
<1>3. PICK b \in Nat, e \in Nat, m \in Nat : Backward(b, e, m)
    BY DEF DownInv
<1>4. /\ Behind(client.in, n) \in Seq(Items) /\ n \in Nat /\ n >= 1
      /\ Upto(client.in, n) \in Seq(Items) /\ Len(Upto(client.in, n)) = n
      /\ Run(Upto(client.in, n), Sent(m), b)
      /\ Pipe(Behind(client.in, n), down, server.out, Sent(m), b + n, e)
      /\ b + n \in Nat /\ b + n <= e /\ e <= Written
      /\ server.state = "open" => b + n + Len(server.out) <= Written
  <2>1. n \in 0 .. Len(client.in) /\ client.in \in Seq(Items) /\ n \in Nat /\ n >= 1
      BY <1>2, Fields DEF DownInv
  <2>2. Upto(client.in, n) \in Seq(Items) /\ Len(Upto(client.in, n)) = n
      BY <2>1, Cut
  <2> QED
      BY <1>1, <1>3, <2>1, <2>2, ClientTakes
<1>5. /\ b >= 1 /\ b >= client.recvSize + 1 /\ client.filesize = m
      /\ client.ofs = "open" => b = client.recvSize + 1
      /\ client.recvSize \in Nat /\ client.downloadCB = (IF client.ofs = "closed" THEN 1 ELSE 0)
    BY <1>1, <1>3, Fields DEF Backward, DownInv, ClientOK
<1> DEFINE c == Consume(client, n)
           w == [c EXCEPT !.stored = @ \o Upto(client.in, n), !.recvSize = c.recvSize + n]
<1>6. /\ c.in = Behind(client.in, n) /\ c.reading = (Behind(client.in, n) # <<>>)
      /\ c.state = "open" /\ c.out = client.out /\ c.ofs = client.ofs
      /\ c.isRecvMsg = client.isRecvMsg /\ c.recvSize = client.recvSize
      /\ c.filesize = client.filesize /\ c.stored = client.stored
      /\ c.calling = client.calling /\ c.downloadCB = client.downloadCB
      /\ c \in [state : {"connecting", "failed", "open", "closed"}, reading : BOOLEAN,
                in : Seq(Items), out : Seq(Items), isRecvMsg : BOOLEAN,
                ofs : {"none", "open", "closed"}, filesize : Nat, recvSize : Nat,
                stored : Seq(Items), calling : BOOLEAN, downloadCB : Nat]
    BY <1>1, <1>4 DEF Consume, DownInv, TypeOK
<1>7. client' = IF c.ofs # "open" THEN c
                ELSE IF c.recvSize + n # w.filesize THEN w
                     ELSE [w EXCEPT !.calling = TRUE, !.downloadCB = @ + 1]
    BY <1>2 DEF ClientRawReadCB
<1> HIDE DEF c
<1>8. Sent(m)' = Sent(m) /\ Written' = Written
    BY <1>1 DEF Sent, Written
<1>9. CASE client.ofs # "open"
  <2>1. client' = c
      BY <1>6, <1>7, <1>9
  <2>2. TypeOK'
      BY <1>1, <1>6, <2>1 DEF DownInv, TypeOK
  <2>3. ClientOK' /\ ServerOK' /\ ServedClosesFile'
      BY <1>1, <1>6, <2>1, SMTT(30) DEF DownInv, ClientOK, ServerOK, ServedClosesFile
  <2>4. b + n >= client.recvSize + 1 /\ b + n # 0
    <3>1. n \in Nat
        BY <1>4
    <3> QED
        BY <1>5, <3>1
  <2>5. Backward(b + n, e, m)'
      BY <1>1, <1>3, <1>4, <1>5, <1>6, <1>8, <1>9, <2>1, <2>4, SMTT(20) DEF Backward
  <2>6. ASSUME NEW a \in Nat, NEW d \in Nat, Forward(a, d) PROVE Forward(a, d)'
      BY <1>1, <1>6, <2>1, <2>6 DEF Forward, Requested, Asked
  <2> QED
      BY <1>4, <2>2, <2>3, <2>5, <2>6 DEF DownInv
<1>10. CASE client.ofs = "open"
  <2>1. /\ b + n = client.recvSize + n + 1 /\ b + n >= client.recvSize + n + 1 /\ b + n # 0
        /\ client.recvSize + n \in Nat /\ client.recvSize + n > 0
    <3>1. n \in Nat /\ n >= 1
        BY <1>4
    <3> QED
        BY <1>5, <1>10, <3>1
  <2>2. /\ client.stored \o Upto(client.in, n) \in Seq(Items)
        /\ client.stored \o Upto(client.in, n) = Content(client.recvSize + n)
    <3>1. Run(Upto(client.in, n), Sent(m), client.recvSize + 1)
        BY <1>4, <1>5, <1>10
    <3> QED
        BY <1>1, <1>4, <3>1, StoresNext DEF DownInv
  <2>3. /\ w.stored = Content(client.recvSize + n) /\ w.recvSize = client.recvSize + n
        /\ w.in = c.in /\ w.reading = c.reading /\ w.state = "open" /\ w.out = client.out
        /\ w.ofs = "open" /\ w.isRecvMsg = client.isRecvMsg /\ w.filesize = client.filesize
        /\ w.calling = client.calling /\ w.downloadCB = client.downloadCB
        /\ w \in [state : {"connecting", "failed", "open", "closed"}, reading : BOOLEAN,
                  in : Seq(Items), out : Seq(Items), isRecvMsg : BOOLEAN,
                  ofs : {"none", "open", "closed"}, filesize : Nat, recvSize : Nat,
                  stored : Seq(Items), calling : BOOLEAN, downloadCB : Nat]
    <3>1. w = [c EXCEPT !.stored = Content(client.recvSize + n),
                        !.recvSize = client.recvSize + n]
        BY <1>6, <2>2
    <3>2. Content(client.recvSize + n) \in Seq(Items)
        BY <2>2
    <3> HIDE DEF w
    <3> QED
        BY <1>6, <1>10, <2>1, <3>1, <3>2
  <2> HIDE DEF w
  <2>4. /\ client'.stored = Content(client.recvSize + n)
        /\ client'.recvSize = client.recvSize + n
        /\ client'.in = c.in /\ client'.reading = c.reading /\ client'.state = "open"
        /\ client'.out = client.out /\ client'.ofs = "open"
        /\ client'.isRecvMsg = client.isRecvMsg /\ client'.filesize = client.filesize
        /\ \/ /\ client'.calling = FALSE /\ client'.downloadCB = 0
              /\ client.recvSize + n # client.filesize
           \/ /\ client'.calling = TRUE /\ client'.downloadCB = 1
              /\ client.recvSize + n = client.filesize
        /\ client' \in [state : {"connecting", "failed", "open", "closed"}, reading : BOOLEAN,
                  in : Seq(Items), out : Seq(Items), isRecvMsg : BOOLEAN,
                  ofs : {"none", "open", "closed"}, filesize : Nat, recvSize : Nat,
                  stored : Seq(Items), calling : BOOLEAN, downloadCB : Nat]
    <3>1. CASE client.recvSize + n # client.filesize
      <4>1. client' = w
          BY <1>6, <1>7, <1>10, <2>3, <3>1
      <4> QED
          BY <1>1, <1>5, <1>10, <2>3, <3>1, <4>1
    <3>2. CASE client.recvSize + n = client.filesize
      <4>1. client' = [w EXCEPT !.calling = TRUE, !.downloadCB = 1]
        <5>1. w.downloadCB + 1 = 1
            BY <1>5, <1>10, <2>3
        <5>2. client' = [w EXCEPT !.calling = TRUE, !.downloadCB = @ + 1]
            BY <1>6, <1>7, <1>10, <2>3, <3>2
        <5> QED
            BY <5>1, <5>2
      <4> QED
          BY <2>3, <3>2, <4>1
    <3> QED
        BY <3>1, <3>2
  <2>5. TypeOK'
      BY <1>1, <2>4 DEF DownInv, TypeOK
  <2>6. ClientOK' /\ ServerOK' /\ ServedClosesFile'
    <3>2. /\ client'.reading => client'.state = "open" /\ client'.in # <<>>
          /\ ~client'.reading => client'.in = <<>>
          /\ client'.state = "open" /\ client'.ofs = "open" /\ ~client'.isRecvMsg
          /\ client'.stored = Content(client'.recvSize)
          /\ client'.recvSize > 0
      <4>1. client'.in = Behind(client.in, n) /\ client'.reading = (Behind(client.in, n) # <<>>)
          BY <1>6, <2>4
      <4> QED
          BY <1>1, <2>1, <2>4, <4>1
    <3>4. /\ ~client'.calling => client'.recvSize # client'.filesize
          /\ client'.calling => client'.recvSize = client'.filesize
          /\ client'.downloadCB = IF client'.calling THEN 1 ELSE 0
        BY <2>4
    <3>5. ClientOK'
        BY <1>1, <3>2, <3>4 DEF ClientOK
    <3>3. ServerOK' /\ ServedClosesFile'
        BY <1>1 DEF DownInv, ServerOK, ServedClosesFile
    <3> QED
        BY <3>3, <3>5
  <2>7. Backward(b + n, e, m)'
      BY <1>1, <1>3, <1>4, <1>5, <1>6, <1>8, <2>1, <2>4, ZenonT(40) DEF Backward
  <2>8. ASSUME NEW a \in Nat, NEW d \in Nat, Forward(a, d) PROVE Forward(a, d)'
      BY <1>1, <1>10, <2>4, <2>8 DEF Forward, Requested, Asked
  <2> QED
      BY <1>4, <2>5, <2>6, <2>7, <2>8 DEF DownInv
<1> QED
    BY <1>9, <1>10

\* The server takes the first message of its input buffer.
LEMMA ServerTakes ==
  ASSUME DownInv, server.reading, NEW a \in Nat, NEW e \in Nat, Forward(a, e)
  PROVE  /\ Behind(server.in, 1) \in Seq(Items)
         /\ Head(server.in) = Asked[a + 1] /\ a + 1 <= e /\ e <= Requested
         /\ Pipe(Behind(server.in, 1), up, client.out, Asked, a + 1, e)
<1>1. server.state = "open" /\ server.in # <<>>
    BY DEF DownInv, ServerOK
<1>2. /\ server.in \in Seq(Items) /\ up \in Seq(Items) /\ client.out \in Seq(Items)
      /\ Len(server.in) \in Nat
      /\ Pipe(server.in, up, client.out, Asked, a, e)
    BY <1>1, Fields DEF DownInv, Forward
<1>3. Head(server.in) = Asked[a + 1] /\ a + 1 <= e /\ 1 \in 0 .. Len(server.in)
  <2>1. Head(server.in) = Asked[a + 1] /\ a + 1 <= e /\ 1 <= Len(server.in)
      BY <1>1, <1>2, First
  <2> QED
      BY <1>2, <2>1
<1> QED
    BY <1>2, <1>3, Take, Cut DEF Forward

\* As long as the server has written nothing, nothing is on the way to the client.
LEMMA NothingYet ==
  ASSUME TypeOK, NEW f, NEW g, Pipe(client.in, down, <<>>, f, 0, 0)
  PROVE  Pipe(client.in, down, <<>>, g, 0, 0)
<1>1. Len(client.in) \in Nat /\ Len(down) \in Nat /\ Len(<<>>) = 0
    BY Fields
<1>2. 0 + Len(client.in) + Len(down) + Len(<<>>) = 0
    BY DEF Pipe
<1>3. Len(client.in) = 0 /\ Len(down) = 0
    BY <1>1, <1>2
<1> QED
    BY <1>1, <1>2, <1>3 DEF Pipe, Run

\* Only the first message the client writes asks for a file, so the server opens one
\* file and answers once.
LEMMA DownloadStep == DownInv /\ Download => DownInv'
<1> SUFFICES ASSUME DownInv, Download PROVE DownInv'
    OBVIOUS
<1>1. /\ server.reading /\ Head(server.in).type = "DOWNLOAD_INFO"
      /\ server.state = "open" /\ ~server.served
      /\ UNCHANGED <<faults, file, client, up, down>>
    BY DEF Download, DownInv, ServerOK
<1>2. PICK a \in Nat, d \in Nat : Forward(a, d)
    BY DEF DownInv
<1>3. PICK b \in Nat, e \in Nat, m \in Nat : Backward(b, e, m)
    BY DEF DownInv
<1>4. /\ Behind(server.in, 1) \in Seq(Items)
      /\ Head(server.in) = Asked[a + 1] /\ a + 1 <= d /\ d <= Requested
      /\ Pipe(Behind(server.in, 1), up, client.out, Asked, a + 1, d)
    BY <1>1, <1>2, ServerTakes
<1>5. a = 0
    BY <1>1, <1>4 DEF Asked, Msg
<1>6. server.ifs = "none" /\ server.pos = 0 /\ server.out = <<>>
    BY <1>2, <1>5 DEF Forward, DownInv, ServerOK
<1> DEFINE s == Consume(server, 1)
<1>7. /\ s.in = Behind(server.in, 1) /\ s.reading = (Behind(server.in, 1) # <<>>)
      /\ s.state = "open" /\ s.out = <<>> /\ s.ifs = "none" /\ s.pos = 0 /\ s.served = FALSE
      /\ s \in [state : {"none", "open", "closed"}, reading : BOOLEAN,
                 in : Seq(Items), out : Seq(Items),
                 ifs : {"none", "open", "closed"}, pos : Nat, served : BOOLEAN]
    BY <1>1, <1>4, <1>6 DEF Consume, DownInv, TypeOK
<1>8. \/ server' = s
      \/ server' = [s EXCEPT !.ifs = "open", !.out = Append(@, Msg("DOWNLOAD_ACCEPT", file))]
    BY DEF Download
<1> HIDE DEF s
<1>9. Msg("DOWNLOAD_ACCEPT", file) \in Items /\ file \in Nat
    BY Messages, Fields DEF DownInv
<1>10. /\ server'.in = Behind(server.in, 1) /\ server'.reading = (Behind(server.in, 1) # <<>>)
       /\ server'.state = "open" /\ server'.pos = 0 /\ server'.served = FALSE
       /\ \/ server'.ifs = "none" /\ server'.out = <<>>
          \/ server'.ifs = "open" /\ server'.out = Append(<<>>, Msg("DOWNLOAD_ACCEPT", file))
       /\ server' \in [state : {"none", "open", "closed"}, reading : BOOLEAN,
                       in : Seq(Items), out : Seq(Items),
                       ifs : {"none", "open", "closed"}, pos : Nat, served : BOOLEAN]
  <2>1. CASE server' = s
      BY <1>7, <2>1
  <2>2. CASE server' = [s EXCEPT !.ifs = "open",
                                 !.out = Append(@, Msg("DOWNLOAD_ACCEPT", file))]
    <3>1. Append(<<>>, Msg("DOWNLOAD_ACCEPT", file)) \in Seq(Items)
        BY <1>9
    <3>2. server' = [s EXCEPT !.ifs = "open",
                              !.out = Append(<<>>, Msg("DOWNLOAD_ACCEPT", file))]
        BY <1>7, <2>2
    <3> QED
        BY <1>7, <3>1, <3>2
  <2> QED
      BY <1>8, <2>1, <2>2
<1>11. TypeOK'
    BY <1>1, <1>10 DEF DownInv, TypeOK
<1>12. ClientOK' /\ ServedClosesFile'
    BY <1>1, <1>10 DEF DownInv, ClientOK, ServedClosesFile
<1>13. ServerOK'
  <2>1. Append(<<>>, Msg("DOWNLOAD_ACCEPT", file)) # <<>>
      OBVIOUS
  <2> QED
      BY <1>1, <1>9, <1>10, <2>1 DEF ServerOK
<1>14. Forward(1, d)'
  <2>1. Asked' = Asked /\ Requested' = Requested
      BY <1>1 DEF Asked, Requested
  <2>2. Pipe(server'.in, up, client.out, Asked, 1, d) /\ 1 <= d /\ d <= Requested
      BY <1>4, <1>5, <1>10
  <2>3. server.state # "closed" /\ client.state # "closed" => d = Requested
      BY <1>2 DEF Forward
  <2> QED
      BY <1>1, <1>10, <2>1, <2>2, <2>3 DEF Forward
<1>15. \E i, j, k \in Nat : Backward(i, j, k)'
  <2>1. /\ Written = 0 /\ b = 0 /\ e = 0 /\ client.isRecvMsg
        /\ client.state # "closed" => Pipe(client.in, down, <<>>, Sent(m), 0, 0)
      BY <1>3, <1>6 DEF Backward, Written
  <2>2. CASE server'.ifs = "none" /\ server'.out = <<>>
    <3>1. Written' = 0 /\ Sent(m)' = Sent(m)
        BY <2>2 DEF Written, Sent
    <3>2. Backward(0, 0, m)'
        BY <1>1, <1>10, <2>1, <2>2, <3>1 DEF Backward
    <3> QED
        BY <3>2
  <2>3. CASE server'.ifs = "open" /\ server'.out = Append(<<>>, Msg("DOWNLOAD_ACCEPT", file))
    <3>1. Written' = 1 /\ Sent(file)' = Sent(file) /\ Len(server'.out) = 1
        BY <1>1, <1>10, <2>3 DEF Written, Sent
    <3>2. client.state # "closed" => Pipe(client.in, down, server'.out, Sent(file), 0, 1)
      <4> SUFFICES ASSUME client.state # "closed"
                   PROVE  Pipe(client.in, down, server'.out, Sent(file), 0, 1)
          OBVIOUS
      <4>1. Pipe(client.in, down, <<>>, Sent(file), 0, 0)
          BY <2>1, NothingYet DEF DownInv
      <4>2. client.in \in Seq(Items) /\ down \in Seq(Items) /\ <<>> \in Seq(Items)
          BY Fields DEF DownInv
      <4>3. Msg("DOWNLOAD_ACCEPT", file) = Sent(file)[0 + 1] /\ 0 \in Nat
          BY DEF Sent
      <4>4. Pipe(client.in, down, Append(<<>>, Msg("DOWNLOAD_ACCEPT", file)), Sent(file),
                 0, 0 + 1)
          BY <1>9, <4>1, <4>2, <4>3, WriteOne
      <4> QED
          BY <2>3, <4>4
    <3>3. PICK k \in Nat : k = file
        BY <1>9
    <3>4. Backward(0, 1, k)'
      <4>1. Sent(k)' = Sent(file) /\ (server'.ifs # "none" /\ "grow" \notin faults' => k = file')
          BY <1>1, <3>3 DEF Sent
      <4> QED
          BY <1>1, <1>10, <2>1, <2>3, <3>1, <3>2, <4>1 DEF Backward
    <3> QED
        BY <3>4
  <2> QED
      BY <1>10, <2>2, <2>3
<1> QED
    BY <1>11, <1>12, <1>13, <1>14, <1>15 DEF DownInv

\* The server gets DOWNLOAD_COMPLETE when the client has the announced size, and then
\* it has nothing left to send: WriteCB has met the end and closed the file.
LEMMA DownloadCompleteStep == DownInv /\ DownloadComplete => DownInv'
<1> SUFFICES ASSUME DownInv, DownloadComplete PROVE DownInv'
    OBVIOUS
<1>1. /\ server.reading /\ Head(server.in).type = "DOWNLOAD_COMPLETE"
      /\ server.state = "open" /\ ~server.served
      /\ server' = [Closed(server) EXCEPT !.served = TRUE]
      /\ UNCHANGED <<faults, file, client, up, down>>
    BY DEF DownloadComplete, DownInv, ServerOK
<1>2. PICK a \in Nat, d \in Nat : Forward(a, d)
    BY DEF DownInv
<1>3. PICK b \in Nat, e \in Nat, m \in Nat : Backward(b, e, m)
    BY DEF DownInv
<1>4. Head(server.in) = Asked[a + 1] /\ a + 1 <= d /\ d <= Requested
    BY <1>1, <1>2, ServerTakes
<1>5. a = 1 /\ d = 2 /\ client.ofs = "closed"
  <2>1. a # 0
      BY <1>1, <1>4 DEF Asked, Msg
  <2>2. Requested \in {0, 1, 2} /\ (Requested = 2 => client.ofs = "closed")
      BY DEF Requested, DownInv, TypeOK
  <2> QED
      BY <1>4, <2>1, <2>2
<1>6. /\ server'.state = "closed" /\ server'.in = <<>> /\ server'.out = <<>>
      /\ server'.reading = FALSE /\ server'.ifs = server.ifs
      /\ server'.pos = server.pos /\ server'.served = TRUE
    BY <1>1 DEF DownInv, TypeOK, Closed
<1>7. TypeOK'
  <2>1. <<>> \in Seq(Items)
      OBVIOUS
  <2> QED
      BY <1>1, <2>1 DEF DownInv, TypeOK, Closed
<1>8. ClientOK'
    BY <1>1, <1>6 DEF DownInv, ClientOK
<1>9. server.ifs # "none"
    BY <1>3, <1>5 DEF Backward, DownInv, ClientOK, Written
<1>10. ServedClosesFile'
  <2> SUFFICES ASSUME "grow" \notin faults PROVE server.ifs = "closed"
      BY <1>1, <1>6 DEF ServedClosesFile
  <2>1. /\ client.recvSize = client.filesize /\ ~client.isRecvMsg
        /\ client.filesize = m /\ b >= m + 1 /\ m = file
      BY <1>3, <1>5, <1>9 DEF Backward, DownInv, ClientOK
  <2>2. b + Len(server.out) <= server.pos + 1 /\ server.pos <= file
      BY <1>1, <1>3, <1>9 DEF Backward, Written, DownInv, ServerOK
  <2>3. Len(server.out) = 0
    <3>1. server.pos \in Nat /\ file \in Nat /\ Len(server.out) \in Nat
        BY Fields DEF DownInv
    <3> QED
        BY <2>1, <2>2, <3>1
  <2>4. server.out = <<>>
      BY <2>3, Fields, EmptySeq DEF DownInv
  <2> QED
      BY <1>1, <1>9, <2>4 DEF DownInv, ServerOK, TypeOK
<1>11. ServerOK'
    BY <1>1, <1>6, <1>9 DEF DownInv, ServerOK
<1>12. Forward(2, 2)'
    BY <1>1, <1>5, <1>6 DEF Forward, Requested
<1>13. \E j \in Nat : Backward(b, j, m)'
  <2>1. PICK j \in Nat : /\ b <= j /\ j <= Written
                         /\ client.state # "closed" => Pipe(client.in, down, <<>>, Sent(m), b, j)
      BY <1>3, OutputLost
  <2>2. Written' = Written /\ Sent(m)' = Sent(m)
      BY <1>6 DEF Written, Sent
  <2>3. Backward(b, j, m)'
      BY <1>1, <1>3, <1>6, <2>1, <2>2 DEF Backward
  <2> QED
      BY <2>3
<1> QED
    BY <1>7, <1>8, <1>10, <1>11, <1>12, <1>13 DEF DownInv

LEMMA ServerSendStep == DownInv /\ ServerSend => DownInv'
<1> SUFFICES ASSUME DownInv, ServerSend PROVE DownInv'
    OBVIOUS
<1>1. PICK n \in 1 .. AtMost(Len(server.out), WireCap - Len(down)) :
        /\ down' = down \o Upto(server.out, n)
        /\ LET s == [server EXCEPT !.out = Behind(@, n)] IN
           server' = IF s.out = <<>> THEN WriteCB(s) ELSE s
    BY DEF ServerSend
<1>2. /\ server.state = "open" /\ ~server.reading /\ ~server.served
      /\ UNCHANGED <<faults, file, client, up>>
    BY DEF ServerSend, ServerWaiting, DownInv, ServerOK
<1>3. /\ down \o Upto(server.out, n) \in Seq(Items) /\ Behind(server.out, n) \in Seq(Items)
      /\ Len(Behind(server.out, n)) \in Nat /\ Len(server.out) \in Nat
      /\ Len(Behind(server.out, n)) <= Len(server.out) /\ server.out # <<>>
      /\ \A f : \A b, e \in Nat :
           Pipe(client.in, down, server.out, f, b, e) =>
             Pipe(client.in, down \o Upto(server.out, n), Behind(server.out, n), f, b, e)
  <2>1. /\ client.in \in Seq(Items) /\ down \in Seq(Items) /\ server.out \in Seq(Items)
        /\ Len(server.out) \in Nat /\ Len(down) \in Nat
      BY Fields DEF DownInv
  <2>2. n \in 0 .. Len(server.out) /\ n > 0
      BY <1>1, <2>1, StreamAssumption DEF AtMost
  <2>3. Len(Behind(server.out, n)) = Len(server.out) - n
      BY <2>1, <2>2, Cut
  <2>4. /\ down \o Upto(server.out, n) \in Seq(Items) /\ Behind(server.out, n) \in Seq(Items)
        /\ \A f : \A b, e \in Nat :
             Pipe(client.in, down, server.out, f, b, e) =>
               Pipe(client.in, down \o Upto(server.out, n), Behind(server.out, n), f, b, e)
      BY <2>1, <2>2, Send
  <2>5. /\ Len(Behind(server.out, n)) \in Nat
        /\ Len(Behind(server.out, n)) <= Len(server.out) /\ Len(server.out) # 0
      BY <2>1, <2>2, <2>3
  <2>6. server.out # <<>>
      BY <2>5
  <2> QED
      BY <2>1, <2>4, <2>5, <2>6
<1> DEFINE s == [server EXCEPT !.out = Behind(@, n)]
<1>4. /\ s.out = Behind(server.out, n) /\ s.in = server.in /\ s.reading = server.reading
      /\ s.state = "open" /\ s.ifs = server.ifs /\ s.pos = server.pos /\ s.served = FALSE
      /\ s \in [state : {"none", "open", "closed"}, reading : BOOLEAN,
                 in : Seq(Items), out : Seq(Items),
                 ifs : {"none", "open", "closed"}, pos : Nat, served : BOOLEAN]
    BY <1>2, <1>3 DEF DownInv, TypeOK
<1>5. server' = IF s.out = <<>> THEN WriteCB(s) ELSE s
    BY <1>1
<1>6. server.ifs # "none"
    BY <1>3 DEF DownInv, ServerOK
<1> HIDE DEF s
<1>7. CASE server' = s /\ (s.out = <<>> => server.ifs # "open")
  <2>1. TypeOK'
      BY <1>1, <1>2, <1>3, <1>4, <1>7 DEF DownInv, TypeOK
  <2>2. ClientOK' /\ ServedClosesFile'
      BY <1>2, <1>4, <1>7 DEF DownInv, ClientOK, ServedClosesFile
  <2>3. ServerOK'
      BY <1>2, <1>4, <1>6, <1>7 DEF DownInv, ServerOK
  <2>4. ASSUME NEW a \in Nat, NEW d \in Nat, Forward(a, d) PROVE Forward(a, d)'
      BY <1>2, <1>4, <1>7, <2>4 DEF Forward, Requested, Asked
  <2>5. ASSUME NEW b \in Nat, NEW e \in Nat, NEW m \in Nat, Backward(b, e, m)
        PROVE  Backward(b, e, m)'
    <3>1. Written' = Written /\ Sent(m)' = Sent(m) /\ Written \in Nat
        BY <1>4, <1>7, CountsAreNat DEF Written, Sent, DownInv
    <3>2. client.state # "closed" =>
            Pipe(client.in, down', server'.out, Sent(m), b, e)
      <4>1. down' = down \o Upto(server.out, n) /\ server'.out = Behind(server.out, n)
          BY <1>1, <1>4, <1>7
      <4>2. client.state # "closed" => Pipe(client.in, down, server.out, Sent(m), b, e)
          BY <2>5 DEF Backward
      <4>3. Pipe(client.in, down, server.out, Sent(m), b, e) =>
              Pipe(client.in, down \o Upto(server.out, n), Behind(server.out, n), Sent(m), b, e)
          BY <1>3
      <4> QED
          BY <4>1, <4>2, <4>3
    <3>3. b + Len(server'.out) <= Written
      <4>1. b + Len(server.out) <= Written
          BY <1>2, <2>5 DEF Backward
      <4>2. server'.out = Behind(server.out, n)
          BY <1>4, <1>7
      <4>3. \A h, i, j, k \in Nat : h + i <= j /\ k <= i => h + k <= j
          OBVIOUS
      <4> QED
          BY <1>3, <3>1, <4>1, <4>2, <4>3
    <3>4. server'.state = server.state /\ server'.ifs = server.ifs
        BY <1>2, <1>4, <1>7
    <3> QED
        BY <1>2, <2>5, <3>1, <3>2, <3>3, <3>4 DEF Backward
  <2> QED
      BY <2>1, <2>2, <2>3, <2>4, <2>5 DEF DownInv
<1>8. CASE server' = WriteCB(s) /\ s.out = <<>> /\ server.ifs = "open"
  <2> DEFINE piece == Piece(server.pos, file)
  <2>1. /\ piece \in Seq(Items) /\ Len(piece) \in Nat /\ server.pos + Len(piece) \in Nat
        /\ server.pos + Len(piece) <= file
        /\ \A k \in Nat : Run(piece, Sent(k), server.pos + 1)
        /\ ~ReadsEof(server.pos, file) => Len(piece) > 0
    <3>1. server.pos \in Nat /\ file \in Nat /\ server.pos <= file
        BY Fields DEF DownInv, ServerOK
    <3>2. /\ piece \in Seq({Data(j) : j \in Nat \ {0}}) /\ Len(piece) \in Nat
          /\ server.pos + Len(piece) <= file /\ Run(piece, Bytes, server.pos)
          /\ ~ReadsEof(server.pos, file) => Len(piece) > 0
        BY <3>1, PieceOK
    <3>3. piece \in Seq(Items)
      <4>1. {Data(j) : j \in Nat \ {0}} \subseteq Items
          BY Messages
      <4> QED
          BY <3>2, <4>1
    <3>4. \A k \in Nat : Run(piece, Sent(k), server.pos + 1)
        BY <3>1, <3>2, <3>3, Shift
    <3>5. server.pos + Len(piece) \in Nat
        BY <3>1, <3>2
    <3> QED
        BY <3>2, <3>3, <3>4, <3>5
  <2>2. /\ server'.out = piece /\ server'.pos = server.pos + Len(piece)
        /\ server'.ifs = (IF ReadsEof(server.pos, file) THEN "closed" ELSE "open")
        /\ server'.in = server.in /\ server'.reading = server.reading
        /\ server'.state = "open" /\ server'.served = FALSE
        /\ server' \in [state : {"none", "open", "closed"}, reading : BOOLEAN,
                        in : Seq(Items), out : Seq(Items),
                        ifs : {"none", "open", "closed"}, pos : Nat, served : BOOLEAN]
    <3>1. server' = [s EXCEPT !.out = @ \o piece, !.pos = @ + Len(piece),
                              !.ifs = IF ReadsEof(server.pos, file) THEN "closed" ELSE "open"]
        BY <1>4, <1>8 DEF WriteCB
    <3>2. s.out \o piece = piece /\ s.pos + Len(piece) = server.pos + Len(piece)
        BY <1>4, <1>8, <2>1, ConcatEmptySeq
    <3>3. server' = [s EXCEPT !.out = piece, !.pos = server.pos + Len(piece),
                              !.ifs = IF ReadsEof(server.pos, file) THEN "closed" ELSE "open"]
        BY <3>1, <3>2
    <3> HIDE DEF piece
    <3> QED
        BY <1>4, <2>1, <3>3
  <2> HIDE DEF piece
  <2>3. piece # <<>> \/ ReadsEof(server.pos, file)
      BY <2>1
  <2>4. TypeOK'
      BY <1>1, <1>2, <1>3, <2>2 DEF DownInv, TypeOK
  <2>5. ClientOK' /\ ServedClosesFile'
      BY <1>2, <2>2 DEF DownInv, ClientOK, ServedClosesFile
  <2>6. ServerOK'
      BY <1>2, <2>1, <2>2, <2>3 DEF DownInv, ServerOK
  <2>7. ASSUME NEW a \in Nat, NEW d \in Nat, Forward(a, d) PROVE Forward(a, d)'
      BY <1>2, <1>8, <2>2, <2>7 DEF Forward, Requested, Asked
  <2>8. ASSUME NEW b \in Nat, NEW e \in Nat, NEW m \in Nat, Backward(b, e, m)
        PROVE  \E d \in Nat : Backward(b, d, m)'
    <3>1. PICK d \in Nat : d = e + Len(piece)
        BY <2>1
    <3>2. /\ Written = server.pos + 1 /\ Written' = server.pos + Len(piece) + 1
          /\ Sent(m)' = Sent(m) /\ server.pos \in Nat
        BY <1>8, <2>2, Fields DEF Written, Sent, DownInv
    <3>3. b <= e /\ e <= server.pos + 1
        BY <2>8, <3>2 DEF Backward
    <3>4. b <= d /\ d <= Written' /\ b + Len(server'.out) <= Written'
      <4>1. server'.out = piece
          BY <2>2
      <4>2. \A h, i, j, k \in Nat : h <= i /\ i <= j + 1 =>
              h <= i + k /\ i + k <= j + k + 1 /\ h + k <= j + k + 1
          OBVIOUS
      <4>3. /\ b <= e + Len(piece) /\ e + Len(piece) <= server.pos + Len(piece) + 1
            /\ b + Len(piece) <= server.pos + Len(piece) + 1
          BY <2>1, <3>2, <3>3, <4>2
      <4> QED
          BY <3>1, <3>2, <4>1, <4>3
    <3>5. client.state # "closed" =>
            d = Written' /\ Pipe(client.in, down', server'.out, Sent(m), b, d)
      <4> SUFFICES ASSUME client.state # "closed"
                   PROVE  d = Written' /\ Pipe(client.in, down', server'.out, Sent(m), b, d)
          OBVIOUS
      <4>1. e = server.pos + 1
          BY <1>2, <2>8, <3>2 DEF Backward
      <4>2. Pipe(client.in, down \o Upto(server.out, n), <<>>, Sent(m), b, e)
          BY <1>3, <1>4, <1>8, <2>8 DEF Backward
      <4>3. Pipe(client.in, down \o Upto(server.out, n), piece, Sent(m), b, e + Len(piece))
        <5>1. client.in \in Seq(Items) /\ <<>> \in Seq(Items) /\ Run(piece, Sent(m), e)
            BY <2>1, <4>1, Fields DEF DownInv
        <5>2. Pipe(client.in, down \o Upto(server.out, n), <<>> \o piece, Sent(m),
                   b, e + Len(piece))
            BY <1>3, <2>1, <4>2, <5>1, Write
        <5>3. <<>> \o piece = piece
            BY <2>1, ConcatEmptySeq
        <5> QED
            BY <5>2, <5>3
      <4>4. d = Written'
          BY <2>1, <3>1, <3>2, <4>1, SMTT(30)
      <4> QED
          BY <1>1, <2>2, <3>1, <4>3, <4>4
    <3>6. server'.state = server.state /\ (server'.ifs # "none" /\ server.ifs # "none")
        BY <1>2, <1>6, <2>2
    <3> QED
        BY <1>2, <2>8, <3>2, <3>4, <3>5, <3>6 DEF Backward
  <2> QED
      BY <2>4, <2>5, <2>6, <2>7, <2>8 DEF DownInv
<1> QED
    BY <1>4, <1>5, <1>7, <1>8 DEF WriteCB
--------------------------------------------------------------------------------
LEMMA DownInit == Init => DownInv
<1> SUFFICES ASSUME Init PROVE DownInv
    OBVIOUS
<1>1. /\ client.state = "connecting" /\ client.reading = FALSE /\ client.in = <<>>
      /\ client.out = <<>> /\ client.isRecvMsg = TRUE /\ client.ofs = "none"
      /\ client.filesize = 0 /\ client.recvSize = 0 /\ client.stored = <<>>
      /\ client.calling = FALSE /\ client.downloadCB = 0
    BY DEF Init
<1>2. /\ server.state = "none" /\ server.reading = FALSE /\ server.in = <<>>
      /\ server.out = <<>> /\ server.ifs = "none" /\ server.pos = 0 /\ server.served = FALSE
    BY DEF Init
<1>3. up = <<>> /\ down = <<>> /\ faults \subseteq Faults /\ file \in Nat
    BY DownloadAssumption DEF Init
<1>4. TypeOK
  <2>1. <<>> \in Seq(Items)
      OBVIOUS
  <2> QED
      BY <1>3, <2>1 DEF Init, TypeOK
<1>5. ClientOK /\ ServerOK /\ ServedClosesFile
    BY <1>1, <1>2, <1>3 DEF ClientOK, ServerOK, ServedClosesFile
<1>6. Forward(0, 0) /\ Backward(0, 0, 0)
    BY <1>1, <1>2, <1>3 DEF Forward, Backward, Written, Requested, Pipe, Run
<1> QED
    BY <1>4, <1>5, <1>6 DEF DownInv

LEMMA DownNext == DownInv /\ [Next]_vars => DownInv'
  BY ConnectStep, ClientSendStep, ClientReadEventStep, AcceptedStep, ClientRawReadCBStep,
     DownloadCBReturnsStep, ClientEofStep, ClientBreakStep, ServerInitStep,
     ServerReadEventStep, DownloadStep, DownloadCompleteStep, ServerSendStep, ServerEofStep,
     ServerBreakStep, GrowStep, StutterStep
  DEF Next, ClientStep, ServerStep, ClientReadCB, ServerReadCB, ClientError, ClientTimeout,
      ServerError, ServerTimeout

\* DownInv holds in every state of every download.
THEOREM DownloadInvariant == Spec => []DownInv
  BY DownInit, DownNext, PTL DEF Spec

\* Type correctness: the fields of XDownLoadTask and XFileServerTask, the connection.
THEOREM DownloadTypes == Spec => []TypeOK
<1>1. DownInv => TypeOK
    BY DEF DownInv
<1> QED
    BY <1>1, DownloadInvariant, PTL

\* DownloadCB is called at most once, and only when XDownLoadTask has stored the file
\* with the announced size, whatever the other side or the link does.
THEOREM DownloadCompletes == Spec => []CompleteMeansFetched
<1>1. DownInv => CompleteMeansFetched
  <2> SUFFICES ASSUME DownInv PROVE CompleteMeansFetched
      OBVIOUS
  <2>1. /\ client.downloadCB = IF client.calling \/ client.ofs = "closed" THEN 1 ELSE 0
        /\ client.calling \/ client.ofs = "closed" =>
             client.recvSize = client.filesize /\ client.stored = Content(client.recvSize)
      BY DEF DownInv, ClientOK
  <2> QED
      BY <2>1 DEF CompleteMeansFetched
<1> QED
    BY <1>1, DownloadInvariant, PTL

\* When XFileServerTask gets DOWNLOAD_COMPLETE its WriteCB has closed the file, unless
\* another program makes the file grow.
THEOREM DownloadClosesFile == Spec => []ServedClosesFile
<1>1. DownInv => ServedClosesFile
    BY DEF DownInv
<1> QED
    BY <1>1, DownloadInvariant, PTL

\* What XDownLoadTask finds in its buffer is DOWNLOAD_ACCEPT exactly as long as it
\* takes messages, so a byte of the file is never parsed as a message.
THEOREM DownloadAcceptFirst == Spec => []AcceptFirst
<1>1. DownInv => AcceptFirst
  <2> SUFFICES ASSUME DownInv, client.reading
               PROVE  client.isRecvMsg <=> Head(client.in).type = "DOWNLOAD_ACCEPT"
      BY DEF AcceptFirst
  <2>1. PICK b \in Nat, e \in Nat, m \in Nat : Backward(b, e, m)
      BY DEF DownInv
  <2>2. client.state = "open" /\ client.in # <<>>
      BY DEF DownInv, ClientOK
  <2>3. Pipe(client.in, down, server.out, Sent(m), b, e)
      BY <2>1, <2>2 DEF Backward
  <2>4. Head(client.in) = Sent(m)[b + 1]
    <3>1. client.in \in Seq(Items) /\ down \in Seq(Items) /\ server.out \in Seq(Items)
        BY Fields DEF DownInv
    <3> QED
        BY <2>2, <2>3, <3>1, First
  <2>5. client.isRecvMsg <=> b = 0
      BY <2>1 DEF Backward
  <2>6. Head(client.in).type = IF b = 0 THEN "DOWNLOAD_ACCEPT" ELSE "DATA"
    <3>1. CASE b = 0
        BY <2>4, <3>1 DEF Sent, Msg
    <3>2. CASE b # 0
      <4>1. b + 1 \in Nat \ {0} /\ b + 1 # 1
          BY <3>2
      <4> QED
          BY <2>4, <3>2, <4>1 DEF Sent, Data
    <3> QED
        BY <3>1, <3>2
  <2> QED
      BY <2>5, <2>6
<1> QED
    BY <1>1, DownloadInvariant, PTL

\* While both tasks are alive and the local file is open, each byte that the server's
\* WriteCB has read is at one place of the way to the local file, in order.
THEOREM DownloadLosesNothing == Spec => []NothingLost
<1>1. DownInv => NothingLost
  <2> SUFFICES ASSUME DownInv, client.state = "open", server.state = "open",
                      client.ofs = "open"
               PROVE  client.stored \o Payload(client.in \o down \o server.out)
                        = Content(server.pos)
      BY DEF NothingLost
  <2> DEFINE w == client.in \o down \o server.out
  <2>1. PICK b \in Nat, e \in Nat, m \in Nat : Backward(b, e, m)
      BY DEF DownInv
  <2>2. Pipe(client.in, down, server.out, Sent(m), b, e) /\ e = Written
      BY <2>1 DEF Backward
  <2>3. w \in Seq(Items) /\ Len(w) \in Nat /\ Run(w, Sent(m), b) /\ b + Len(w) = e
    <3>1. client.in \in Seq(Items) /\ down \in Seq(Items) /\ server.out \in Seq(Items)
        BY Fields DEF DownInv
    <3>2. \A f : \A i, j \in Nat : Pipe(client.in, down, server.out, f, i, j) =>
            w \in Seq(Items) /\ Run(w, f, i) /\ i + Len(w) = j
        BY <3>1, All
    <3> HIDE DEF w
    <3> QED
        BY <2>2, <3>2, LenProperties
  <2> HIDE DEF w
  <2>4. /\ client.recvSize \in Nat /\ server.pos \in Nat
        /\ client.isRecvMsg => b = 0 /\ client.stored = <<>>
        /\ ~client.isRecvMsg => b = client.recvSize + 1
        /\ server.ifs = "none" => server.pos = 0
      BY <2>1, Fields DEF Backward, DownInv, ClientOK, ServerOK
  <2>5. \A k \in 1 .. Len(w) : w[k] = Sent(m)[b + k]
      BY <2>3 DEF Run
  <2>6. CASE ~client.isRecvMsg
    <3>1. Run(w, Sent(m), client.recvSize + 1)
        BY <2>3, <2>4, <2>6
    <3>2. client.stored \o w = Content(client.recvSize + Len(w))
        BY <2>3, <2>6, <3>1, StoresNext DEF DownInv
    <3>3. client.recvSize + Len(w) = server.pos
      <4>1. e = 0 \/ e = server.pos + 1
          BY <2>2 DEF Written
      <4> QED
          BY <2>3, <2>4, <2>6, <4>1
    <3>4. Payload(w) = w
      <4>1. CASE w = <<>>
          BY <4>1 DEF Payload
      <4>2. CASE w # <<>>
        <5>1. Len(w) >= 1 /\ Head(w) = w[1]
            BY <2>3, <4>2, EmptySeq
        <5>2. b + 1 \in Nat \ {0} /\ b + 1 # 1
            BY <2>4, <2>6
        <5>3. w[1] = Data(b + 1 - 1)
            BY <2>3, <2>5, <5>1, <5>2 DEF Sent
        <5> QED
            BY <5>1, <5>3 DEF Payload, IsData, Data
      <4> QED
          BY <4>1, <4>2
    <3> QED
        BY <3>2, <3>3, <3>4 DEF w
  <2>7. CASE client.isRecvMsg
    <3>1. CASE w = <<>>
      <4>1. server.pos = 0
          BY <2>2, <2>3, <2>4, <2>7, <3>1 DEF Written
      <4>2. <<>> \o <<>> = <<>>
          OBVIOUS
      <4> QED
          BY <2>4, <2>7, <3>1, <4>1, <4>2, ContentZero DEF Payload, w
    <3>2. CASE w # <<>>
      <4>1. Len(w) >= 1 /\ Head(w) = w[1]
          BY <2>3, <3>2, EmptySeq
      <4>2. w[1] = Msg("DOWNLOAD_ACCEPT", m)
        <5>1. 1 \in 1 .. Len(w) /\ b + 1 = 1
            BY <2>3, <2>4, <2>7, <4>1
        <5>2. w[1] = Sent(m)[1]
            BY <2>5, <5>1
        <5> QED
            BY <5>2 DEF Sent
      <4>3. Payload(w) = Tail(w)
          BY <3>2, <4>1, <4>2 DEF Payload, IsData, Msg
      <4>4. Len(w) = server.pos + 1
          BY <2>2, <2>3, <2>4, <2>7, <4>1 DEF Written
      <4>5. /\ Tail(w) \in Seq(Items) /\ Len(Tail(w)) = server.pos
            /\ \A k \in 1 .. server.pos : Tail(w)[k] = w[k + 1]
        <5>1. Len(Tail(w)) = Len(w) - 1 /\ Tail(w) \in Seq(Items)
            BY <2>3, <3>2, HeadTailProperties
        <5>2. \A k \in 1 .. Len(Tail(w)) : Tail(w)[k] = w[k + 1]
            BY <2>3, <3>2, HeadTailProperties
        <5> QED
            BY <2>4, <4>4, <5>1, <5>2
      <4>6. Run(Tail(w), Bytes, 0)
        <5>1. ASSUME NEW k \in 1 .. server.pos PROVE Tail(w)[k] = Bytes[0 + k]
          <6>1. k + 1 \in 1 .. Len(w) /\ k \in Nat \ {0} /\ 0 + k = k
              BY <2>4, <4>4
          <6>2. /\ 0 + (k + 1) = k + 1 /\ k + 1 \in Nat \ {0} /\ k + 1 # 1
                /\ k + 1 - 1 = k
              BY <6>1
          <6>3. w[k + 1] = Sent(m)[k + 1]
              BY <2>4, <2>5, <2>7, <6>1, <6>2
          <6>4. w[k + 1] = Data(k)
              BY <6>2, <6>3 DEF Sent
          <6> QED
              BY <4>5, <6>1, <6>4 DEF Bytes
        <5> QED
            BY <4>5, <5>1 DEF Run
      <4>7. Tail(w) = Content(server.pos)
          BY <4>5, <4>6, RunIsContent
      <4>8. <<>> \o Tail(w) = Tail(w)
          BY <4>5, ConcatEmptySeq
      <4> QED
          BY <2>4, <2>7, <4>3, <4>7, <4>8 DEF w
    <3> QED
        BY <3>1, <3>2
  <2> QED
      BY <2>6, <2>7
<1> QED
    BY <1>1, DownloadInvariant, PTL
--------------------------------------------------------------------------------
LEMMA SameContent == \A k \in Nat : FT!Content(k) = Content(k)
  BY DEF FT!Content, Content, FT!Data, Data

\* DOWNLOAD_ACCEPT: the size is announced, unless the file is empty.
LEMMA AnnounceMaps == DownInv /\ DownInv' /\ Accepted => FT!Announce \/ UNCHANGED FT!vars
<1> SUFFICES ASSUME DownInv, DownInv', Accepted
             PROVE  FT!Announce \/ UNCHANGED FT!vars
    OBVIOUS
<1>1. /\ UNCHANGED <<faults, file, server>> /\ client.filesize = 0 /\ client.stored = <<>>
      /\ client'.stored = client.stored /\ client'.ofs = client.ofs
    BY DEF Accepted, Consume, DownInv, ClientOK, TypeOK
<1>2. client'.filesize \in Nat
    BY DEF DownInv, TypeOK
<1>3. CASE client'.filesize = 0
    BY <1>1, <1>3 DEF FT!vars
<1>4. CASE client'.filesize # 0
    BY <1>1, <1>2, <1>4 DEF FT!Announce
<1> QED
    BY <1>3, <1>4

\* A piece of the file: stored as long as the size is not met, and not behind it.
LEMMA StoreMaps == DownInv /\ DownInv' /\ ClientRawReadCB => FT!Store \/ UNCHANGED FT!vars
<1> SUFFICES ASSUME DownInv, DownInv', ClientRawReadCB
             PROVE  FT!Store \/ UNCHANGED FT!vars
    OBVIOUS
<1>1. /\ UNCHANGED <<faults, file, server>> /\ client.in # <<>>
      /\ ~client.isRecvMsg /\ ~client.calling
    BY DEF ClientRawReadCB, DownInv, ClientOK
<1>2. PICK n \in Nat \ {0} : n = AtMost(Len(client.in), BufSize)
  <2>1. client.in \in Seq(Items) /\ Len(client.in) \in Nat
      BY Fields DEF DownInv
  <2>2. Len(client.in) >= 1
      BY <1>1, <2>1, EmptySeq
  <2> QED
      BY <2>1, <2>2, StreamAssumption DEF AtMost
<1>3. /\ client'.ofs = client.ofs /\ client'.filesize = client.filesize
      /\ client'.isRecvMsg = client.isRecvMsg
      /\ \/ client.ofs # "open" /\ client'.stored = client.stored
         \/ client.ofs = "open" /\ client'.recvSize = client.recvSize + n
    BY <1>2 DEF ClientRawReadCB, Consume, DownInv, TypeOK
<1>4. CASE client.ofs # "open" /\ client'.stored = client.stored
    BY <1>1, <1>3, <1>4 DEF FT!vars
<1>5. CASE client.ofs = "open" /\ client'.recvSize = client.recvSize + n
  <2>1. PICK b \in Nat, e \in Nat, m \in Nat : Backward(b, e, m)
      BY DEF DownInv
  <2>2. /\ client.recvSize \in Nat /\ client.filesize \in Nat
        /\ client'.recvSize \in Nat /\ client'.recvSize > client.recvSize
        /\ client.stored = Content(client.recvSize)
        /\ client'.stored = Content(client'.recvSize)
    <3>1. client.recvSize \in Nat /\ client.filesize \in Nat
        BY Fields DEF DownInv
    <3>2. client'.recvSize \in Nat /\ client'.recvSize > client.recvSize
        BY <1>2, <1>5, <3>1
    <3>3. client.stored = Content(client.recvSize)
        BY <1>1 DEF DownInv, ClientOK
    <3>4. client'.stored = Content(client'.recvSize)
        BY <1>1, <1>3 DEF DownInv, ClientOK
    <3> QED
        BY <3>1, <3>2, <3>3, <3>4
  <2>3. client.recvSize = 0 \/ client.recvSize # client.filesize
      BY <1>1, <1>5 DEF DownInv, ClientOK
  <2>4. /\ Len(client.stored) = client.recvSize /\ Len(client'.stored) = client'.recvSize
        /\ Len(Content(client.filesize)) = client.filesize
      BY <2>2, ContentOK
  <2>5. ~FT!Complete
    <3> SUFFICES ASSUME client.filesize > 0, client.stored = Content(client.filesize)
                 PROVE  FALSE
        BY <2>2, SameContent DEF FT!Complete
    <3> QED
        BY <2>2, <2>3, <2>4
  <2>6. /\ Len(client'.stored) > Len(client.stored)
        /\ client'.stored = FT!Content(Len(client'.stored))
      BY <2>2, <2>4, SameContent
  <2> QED
      BY <1>1, <1>3, <1>5, <2>5, <2>6 DEF FT!Store
<1> QED
    BY <1>3, <1>4, <1>5

\* The file is closed after DownloadCB, with the announced size.
LEMMA SaveMaps == DownInv /\ DownloadCBReturns => FT!Save
<1> SUFFICES ASSUME DownInv, DownloadCBReturns PROVE FT!Save
    OBVIOUS
<1>1. /\ UNCHANGED <<faults, file, server>> /\ client.calling
      /\ client'.filesize = client.filesize /\ client'.stored = client.stored
      /\ client'.ofs = "closed"
    BY DEF DownloadCBReturns, DownInv, TypeOK
<1>2. /\ client.ofs = "open" /\ ~client.isRecvMsg
      /\ client.recvSize = client.filesize /\ client.filesize > 0
      /\ client.stored = Content(client.recvSize)
    BY <1>1 DEF DownInv, ClientOK
<1>3. client.filesize \in Nat
    BY Fields DEF DownInv
<1>4. FT!Complete
    BY <1>2, <1>3, SameContent DEF FT!Complete
<1> QED
    BY <1>1, <1>2, <1>4 DEF FT!Save

\* DOWNLOAD_COMPLETE comes once, and from a client that has closed its file.
LEMMA AcknowledgeMaps == DownInv /\ DownloadComplete => FT!Acknowledge
<1> SUFFICES ASSUME DownInv, DownloadComplete PROVE FT!Acknowledge
    OBVIOUS
<1>1. /\ UNCHANGED <<faults, file, client>> /\ server.reading /\ server'.served = TRUE
      /\ Head(server.in).type = "DOWNLOAD_COMPLETE"
    BY DEF DownloadComplete, Closed, DownInv, TypeOK
<1>2. server.served = FALSE
    BY <1>1 DEF DownInv, ServerOK, TypeOK
<1>3. PICK a \in Nat, d \in Nat : Forward(a, d)
    BY DEF DownInv
<1>4. Head(server.in) = Asked[a + 1] /\ a + 1 <= d /\ d <= Requested
    BY <1>1, <1>3, ServerTakes
<1>5. a # 0
    BY <1>1, <1>4 DEF Asked, Msg
<1>6. client.ofs = "closed"
  <2>1. Requested \in {0, 1, 2} /\ (Requested = 2 => client.ofs = "closed")
      BY DEF Requested, DownInv, TypeOK
  <2> QED
      BY <1>4, <1>5, <2>1
<1> QED
    BY <1>1, <1>2, <1>6 DEF FT!Acknowledge

\* The other steps leave what FileTransfer speaks of.
LEMMA OthersMap ==
  ASSUME DownInv,
         \/ Connect \/ ClientSend \/ ClientReadEvent \/ ClientEof \/ ClientBreak
         \/ ServerInit \/ ServerReadEvent \/ Download
         \/ ServerSend \/ ServerEof \/ ServerBreak \/ Grow \/ UNCHANGED vars
  PROVE  UNCHANGED FT!vars
<1>1. CASE Connect \/ ClientSend \/ ClientReadEvent \/ ClientEof \/ ClientBreak
  <2>1. UNCHANGED <<faults, file, server>>
      BY <1>1 DEF Connect, ClientSend, ClientReadEvent, ClientEof, ClientBreak
  <2>2. /\ client'.filesize = client.filesize /\ client'.stored = client.stored
        /\ (client'.ofs = "closed") = (client.ofs = "closed")
    <3>1. CASE Connect
        BY <3>1 DEF Connect, DownInv, ClientOK, TypeOK
    <3>2. CASE ~Connect
      <4>1. CASE ClientSend
          BY <4>1 DEF ClientSend, DownInv, TypeOK
      <4>2. CASE ClientReadEvent
          BY <4>2 DEF ClientReadEvent, DownInv, TypeOK
      <4>3. CASE ClientEof
          BY <4>3 DEF ClientEof, Closed, DownInv, TypeOK
      <4>4. CASE ClientBreak
          BY <4>4 DEF ClientBreak, Closed, DownInv, TypeOK
      <4> QED
          BY <1>1, <3>2, <4>1, <4>2, <4>3, <4>4
    <3> QED
        BY <3>1, <3>2
  <2> QED
      BY <2>1, <2>2 DEF FT!vars
<1>2. CASE ServerInit \/ ServerReadEvent \/ Download \/ ServerSend \/ ServerEof \/ ServerBreak
  <2>1. UNCHANGED <<faults, file, client>>
      BY <1>2 DEF ServerInit, ServerReadEvent, Download, ServerSend, ServerEof, ServerBreak
  <2>2. server'.served = server.served
    <3>1. CASE ServerSend
      <4>1. PICK n \in 1 .. AtMost(Len(server.out), WireCap - Len(down)) :
              LET s == [server EXCEPT !.out = Behind(@, n)] IN
              server' = IF s.out = <<>> THEN WriteCB(s) ELSE s
          BY <3>1 DEF ServerSend
      <4> DEFINE s == [server EXCEPT !.out = Behind(@, n)]
      <4>2. s.served = server.served
          BY DEF DownInv, TypeOK
      <4>3. server' = WriteCB(s) \/ server' = s
          BY <4>1
      <4> QED
          BY <4>2, <4>3 DEF WriteCB, DownInv, TypeOK
    <3>2. CASE ~ServerSend
      <4>1. CASE ServerInit \/ ServerReadEvent
          BY <4>1 DEF ServerInit, ServerReadEvent, DownInv, TypeOK
      <4>2. CASE Download
          BY <4>2 DEF Download, Consume, DownInv, TypeOK
      <4>3. CASE ServerEof \/ ServerBreak
          BY <4>3 DEF ServerEof, ServerBreak, Closed, DownInv, TypeOK
      <4> QED
          BY <1>2, <3>2, <4>1, <4>2, <4>3
    <3> QED
        BY <3>1, <3>2
  <2> QED
      BY <2>1, <2>2 DEF FT!vars
<1>3. CASE Grow
  <2>1. UNCHANGED <<faults, client, server>> /\ faults # {}
      BY <1>3 DEF Grow
  <2> QED
      BY <2>1 DEF FT!vars
<1>4. CASE UNCHANGED vars
    BY <1>4 DEF vars, FT!vars
<1> QED
    BY <1>1, <1>2, <1>3, <1>4

\* The safety part of ImplementsTransfer: every step of a download is a step of
\* FileTransfer, or one that FileTransfer does not see.  What XDownLoadTask stores is
\* at any time a beginning of the server's file; it closes its file with the announced
\* size, and only then the server gets DOWNLOAD_COMPLETE.
THEOREM DownloadIsTransfer == Spec => FT!Init /\ [][FT!Next]_(FT!vars)
<1>1. Init => FT!Init
    BY DEF Init, FT!Init
<1>2. DownInv /\ DownInv' /\ [Next]_vars => [FT!Next]_(FT!vars)
  <2> SUFFICES ASSUME DownInv, DownInv', [Next]_vars
               PROVE  FT!Next \/ UNCHANGED FT!vars
      OBVIOUS
  <2>1. \/ Accepted \/ ClientRawReadCB \/ DownloadCBReturns \/ DownloadComplete
        \/ \/ Connect \/ ClientSend \/ ClientReadEvent \/ ClientEof \/ ClientBreak
           \/ ServerInit \/ ServerReadEvent \/ Download
           \/ ServerSend \/ ServerEof \/ ServerBreak \/ Grow \/ UNCHANGED vars
      BY DEF Next, ClientStep, ServerStep, ClientReadCB, ServerReadCB, ClientError,
             ClientTimeout, ServerError, ServerTimeout
  <2> QED
      BY <2>1, AnnounceMaps, StoreMaps, SaveMaps, AcknowledgeMaps, OthersMap DEF FT!Next
<1> QED
    BY <1>1, <1>2, DownloadInvariant, PTL DEF Spec
===============================================================================
