-------------------------------- MODULE XUpload --------------------------------
(***************************************************************************)
(* The upload of one file: the client's XUploadTask                        *)
(* (src/src/xdisk_gui/xupload_task.cpp) and the server's XFileServerTask   *)
(* (src/src/xdisk_server/xfile_server_task.cpp), each in its own thread,   *)
(* on one connection.  The client announces the file (UPLOAD_INFO), the    *)
(* server answers UPLOAD_ACCEPT and, after the last byte, UPLOAD_COMPLETE. *)
(*                                                                         *)
(* XComTask's part is here too: a read event fills the input buffer and    *)
(* ReadCB() works on it, one message or raw piece at a time; a write event *)
(* sends what it can of the output buffer and calls WriteCB when that is   *)
(* empty; EventCB closes the task.  While ReadCB() runs, no other callback *)
(* of the task does.                                                       *)
(***************************************************************************)
EXTENDS FileStream

CONSTANTS
  FileSizes,     \* the lengths a local file may have, below 2^31 as announced
  MaxGrow,       \* length up to which another program may append to it
  HeadSize,      \* sizeof(XMsgHead)
  FaultSets      \* the sets of faults to consider, see Faults

\* What may go wrong: a file is missing or not writable; connecting fails or an
\* open connection breaks; the 10 s timeouts come before the answer; the file
\* grows after it was opened.
Faults == {"open", "link", "timeout", "grow"}

ASSUME UploadAssumption ==
  /\ FileSizes \subseteq Nat
  /\ MaxGrow \in Nat /\ HeadSize \in Nat \ {0}
  /\ FaultSets \subseteq SUBSET Faults

VARIABLES
  faults,   \* what may go wrong this time
  file,     \* length of the local file
  client,   \* the XUploadTask
  server,   \* the XFileServerTask
  up, down  \* the connection, from client to server and back

vars == <<faults, file, client, server, up, down>>

TypeOK ==
  /\ faults \subseteq Faults /\ file \in Nat
  /\ client \in [state : {"connecting", "failed", "open", "closed"}, reading : BOOLEAN,
                 in : Seq(Items), out : Seq(Items),
                 ifs : {"none", "open", "closed"}, pos : Nat, filesize : Nat,
                 uploadCB : Nat]
  /\ server \in [state : {"none", "open", "closed"}, reading : BOOLEAN,
                 in : Seq(Items), out : Seq(Items), isRecvMsg : BOOLEAN,
                 ofs : {"none", "open", "closed"}, filesize : Nat,
                 recvSize : Nat, stored : Seq(Items)]
  /\ up \in Seq(Items) /\ down \in Seq(Items)

Init ==
  /\ faults \in FaultSets /\ file \in FileSizes
  /\ client = [state |-> "connecting", reading |-> FALSE, in |-> <<>>, out |-> <<>>,
               ifs |-> "none", pos |-> 0, filesize |-> 0, uploadCB |-> 0]
  /\ server = [state |-> "none", reading |-> FALSE, in |-> <<>>, out |-> <<>>,
               isRecvMsg |-> TRUE, ofs |-> "none", filesize |-> 0, recvSize |-> 0,
               stored |-> <<>>]
  /\ up = <<>> /\ down = <<>>

\* Another program appends to the local file.
Grow == /\ "grow" \in faults /\ file < MaxGrow
        /\ file' = file + 1
        /\ UNCHANGED <<faults, client, server, up, down>>

Waiting(task) == task.state = "open" /\ ~task.reading

\* The task once ReadCB() has taken n items; with the buffer empty it returns.
Consume(task, n) == [task EXCEPT !.in = Behind(@, n), !.reading = Behind(task.in, n) # <<>>]

\* XComTask::Close: the bufferevent goes, with all that it has not sent.  The
\* task is deleted through a class without a virtual destructor: the streams of
\* the business class are neither flushed nor closed.
Closed(task) ==
  [task EXCEPT !.state = "closed", !.reading = FALSE, !.in = <<>>, !.out = <<>>]
--------------------------------------------------------------------------------
(* The client. *)

\* ConnectedCB that does not check that the file is open: tellg() is -1.
ConnectNoCheck ==
  /\ client.state = "connecting"
  /\ \/ client' = [client EXCEPT !.state = "open", !.ifs = "open", !.filesize = file,
                                 !.out = <<Msg("UPLOAD_INFO", file)>>]
     \/ "open" \in faults /\ client' = [client EXCEPT !.state = "open", !.filesize = -1,
                                                !.out = <<Msg("UPLOAD_INFO", -1)>>]
  /\ UNCHANGED <<faults, file, server, up, down>>

\* XUploadTask::ConnectedCB on BEV_EVENT_CONNECTED: opens the file and announces
\* its size; without the file nothing is sent.
Connect ==
  /\ client.state = "connecting"
  /\ \/ client' = [client EXCEPT !.state = "open", !.ifs = "open", !.filesize = file,
                                 !.out = <<Msg("UPLOAD_INFO", file)>>]
     \/ "open" \in faults /\ client' = [client EXCEPT !.state = "open"]
  /\ UNCHANGED <<faults, file, server, up, down>>

\* XUploadTask::WriteCB: the next piece of the file goes to the output buffer.
WriteCB(c) ==
  LET piece == Piece(c.pos, file) IN
  IF c.ifs # "open" THEN c
  ELSE [c EXCEPT !.out = @ \o piece, !.pos = @ + Len(piece),
                 !.ifs = IF ReadsEof(c.pos, file) THEN "closed" ELSE "open"]

\* A write event that does not call WriteCB.
ClientSendNoCB ==
  /\ Waiting(client)
  /\ \E n \in 1 .. AtMost(Len(client.out), WireCap - Len(up)) :
       /\ up' = up \o Upto(client.out, n)
       /\ client' = [client EXCEPT !.out = Behind(@, n)]
  /\ UNCHANGED <<faults, file, server, down>>

\* A write event: part of the output is sent; once it is empty, WriteCB.
ClientSend ==
  /\ Waiting(client)
  /\ \E n \in 1 .. AtMost(Len(client.out), WireCap - Len(up)) :
       /\ up' = up \o Upto(client.out, n)
       /\ LET c == [client EXCEPT !.out = Behind(@, n)] IN
          client' = IF c.out = <<>> THEN WriteCB(c) ELSE c
  /\ UNCHANGED <<faults, file, server, down>>

\* A read event of the client.
ClientReadEvent ==
  /\ Waiting(client)
  /\ \E n \in 1 .. Len(down) :
       /\ client' = [client EXCEPT !.in = Upto(down, n), !.reading = TRUE]
       /\ down' = Behind(down, n)
  /\ UNCHANGED <<faults, file, server, up>>

\* XUploadTask::ReadCB.  BeginWrite triggers WriteCB if the output is empty.
ClientReadCB ==
  /\ client.reading
  /\ LET c == Consume(client, 1) IN
     client' = IF Head(client.in).type = "UPLOAD_ACCEPT"
               THEN IF c.out = <<>> THEN WriteCB(c) ELSE c
               ELSE [c EXCEPT !.uploadCB = @ + 1]
  /\ UNCHANGED <<faults, file, server, up, down>>

\* EventCB.  BEV_EVENT_EOF: the server has closed the connection.  When it did so
\* with bytes unread, or is sent more, the rest of what it sent may be lost.
ClientEof ==
  /\ Waiting(client) /\ server.state = "closed"
  /\ down = <<>> \/ up # <<>>
  /\ client' = Closed(client)
  /\ UNCHANGED <<faults, file, server, up, down>>

\* EventCB that only logs an error or a timeout.
ClientBreakLogged ==
  /\ client.state = "connecting" \/ Waiting(client)
  /\ UNCHANGED vars

\* BEV_EVENT_ERROR and BEV_EVENT_TIMEOUT, also while connecting.
ClientBreak ==
  /\ client.state = "connecting" \/ Waiting(client)
  /\ client' = IF client.state = "open" THEN Closed(client)
               ELSE [client EXCEPT !.state = "failed"]
  /\ UNCHANGED <<faults, file, server, up, down>>
ClientError   == "link" \in faults /\ ClientBreak
ClientTimeout == "timeout" \in faults /\ ClientBreak
--------------------------------------------------------------------------------
(* The server. *)

\* The listener's Dispatch has given the task to a thread, which calls Init().
ServerInit ==
  /\ server.state = "none" /\ client.state \in {"open", "closed"}
  /\ server' = [server EXCEPT !.state = "open"]
  /\ UNCHANGED <<faults, file, client, up, down>>

ServerReadEvent ==
  /\ Waiting(server)
  /\ \E n \in 1 .. Len(up) :
       /\ server' = [server EXCEPT !.in = @ \o Upto(up, n), !.reading = TRUE]
       /\ up' = Behind(up, n)
  /\ UNCHANGED <<faults, file, client, down>>

\* Upload that takes what came with UPLOAD_INFO for a part of the message.
UploadDropsRest ==
  /\ server.reading /\ server.isRecvMsg /\ Head(server.in).type = "UPLOAD_INFO"
  /\ LET s == [Consume(server, Len(server.in)) EXCEPT !.filesize = Head(server.in).n] IN
     \/ (s.filesize <= 0 \/ "open" \in faults) /\ server' = s
     \/ /\ s.filesize > 0
        /\ server' = [s EXCEPT !.ofs = "open", !.isRecvMsg = FALSE, !.recvSize = 0,
                               !.out = Append(@, Msg("UPLOAD_ACCEPT", 0))]
  /\ UNCHANGED <<faults, file, client, up, down>>

\* XFileServerTask::Upload: a size that is not positive, or a file that cannot be
\* opened, is not answered; otherwise messages are off from here on.
Upload ==
  /\ server.reading /\ server.isRecvMsg /\ Head(server.in).type = "UPLOAD_INFO"
  /\ LET s == [Consume(server, 1) EXCEPT !.filesize = Head(server.in).n] IN
     \/ (s.filesize <= 0 \/ "open" \in faults) /\ server' = s
     \/ /\ s.filesize > 0
        /\ server' = [s EXCEPT !.ofs = "open", !.isRecvMsg = FALSE, !.recvSize = 0,
                               !.out = Append(@, Msg("UPLOAD_ACCEPT", 0))]
  /\ UNCHANGED <<faults, file, client, up, down>>

\* The raw ReadCB with >= for ==.
ServerRawAtLeast ==
  /\ server.reading /\ ~server.isRecvMsg
  /\ LET n    == AtMost(Len(server.in), BufSize)
         s    == Consume(server, n)
         recv == s.recvSize + n
     IN
     server' = IF s.ofs # "open" THEN s
               ELSE LET w == [s EXCEPT !.stored = @ \o Upto(server.in, n), !.recvSize = recv]
                    IN  IF recv < w.filesize THEN w
                        ELSE [w EXCEPT !.ofs = "closed",
                                       !.out = Append(@, Msg("UPLOAD_COMPLETE", 0))]
  /\ UNCHANGED <<faults, file, client, up, down>>

\* XFileServerTask's raw ReadCB: nothing without an open file; the file is
\* complete, and closed, when its size is met exactly.
ServerRawReadCB ==
  /\ server.reading /\ ~server.isRecvMsg
  /\ LET n    == AtMost(Len(server.in), BufSize)
         s    == Consume(server, n)
         recv == s.recvSize + n
     IN
     server' = IF s.ofs # "open" THEN s
               ELSE LET w == [s EXCEPT !.stored = @ \o Upto(server.in, n), !.recvSize = recv]
                    IN  IF recv # w.filesize THEN w
                        ELSE [w EXCEPT !.ofs = "closed",
                                       !.out = Append(@, Msg("UPLOAD_COMPLETE", 0))]
  /\ UNCHANGED <<faults, file, client, up, down>>

\* File bytes that come while messages are on are read as a head.  They are taken
\* to spell none that is valid: ReadCB() returns and leaves the rest unread.
ServerStrayHead ==
  /\ server.reading /\ server.isRecvMsg /\ IsData(Head(server.in))
  /\ server' = [server EXCEPT !.in = Behind(@, AtMost(Len(@), HeadSize)), !.reading = FALSE]
  /\ UNCHANGED <<faults, file, client, up, down>>

\* A write event; the server's WriteCB does nothing, it has no file to send.
ServerSend ==
  /\ Waiting(server)
  /\ \E n \in 1 .. AtMost(Len(server.out), WireCap - Len(down)) :
       /\ down' = down \o Upto(server.out, n)
       /\ server' = [server EXCEPT !.out = Behind(@, n)]
  /\ UNCHANGED <<faults, file, client, up>>

\* EventCB of the server: end of file, error, timeout.
ServerEof ==
  /\ Waiting(server) /\ client.state = "closed"
  /\ up = <<>> \/ down # <<>>
  /\ server' = Closed(server)
  /\ UNCHANGED <<faults, file, client, up, down>>

ServerBreak == /\ Waiting(server)
               /\ server' = Closed(server)
               /\ UNCHANGED <<faults, file, client, up, down>>
ServerError   == "link" \in faults /\ ServerBreak
ServerTimeout == "timeout" \in faults /\ ServerBreak
--------------------------------------------------------------------------------
ServerReadCB == Upload \/ ServerRawReadCB \/ ServerStrayHead

ClientStep == Connect \/ ClientSend \/ ClientReadEvent \/ ClientReadCB \/ ClientEof
ServerStep == ServerInit \/ ServerReadEvent \/ ServerReadCB \/ ServerSend \/ ServerEof

Next == \/ ClientStep \/ ClientError \/ ClientTimeout
        \/ ServerStep \/ ServerError \/ ServerTimeout
        \/ Grow

\* Each event loop goes on serving its descriptor in both directions, and a timer
\* that is not reset fires.  Nothing makes a connection break, and with a bad link
\* nothing sees to it that it is made.
Fairness ==
  /\ WF_vars("link" \notin faults /\ Connect)
  /\ WF_vars(ClientSend) /\ WF_vars(ClientReadEvent)
  /\ WF_vars(ClientReadCB) /\ WF_vars(ClientEof) /\ WF_vars(ClientTimeout)
  /\ WF_vars(ServerInit) /\ WF_vars(ServerSend) /\ WF_vars(ServerReadEvent)
  /\ WF_vars(ServerReadCB) /\ WF_vars(ServerEof) /\ WF_vars(ServerTimeout)

Spec == Init /\ [][Next]_vars /\ Fairness
--------------------------------------------------------------------------------
\* UploadCB, "the callback after the upload has succeeded" (xupload_task.h:20), is
\* called at most once, and only when the server's file holds what was announced
\* and is closed - whatever was appended, refused, cut off or timed out.
CompleteMeansStored ==
  /\ client.uploadCB <= 1
  /\ client.uploadCB = 1 => /\ server.stored = Content(client.filesize)
                            /\ server.ofs = "closed"

\* While both tasks are alive and the server's file is open, each byte the client
\* has read from its file is at one place of the way to the server's, in order, and
\* nothing else is.
NothingLost ==
  client.state = "open" /\ server.state = "open" /\ server.ofs = "open" =>
    server.stored \o (server.in \o up \o client.out) = Content(client.pos)

\* As long as the client's file is open there is output whose sending brings the
\* next WriteCB: an upload never waits for an event that does not come, so
\* BeginWrite (on UPLOAD_ACCEPT) never has anything to start.
SendingGoesOn ==
  client.state = "open" /\ client.ifs = "open" => client.out # <<>>

FT == INSTANCE FileTransfer WITH
        reliable <- faults = {} /\ file > 0,
        size     <- client.filesize,
        stored   <- server.stored,
        saved    <- server.ofs = "closed",
        acked    <- client.uploadCB > 0

\* An upload keeps the promise of a transfer: the server's file is at any time a
\* beginning of the client's, it is closed with the announced size and never
\* touched again, the client is told after that; and with nothing going wrong
\* the upload of a file that is not empty completes.
ImplementsTransfer == FT!Spec

\* With the timeouts on, however an upload goes, also when nobody answers, both
\* tasks are closed in the end: only the timeouts see to that.
BothReleased ==
  "timeout" \in faults =>
    <>[](client.state \in {"closed", "failed"} /\ server.state # "open")

\* UPLOAD_ACCEPT is "the server is ready to receive the file" (xmsg.h:21): until
\* the server has opened its file no byte of it is sent.
SendsWhenReady == (\E k \in DOMAIN up : IsData(up[k])) => server.ofs # "none"
===============================================================================
