------------------------------- MODULE XDownload -------------------------------
(***************************************************************************)
(* The download of one file: the client's XDownLoadTask                    *)
(* (src/src/xdisk_gui/xdownload_task.cpp) and the server's XFileServerTask *)
(* (src/src/xdisk_server/xfile_server_task.cpp), each in its own thread,   *)
(* on one connection.  The client asks for a file (DOWNLOAD_INFO), the     *)
(* server answers DOWNLOAD_ACCEPT with its size and sends it, and on the   *)
(* client's DOWNLOAD_COMPLETE it closes the connection.                    *)
(*                                                                         *)
(* XComTask's part is as in XUpload.                                       *)
(***************************************************************************)
EXTENDS FileStream

CONSTANTS
  FileSizes,     \* the lengths the server's file may have, below 2^31
  MaxGrow,       \* length up to which another program may append to it
  FaultSets      \* the sets of faults to consider, see Faults

\* What may go wrong: a file is missing or not writable; connecting fails or an
\* open connection breaks; the 10 s timeouts come before the answer; the file
\* grows after it was opened.
Faults == {"open", "link", "timeout", "grow"}

ASSUME DownloadAssumption ==
  /\ FileSizes \subseteq Nat /\ MaxGrow \in Nat
  /\ FaultSets \subseteq SUBSET Faults

VARIABLES
  faults,   \* what may go wrong this time
  file,     \* length of the server's file
  client,   \* the XDownLoadTask; calling: it is in DownloadCB()
  server,   \* the XFileServerTask; served: it got DOWNLOAD_COMPLETE (history)
  up, down  \* the connection, from client to server and back

vars == <<faults, file, client, server, up, down>>

TypeOK ==
  /\ faults \subseteq Faults /\ file \in Nat
  /\ client \in [state : {"connecting", "failed", "open", "closed"}, reading : BOOLEAN,
                 in : Seq(Items), out : Seq(Items), isRecvMsg : BOOLEAN,
                 ofs : {"none", "open", "closed"}, filesize : Nat, recvSize : Nat,
                 stored : Seq(Items), calling : BOOLEAN, downloadCB : Nat]
  /\ server \in [state : {"none", "open", "closed"}, reading : BOOLEAN,
                 in : Seq(Items), out : Seq(Items),
                 ifs : {"none", "open", "closed"}, pos : Nat, served : BOOLEAN]
  /\ up \in Seq(Items) /\ down \in Seq(Items)

Init ==
  /\ faults \in FaultSets /\ file \in FileSizes
  /\ client = [state |-> "connecting", reading |-> FALSE, in |-> <<>>, out |-> <<>>,
               isRecvMsg |-> TRUE, ofs |-> "none", filesize |-> 0, recvSize |-> 0,
               stored |-> <<>>, calling |-> FALSE, downloadCB |-> 0]
  /\ server = [state |-> "none", reading |-> FALSE, in |-> <<>>, out |-> <<>>,
               ifs |-> "none", pos |-> 0, served |-> FALSE]
  /\ up = <<>> /\ down = <<>>

\* Another program appends to the server's file.
Grow == /\ "grow" \in faults /\ file < MaxGrow
        /\ file' = file + 1
        /\ UNCHANGED <<faults, client, server, up, down>>

ClientWaiting == client.state = "open" /\ ~client.reading /\ ~client.calling
ServerWaiting == server.state = "open" /\ ~server.reading

\* The task once ReadCB() has taken n items; with the buffer empty it returns.
Consume(task, n) == [task EXCEPT !.in = Behind(@, n), !.reading = Behind(task.in, n) # <<>>]

\* XComTask::Close: the bufferevent goes, with all that it has not sent.
Closed(task) ==
  [task EXCEPT !.state = "closed", !.reading = FALSE, !.in = <<>>, !.out = <<>>]
--------------------------------------------------------------------------------
(* The client. *)

\* XDownLoadTask::ConnectedCB: opens (and empties) the local file, then asks for
\* the server's; without a local file nothing is sent.  The GUI's path is never
\* empty.
Connect ==
  /\ client.state = "connecting"
  /\ \/ client' = [client EXCEPT !.state = "open", !.ofs = "open",
                                 !.out = <<Msg("DOWNLOAD_INFO", 0)>>]
     \/ "open" \in faults /\ client' = [client EXCEPT !.state = "open"]
  /\ UNCHANGED <<faults, file, server, up, down>>

\* A write event; XDownLoadTask has no WriteCB.
ClientSend ==
  /\ ClientWaiting
  /\ \E n \in 1 .. AtMost(Len(client.out), WireCap - Len(up)) :
       /\ up' = up \o Upto(client.out, n)
       /\ client' = [client EXCEPT !.out = Behind(@, n)]
  /\ UNCHANGED <<faults, file, server, down>>

ClientReadEvent ==
  /\ ClientWaiting
  /\ \E n \in 1 .. Len(down) :
       /\ client' = [client EXCEPT !.in = Upto(down, n), !.reading = TRUE]
       /\ down' = Behind(down, n)
  /\ UNCHANGED <<faults, file, server, up>>

\* DOWNLOAD_ACCEPT that leaves messages on.
AcceptedNotRaw ==
  /\ client.reading /\ ~client.calling /\ client.isRecvMsg
  /\ client' = [Consume(client, 1) EXCEPT !.recvSize = 0, !.filesize = Head(client.in).n]
  /\ UNCHANGED <<faults, file, server, up, down>>

\* XDownLoadTask's message ReadCB: on DOWNLOAD_ACCEPT messages are off.
Accepted ==
  /\ client.reading /\ ~client.calling /\ client.isRecvMsg
  /\ client' = [Consume(client, 1) EXCEPT !.isRecvMsg = FALSE, !.recvSize = 0,
                                          !.filesize = Head(client.in).n]
  /\ UNCHANGED <<faults, file, server, up, down>>

\* The raw ReadCB with >= for ==.
ClientRawAtLeast ==
  /\ client.reading /\ ~client.calling /\ ~client.isRecvMsg
  /\ LET n    == AtMost(Len(client.in), BufSize)
         c    == Consume(client, n)
         recv == c.recvSize + n
     IN
     client' = IF c.ofs # "open" THEN c
               ELSE LET w == [c EXCEPT !.stored = @ \o Upto(client.in, n), !.recvSize = recv]
                    IN  IF recv < w.filesize THEN w
                        ELSE [w EXCEPT !.calling = TRUE, !.downloadCB = @ + 1]
  /\ UNCHANGED <<faults, file, server, up, down>>

\* XDownLoadTask's raw ReadCB: nothing without an open file; DownloadCB() is
\* called when the size is met exactly, with the file still open ...
ClientRawReadCB ==
  /\ client.reading /\ ~client.calling /\ ~client.isRecvMsg
  /\ LET n    == AtMost(Len(client.in), BufSize)
         c    == Consume(client, n)
         recv == c.recvSize + n
     IN
     client' = IF c.ofs # "open" THEN c
               ELSE LET w == [c EXCEPT !.stored = @ \o Upto(client.in, n), !.recvSize = recv]
                    IN  IF recv # w.filesize THEN w
                        ELSE [w EXCEPT !.calling = TRUE, !.downloadCB = @ + 1]
  /\ UNCHANGED <<faults, file, server, up, down>>

\* ... which is closed after it, and DOWNLOAD_COMPLETE written.
DownloadCBReturns ==
  /\ client.calling
  /\ client' = [client EXCEPT !.calling = FALSE, !.ofs = "closed",
                              !.out = Append(@, Msg("DOWNLOAD_COMPLETE", 0))]
  /\ UNCHANGED <<faults, file, server, up, down>>

\* EventCB.  BEV_EVENT_EOF: the server has closed the connection.  When it did so
\* with bytes unread, or is sent more, the rest of what it sent may be lost.
ClientEof ==
  /\ ClientWaiting /\ server.state = "closed"
  /\ down = <<>> \/ up # <<>>
  /\ client' = Closed(client)
  /\ UNCHANGED <<faults, file, server, up, down>>

\* EventCB that only logs an error or a timeout.
ClientBreakLogged ==
  /\ client.state = "connecting" \/ ClientWaiting
  /\ UNCHANGED vars

\* BEV_EVENT_ERROR and BEV_EVENT_TIMEOUT, also while connecting.
ClientBreak ==
  /\ client.state = "connecting" \/ ClientWaiting
  /\ client' = IF client.state = "open" THEN Closed(client)
               ELSE [client EXCEPT !.state = "failed"]
  /\ UNCHANGED <<faults, file, server, up, down>>
ClientError   == "link" \in faults /\ ClientBreak
ClientTimeout == "timeout" \in faults /\ ClientBreak
--------------------------------------------------------------------------------
(* The server. *)

\* The listener's Dispatch has given the task to a thread, which calls Init().
ServerInit ==
  /\ server.state = "none" /\ client.state \in {"open", "closed"}
  /\ server' = [server EXCEPT !.state = "open"]
  /\ UNCHANGED <<faults, file, client, up, down>>

ServerReadEvent ==
  /\ ServerWaiting
  /\ \E n \in 1 .. Len(up) :
       /\ server' = [server EXCEPT !.in = Upto(up, n), !.reading = TRUE]
       /\ up' = Behind(up, n)
  /\ UNCHANGED <<faults, file, client, down>>

\* Download that does not check that the file is open: tellg() is -1.
DownloadNoCheck ==
  /\ server.reading /\ Head(server.in).type = "DOWNLOAD_INFO"
  /\ LET s == Consume(server, 1) IN
     \/ "open" \in faults /\ server' = [s EXCEPT !.out = Append(@, Msg("DOWNLOAD_ACCEPT", -1))]
     \/ server' = [s EXCEPT !.ifs = "open",
                            !.out = Append(@, Msg("DOWNLOAD_ACCEPT", file))]
  /\ UNCHANGED <<faults, file, client, up, down>>

\* Download without seekg: the file, opened at its end, is read from there.
DownloadNoSeek ==
  /\ server.reading /\ Head(server.in).type = "DOWNLOAD_INFO"
  /\ LET s == Consume(server, 1) IN
     \/ "open" \in faults /\ server' = s
     \/ server' = [s EXCEPT !.ifs = "open", !.pos = file,
                            !.out = Append(@, Msg("DOWNLOAD_ACCEPT", file))]
  /\ UNCHANGED <<faults, file, client, up, down>>

\* XFileServerTask::Download: a file that cannot be opened is not answered,
\* otherwise the size is, and the file stays open for WriteCB.
Download ==
  /\ server.reading /\ Head(server.in).type = "DOWNLOAD_INFO"
  /\ LET s == Consume(server, 1) IN
     \/ "open" \in faults /\ server' = s
     \/ server' = [s EXCEPT !.ifs = "open",
                            !.out = Append(@, Msg("DOWNLOAD_ACCEPT", file))]
  /\ UNCHANGED <<faults, file, client, up, down>>

\* XFileServerTask's message ReadCB on DOWNLOAD_COMPLETE: Close.
DownloadComplete ==
  /\ server.reading /\ Head(server.in).type = "DOWNLOAD_COMPLETE"
  /\ server' = [Closed(server) EXCEPT !.served = TRUE]
  /\ UNCHANGED <<faults, file, client, up, down>>

\* WriteCB that does not look for the end of the file.
WriteCBNoClose(s) ==
  LET piece == Piece(s.pos, file) IN
  IF s.ifs # "open" THEN s ELSE [s EXCEPT !.out = @ \o piece, !.pos = @ + Len(piece)]

\* XFileServerTask::WriteCB: the next piece of the file goes to the output buffer.
WriteCB(s) ==
  LET piece == Piece(s.pos, file) IN
  IF s.ifs # "open" THEN s
  ELSE [s EXCEPT !.out = @ \o piece, !.pos = @ + Len(piece),
                 !.ifs = IF ReadsEof(s.pos, file) THEN "closed" ELSE "open"]

\* A write event: part of the output is sent; once it is empty, WriteCB.
ServerSend ==
  /\ ServerWaiting
  /\ \E n \in 1 .. AtMost(Len(server.out), WireCap - Len(down)) :
       /\ down' = down \o Upto(server.out, n)
       /\ LET s == [server EXCEPT !.out = Behind(@, n)] IN
          server' = IF s.out = <<>> THEN WriteCB(s) ELSE s
  /\ UNCHANGED <<faults, file, client, up>>

ServerEof ==
  /\ ServerWaiting /\ client.state = "closed"
  /\ up = <<>> \/ down # <<>>
  /\ server' = Closed(server)
  /\ UNCHANGED <<faults, file, client, up, down>>

ServerBreak == /\ ServerWaiting
               /\ server' = Closed(server)
               /\ UNCHANGED <<faults, file, client, up, down>>
ServerError   == "link" \in faults /\ ServerBreak
ServerTimeout == "timeout" \in faults /\ ServerBreak
--------------------------------------------------------------------------------
ClientReadCB == Accepted \/ ClientRawReadCB \/ DownloadCBReturns
ServerReadCB == Download \/ DownloadComplete

ClientStep == Connect \/ ClientSend \/ ClientReadEvent \/ ClientReadCB \/ ClientEof
ServerStep == ServerInit \/ ServerReadEvent \/ ServerReadCB \/ ServerSend \/ ServerEof

Next == \/ ClientStep \/ ClientError \/ ClientTimeout
        \/ ServerStep \/ ServerError \/ ServerTimeout
        \/ Grow

\* Each event loop goes on serving its descriptor in both directions, and a timer
\* that is not reset fires.  Nothing makes a connection break, and with a bad link
\* nothing sees to it that it is made.
Fairness ==
  /\ WF_vars("link" \notin faults /\ Connect)
  /\ WF_vars(ClientSend) /\ WF_vars(ClientReadEvent)
  /\ WF_vars(ClientReadCB) /\ WF_vars(ClientEof) /\ WF_vars(ClientTimeout)
  /\ WF_vars(ServerInit) /\ WF_vars(ServerSend) /\ WF_vars(ServerReadEvent)
  /\ WF_vars(ServerReadCB) /\ WF_vars(ServerEof) /\ WF_vars(ServerTimeout)

Spec == Init /\ [][Next]_vars /\ Fairness
--------------------------------------------------------------------------------
\* DownloadCB, "the callback after the download has succeeded"
\* (xdownload_task.h:20), is called at most once, and only with every announced
\* byte written to the local file, in order.
CompleteMeansFetched ==
  /\ client.downloadCB <= 1
  /\ client.downloadCB = 1 => client.stored = Content(client.filesize)

\* Unless the file may grow, a served download leaves no file open behind in the
\* server, though Close does not close it: WriteCB has met the end before the
\* client can have it all.
ServedClosesFile == server.served /\ "grow" \notin faults => server.ifs = "closed"

\* File bytes never reach the client's message loop: DOWNLOAD_ACCEPT, which turns
\* messages off, is ahead of the first one and comes once.
AcceptFirst ==
  client.reading => (client.isRecvMsg <=> Head(client.in).type = "DOWNLOAD_ACCEPT")

\* What is on the way, without the message that may be ahead of the file.
Payload(s) == IF s # <<>> /\ ~IsData(Head(s)) THEN Tail(s) ELSE s

\* While both tasks are alive and the local file is open, each byte the server has
\* read from its file is at one place of the way to the client's, in order, and
\* behind DOWNLOAD_ACCEPT there is nothing else.
NothingLost ==
  client.state = "open" /\ server.state = "open" /\ client.ofs = "open" =>
    client.stored \o Payload(client.in \o down \o server.out) = Content(server.pos)

FT == INSTANCE FileTransfer WITH
        reliable <- faults = {} /\ file > 0,
        size     <- client.filesize,
        stored   <- client.stored,
        saved    <- client.ofs = "closed",
        acked    <- server.served

\* A download keeps the promise of a transfer: the local file is at any time a
\* beginning of the server's, it is closed with the announced size and never
\* touched again, and the server takes the download as done only after that; with
\* nothing going wrong the download of a file that is not empty is served.
ImplementsTransfer == FT!Spec

\* With the timeouts on, however a download goes, also when nobody answers, both
\* tasks are closed in the end: without DOWNLOAD_COMPLETE only the timeouts see
\* to that.
BothReleased ==
  "timeout" \in faults =>
    <>[](client.state \in {"closed", "failed"} /\ server.state # "open")
===============================================================================
