------------------------------ MODULE XDiskServer ------------------------------
(***************************************************************************)
(* The server process: main (src/src/xdisk_server/xdisk_server.cpp), the   *)
(* listener XServerTask (src/src/xcom/xserver_task.cpp) and the pool of    *)
(* the connections, XThreadPool.  The main thread makes the pool, then a   *)
(* pool of one thread for the listener, and sleeps.  The listener's thread *)
(* accepts connections and is the dispatcher of the other pool; each       *)
(* connection is a task, XFileServerTask, whose socket lives until a       *)
(* callback closes it.                                                     *)
(*                                                                         *)
(* Of the listener's pool only what TaskDispatch promises is used, with a  *)
(* thread whose Setup may fail.  Connections are named by the order in     *)
(* which they are made, which is that in which they are accepted and       *)
(* dispatched: task i has the socket of connection i.  What a client asks  *)
(* for is not modelled here (XUpload, XDownload, XDirectory).              *)
(***************************************************************************)
EXTENDS XThreadPool, FiniteSets, Functions

CONSTANTS
  Backlog,      \* the length of the listening socket's queue
  MaxSockets    \* how many connections the process has descriptors for

ASSUME ServerAssumption == {Backlog, MaxSockets} \subseteq Nat \ {0}

Conns == 1 .. MaxTasks

VARIABLES
  ldispatched, linited,  \* server_pool, the listener's
  listener,   \* the XServerTask; "dead": its thread's Setup or its Init() failed
  made,       \* number of connections made; those behind dispatched wait in the backlog
  sock,       \* per connection, the server's end: "none", "accepted", "open", "closed"
  peer        \* per connection, the client's end: "none", "open", "closed"

connVars == <<made, sock, peer>>
lVars    == <<ldispatched, linited, listener>>
allVars  == <<vars, lVars, connVars>>

ServerPool == INSTANCE TaskDispatch WITH ThreadCount <- 1, MaxTasks <- 1,
                                         dispatched <- ldispatched, inited <- linited

ServerTypeOK ==
  /\ TypeOK
  /\ ldispatched \in 0 .. 1 /\ linited \in [{0} -> {<<>>, <<1>>}]
  /\ listener \in {"none", "starting", "dead", "listening"}
  /\ made \in dispatched .. MaxTasks /\ made - dispatched <= Backlog
  /\ sock \in [Conns -> {"none", "accepted", "open", "closed"}]
  /\ peer \in [Conns -> {"none", "open", "closed"}]

ServerInit ==
  /\ Init
  /\ ServerPool!Init /\ listener = "none"
  /\ made = 0
  /\ sock = [c \in Conns |-> "none"]
  /\ peer = [c \in Conns |-> "none"]

\* The thread a connection is dealt to.
ThreadOf(c) == (c - 1) % ThreadCount

\* The descriptors in use: sockets that were accepted and not closed.
Sockets == {c \in Conns : sock[c] \in {"accepted", "open"}}
--------------------------------------------------------------------------------
(* The main thread. *)

\* XThreadPool::Get()->Init(thread_count), a turn of its loop.
MainStartThread == StartThread /\ UNCHANGED <<lVars, connVars>>

\* server_pool.Init(1) and server_pool.Dispatch(task), once the pool of the
\* connections is complete.  Then main sleeps for ever.
MainListen ==
  /\ dpc = "idle" /\ listener = "none"
  /\ ServerPool!Dispatch
  /\ \E s \in SetupOutcomes : listener' = IF s = "ok" THEN "starting" ELSE "dead"
  /\ UNCHANGED <<vars, connVars>>
--------------------------------------------------------------------------------
(* The listener's thread. *)

\* XServerTask::Init: the port is bound and listened to; a bad port, or a port in
\* use, makes it return false, which nobody looks at.
ListenInit ==
  /\ listener = "starting"
  /\ ServerPool!RunNext(0)
  /\ listener' \in {"listening", "dead"}
  /\ UNCHANGED <<vars, connVars>>

\* ListenCB without set_sock: the task makes a socket of its own.
ListenCBNoSock ==
  /\ listener = "listening" /\ dispatched < made /\ Cardinality(Sockets) < MaxSockets
  /\ Dispatch
  /\ UNCHANGED <<lVars, connVars>>

\* The listener is readable: accept, SListenCB, ListenCB, which makes a task with
\* the socket and calls Dispatch.  The callback lasts until Dispatch returns.
\* Without a descriptor accept fails and the connection stays where it is.
ListenCB ==
  /\ listener = "listening" /\ dispatched < made /\ Cardinality(Sockets) < MaxSockets
  /\ Dispatch
  /\ sock' = [sock EXCEPT ![dispatched'] = "accepted"]
  /\ UNCHANGED <<lVars, made, peer>>

\* The rest of Dispatch, in the listener's thread.
ListenCBStep == (AddTaskLock \/ AddTaskPush \/ Activate) /\ UNCHANGED <<lVars, connVars>>
--------------------------------------------------------------------------------
(* The threads of the connections. *)

\* A thread wakes up and takes a task.
ServerNotify(t) ==
  /\ Main(t) \/ Notify(t) \/ NotifyLock(t) \/ NotifyPop(t)
  /\ UNCHANGED <<lVars, connVars>>

\* task->Init(): XComTask::Init makes the bufferevent for the socket, with the
\* callbacks and the timeouts.
TaskInit(t) ==
  /\ InitTask(t)
  /\ sock' = [sock EXCEPT ![wtask[t]] = "open"]
  /\ UNCHANGED <<lVars, made, peer>>

\* Close by a callback of the task, which its thread calls from its event loop.
Close(c) ==
  /\ sock[c] = "open" /\ wpc[ThreadOf(c)] = "dispatch"
  /\ sock' = [sock EXCEPT ![c] = "closed"]
  /\ UNCHANGED <<vars, lVars, made, peer>>

\* EventCB that only logs a timeout.
TimeoutLogged(c) == peer[c] = "open" /\ sock[c] = "open" /\ UNCHANGED allVars

\* EventCB: the client has closed, or nothing came from it for 10 s.
Eof(c)     == peer[c] = "closed" /\ Close(c)
Timeout(c) == peer[c] = "open" /\ Close(c)
--------------------------------------------------------------------------------
(* The clients. *)

\* The next connection is made, if there is room for it in the backlog.
Connect ==
  /\ listener = "listening" /\ made < MaxTasks /\ made - dispatched < Backlog
  /\ made' = made + 1
  /\ peer' = [peer EXCEPT ![made'] = "open"]
  /\ UNCHANGED <<vars, lVars, sock>>

\* A client leaves, whether or not its connection was accepted by then.
Leave(c) ==
  /\ peer[c] = "open"
  /\ peer' = [peer EXCEPT ![c] = "closed"]
  /\ UNCHANGED <<vars, lVars, made, sock>>
--------------------------------------------------------------------------------
ThreadLoop(t) == ServerNotify(t) \/ TaskInit(t)

ServerNext ==
  \/ MainStartThread \/ MainListen
  \/ ListenInit \/ ListenCB \/ ListenCBStep
  \/ \E t \in Threads : ThreadLoop(t)
  \/ Connect
  \/ \E c \in Conns : Eof(c) \/ Timeout(c) \/ Leave(c)

\* Every thread goes on, every event is reported until it is served, and a timer
\* that is not reset fires.  Nobody has to connect, or to leave.
ServerFairness ==
  /\ WF_allVars(MainStartThread) /\ WF_allVars(MainListen)
  /\ WF_allVars(ListenInit) /\ WF_allVars(ListenCB) /\ WF_allVars(ListenCBStep)
  /\ \A t \in Threads : WF_allVars(ThreadLoop(t))
  /\ \A c \in Conns : WF_allVars(Eof(c)) /\ WF_allVars(Timeout(c))

ServerSpec == ServerInit /\ [][ServerNext]_allVars /\ ServerFairness
--------------------------------------------------------------------------------
\* Where task i is, on its way to the thread it was dealt to.
Places(i) ==
  LET t == (i - 1) % ThreadCount IN
  {p \in {"dispatcher", "queue", "thread", "inited"} :
     \/ p = "dispatcher" /\ i = dispatched /\ dpc \in {"add", "push"}
     \/ p = "queue" /\ i \in Range(tasks_[t])
     \/ p = "thread" /\ wpc[t] = "init" /\ wtask[t] = i
     \/ p = "inited" /\ i \in Range(inited[t])}

\* A socket that was accepted is at any time in exactly one hand - the listener's,
\* its thread's queue, the thread that has just taken it from there, or its task's:
\* none is forgotten between accept and Init(), and no socket is served before or
\* twice (xdisk_server.cpp:15-21).
SocketsOwned ==
  \A c \in Conns :
    /\ sock[c] = "none" <=> c > dispatched
    /\ c <= dispatched => Cardinality(Places(c)) = 1
    /\ sock[c] = "accepted" <=> c <= dispatched /\ Places(c) # {"inited"}

\* What keeps a thread from its tasks: its Setup failed, or the write of a wake-up
\* byte did, which leaves a task without a byte.
Stranded(t) ==
  \/ setup[t] \in {"nopipe", "nobase"}
  \/ setup[t] = "ok" /\ Len(tasks_[t]) > notify[t] + ByteRead(t) + ByteOwed(t)

CutOff(c) == IF sock[c] = "none" THEN \E t \in Threads : Stranded(t)
             ELSE Stranded(ThreadOf(c))

\* A client that got through to the listening socket is served and its socket
\* released, whatever it does and though there are fewer descriptors than clients,
\* unless its thread is cut off from its tasks; while it waits to be accepted any
\* such thread may stop it, by keeping descriptors.  That needs the timeouts: a
\* client that only asks for a listing never closes its connection.
ServedAndReleased ==
  \A c \in Conns : peer[c] # "none" ~> sock[c] = "closed" \/ CutOff(c)
===============================================================================
