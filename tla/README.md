# xdisk in TLA+

A model of xdisk, a small network disk on libevent: a Qt client that lists, uploads
and downloads files, a server that stores them, and the library (`xcom`) on which both
are built. Paths are relative to the root that holds `src/`; the code is in `src/src/`.

## 1. The system

| Component | Code | State | Operations |
|---|---|---|---|
| Thread pool | `xcom/xthread_pool`, `xcom/xthread`, `xcom/xtask.h` | threads, last thread dealt to; per thread a task queue, its mutex, a notify pipe, an `event_base` | `Init`, `Dispatch`, `AddTask`, `Activate`, `Start`, `Setup`, `Main`, `Notify` |
| Message framing | `xcom/xcom_task`, `xcom/xmsg.h` | the bufferevent, the message being received, the switch `is_recv_msg_` | `Init`, `ReadCB`, `Write`, `BeginWrite`, `EventCB`, `Close` |
| Upload | `xdisk_gui/xupload_task`, `xdisk_server/xfile_server_task` | client: file stream and size; server: file stream, size, bytes received | `ConnectedCB`, `WriteCB`, `ReadCB` of the client; `Upload`, raw `ReadCB` of the server |
| Download | `xdisk_gui/xdownload_task`, `xdisk_server/xfile_server_task` | client: file stream, size, bytes received; server: file stream | `ConnectedCB`, both `ReadCB` of the client; `Download`, `WriteCB`, `ReadCB` of the server |
| Directory service | `XFileServerTask::GetDir`, `xcom/xtools`, `xdisk_gui/xdir_task` | the static `cur_dir_`, the process's working directory | `GetDir`, `GetDirData`, `XDirTask` |
| Listener, server start | `xcom/xserver_task`, `xdisk_server/xdisk_server.cpp` | two pools, the listening socket | `Init`, `ListenCB`, `main` |
| Client facade, GUI | `xdisk_gui/xdisk_client`, `xdisk_gui/xdisk_gui` | server address, root, table of files | `GetDir`, `Upload`, `Download`, the slots |
| Demos | `tcpserver`, `tcpclient`, `first_libevent`, `test_event_server`, `test_bufferevent_server`, `test_thread_pool`, `first_protobuf`, `reflect_protobuf` | - | exercises no other part uses |

How they interact. The server's `main` makes a pool of one thread for the listener and
the pool of the connections; `ListenCB`, in the listener's thread, gives each accepted
socket to a new `XFileServerTask` and dispatches it. In the client the GUI thread makes
a task per request (`XDirTask`, `XUploadTask`, `XDownLoadTask`), each with a connection
of its own, and dispatches it to a pool of ten. A task lives in one thread: that
thread's event loop calls its callbacks one after the other. Tasks share state only
through the pool (queue, mutex, pipe), through the peer, and, in the server, through
the static `cur_dir_`, the working directory and the files themselves.

What is hard:

- two threads at one queue, woken by a byte per task;
- a byte stream cut anywhere, which carries messages and then raw bytes;
- two ends of a connection that proceed at their own pace, each with an output buffer
  that drains piece by piece and a callback when it is empty;
- refusals that are not answered, ends that only a timeout releases;
- tasks that delete themselves in a callback;
- sockets handed from the listener by a queue to a task, with limits on all sides;
- answers that reach the window late, out of order, or while a slot waits in a dialog.

What makes each correct: the pool initialises every task once, in turn; the framing
gives the business class the messages and bytes the peer wrote; a transfer never
reports a success it has not had, loses nothing while both ends live, completes when
nothing fails, and leaves nothing open; a client that gets through is served and its
socket released; the window shows what the server has, and asks for what it shows.

## 2. Modules

| Module | Models |
|---|---|
| `TaskDispatch` | what the pool promises: tasks dealt in turn, initialised once and in order |
| `XThreadPool` | the pool in detail; implements `TaskDispatch` |
| `XThreadPoolProofs` | theorems about the pool's queues, locks, bytes and round robin, and that it implements `TaskDispatch` |
| `XComTask` | the receiving side of the framing, byte by byte |
| `XComTaskProofs` | theorems about its buffers, and how receiver and stream stay in step |
| `XDiskServer` | the server process: `main`, the listener, `XThreadPool` and the sockets |
| `XDiskServerProofs` | theorems: the server uses the pool as its specification says; its sockets |
| `FileTransfer` | what a transfer promises: a growing beginning of the file, saved, then acknowledged |
| `FileStream` | the pieces of a file and the items on a connection, for the transfers |
| `FileStreamProofs` | lemmas about these: cutting, joining and numbering them |
| `XUpload`, `XDownload` | one transfer, both ends and the connection; both implement `FileTransfer` |
| `XUploadProofs`, `XDownloadProofs` | theorems about them, and that they implement `FileTransfer` |
| `XDirectory` | several connections that share `cur_dir_`, the working directory, descriptors and files |
| `XDirectoryProofs` | theorems: true listings, complete uploads on the disk, uploads behind listings |
| `XDiskClient` | the client process: the window, the facade, its tasks, in front of a server in a few steps |
| `XDiskClientProofs` | theorems: what the window shows, and where its uploads and downloads go |
| `MCXThreadPool`, `MCXDiskServer`, `MCXComTask`, `MCXUpload`, `MCXDownload`, `MCXDirectory`, `MCXDiskClient` | the instances TLC checks |

Definitions keep the names of the code's functions and members. A definition whose
comment describes a fault ("AddTask without the lock") is a plausible wrong version of
the definition behind it; it is in no specification, and shows that a property would
notice the fault.

**XThreadPool.** The dispatcher is at `dpc`: `StartThread` is a turn of the loop in
`Init`, then each `Dispatch` picks the thread, `AddTaskLock` and `AddTaskPush` are
`AddTask`, `Activate` writes the byte. A thread is at `wpc[t]`: `Main` starts the event
loop, `Notify` reads a byte, `NotifyLock` and `NotifyPop` take a task, `InitTask` calls
its `Init()`. Every shared access is a step of its own. `SetupOutcomes` are the ends of
`Setup` (`nopipe`: no pipe, and the descriptor stays 0; `nobase`: a pipe nobody reads).
`NonBlocking` is the `_WIN32` build, where the write to a full buffer fails. A task is
named by its place in the order of dispatch, for each `Dispatch` gets a new object.

**XComTask.** A byte is `<<i, k>>`, the k-th byte of the peer's i-th write, so bytes lost,
doubled or misplaced are seen. Each action is a part of a turn of `ReadCB()`'s loop
(`ReadRaw`, `ReadHead`, `CheckHead`, `ReadBody`, `Deliver`). What a message makes the
business class do is its kind. A head read from the middle of something else spells
anything (`StrayHeads`). `cut`, chosen at the start, says where read events may end:
only between messages, inside bodies too, or anywhere; raw pieces are cut anywhere. A
message of more than `MsgMaxSize` bytes may be sent, as `Write` does not look, and a
refused upload sends raw pieces to a receiver that still takes messages; `Whole` and
`Framed` say when the properties exclude them (`Acceptable`, `Announced`). `StaysRaw` says
that no message comes behind the one that turns messages off, as in both transfers.

**XUpload, XDownload.** Items on the wire are whole messages and single bytes of the
file, which are numbered. `ClientSend` and `ServerSend` are libevent's write event:
part of the output is sent, and when it is empty `WriteCB` is called in the same
step. The read events fill `in`; while `reading` no other callback of that task runs.
A closed peer is an end of file once the wire is empty, or an error when the peer
closed with bytes unread. Close drops the output and leaves the file streams as they
are (the base class has no virtual destructor). `faults`, chosen at the start, says
what may go wrong this time: a file that cannot be opened, the link, the timeouts, a
file that grows while it is sent.

**FileTransfer.** The abstract transfer: `size` announced, `stored` grows as a beginning of
the sender's file, `saved` when it is complete and closed, `acked` when the sender has
been told. `XUpload` and `XDownload` map their streams to it (`FT`): in an upload the
client is acknowledged by `UPLOAD_COMPLETE`, in a download the server by
`DOWNLOAD_COMPLETE`. `Finishes` is the liveness of the refinement, for a transfer in which
nothing fails and the file is not empty (`reliable`).

**XDiskServer.** It extends `XThreadPool`: its dispatcher is the main thread in
`MainStartThread`, then the listener's in `ListenCB` and `ListenCBStep`. Of the listener's
own pool of one thread only `TaskDispatch` is used (`ServerPool`). Connections are named by
the order in which they are made, which is that of `accept` and of `Dispatch`, so task i
has the socket of connection i. `TaskInit` makes the bufferevent; `Eof` and `Timeout` close
it from the thread's event loop; `Backlog` and `MaxSockets` are the system's limits.

**XDirectory.** `GetDir` sets the static `cur_dir_`; `OpenDir`, `ChDir`, `ReadDir` are the
system calls of `GetDirData`, one step each, for another thread may come between them;
`Reply` writes the list. `Upload` builds its path from `cur_dir_` and `UploadOpen` opens it,
two steps again; `Receive` takes a piece, of which the stream writes what it likes until it
is closed. A path is absolute or not, and its components; relative ones start at `cwd`.
`FileIn` is `cur_dir() + filename`: the client cuts the name off in front of the last `/` of
a path that has one (`xupload_task.cpp:69-74`), so a slash always separates them, and one at the
end of the directory makes no difference. An upload that announces no bytes is refused before its path is built. `ReadDir`
combines `readdir` with `lstat`, since `readdir` does not depend on the working directory
and entries never go away; `.` and `..` may come at any time, also to overwrite the
`statbuf` of a file that `lstat` did not find. Descriptors count up to `MaxFds`. Tasks in the same thread
(`ThreadOf`) do not interleave within a callback. `build` is the branch of `GetDirData`:
`FindFirst` and `FindNext` are the `_WIN32` one, without `chdir`.

**XDiskClient.** The GUI thread's slots are actions, cut where a modal dialog waits:
`UploadClicked` and `PickFile` are `Upload`, `DownloadClicked` and `PickPath` are
`Download`. `dialogs` are the open ones, the innermost last; the user reaches only that one,
while `UpdateDir`, `UploadComplete` and `DownloadComplete` handle queued signals (`events`)
whatever is open. `Columns` is what `split` makes of a listed file, `Bad` a piece without
two columns; a listing is `Clean` when each of its names makes one row, of itself. `clicks`
are the buttons the user will click, from `Sessions`. The pool is `TaskDispatch` with the
ten threads of `XDiskClient::Init`. The server lists, stores in the directory listed last,
or sends; a directory stands for an absolute path, and no other
client is there: what else happens is in `XDirectory`.

## 3. Runs

| Run | Bounds | Shows |
|---|---|---|
| `pool_refines` | 3 threads, 8 tasks, pipe 2, blocking writes | the dispatcher waits at a full pipe; types, queues and pipes in balance; implements `TaskDispatch`, with liveness |
| `server` | 2 threads, 4 clients, notify buffer 1, backlog 2, 3 descriptors; writes, Setup and the listener may fail | queues exclusive and in turn, a byte read finds a task, each socket in one hand; every client is served and its socket released unless a thread is cut off from its tasks |
| `frames` | head 2, bodies 1-3 and one too long, raw pieces 1-5, among them those of a refused upload, read events of up to 5 bytes, all three ways of cutting | whole messages intact and without a leak; cut bodies keep types, sizes and last bytes; raw bytes in order; all read in the end; however it is cut, the body stays inside its buffer |
| `frames_body_lost`, `frames_head_cut` | as above, read events of up to 4 bytes | *violated*: see section 6 |
| `upload` | files of 0, 1, 2, 3, 4, 6 bytes that may grow to 7, pieces of 3, wire of 4, no failures and all failures | no false success, nothing lost, no stall; implements `FileTransfer`, completing when nothing fails; both ends closed in the end when something does |
| `upload_before_accept` | files of 1-3 bytes, pieces of 2, files may fail to open | *violated*: see section 6 |
| `download` | as `upload` | the same for the download; no file byte read as a message; the server's file is closed when it is served |
| `directory` | 3 connections in 2 threads, each any of 5 requests; 4 directories, 3 files; 2 descriptors; both builds | clients that agree on the directory, and all without `chdir`, get true listings; every upload goes to a directory that was listed; a completed upload is on the disk; every listing is answered |
| `directory_refresh` | 3 connections that list the client's first path or upload | *violated*: see section 6 |
| `client` | 2 directories with 1 and 2 files, one with a semicolon in its name; sessions of two clicks: up to 3 listings and an upload at once, with downloads | settled, the table is what the server has; uploads and downloads go where the window says; no null item without a bad name; all signals handled |
| `client_stale_row` | as above, three listings | *violated*: see section 6 |

Why the bounds are enough. Eight tasks on three threads wrap the round robin around twice and
give two threads a third task, whose byte finds a pipe of two bytes full when the thread has
read none: the dispatcher then waits, with the other threads' queues at any length
(`ActivateNoWait`, which does not, breaks `WakeupBalance`). The non-blocking write that
fails instead is in `server`, where two tasks of a thread and a buffer of one byte suffice;
it has failing Setups as well, for which two threads are enough. In the framing what counts is how a body compares with
what one read event brings (less, as much, more), and a raw piece with `read_buf_`; sizes 1
to 5 against 2, 4 and 5 have all cases. For a transfer it is the file against the piece:
none, less, exactly one or two, more; the wire is longer than a piece, so that a message and
a piece are on it together and cut by it. Four clients on two threads with three descriptors
and a backlog of two make every limit of the server bind, and one thread get two sockets
while the other is stranded. In the window a longer and a shorter listing of two
directories, asked for up to three times, come in every order, around an upload or a
download with its dialog open. What two transfers share, the directory and the files, is in
`XDirectory`. `MaxTasks`, `FileSizes`, `MaxGrow`, `WireCap`, `Conns`, `MaxFds`, `Backlog`,
`MaxSockets` and `Sessions` are the only bounds on what is unbounded in the code; `MaxGrow`
is a length, up to which the file grows. For the directory two threads show every
interleaving of two calls, and the third connection a later request of the same thread;
`/home` and `/home/root` hold the same names for different things, so a look-up in the wrong
place is noticed; two descriptors for three requests make `opendir` and the opening of files
fail. Deadlock is not checked: a closed task, or one that waits for an event that does not
come, is a state in which the program rests.

**Fairness.** Weak fairness of every step of a thread (the operating system runs it)
and of every event of a connection (level-triggered: libevent reports it again until it
is served). A connection need not come about when the link may fail.
In the server a client need not connect or leave; `accept` is fair, for the listener is
level-triggered, too. In the client the slots are fair (an event loop always runs, be it
a dialog's), the user is not.
Calling `Dispatch`, breaking a connection and growing a file are not fair.
A timeout is fair, for its timer fires unless traffic resets it, and traffic is finite.

## 4. Proofs

All theorems are proved from the initial states and the steps; no fairness is used. Every
invariant of a passing run is a theorem, and so are the safety parts of the refinements.

### The pool and the server

For every `ThreadCount`, `MaxTasks`, `PipeCap`, both builds and all failures of `Setup`,
under `PoolAssumption` (the constants have their types, at least one thread, a pipe of at
least one byte):

- `TypeCorrect`: `Spec => []TypeOK`
- `ExclusiveLists`: `Spec => []ListExclusive`
- `Balanced`: `Spec => []WakeupBalance`
- `FindsTask`: `Spec => []NotifyFindsTask`
- `InTurn`: `Spec => []DealtInTurn`
- `SafelyImplements`: `Spec => TD!Init /\ [][TD!Next]_(TD!vars)`, the safety part of
  `ImplementsDispatch`

and, with `ServerAssumption` (room for at least one connection), for every `Backlog` and
`MaxSockets`:

- `ServerUsesPool`: `ServerSpec => Init /\ [][Next]_vars`, every behaviour of the server is
  one of the pool; so `ServerExclusive`, `ServerFindsTask` and `ServerInTurn` carry the
  pool's invariants over to the server
- `ServerTypes`: `ServerSpec => []ServerTypeOK`
- `ServerOwnsSockets`: `ServerSpec => []SocketsOwned`

None of the first four is inductive alone. `PoolInv` adds: who holds a mutex is between lock
and unlock (`MutexHeld`); a task is in hand where one is used (`TaskInHand`, needed for
the types: 0 is no task); a thread serves its pipe only after a good `Setup` and does
nothing before it is created (`ThreadsStarted`); there are never more bytes than tasks
(`EnoughTasks`). The last one and `WakeupBalance` are about one number, `Spare(t)`, the
tasks of a thread that have no byte: lemma `SpareStep` shows that a step leaves it as it
is, or adds one when a non-blocking write fails, so it is never negative, and zero when
writes block.

The round robin needs `TurnInv`: there is a number r of full rounds such that
`dispatched = r * ThreadCount + last_thread_ + 1` and each thread has been dealt r + 1
tasks up to `last_thread_` and r behind it (`Rounds`, counting the one the dispatcher
has not pushed yet); the k-th of them is `Dealt(t, k)` and was dispatched
(`TurnsTaken`); and the dispatcher works for the thread it dealt to last
(`DealsToLast`). Lemma `TasksStep` shows that initialised, held and queued tasks of a
thread, put together, change only by a push at the end; `DispatchStep` is the step to
the next thread or the next round, `PushStep` puts the task where its turn is. The
refinement then needs only that the task `InitTask` initialises is the next one of the
thread's order, and dispatched. `PoolInv` and `TurnInv` (its round count
bounded by `MaxTasks`) were also checked by TLC on the instances of section 3.

That a socket is in one hand says where each connection is, and `TurnInv` only what each
thread was dealt. The bridge is arithmetic: a connection is the k-th of one thread for
exactly one k and one thread (`DivideOnce`, `TurnOf`, `OnlyTurn`), so comparing k with how
many tasks the thread has initialised, holds, and has queued says where it is (`Located`,
`Whereabouts`), and that it is nowhere else. What is left to carry along is `HandedOver`: a
socket is accepted when its connection was dispatched and its task is not initialised.

### The framing

For every head size, `MsgMaxSize`, `read_buf_`, read event, list of writes and stray head,
under `FramingAssumption` (sizes are positive, the writes are messages and raw pieces):

- `ReceiverTypes`: `Spec => []TypeOK`
- `ReceiverStaysInBuffer`: `Spec => []WithinBuffer`
- `ReceiverKeepsFraming`: `Spec => []FramingKept`
- `ReceiverDeliversWhole`: `Spec => []WholeDelivered`
- `ReceiverLeaksNothing`: `Spec => []NoBufferLeak`
- `ReceiverKeepsRawOrder`: `Spec => []RawInOrder`

The first two hold however the stream is cut, and need only the receiver: `RecvInv` says
which fields of `msg_` mean something where in the loop (`BodyOK`: a body under way has a
buffer of the size in its head, and misses at least a byte of it until it is delivered),
that every byte came from the peer (`Origin`), and that a head is one that was written or a
stray one (`HeadOK`).

The others relate the receiver to the stream. `FrameInv` has an offset for each write, how
far behind the reading position it begins, negative when it was begun (`Layout`: the
offsets follow each other by the lengths of the writes, and the bytes that are left are
where the offsets say). In message mode `Position` puts the receiver at the write behind
those it has delivered: at its beginning, or as far in as the head and `msg_.recved` bytes.
`FramesOK` and `WholeOK` then say what the delivered ones are. A head is found whole because
the network has cut only where it may (`CutOK`): were it cut, the first byte on the wire
would be the rest of a head, which `MayCutBefore` excludes (`HeadWhole`); with `cut` at
"message" the same holds for the body (`BodyWhole`). `Announced` is needed: the raw pieces of
a refused upload are parsed as heads, and then `Position` is false.

For the raw bytes `RawInv` says that what was given raw, the input buffer and the wire, one
behind the other, are the raw bytes of the writes made (`RawOf(sent)`). The steps of raw mode
only move bytes from one to the next (`Regroup`), so all that is hard is the switch: that
when the message was delivered, the stream from the reading position on is nothing but the
raw pieces behind it (`AllIsRaw`, from `Layout`, `Announced` and `StaysRaw`). `RawStream` is
flattened by a function recursive in the number of pieces; what is said of it is proved of
the least number for which it fails, since the library's induction theorems cannot be used.

### The transfers

For every file, `BufSize`, `WireCap` and set of failures, under `StreamAssumption`,
`UploadAssumption` and `DownloadAssumption` (positive sizes, lengths that are numbers):

- `UploadTypes`, `DownloadTypes`: `Spec => []TypeOK`
- `UploadGoesOn`: `Spec => []SendingGoesOn`
- `UploadCompletes`: `Spec => []CompleteMeansStored`
- `DownloadCompletes`: `Spec => []CompleteMeansFetched`
- `DownloadClosesFile`: `Spec => []ServedClosesFile`
- `DownloadAcceptFirst`: `Spec => []AcceptFirst`
- `UploadLosesNothing`, `DownloadLosesNothing`: `Spec => []NothingLost`
- `UploadIsTransfer`, `DownloadIsTransfer`: `Spec => FT!Init /\ [][FT!Next]_(FT!vars)`, the
  safety part of `ImplementsTransfer`

A property such as `CompleteMeansStored` is about the two ends, and it is the connection
between them that makes it true. `UpInv` and `DownInv` number what each side writes, first the
message and then the bytes of the file (`Sent`; `Answers`, `Asked`), and keep two counters for
each direction: how many items the reader has taken, and how many were written.
`Pipe` says that the reader's buffer, the wire and the writer's buffer, one behind the
other, hold exactly the items between the two counters, in order (`Forward`, `Backward`).
`FileStreamProofs` shows that the ways in which a connection moves items keep a `Pipe`: the
lemmas `Receive` and `Write` and those for sending and consuming. The counters cannot be
read off the state when a side is closed, for then its buffers are dropped, so they are
existential: a closed side's counter stays what it was and only the inequalities remain.
`ClientOK` and `ServerOK` tie the counters to the files: the stored length is what was taken
after the message. A client that sees `UPLOAD_COMPLETE` has then taken the second answer, which the
server wrote only when it closed its file.

For the refinement each action of a transfer is a step of `FileTransfer` or leaves what it
speaks of (`OthersMap`); that the stored bytes are a beginning of the sender's file comes from
`ServerOK` and `ClientOK` (`stored = Content(recvSize)`) and from the counters, which bound
`recvSize` by what was read.

### The directory service

For every set of directories and files, every set of requests, any number of connections and
threads, both builds and every `MaxFds`, under `DirectoryAssumption` (the constants have
their types; a file is in a directory and is none):

- `DirectoryTypes`: `Spec => []TypeOK`
- `ListingsAreRight`: `Spec => []ListingRight`
- `CompletedIsOnDisk`: `Spec => []CompleteMeansOnDisk`
- `UploadsFollowListings`: `Spec => UploadFollowsListing`, an action property, whatever the clients list

`ListingRight` speaks of the answer and says nothing of the shared state on the way to it.
`DirInv` says, for a listing that nobody disturbs (`Straight`: all list the same absolute
path, or nobody calls `chdir`), where the working directory is at each step of `GetDirData`
(`Meant`) and what has been read so far (`Right`): the entries still owed are of the directory
asked for, each one seen is in the list, and each one in the list is a file with a size that
is true if the file was not written to. That last part needs `Fresh`: nobody writes to a file
of which something is left from before, for opening empties it. `Stored` is the argument for
uploads: what an accepted one has flushed is what the file holds, unless another one was
accepted for the same file (`Alone`). For the action property, `Announced`: once a listing was
begun, the static `cur_dir_` is the path of one (`Begun`), so what an upload is to open is a
file in it (`Aimed`); and `Working`: where nobody calls `chdir`, or paths are absolute, the
working directory is that of the start or one listed. `Counted`, that no more transfers go on than descriptors are open, is what keeps
the count from falling below zero.

### The client

For every set of directories, names and stored files, whatever `Columns` makes of the names,
and every session, under `ClientAssumption` (the constants have their types, the directories
have finitely many files, `Bad` and `NoItem` are no names):

- `ClientTypes`: `Spec => []ClientTypeOK`
- `SettledIsRight`: `Spec => []SettledShowsStore`
- `UploadsGoWhereShown`: `Spec => []UploadGoesWhereShown`
- `DownloadsFindFiles`: `Spec => []DownloadFindsFile`
- `CrashesNeedBadNames`: `Spec => []CrashNeedsBadName`

The window, the tasks and the server change at different times, and `ClientInv` says what
each still knows of the others. `TableInv`: the table is the listing shown, if that one is
clean. `DownloadInv` and `DialogInv`: a name taken from the table was a row of the listing
shown at the click, whatever has been shown since. `UploadInv`: an upload of a window that
shows something goes to a directory listed before. `ItemInv`: a row without an item was made by
a bad piece. `LastInv` is why the settled table is right: the last listing is still what
the server has, or something is `Owed`, an upload whose `Refresh` is to come or a listing not
yet answered, so that things are not settled. `EventInv`, that every task has one signal at
most, is what makes the `Refresh` of an upload come once, and after it was stored. What
`UpdateDir` puts in the table row by row is computed by `FlattenSeq` and proved as for the raw
bytes (`FlattenSingles`: a clean listing is split into itself).

`DirInv` and `ClientInv` were checked by TLC on the instances of section 3 before they were
proved.

### Only model-checked

- All liveness, that of the refinements included (`ServedAndReleased`, `EverythingRead`,
  `BothReleased`, `EveryListingAnswered`, `AllHandled`, `FT!Finishes`): it rests on fairness,
  hence on ENABLED.
- The *violated* runs are counterexamples and need no proof.

## 5. Not modelled

- Paths with `..`, links, and files that are removed while a directory is read.
- The download of a path that is a directory's, which a listing does not offer.
- A `thread_count` of 0, with which the first `Dispatch` divides by zero.
- Closing the client's window, a user who types over a cell of the table (Qt lets him),
  the port and address fields, and other clients beside the window.
- The demos: single-file exercises; `test_thread_pool` holds an older copy of the pool.
- Time: a timeout may come at any moment, so how long a transfer may take (an upload
  of more than 10 s is cut off by the client's read timeout) cannot be said.
- In the transfers, messages arrive whole (`frames` is about when that is so, and what
  happens when it is not), and
  file bytes read as a head spell none that is valid.
- Files of 2 GB and more, which the code does not support (`xupload_task.h:26`).
- A failing `bufferevent_write` or `bufferevent_socket_new` (out of memory).
- Branches no caller reaches: null tasks, messages without data, an empty path (the GUI
  makes sure there is none).

## 6. Where code and comments disagree

| Run | What happens |
|---|---|
| `frames_body_lost` | a body in two pieces gets a new buffer, its first part is not what was sent |
| `frames_head_cut` | a head in two pieces is dropped; the stream is misread and `ReadCB` stops with input unread |
| `upload_before_accept` | `WriteCB` sends the file without waiting for `UPLOAD_ACCEPT`; `SendingGoesOn` shows that `BeginWrite` never has anything to start |
| `directory_refresh` | `chdir` is for the whole process: the client's first path, `./server_root`, is relative, and the second listing of it looks below itself and comes back empty |
| `client_stale_row` | a file with a semicolon in its name makes two pieces; the one without two columns is passed over, and its row goes on showing a file of the listing before |

Seen while modelling, in the models but without a run of its own:

- `Start` ignores a failed `Setup`; the thread is dealt tasks nobody initialises, and their
  clients wait for ever (`Stranded` excludes them from `ServedAndReleased`);
- a failed listen is not noticed: `main` sleeps on (`listener = "dead"`);
- `DownloadCB` runs before the file is closed (`DownloadCBReturns` is what closes it);
- an upload goes to the directory the server listed last, not to the path of the window
  (`UploadGoesWhereShown` says when they agree); one that overtakes the first listing goes
  to `./`;
- an empty listing does not clear the table, an older one may replace a newer one
  (`SettledShowsStore`), and a row without an item is a null pointer in `Download`;
- a non-blocking write that fails on a full socket is only logged; when the
  dispatching stops, the last task of that queue is never initialised;
- a body in two pieces leaks its first buffer (`NoBufferLeak` is stated for whole
  messages);
- `delete this` through a class without a virtual destructor: a transfer that is cut
  off leaves its file open;
- after `chdir` an upload to a relative directory, such as the client's first one, is looked
  up below that directory itself, is not found there and gets no answer; for such paths
  `UploadFollowsListing` says which path is taken, and only of the build without `chdir`
  that it leads to the right place;
- two clients that list different directories redirect each other's uploads, and may
  get each other's sizes; `ListingRight` says when sizes are right, `UploadFollowsListing`
  that an upload goes to one of the directories;
- `opendir` without `closedir`: each listing keeps a descriptor;
- two uploads to one name write into one file and are both reported complete;
- an empty file's download is never reported, and its upload is not answered; both
  tasks wait for their timeouts (`BothReleased`).

## 7. Plan

1. Done: the pool with its abstraction and its theorems, framing, upload and download
   with theirs, `XDirectory`, `XDiskServer`, `XDiskClient`.
2. Proofs done: every invariant of a passing run, and the safety of the refinements.
3. Left: a timed upload, the 10 s timers against a transfer that takes several ticks.
