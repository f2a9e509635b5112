------------------------------ MODULE XDiskClient ------------------------------
(***************************************************************************)
(* The client process: the window XDiskGUI, the facade XDiskClient and the *)
(* tasks it dispatches (src/src/xdisk_gui), in front of a server that does *)
(* what XUpload, XDownload and XDirectory say of it, in a few steps.       *)
(*                                                                         *)
(* The GUI thread runs the slots.  A task answers in its pool's thread by  *)
(* a signal, which Qt queues for the GUI thread; a modal dialog runs an    *)
(* event loop of its own, so that queued signals are handled, and further  *)
(* dialogs opened, inside a slot that waits for its dialog.                *)
(*                                                                         *)
(* A directory stands for an absolute path, and no other client is at      *)
(* work; XDirectory shows what else may happen.                            *)
(***************************************************************************)
EXTENDS Integers, Sequences, SequencesExt, FiniteSets, FiniteSetsExt, Functions

CONSTANTS
  Dirs,       \* the directories, by their paths
  StartDir,   \* "./", which stands for an empty path as well
  FirstDir,   \* what the path edit shows at first
  Names,      \* the names of files, and of the rows they make
  Columns,    \* the rows that the split at ';' and ',' makes of a listed file
  Stored,     \* per directory, the files there are at the start
  Picks,      \* the names of the local files a user may upload
  Sessions    \* the sequences of buttons the user may click

Bad    == "bad"      \* a piece of a listing that has not two columns
NoItem == "no item"  \* a row that was never filled

ASSUME ClientAssumption ==
  /\ {StartDir, FirstDir} \subseteq Dirs /\ Picks \subseteq Names
  /\ {Bad, NoItem} \cap Names = {}
  /\ Columns \in [Names -> Seq(Names \cup {Bad})]
  /\ Stored \in [Dirs -> SUBSET Names] /\ \A d \in Dirs : IsFiniteSet(Stored[d])
  /\ Sessions \subseteq Seq({"list", "upload", "download"})

VARIABLES
  clicks,        \* the buttons the user will still click
  ui,            \* "starting", "open", or "crashed" (a null pointer was used)
  path,          \* the text of ui.pathEdit
  server_root_,  \* XDiskClient's
  table,         \* the first column of ui.filelistWidget
  row,           \* its current row, from 1, or 0
  dialogs,       \* the modal dialogs that are open, the innermost last
  events,        \* queued signals, each the task it comes from
  tasks,         \* the tasks, in the order of dispatch
  inited,        \* of the pool: per thread, the tasks initialised
  store,         \* the server: per directory, the names of its files
  cur_dir_,      \* the server: root of the last MSG_GETDIR
  shown,         \* the task whose listing was put into the table last (history)
  last           \* the task whose listing the server made last (history)

windowVars == <<ui, path, server_root_, table, row, shown>>
guiVars    == <<windowVars, clicks, dialogs, events>>
serverVars == <<store, cur_dir_, last>>
vars       == <<guiVars, tasks, inited, serverVars>>

\* The user's buttons make at most one task each, and a Refresh when it is done.
MaxTasks == 1 + 2 * Max({Len(s) : s \in Sessions})

\* XDiskClient::Init makes a pool of ten threads.
Pool == INSTANCE TaskDispatch WITH ThreadCount <- 10, dispatched <- Len(tasks)

NoDialog == [kind |-> "box", name |-> NoItem, from |-> 0]
NewTask  == [kind |-> "list", path |-> StartDir, dir |-> StartDir, name |-> NoItem,
             from |-> 0, pc |-> "queued", listing |-> <<>>]

ClientTypeOK ==
  /\ ui \in {"starting", "open", "crashed"}
  /\ {path, server_root_, cur_dir_} \subseteq Dirs
  /\ Range(table) \subseteq Names \cup {NoItem} /\ row \in 0 .. Len(table)
  /\ \A d \in Range(dialogs) : d.kind \in {"box", "upload", "download"}
  /\ Cardinality(Range(events)) = Len(events)
  /\ \A i \in Range(events) : i \in DOMAIN tasks /\ tasks[i].pc = "done"
  /\ \A i \in DOMAIN tasks :
       /\ tasks[i].kind \in {"list", "upload", "download"}
       /\ tasks[i].pc \in {"queued", "asked", "served", "done", "failed"}
       /\ tasks[i].pc = "queued" <=> i \notin UNION {Range(inited[t]) : t \in Pool!Threads}
       /\ Range(tasks[i].listing) \subseteq Names
  /\ store \in [Dirs -> SUBSET Names]
  /\ {shown, last} \subseteq 0 .. Len(tasks)

Init ==
  /\ clicks \in Sessions
  /\ ui = "starting" /\ path = FirstDir /\ server_root_ = StartDir
  /\ table = <<>> /\ row = 0 /\ dialogs = <<>> /\ events = <<>>
  /\ tasks = <<>> /\ Pool!Init
  /\ store = Stored /\ cur_dir_ = StartDir
  /\ shown = 0 /\ last = 0
--------------------------------------------------------------------------------
(* XDiskClient, called by the GUI thread. *)

\* A task is made and dispatched to the pool.
Ask(task) == tasks' = Append(tasks, task) /\ Pool!Dispatch

UpdateServerInfo == server_root_' = path

GetDir == Ask([NewTask EXCEPT !.path = path, !.dir = server_root_'])

Upload(name) == Ask([NewTask EXCEPT !.kind = "upload", !.path = path, !.name = name,
                                    !.from = shown])

Download(name, from) == Ask([NewTask EXCEPT !.kind = "download", !.path = path, !.dir = path,
                                            !.name = name, !.from = from])

\* Refresh that asks for the directory set before.
RefreshOldRoot == UNCHANGED server_root_ /\ GetDir

\* The slot Refresh, but for what else stays the same.
Refresh == UpdateServerInfo /\ GetDir
--------------------------------------------------------------------------------
(* The user, whom an open dialog keeps from the window behind it. *)

\* The constructor, which ends with a Refresh, and the event loop.
Start ==
  /\ ui = "starting" /\ ui' = "open"
  /\ Refresh
  /\ UNCHANGED <<path, table, row, shown, clicks, dialogs, events, serverVars>>

AtWindow == ui = "open" /\ dialogs = <<>>
Clicked(button) == AtWindow /\ clicks # <<>> /\ Head(clicks) = button /\ clicks' = Tail(clicks)

Edit(p) == /\ AtWindow /\ path' = p
           /\ UNCHANGED <<ui, server_root_, table, row, shown, clicks, dialogs, events, tasks,
                          inited, serverVars>>

\* Only a download needs a row.
Select(r) == /\ AtWindow /\ "download" \in Range(clicks)
             /\ r \in DOMAIN table /\ row' = r
             /\ UNCHANGED <<ui, path, server_root_, table, shown, clicks, dialogs, events, tasks,
                            inited, serverVars>>

RefreshClicked ==
  /\ Clicked("list")
  /\ Refresh
  /\ UNCHANGED <<ui, path, table, row, shown, dialogs, events, serverVars>>

Open(d) == dialogs' = Append(dialogs, d)

\* Upload, up to the dialog for the file.
UploadClicked ==
  /\ Clicked("upload")
  /\ Open([NoDialog EXCEPT !.kind = "upload"])
  /\ UNCHANGED <<windowVars, events, tasks, inited, serverVars>>

\* Download: without a current row a message box says so; the name is taken from
\* the item, without a look whether there is one, before the dialog for the path.
DownloadClicked ==
  /\ Clicked("download")
  /\ UpdateServerInfo
  /\ \/ row = 0 /\ Open(NoDialog) /\ UNCHANGED ui
     \/ row > 0 /\ table[row] = NoItem /\ ui' = "crashed" /\ UNCHANGED dialogs
     \/ /\ row > 0 /\ table[row] # NoItem
        /\ Open([kind |-> "download", name |-> table[row], from |-> shown])
        /\ UNCHANGED ui
  /\ UNCHANGED <<path, table, row, shown, events, tasks, inited, serverVars>>

\* The innermost dialog is left; the slot behind it goes on.
CloseDialog == ui = "open" /\ dialogs # <<>> /\ dialogs' = Front(dialogs)

\* A message box, or a dialog with nothing chosen.
Dismiss == CloseDialog /\ UNCHANGED <<windowVars, clicks, events, tasks, inited, serverVars>>

\* Upload: a file was chosen.
PickFile(name) ==
  /\ CloseDialog /\ Last(dialogs).kind = "upload"
  /\ UpdateServerInfo /\ Upload(name)
  /\ UNCHANGED <<ui, path, table, row, shown, clicks, events, serverVars>>

\* Download that takes the name from the table only now.
PickPathLate ==
  /\ CloseDialog /\ Last(dialogs).kind = "download"
  /\ row > 0 /\ Download(table[row], Last(dialogs).from)
  /\ UNCHANGED <<windowVars, clicks, events, serverVars>>

\* Download: a local directory was chosen; the path is that of the window again.
PickPath ==
  /\ CloseDialog /\ Last(dialogs).kind = "download"
  /\ Download(Last(dialogs).name, Last(dialogs).from)
  /\ UNCHANGED <<windowVars, clicks, events, serverVars>>
--------------------------------------------------------------------------------
(* Queued signals, handled by the innermost event loop. *)

\* Signals that wait until no dialog is open.
HandleAtWindow(kind) == /\ AtWindow /\ events # <<>> /\ tasks[Head(events)].kind = kind
                        /\ events' = Tail(events)

Handle(kind) == /\ ui = "open" /\ events # <<>> /\ tasks[Head(events)].kind = kind
                /\ events' = Tail(events)

\* What the listing is split into.
Pieces(listing) == FlattenSeq([k \in DOMAIN listing |-> Columns[listing[k]]])

\* The old rows, as many as count.
Rows(count) == [k \in 1 .. count |-> IF k \in DOMAIN table THEN table[k] ELSE NoItem]
Filled(rows, pieces) == [k \in DOMAIN rows |-> IF k \in DOMAIN pieces /\ pieces[k] # Bad
                                               THEN pieces[k] ELSE rows[k]]

\* UpdateDir whose loop leaves out the last row.
UpdateDirShort ==
  /\ Handle("list")
  /\ LET pieces == Pieces(tasks[Head(events)].listing) IN
     IF pieces = <<>> THEN UNCHANGED <<table, row, shown>>
     ELSE /\ table' = Filled(Rows(Len(pieces)), Front(pieces))
          /\ shown' = Head(events)
          /\ row' \in IF row <= Len(pieces) THEN {row} ELSE 0 .. Len(pieces)
  /\ UNCHANGED <<ui, path, server_root_, clicks, dialogs, tasks, inited, serverVars>>

\* SDir: an empty listing changes nothing; else the table gets its number of rows,
\* and a piece without two columns leaves its row as it was.  When the current row
\* is gone Qt finds another.
UpdateDir ==
  /\ Handle("list")
  /\ LET pieces == Pieces(tasks[Head(events)].listing) IN
     IF pieces = <<>> THEN UNCHANGED <<table, row, shown>>
     ELSE /\ table' = Filled(Rows(Len(pieces)), pieces)
          /\ shown' = Head(events)
          /\ row' \in IF row <= Len(pieces) THEN {row} ELSE 0 .. Len(pieces)
  /\ UNCHANGED <<ui, path, server_root_, clicks, dialogs, tasks, inited, serverVars>>

\* SUploadComplete that is not connected to Refresh.
UploadCompleteIgnored ==
  Handle("upload") /\ UNCHANGED <<windowVars, clicks, dialogs, tasks, inited, serverVars>>

\* SUploadComplete: Refresh.
UploadComplete ==
  /\ Handle("upload")
  /\ Refresh
  /\ UNCHANGED <<ui, path, table, row, shown, clicks, dialogs, serverVars>>

\* SDownloadComplete: a message box.
DownloadComplete ==
  /\ Handle("download")
  /\ Open(NoDialog)
  /\ UNCHANGED <<windowVars, clicks, tasks, inited, serverVars>>
--------------------------------------------------------------------------------
(* The tasks, in their threads, and the server. *)

At(i, l) == i \in DOMAIN tasks /\ tasks[i].pc = l

\* Init() connects, and ConnectedCB writes the request.
Connect(t) ==
  /\ LET i == Pool!Dealt(t, Len(inited[t]) + 1) IN
     At(i, "queued") /\ tasks' = [tasks EXCEPT ![i].pc = "asked"]
  /\ Pool!RunNext(t)
  /\ UNCHANGED <<guiVars, serverVars>>

\* The server lists a directory, in any order.
ServeList(i) ==
  /\ At(i, "asked") /\ tasks[i].kind = "list"
  /\ cur_dir_' = tasks[i].dir /\ last' = i
  /\ \E listing \in SetToSeqs(store[cur_dir_']) :
       tasks' = [tasks EXCEPT ![i].pc = "served", ![i].listing = listing]
  /\ UNCHANGED <<guiVars, inited, store>>

\* The server stores a file in the directory that was listed last.
ServeUpload(i) ==
  /\ At(i, "asked") /\ tasks[i].kind = "upload"
  /\ store' = [store EXCEPT ![cur_dir_] = @ \cup {tasks[i].name}]
  /\ tasks' = [tasks EXCEPT ![i].pc = "served", ![i].dir = cur_dir_]
  /\ UNCHANGED <<guiVars, inited, cur_dir_, last>>

\* The server sends a file, if it is there.
ServeDownload(i) ==
  /\ At(i, "asked") /\ tasks[i].kind = "download"
  /\ tasks[i].name \in store[tasks[i].dir]
  /\ tasks' = [tasks EXCEPT ![i].pc = "served"]
  /\ UNCHANGED <<guiVars, inited, serverVars>>

Serve(i) == ServeList(i) \/ ServeUpload(i) \/ ServeDownload(i)

\* A callback that may be called again.
AnswerAgain(i) ==
  /\ At(i, "served")
  /\ events' = Append(events, i)
  /\ UNCHANGED <<windowVars, clicks, dialogs, tasks, inited, serverVars>>

\* The task's ReadCB calls its callback, which emits a signal of the GUI thread's
\* object: it is queued.
Answer(i) ==
  /\ At(i, "served")
  /\ tasks' = [tasks EXCEPT ![i].pc = "done"]
  /\ events' = Append(events, i)
  /\ UNCHANGED <<windowVars, clicks, dialogs, inited, serverVars>>

\* MSG_DIRLIST, MSG_UPLOAD_COMPLETE, or the last byte of a file has come.
DirCB(i)      == i \in DOMAIN tasks /\ tasks[i].kind = "list" /\ Answer(i)
UploadCB(i)   == i \in DOMAIN tasks /\ tasks[i].kind = "upload" /\ Answer(i)
DownloadCB(i) == i \in DOMAIN tasks /\ tasks[i].kind = "download" /\ Answer(i)

\* The connection fails, breaks or times out; nobody is told.
Fail(i) ==
  /\ At(i, "asked") \/ At(i, "served")
  /\ tasks' = [tasks EXCEPT ![i].pc = "failed", ![i].listing = <<>>]
  /\ UNCHANGED <<guiVars, inited, serverVars>>
--------------------------------------------------------------------------------
User == \/ \E p \in Dirs : Edit(p)
        \/ \E r \in DOMAIN table : Select(r)
        \/ RefreshClicked \/ UploadClicked \/ DownloadClicked
        \/ Dismiss \/ PickPath \/ \E name \in Picks : PickFile(name)

Slot        == UpdateDir \/ UploadComplete \/ DownloadComplete
TaskStep(i) == Serve(i) \/ DirCB(i) \/ UploadCB(i) \/ DownloadCB(i) \/ Fail(i)

Next == \/ Start \/ User \/ Slot
        \/ \E t \in Pool!Threads : Connect(t)
        \/ \E i \in 1 .. MaxTasks : TaskStep(i)

\* The threads go on, and a connection that brings nothing times out.  The user
\* need not do anything, such as close a dialog.
Fairness == /\ WF_vars(Start) /\ WF_vars(Slot)
            /\ \A t \in Pool!Threads : WF_vars(Connect(t))
            /\ \A i \in 1 .. MaxTasks : WF_vars(TaskStep(i))

Spec == Init /\ [][Next]_vars /\ Fairness
--------------------------------------------------------------------------------
Tasks(kind) == {i \in DOMAIN tasks : tasks[i].kind = kind}
Split(i)    == Range(Pieces(tasks[i].listing))

\* No name listed has a separator of the listing in it: each makes a row.
Clean(i) == \A n \in Range(tasks[i].listing) : Columns[n] = <<n>>

\* When all that was asked for has been answered and shown, and the listing shown
\* is the last one the server made, the table is what the server has, uploads of
\* this session included: every upload is followed by a Refresh, whatever dialogs
\* are open and whatever comes between (xdisk_gui.cpp:24-30).  That a listing may
\* be overtaken by an older one, or be empty and not shown, is the condition.
SettledShowsStore ==
  /\ events = <<>> /\ \A i \in DOMAIN tasks : tasks[i].pc = "done"
  /\ shown # 0 /\ shown = last /\ Clean(shown)
  => Range(table) = store[tasks[shown].dir]

\* While the path is not changed, a file picked when the table shows something is
\* stored in the directory of that path, which UPLOAD_INFO does not name: the
\* server has it from an earlier listing.
UploadGoesWhereShown ==
  \A i \in Tasks("upload") :
    /\ tasks[i].pc \in {"served", "done"} /\ tasks[i].from # 0
    /\ \A j \in Tasks("list") : tasks[j].path = tasks[i].path
    => tasks[i].dir = tasks[i].path

\* A download asks for a file that is there, if the table showed a listing of the
\* path when the button was clicked; another listing may come while the dialog is
\* open, and take the row away (xdisk_gui.cpp:110-127).
DownloadFindsFile ==
  \A i \in Tasks("download") :
    LET from == tasks[i].from IN
    tasks[from].dir = tasks[i].dir /\ Clean(from)
      => tasks[i].name \in store[tasks[i].dir]

\* The item of the current row is only missing when a file's name has a separator
\* of the listing in it: no sequence of longer and shorter listings leaves a row
\* without one (xdisk_gui.cpp:117).
CrashNeedsBadName == ui = "crashed" => \E i \in Tasks("list") : Bad \in Split(i)

\* In the end every task was answered or has failed, and every signal was handled,
\* though a dialog may stay open for ever.
AllHandled ==
  <>[](\/ ui = "crashed"
       \/ events = <<>> /\ \A i \in DOMAIN tasks : tasks[i].pc \in {"done", "failed"})

\* "Skips erroneous data" (xdisk_gui.cpp:80): what has no place in the table leaves
\* nothing there, so every name in the table is of the listing shown.
RowsOfListing == shown # 0 => Range(table) \ {NoItem} \subseteq Split(shown)
===============================================================================
