------------------------------ MODULE XDirectory ------------------------------
(***************************************************************************)
(* The server's directory service: XFileServerTask::GetDir with            *)
(* GetDirData (src/src/xcom/xtools.cpp), and where the files of Upload and *)
(* Download are looked up (src/src/xdisk_server/xfile_server_task.cpp).    *)
(* Each connection has one task and makes one request, as xdisk's client   *)
(* does; tasks live in the pool's threads, which run side by side.  They   *)
(* share the static cur_dir_, the working directory of the process, its    *)
(* file descriptors and the files.                                         *)
(*                                                                         *)
(* A path is [abs, names]: absolute or not, and its components; whether it *)
(* ends with a slash makes no difference to the system.  How the bytes of  *)
(* a transfer get there is the subject of XUpload.                         *)
(***************************************************************************)
EXTENDS Integers, Sequences, SequencesExt, FiniteSets

CONSTANTS
  Conns,       \* the connections
  ThreadOf,    \* the pool's thread of each connection's task
  Requests,    \* what a client may ask for, see Ask
  Dirs,        \* the directories there are, each the names from the root
  Files,       \* the files at the start: from their names to their lengths
  StartDir,    \* the directory in which the server was started
  MaxFds,      \* how many descriptors may be open for directories and files
  Builds       \* the branches of GetDirData, "posix" and "win32"

Ask == [kind : {"list", "upload", "download"}, path : [abs : BOOLEAN,
        names : Seq(STRING)], name : STRING, size : Nat]

\* Every file is in a directory, and is none.
ASSUME DirectoryAssumption ==
  /\ ThreadOf \in [Conns -> Nat] /\ {"old", "zero"} \cap Conns = {}
  /\ Dirs \subseteq Seq(STRING) /\ StartDir \in Dirs /\ MaxFds \in Nat
  /\ Files \in [DOMAIN Files -> Nat] /\ DOMAIN Files \subseteq Seq(STRING)
  /\ DOMAIN Files \cap Dirs = {} /\ \A p \in DOMAIN Files : Front(p) \in Dirs
  /\ Requests \subseteq Ask /\ Builds \subseteq {"posix", "win32"}

VARIABLES
  build,     \* how the server was compiled
  req,       \* per connection, the request
  pc,        \* per connection, where its task is
  local,     \* per connection, the variables of the task and of GetDirData
  answer,    \* per connection, the messages the server has written
  cur_dir_,  \* the static: root of the last MSG_GETDIR
  cwd,       \* working directory of the process
  fds,       \* number of descriptors open for directories and files
  files      \* from names to contents, each byte named by who wrote it

given == <<build, req>>
vars  == <<given, pc, local, answer, cur_dir_, cwd, fds, files>>

Here == [abs |-> FALSE, names |-> <<>>]     \* "./"

\* What the system makes of a path, and where an entry of a directory is.
Resolve(path) == IF path.abs THEN path.names ELSE cwd \o path.names
Entries(dir)  == {p \in Dirs \cup DOMAIN files : p # <<>> /\ Front(p) = dir}

\* cur_dir() + filename.  The client cuts the name off in front of its last '/'
\* (xupload_task.cpp:69-74), so the name begins with one and is a component of its own.
FileIn(path, name) == [path EXCEPT !.names = Append(@, name)]

\* A thread calls one callback at a time; between two pieces of a file, and once
\* it is done, a task lets others run.
Resting       == {"idle", "receiving", "sending", "done", "closed"}
ThreadFree(c) == \A d \in Conns : ThreadOf[d] = ThreadOf[c] => pc[d] \in Resting

Nowhere == <<"nowhere">>
Unread  == [isDir |-> FALSE, size |-> -1]    \* an uninitialised struct stat
NoLocal == [path |-> Here, dir |-> Nowhere, owed |-> {}, seen |-> {},
            statbuf |-> Unread, data |-> {}, recv_size |-> 0, flushed |-> 0]

TypeOK ==
  /\ pc \in [Conns -> Resting \cup {"opendir", "chdir", "readdir", "reply", "open"}]
  /\ \A c \in Conns :
       /\ req[c] \in Requests
       /\ local[c].dir \in Dirs \cup DOMAIN files \cup {Nowhere}
       /\ local[c].seen \subseteq Dirs \cup DOMAIN files
       /\ local[c].flushed <= local[c].recv_size /\ local[c].recv_size <= req[c].size
       /\ Len(answer[c]) <= 2
  /\ cwd \in Dirs /\ fds \in 0 .. MaxFds
  /\ \A p \in DOMAIN files : Front(p) \in Dirs

Init ==
  /\ build \in Builds /\ req \in [Conns -> Requests]
  /\ pc = [c \in Conns |-> "idle"]
  /\ local = [c \in Conns |-> NoLocal]
  /\ answer = [c \in Conns |-> <<>>]
  /\ cur_dir_ = Here /\ cwd = StartDir
  /\ fds = 0
  /\ files = [p \in DOMAIN Files |-> [k \in 1 .. Files[p] |-> "old"]]

Write(c, msg) == answer' = [answer EXCEPT ![c] = Append(@, msg)]
Goto(c, l)    == pc' = [pc EXCEPT ![c] = l]
--------------------------------------------------------------------------------
(* MSG_GETDIR. *)

\* GetDir that does not set cur_dir_.
GetDirNoSet(c) ==
  /\ pc[c] = "idle" /\ req[c].kind = "list" /\ ThreadFree(c)
  /\ local' = [local EXCEPT ![c].path = req[c].path]
  /\ Goto(c, "opendir")
  /\ UNCHANGED <<given, answer, cur_dir_, cwd, fds, files>>

\* XFileServerTask::GetDir up to set_cur_dir, which takes its mutex for the
\* assignment only.  (An empty root is replaced by "./".)
GetDir(c) ==
  /\ pc[c] = "idle" /\ req[c].kind = "list" /\ ThreadFree(c)
  /\ local' = [local EXCEPT ![c].path = req[c].path]
  /\ cur_dir_' = req[c].path
  /\ Goto(c, "opendir")
  /\ UNCHANGED <<given, answer, cwd, fds, files>>

\* GetDirData that goes on without a directory stream.
OpenDirUnchecked(c) ==
  /\ pc[c] = "opendir"
  /\ local' = [local EXCEPT ![c].dir = Resolve(local[c].path)]
  /\ fds' = fds + 1
  /\ Goto(c, "chdir")
  /\ UNCHANGED <<given, answer, cur_dir_, cwd, files>>

\* GetDirData: opendir, whose directory stream is never closed.
OpenDir(c) ==
  /\ pc[c] = "opendir" /\ build = "posix"
  /\ LET dir == Resolve(local[c].path) IN
     IF dir \in Dirs /\ fds < MaxFds
     THEN /\ local' = [local EXCEPT ![c].dir = dir, ![c].owed = Entries(dir)]
          /\ fds' = fds + 1
          /\ Goto(c, "chdir")
     ELSE Goto(c, "reply") /\ UNCHANGED <<local, fds>>
  /\ UNCHANGED <<given, answer, cur_dir_, cwd, files>>

\* GetDirData without chdir.
ChDirSkipped(c) ==
  /\ pc[c] = "chdir"
  /\ Goto(c, "readdir")
  /\ UNCHANGED <<given, local, answer, cur_dir_, cwd, fds, files>>

\* GetDirData: chdir, by the path again and for the whole process; a failure is
\* not noticed.
ChDir(c) ==
  /\ pc[c] = "chdir"
  /\ LET dir == Resolve(local[c].path) IN cwd' = IF dir \in Dirs THEN dir ELSE cwd
  /\ Goto(c, "readdir")
  /\ UNCHANGED <<given, local, answer, cur_dir_, fds, files>>

\* GetDirData: readdir gives the next entry, one that came meanwhile or not, and
\* lstat looks its name up in the working directory.  When there is none of that
\* name the struct stat keeps what was in it.  "." and ".." are directories in every
\* working directory.
ReadDir(c) ==
  /\ pc[c] = "readdir" /\ build = "posix"
  /\ \/ /\ local[c].owed \subseteq local[c].seen
        /\ Goto(c, "reply") /\ UNCHANGED local
     \/ /\ local' = [local EXCEPT ![c].statbuf = [isDir |-> TRUE, size |-> 0]]
        /\ UNCHANGED pc
     \/ \E p \in Entries(local[c].dir) \ local[c].seen :
          LET found == Append(cwd, Last(p))
              stat  == IF found \in Dirs THEN [isDir |-> TRUE, size |-> 0]
                       ELSE IF found \in DOMAIN files
                            THEN [isDir |-> FALSE, size |-> Len(files[found])]
                            ELSE local[c].statbuf
          IN
          /\ \E isDir \in IF stat = Unread THEN BOOLEAN ELSE {stat.isDir} :
               local' = [local EXCEPT
                 ![c].seen = @ \cup {p}, ![c].statbuf = stat,
                 ![c].data = IF isDir THEN @ ELSE @ \cup {<<Last(p), stat.size>>}]
          /\ UNCHANGED pc
  /\ UNCHANGED <<given, answer, cur_dir_, cwd, fds, files>>

\* GetDirData with _findfirst, whose handle is never closed; handles are not
\* descriptors, and the working directory stays.
FindFirst(c) ==
  /\ pc[c] = "opendir" /\ build = "win32"
  /\ LET dir == Resolve(local[c].path) IN
     IF dir \in Dirs
     THEN local' = [local EXCEPT ![c].dir = dir, ![c].owed = Entries(dir)] /\ Goto(c, "readdir")
     ELSE Goto(c, "reply") /\ UNCHANGED local
  /\ UNCHANGED <<given, answer, cur_dir_, cwd, fds, files>>

\* GetDirData: _findnext gives an entry with its attributes and its size.
FindNext(c) ==
  /\ pc[c] = "readdir" /\ build = "win32"
  /\ \/ /\ local[c].owed \subseteq local[c].seen
        /\ Goto(c, "reply") /\ UNCHANGED local
     \/ \E p \in Entries(local[c].dir) \ local[c].seen :
          /\ local' = [local EXCEPT
               ![c].seen = @ \cup {p},
               ![c].data = IF p \in Dirs THEN @ ELSE @ \cup {<<Last(p), Len(files[p])>>}]
          /\ UNCHANGED pc
  /\ UNCHANGED <<given, answer, cur_dir_, cwd, fds, files>>

\* GetDir that does not answer with an empty list.
ReplyUnlessEmpty(c) ==
  /\ pc[c] = "reply" /\ Goto(c, "done")
  /\ IF local[c].data = {} THEN UNCHANGED answer
     ELSE Write(c, [type |-> "DIRLIST", data |-> local[c].data])
  /\ UNCHANGED <<given, local, cur_dir_, cwd, fds, files>>

\* GetDir: the list, be it empty, is the answer.
Reply(c) ==
  /\ pc[c] = "reply" /\ Goto(c, "done")
  /\ Write(c, [type |-> "DIRLIST", data |-> local[c].data])
  /\ UNCHANGED <<given, local, cur_dir_, cwd, fds, files>>
--------------------------------------------------------------------------------
(* MSG_UPLOAD_INFO and the file behind it. *)

\* Upload, up to the path, with the directory that was listed last by anyone.  An
\* empty file is refused, without an answer.
Upload(c) ==
  /\ pc[c] = "idle" /\ req[c].kind = "upload" /\ ThreadFree(c)
  /\ IF req[c].size = 0 THEN Goto(c, "done") /\ UNCHANGED local
     ELSE /\ local' = [local EXCEPT ![c].path = FileIn(cur_dir_, req[c].name)]
          /\ Goto(c, "open")
  /\ UNCHANGED <<given, answer, cur_dir_, cwd, fds, files>>

\* Upload that keeps what the file held.
UploadOpenKeeps(c) ==
  /\ pc[c] = "open" /\ req[c].kind = "upload"
  /\ LET p == Resolve(local[c].path) IN
     IF Front(p) \in Dirs /\ p \notin Dirs /\ fds < MaxFds
     THEN /\ files' = IF p \in DOMAIN files THEN files
                      ELSE [q \in DOMAIN files \cup {p} |-> IF q = p THEN <<>> ELSE files[q]]
          /\ local' = [local EXCEPT ![c].dir = p]
          /\ fds' = fds + 1
          /\ Write(c, [type |-> "UPLOAD_ACCEPT"])
          /\ Goto(c, "receiving")
     ELSE Goto(c, "done") /\ UNCHANGED <<files, local, fds, answer>>
  /\ UNCHANGED <<given, cur_dir_, cwd>>

\* Upload: the file is opened, and emptied; without one there is no answer.
UploadOpen(c) ==
  /\ pc[c] = "open" /\ req[c].kind = "upload"
  /\ LET p == Resolve(local[c].path) IN
     IF Front(p) \in Dirs /\ p \notin Dirs /\ fds < MaxFds
     THEN /\ files' = [q \in DOMAIN files \cup {p} |-> IF q = p THEN <<>> ELSE files[q]]
          /\ local' = [local EXCEPT ![c].dir = p]
          /\ fds' = fds + 1
          /\ Write(c, [type |-> "UPLOAD_ACCEPT"])
          /\ Goto(c, "receiving")
     ELSE Goto(c, "done") /\ UNCHANGED <<files, local, fds, answer>>
  /\ UNCHANGED <<given, cur_dir_, cwd>>

\* A file after c's stream wrote its bytes from + 1 .. to, each at its place; a
\* place nobody wrote holds a zero.
Written(content, from, to, c) ==
  IF from = to THEN content
  ELSE LET len == IF to > Len(content) THEN to ELSE Len(content) IN
       [k \in 1 .. len |-> IF k \in from + 1 .. to THEN c
                           ELSE IF k <= Len(content) THEN content[k] ELSE "zero"]

\* The raw ReadCB takes the next piece; how much of it the stream passes on to the
\* file is the stream's affair, until close() passes on the rest.
Receive(c) ==
  /\ pc[c] = "receiving" /\ ThreadFree(c)
  /\ LET recv == local[c].recv_size + 1
         p    == local[c].dir
     IN
     \E flushed \in IF recv = req[c].size THEN {recv} ELSE local[c].flushed .. recv :
       /\ files' = [files EXCEPT ![p] = Written(@, local[c].flushed, flushed, c)]
       /\ local' = [local EXCEPT ![c].recv_size = recv, ![c].flushed = flushed]
       /\ IF recv = req[c].size
          THEN /\ Goto(c, "done") /\ fds' = fds - 1
               /\ Write(c, [type |-> "UPLOAD_COMPLETE"])
          ELSE UNCHANGED <<pc, fds, answer>>
  /\ UNCHANGED <<given, cur_dir_, cwd>>

\* EventCB before or in the middle of a transfer: Close, which leaves its file open.
Break(c) ==
  /\ pc[c] \in {"idle", "receiving", "sending"} /\ ThreadFree(c)
  /\ Goto(c, "closed")
  /\ UNCHANGED <<given, local, answer, cur_dir_, cwd, fds, files>>
--------------------------------------------------------------------------------
(* MSG_DOWNLOAD_INFO. *)

\* Download: the path is the client's, looked up in the working directory; the
\* file stays open for the transfer.
Download(c) ==
  /\ pc[c] = "idle" /\ req[c].kind = "download" /\ ThreadFree(c)
  /\ LET p == Resolve(req[c].path) IN
     IF p \in DOMAIN files /\ fds < MaxFds
     THEN /\ local' = [local EXCEPT ![c].dir = p]
          /\ fds' = fds + 1
          /\ Write(c, [type |-> "DOWNLOAD_ACCEPT", size |-> Len(files[p])])
          /\ Goto(c, "sending")
     ELSE Goto(c, "done") /\ UNCHANGED <<local, fds, answer>>
  /\ UNCHANGED <<given, cur_dir_, cwd, files>>

\* WriteCB at the end of the file: close.
WriteCB(c) ==
  /\ pc[c] = "sending" /\ ThreadFree(c)
  /\ Goto(c, "done") /\ fds' = fds - 1
  /\ UNCHANGED <<given, local, answer, cur_dir_, cwd, files>>
--------------------------------------------------------------------------------
ListStep(c) == \/ GetDir(c) \/ Reply(c)
               \/ OpenDir(c) \/ ChDir(c) \/ ReadDir(c)
               \/ FindFirst(c) \/ FindNext(c)
Step(c) == \/ ListStep(c)
           \/ Upload(c) \/ UploadOpen(c) \/ Receive(c)
           \/ Download(c) \/ WriteCB(c)

Next == \E c \in Conns : Step(c) \/ Break(c)

\* Every thread goes on, and serves all its connections.
Fairness == \A c \in Conns : WF_vars(Step(c))

Spec == Init /\ [][Next]_vars /\ Fairness
--------------------------------------------------------------------------------
Listers   == {c \in Conns : req[c].kind = "list"}
Uploaders == {c \in Conns : req[c].kind = "upload"}

\* The directory a client means, whose paths start where the server does, and
\* whether its listing is undisturbed: no other, or only ones of the same
\* absolute path.
Asked(c)  == IF req[c].path.abs THEN req[c].path.names ELSE StartDir \o req[c].path.names
Agreed(c) == \A d \in Listers \ {c} : req[c].path.abs /\ req[d].path = req[c].path

\* "Get the list of files under the directory" (xdisk_client.h:21).  If the
\* clients agree on the directory, or without chdir, a listing that found it has
\* every file that was there, nothing that is not a file there, and true sizes -
\* while files are uploaded, and though chdir, readdir and lstat of several
\* threads interleave.
ListingRight ==
  \A c \in Listers : (Agreed(c) \/ build = "win32") /\ answer[c] # <<>> /\ local[c].dir # Nowhere =>
    LET list == answer[c][1].data
        at(e) == Append(Asked(c), e[1])
    IN
    /\ local[c].dir = Asked(c)
    /\ local[c].owed \ Dirs \subseteq {at(e) : e \in list}
    /\ \A e \in list :
         /\ at(e) \in DOMAIN files /\ e[2] >= 0
         /\ (\A k \in DOMAIN files[at(e)] : files[at(e)][k] = "old") /\ files[at(e)] # <<>>
              => e[2] = Len(files[at(e)])

\* The listings that were begun, answered or not.
Begun == {e \in Listers : pc[e] \notin {"idle", "closed"}}

\* Whatever directories clients list, an upload is taken as a whole for one of them,
\* by its path and by the name the client gave: never for "./" once a listing was
\* begun, since set_cur_dir comes before the answer (xfile_server_task.cpp:94), nor
\* for a mixture of two.  And between the path and the open no chdir leads it
\* elsewhere (xfile_server_task.cpp:138-140, xtools.cpp:49), if paths are absolute
\* or nobody calls chdir: the file is then in a directory listed, or in the one
\* the server was started in.
UploadFollowsListing ==
  [][\A c \in Uploaders :
       /\ pc[c] = "idle" /\ pc'[c] = "open" /\ Begun # {} =>
            \E e \in Begun : local'[c].path = FileIn(req[e].path, req[c].name)
       /\ /\ pc[c] = "open" /\ pc'[c] = "receiving"
          /\ build = "win32" \/ \A e \in Begun : req[e].path.abs
          => /\ Last(local'[c].dir) = req[c].name
             /\ Front(local'[c].dir) \in {StartDir} \cup {Asked(e) : e \in Begun}]_vars

\* UPLOAD_COMPLETE, "the server has finished receiving the file" (xmsg.h:22), is
\* written when the file on the disk is what the client sent, whatever was there
\* before and whatever is listed meanwhile - if nobody else uploads to that file.
CompleteMeansOnDisk ==
  \A c \in Uploaders :
    /\ pc[c] = "done" /\ answer[c] # <<>>
    /\ \A d \in Uploaders \ {c} : local[d].dir # local[c].dir
    => files[local[c].dir] = [k \in 1 .. req[c].size |-> c]

\* Every MSG_GETDIR is answered, by an empty list if need be: also for a directory
\* that is not there, and when the descriptors are used up.
EveryListingAnswered ==
  \A c \in Conns : req[c].kind = "list" ~> (answer[c] # <<>> \/ pc[c] = "closed")

\* "Get the list of files under the directory" (xdisk_client.h:21): a listing of a
\* directory that is there is of that directory.
ListsWhatIsAsked ==
  \A c \in Listers : answer[c] # <<>> /\ Asked(c) \in Dirs /\ fds < MaxFds =>
    local[c].dir = Asked(c)
===============================================================================
