--------------------------- MODULE XDirectoryProofs ---------------------------
(***************************************************************************)
(* Theorems about the directory service, for every tree of directories and *)
(* files, all requests and any number of connections and threads, from     *)
(* [][Next]_vars alone: no fairness is used.                               *)
(***************************************************************************)
EXTENDS XDirectory, FiniteSetTheorems, SequenceTheorems, TLAPS

Paths    == [abs : BOOLEAN, names : Seq(STRING)]
Listed   == STRING \X Int
Locals   == [path : Paths, dir : Seq(STRING) \cup {Nowhere}, owed : SUBSET Seq(STRING),
             seen : SUBSET Seq(STRING), statbuf : [isDir : BOOLEAN, size : Int],
             data : SUBSET Listed, recv_size : Nat, flushed : Nat]
Messages == [type : {"DIRLIST"}, data : SUBSET Listed]
              \cup [type : {"UPLOAD_ACCEPT", "UPLOAD_COMPLETE"}]
              \cup [type : {"DOWNLOAD_ACCEPT"}, size : Nat]
Control  == Resting \cup {"opendir", "chdir", "readdir", "reply", "open"}
Contents == Seq(Conns \cup {"old", "zero"})

\* The files are in directories, and none has the name of one.
Tree ==
  /\ files \in [DOMAIN files -> Contents] /\ DOMAIN files \subseteq Seq(STRING)
  /\ DOMAIN files \cap Dirs = {} /\ \A p \in DOMAIN files : Front(p) \in Dirs

TypeInv ==
  /\ build \in Builds /\ req \in [Conns -> Requests]
  /\ pc \in [Conns -> Control] /\ local \in [Conns -> Locals]
  /\ answer \in [Conns -> Seq(Messages)]
  /\ cur_dir_ \in {Here} \cup {r.path : r \in Requests}
  /\ cwd \in Dirs /\ fds \in Int
  /\ Tree

\* What a connection's task does is what its request asks for.
Kept(c) ==
  /\ req[c].kind = "list" => pc[c] \notin {"open", "receiving", "sending"}
  /\ req[c].kind = "upload" => pc[c] \in {"idle", "open", "receiving", "done", "closed"}
  /\ req[c].kind = "download" => pc[c] \in {"idle", "sending", "done", "closed"}
  /\ pc[c] = "idle" => local[c] = NoLocal
  /\ pc[c] = "opendir" => local[c].dir = Nowhere
  /\ pc[c] \in {"receiving", "sending"} => Len(answer[c]) = 1
  /\ pc[c] \notin {"receiving", "sending", "done", "closed"} => answer[c] = <<>>
  /\ Len(answer[c]) <= 2
  /\ local[c].flushed <= local[c].recv_size /\ local[c].recv_size <= req[c].size
  /\ pc[c] = "receiving" => local[c].recv_size < req[c].size
  /\ pc[c] = "open" => req[c].size > 0 /\ local[c].recv_size = 0 /\ local[c].flushed = 0
  /\ local[c].dir \in Dirs \cup DOMAIN files \cup {Nowhere}
  /\ local[c].seen \subseteq Dirs \cup DOMAIN files

\* A transfer that goes on has a descriptor.
Transfers == {c \in Conns : pc[c] \in {"receiving", "sending"}}
Counted   == IsFiniteSet(Transfers) /\ Cardinality(Transfers) <= fds /\ fds <= MaxFds

\* A file of which something is left from before the server was started.  Nobody
\* writes to such a file: opening empties it.
Fresh(p) == \E k \in DOMAIN files[p] : files[p][k] = "old"

\* What an accepted upload has passed on to the file is in it, and nothing else,
\* unless another one was accepted for the same file.
Alone(c) == \A d \in Uploaders \ {c} : answer[d] # <<>> => local[d].dir # local[c].dir
Stored(c) ==
  answer[c] # <<>> =>
    /\ local[c].dir \in DOMAIN files /\ ~Fresh(local[c].dir)
    /\ Alone(c) => files[local[c].dir] = [k \in 1 .. local[c].flushed |-> c]
    /\ pc[c] = "done" => local[c].flushed = req[c].size

\* The directory set last is that of a listing, once one was begun; a path that is
\* to be opened is of a file in such a directory, or in the one set at the start.
Announced ==
  IF Begun = {} THEN cur_dir_ = Here ELSE \E e \in Begun : cur_dir_ = req[e].path
Known    == {Here} \cup {req[e].path : e \in Begun}
Aimed(c) == pc[c] = "open" => \E x \in Known : local[c].path = FileIn(x, req[c].name)

\* The working directory is where the server was started, or was listed.
Working ==
  /\ build = "win32" => cwd = StartDir
  /\ (\A e \in Begun : req[e].path.abs) => cwd \in {StartDir} \cup {Asked(e) : e \in Begun}

\* A listing in the making, if it is undisturbed: the working directory is the one
\* a relative path was meant from, then the one that is read.
Straight(c) == Agreed(c) \/ build = "win32"
Meant(c) ==
  /\ build = "win32" => cwd = StartDir /\ pc[c] # "chdir"
  /\ ~req[c].path.abs /\ pc[c] \in {"idle", "opendir", "chdir"} => cwd = StartDir
  /\ local[c].dir # Nowhere => local[c].dir = Asked(c)
  /\ pc[c] \in {"chdir", "readdir"} => local[c].dir = Asked(c) /\ Asked(c) \in Dirs
  /\ pc[c] = "readdir" /\ build = "posix" => cwd = Asked(c)
Right(c) ==
  /\ \A p \in local[c].owed : Front(p) = Asked(c) /\ p # <<>>
  /\ \A p \in local[c].seen \ Dirs : \E e \in local[c].data : Append(Asked(c), e[1]) = p
  /\ \A e \in local[c].data :
       LET p == Append(Asked(c), e[1]) IN
       p \in DOMAIN files /\ e[2] >= 0 /\ (Fresh(p) => e[2] = Len(files[p]))
  /\ pc[c] \in {"reply", "done"} /\ local[c].dir # Nowhere => local[c].owed \subseteq local[c].seen
Listing(c) ==
  /\ pc[c] \notin {"idle", "closed"} => local[c].path = req[c].path
  /\ answer[c] # <<>> =>
       /\ pc[c] = "done"
       /\ answer[c] = << [type |-> "DIRLIST", data |-> local[c].data] >>
  /\ Straight(c) => Meant(c) /\ Right(c)

DirInv ==
  /\ TypeInv /\ Counted /\ Announced /\ Working
  /\ \A c \in Conns : Kept(c)
  /\ \A c \in Uploaders : Stored(c) /\ Aimed(c)
  /\ \A c \in Listers : Listing(c)
--------------------------------------------------------------------------------
(* What the operators of the model do. *)

\* A sequence that is not empty is its front with its last element behind it.
LEMMA Ends ==
  ASSUME NEW S, NEW p \in Seq(S), p # <<>>
  PROVE  Front(p) \in Seq(S) /\ Last(p) \in S /\ p = Append(Front(p), Last(p))
<1>1. Len(p) \in Nat \ {0} /\ p \in [1 .. Len(p) -> S]
  OBVIOUS
<1>2. Front(p) = [k \in 1 .. Len(p) - 1 |-> p[k]]
  BY <1>1 DEF Front
<1> QED
  BY <1>1, <1>2 DEF Last

LEMMA EndsOfAppend ==
  ASSUME NEW S, NEW s \in Seq(S), NEW x \in S
  PROVE  Append(s, x) \in Seq(S) /\ Front(Append(s, x)) = s /\ Last(Append(s, x)) = x
<1>1. Len(s) \in Nat /\ Len(Append(s, x)) = Len(s) + 1 /\ Append(s, x) \in Seq(S)
  OBVIOUS
<1>2. Front(Append(s, x)) = [k \in 1 .. Len(s) |-> Append(s, x)[k]]
  BY <1>1 DEF Front
<1> QED
  BY <1>1, <1>2 DEF Last

LEMMA NotEmpty == \A s : Len(s) = 1 => s # <<>>
<1>1. Len(<<>>) # 1
  OBVIOUS
<1> QED
  BY <1>1, Zenon

LEMMA Constants ==
  /\ Requests \subseteq Ask /\ Builds \subseteq {"posix", "win32"}
  /\ Dirs \subseteq Seq(STRING) /\ StartDir \in Seq(STRING)
  /\ Here \in Paths /\ Here.abs = FALSE /\ Here.names = <<>>
  /\ \A r \in Requests : r \in Ask /\ r.path \in Paths
<1>1. Requests \subseteq Ask /\ Dirs \subseteq Seq(STRING) /\ StartDir \in Dirs
      /\ Builds \subseteq {"posix", "win32"}
  BY DirectoryAssumption
<1>2. \A r \in Ask : r.path \in Paths
  BY DEF Ask, Paths
<1>3. Here \in Paths /\ Here.abs = FALSE /\ Here.names = <<>>
  <2>1. <<>> \in Seq(STRING)
    OBVIOUS
  <2>2. Here \in Paths
    BY <2>1, Zenon DEF Here, Paths
  <2> QED
    BY <2>2 DEF Here
<1>4. StartDir \in Seq(STRING) /\ \A r \in Requests : r \in Ask /\ r.path \in Paths
  BY <1>1, <1>2
<1> QED
  BY <1>1, <1>3, <1>4

LEMMA ResolveType ==
  ASSUME TypeInv, NEW path \in Paths
  PROVE  Resolve(path) \in Seq(STRING)
<1>1. path.names \in Seq(STRING) /\ cwd \in Seq(STRING)
  BY Constants DEF TypeInv, Paths
<1>2. cwd \o path.names \in Seq(STRING)
  BY <1>1
<1> QED
  BY <1>1, <1>2 DEF Resolve

LEMMA FileInType ==
  ASSUME NEW path \in Paths, NEW q \in Requests
  PROVE  /\ FileIn(path, q.name) \in Paths /\ FileIn(path, q.name).abs = path.abs
         /\ FileIn(path, q.name).names = Append(path.names, q.name)
<1>1. q.name \in STRING
  BY Constants DEF Ask
<1>2. Append(path.names, q.name) \in Seq(STRING)
  BY <1>1 DEF Paths
<1> QED
  BY <1>1, <1>2 DEF FileIn, Paths

LEMMA EntriesType ==
  ASSUME TypeInv, NEW dir
  PROVE  \A p \in Entries(dir) : p \in Seq(STRING) /\ p \in Dirs \cup DOMAIN files
                                 /\ Last(p) \in STRING
BY Constants, Ends DEF TypeInv, Tree, Entries

\* What a stream that has passed on the bytes to from leaves in the file.
LEMMA WrittenType ==
  ASSUME NEW content \in Contents, NEW from \in Nat, NEW to \in Nat, from <= to, NEW c \in Conns
  PROVE  Written(content, from, to, c) \in Contents
<1>1. CASE from = to
  BY <1>1 DEF Written
<1>2. CASE from # to
  <2> DEFINE len == IF to > Len(content) THEN to ELSE Len(content)
             f   == [k \in 1 .. len |-> IF k \in from + 1 .. to THEN c
                           ELSE IF k <= Len(content) THEN content[k] ELSE "zero"]
  <2>1. len \in Nat /\ Len(content) \in Nat
    BY DEF Contents
  <2>2. \A k \in 1 .. len : f[k] \in Conns \cup {"old", "zero"}
    BY <2>1 DEF Contents
  <2>3. f \in [1 .. len -> Conns \cup {"old", "zero"}]
    BY <2>2
  <2>4. f \in Seq(Conns \cup {"old", "zero"})
    BY <2>1, <2>3
  <2> QED
    BY <1>2, <2>4 DEF Written, Contents
<1> QED
  BY <1>1, <1>2

\* The step of one task changes its own entry of a function, and keeps the type.
LEMMA Update ==
  ASSUME NEW S, NEW f \in [Conns -> S], NEW c \in Conns, NEW x \in S
  PROVE  /\ [f EXCEPT ![c] = x] \in [Conns -> S] /\ [f EXCEPT ![c] = x][c] = x
         /\ \A d \in Conns \ {c} : [f EXCEPT ![c] = x][d] = f[d]
OBVIOUS

Frame(c) == \A d \in Conns \ {c} : pc'[d] = pc[d] /\ local'[d] = local[d] /\ answer'[d] = answer[d]
--------------------------------------------------------------------------------
(* The types, and what a step leaves alone. *)

LEMMA GetDirType == ASSUME TypeInv, NEW c \in Conns, GetDir(c) PROVE TypeInv' /\ Frame(c)
<1> DEFINE l == [local[c] EXCEPT !.path = req[c].path]
<1>1. req[c] \in Requests /\ req[c].path \in Paths /\ local[c] \in Locals
  BY Constants DEF TypeInv
<1>2. l \in Locals /\ local' = [local EXCEPT ![c] = l] /\ pc' = [pc EXCEPT ![c] = "opendir"]
  BY <1>1 DEF GetDir, Goto, Locals
<1>3. local' \in [Conns -> Locals] /\ pc' \in [Conns -> Control] /\ Frame(c)
  BY <1>2, Update DEF TypeInv, GetDir, Frame, Control
<1> QED
  BY <1>1, <1>3 DEF TypeInv, GetDir, given, Tree

LEMMA ReplyType == ASSUME TypeInv, NEW c \in Conns, Reply(c) PROVE TypeInv' /\ Frame(c)
<1> DEFINE m == [type |-> "DIRLIST", data |-> local[c].data]
<1>1. Append(answer[c], m) \in Seq(Messages)
  BY DEF TypeInv, Locals, Messages
<1>2. answer' = [answer EXCEPT ![c] = Append(answer[c], m)] /\ pc' = [pc EXCEPT ![c] = "done"]
  BY DEF Reply, Write, Goto
<1>3. answer' \in [Conns -> Seq(Messages)] /\ pc' \in [Conns -> Control] /\ Frame(c)
  BY <1>1, <1>2, Update DEF TypeInv, Reply, Frame, Control, Resting
<1> QED
  BY <1>3 DEF TypeInv, Reply, given, Tree

LEMMA OpenDirType == ASSUME TypeInv, NEW c \in Conns, OpenDir(c) PROVE TypeInv' /\ Frame(c)
<1> DEFINE dir == Resolve(local[c].path)
           l   == [local[c] EXCEPT !.dir = dir, !.owed = Entries(dir)]
<1>1. l \in Locals
  <2>1. local[c] \in Locals /\ local[c].path \in Paths
    BY DEF TypeInv, Locals
  <2>2. dir \in Seq(STRING) /\ Entries(dir) \in SUBSET Seq(STRING)
    BY <2>1, ResolveType, EntriesType
  <2> QED
    BY <2>1, <2>2, Zenon DEF Locals
<1>2. CASE dir \in Dirs /\ fds < MaxFds
  <2>1. /\ local' = [local EXCEPT ![c].dir = dir, ![c].owed = Entries(dir)]
        /\ fds' = fds + 1 /\ pc' = [pc EXCEPT ![c] = "chdir"]
    BY <1>2 DEF OpenDir, Goto
  <2>2. local' = [local EXCEPT ![c] = l]
    BY <2>1, Zenon DEF TypeInv
  <2>3. local' \in [Conns -> Locals] /\ pc' \in [Conns -> Control] /\ Frame(c)
    BY <1>1, <2>1, <2>2, Update DEF TypeInv, OpenDir, Frame, Control
  <2> QED
    BY <2>1, <2>3 DEF TypeInv, OpenDir, given, Tree
<1>3. CASE ~(dir \in Dirs /\ fds < MaxFds)
  <2>1. pc' = [pc EXCEPT ![c] = "reply"] /\ UNCHANGED <<local, fds>>
    BY <1>3 DEF OpenDir, Goto
  <2>2. pc' \in [Conns -> Control] /\ Frame(c)
    BY <2>1, Update DEF TypeInv, OpenDir, Frame, Control
  <2> QED
    BY <2>1, <2>2 DEF TypeInv, OpenDir, given, Tree
<1> QED
  BY <1>2, <1>3

LEMMA ChDirType == ASSUME TypeInv, NEW c \in Conns, ChDir(c) PROVE TypeInv' /\ Frame(c)
<1>1. pc' = [pc EXCEPT ![c] = "readdir"] /\ cwd' \in Dirs
  BY DEF ChDir, Goto, TypeInv
<1>2. pc' \in [Conns -> Control] /\ Frame(c)
  BY <1>1, Update DEF TypeInv, ChDir, Frame, Control
<1> QED
  BY <1>1, <1>2 DEF TypeInv, ChDir, given, Tree

\* What readdir and lstat, or _findnext, add to the variables of GetDirData.
Noted(c, p, stat, data) ==
  local' = [local EXCEPT ![c].seen = @ \cup {p}, ![c].statbuf = stat, ![c].data = data]
Stat(c, p) ==
  LET found == Append(cwd, Last(p)) IN
  IF found \in Dirs THEN [isDir |-> TRUE, size |-> 0]
  ELSE IF found \in DOMAIN files THEN [isDir |-> FALSE, size |-> Len(files[found])]
       ELSE local[c].statbuf
With(c, p, isDir, size) ==
  IF isDir THEN local[c].data ELSE local[c].data \cup {<< Last(p), size >>}
Dots(c) == local' = [local EXCEPT ![c].statbuf = [isDir |-> TRUE, size |-> 0]]

LEMMA ReadDirSteps ==
  ASSUME TypeInv, NEW c \in Conns, ReadDir(c)
  PROVE  /\ pc[c] = "readdir" /\ build = "posix"
         /\ UNCHANGED <<given, answer, cur_dir_, cwd, fds, files>>
         /\ \/ /\ local[c].owed \subseteq local[c].seen
               /\ pc' = [pc EXCEPT ![c] = "reply"] /\ UNCHANGED local
            \/ Dots(c) /\ UNCHANGED pc
            \/ \E p \in Entries(local[c].dir) \ local[c].seen, isDir \in BOOLEAN :
                 /\ Stat(c, p) = Unread \/ isDir = Stat(c, p).isDir
                 /\ Noted(c, p, Stat(c, p), With(c, p, isDir, Stat(c, p).size))
                 /\ UNCHANGED pc
<1>1. CASE local[c].owed \subseteq local[c].seen /\ Goto(c, "reply") /\ UNCHANGED local
  BY <1>1, Zenon DEF ReadDir, Goto
<1>2. ASSUME NEW p \in Entries(local[c].dir) \ local[c].seen,
             NEW isDir \in IF Stat(c, p) = Unread THEN BOOLEAN ELSE {Stat(c, p).isDir},
             Noted(c, p, Stat(c, p), With(c, p, isDir, Stat(c, p).size)), UNCHANGED pc
      PROVE  isDir \in BOOLEAN /\ (Stat(c, p) = Unread \/ isDir = Stat(c, p).isDir)
  <2>1. local[c].statbuf.isDir \in BOOLEAN
    BY DEF TypeInv, Locals
  <2>2. Stat(c, p).isDir \in BOOLEAN
    BY <2>1 DEF Stat
  <2> QED
    BY <1>2, <2>2
<1>3. \/ local[c].owed \subseteq local[c].seen /\ Goto(c, "reply") /\ UNCHANGED local
      \/ Dots(c) /\ UNCHANGED pc
      \/ \E p \in Entries(local[c].dir) \ local[c].seen :
           /\ \E isDir \in IF Stat(c, p) = Unread THEN BOOLEAN ELSE {Stat(c, p).isDir} :
                Noted(c, p, Stat(c, p), With(c, p, isDir, Stat(c, p).size))
           /\ UNCHANGED pc
  BY Zenon DEF ReadDir, Stat, With, Noted, Dots
<1>4. /\ pc[c] = "readdir" /\ build = "posix"
      /\ UNCHANGED <<given, answer, cur_dir_, cwd, fds, files>>
  BY Zenon DEF ReadDir
<1> QED
  BY <1>1, <1>2, <1>3, <1>4

\* What "." and ".." leave in the variables of GetDirData.
LEMMA DotsLocal ==
  ASSUME TypeInv, NEW c \in Conns, Dots(c)
  PROVE  \E l \in Locals :
           /\ local' = [local EXCEPT ![c] = l] /\ l.path = local[c].path /\ l.dir = local[c].dir
           /\ l.owed = local[c].owed /\ l.seen = local[c].seen /\ l.data = local[c].data
           /\ l.recv_size = local[c].recv_size /\ l.flushed = local[c].flushed
<1> DEFINE s == [isDir |-> TRUE, size |-> 0]
           l == [local[c] EXCEPT !.statbuf = s]
<1>1. local[c] \in Locals /\ s \in [isDir : BOOLEAN, size : Int]
  BY DEF TypeInv
<1>2. local' = [local EXCEPT ![c] = l]
  BY Zenon DEF Dots, TypeInv
<1> HIDE DEF s
<1>3. /\ l \in Locals /\ l.path = local[c].path /\ l.dir = local[c].dir
      /\ l.owed = local[c].owed /\ l.seen = local[c].seen /\ l.data = local[c].data
      /\ l.recv_size = local[c].recv_size /\ l.flushed = local[c].flushed
  BY <1>1 DEF Locals
<1> QED
  BY <1>2, <1>3

LEMMA ReadDirType == ASSUME TypeInv, NEW c \in Conns, ReadDir(c) PROVE TypeInv' /\ Frame(c)
<1>1. CASE pc' = [pc EXCEPT ![c] = "reply"] /\ UNCHANGED local
  <2>1. pc' \in [Conns -> Control] /\ Frame(c)
    BY <1>1, Update, ReadDirSteps DEF TypeInv, Frame, Control
  <2> QED
    BY <1>1, <2>1, ReadDirSteps DEF TypeInv, given, Tree
<1>2. ASSUME NEW p \in Entries(local[c].dir) \ local[c].seen, NEW isDir \in BOOLEAN,
             Noted(c, p, Stat(c, p), With(c, p, isDir, Stat(c, p).size)), UNCHANGED pc
      PROVE  TypeInv' /\ Frame(c)
  <2> DEFINE seen == local[c].seen \cup {p}
             data == With(c, p, isDir, Stat(c, p).size)
             l    == [local[c] EXCEPT !.seen = seen, !.statbuf = Stat(c, p), !.data = data]
  <2>1. local[c] \in Locals /\ p \in Seq(STRING) /\ Last(p) \in STRING
    BY EntriesType DEF TypeInv
  <2>2. seen \in SUBSET Seq(STRING)
    BY <2>1 DEF Locals
  <2>3. Stat(c, p) \in [isDir : BOOLEAN, size : Int]
    BY <2>1 DEF Stat, Locals, TypeInv, Tree, Contents
  <2>4. data \in SUBSET Listed
    BY <2>1, <2>3 DEF With, Locals, Listed
  <2>5. l \in Locals
    BY <2>1, <2>2, <2>3, <2>4, Zenon DEF Locals
  <2>6. local' = [local EXCEPT ![c] = l]
    BY <1>2, Zenon DEF TypeInv, Noted
  <2>7. local' \in [Conns -> Locals] /\ Frame(c)
    BY <1>2, <2>5, <2>6, Update, ReadDirSteps DEF TypeInv, Frame
  <2> QED
    BY <1>2, <2>7, ReadDirSteps DEF TypeInv, given, Tree
<1>3. CASE Dots(c) /\ UNCHANGED pc
  <2>1. PICK l \in Locals : local' = [local EXCEPT ![c] = l]
    BY <1>3, DotsLocal
  <2>2. local' \in [Conns -> Locals] /\ Frame(c)
    BY <1>3, <2>1, Update, ReadDirSteps DEF TypeInv, Frame
  <2> QED
    BY <1>3, <2>2, ReadDirSteps DEF TypeInv, given, Tree
<1> QED
  BY <1>1, <1>2, <1>3, ReadDirSteps

LEMMA FindFirstType == ASSUME TypeInv, NEW c \in Conns, FindFirst(c) PROVE TypeInv' /\ Frame(c)
<1> DEFINE dir == Resolve(local[c].path)
           l   == [local[c] EXCEPT !.dir = dir, !.owed = Entries(dir)]
<1>1. l \in Locals
  <2>1. local[c] \in Locals /\ local[c].path \in Paths
    BY DEF TypeInv, Locals
  <2>2. dir \in Seq(STRING) /\ Entries(dir) \in SUBSET Seq(STRING)
    BY <2>1, ResolveType, EntriesType
  <2> QED
    BY <2>1, <2>2, Zenon DEF Locals
<1>2. CASE dir \in Dirs
  <2>1. /\ local' = [local EXCEPT ![c].dir = dir, ![c].owed = Entries(dir)]
        /\ pc' = [pc EXCEPT ![c] = "readdir"]
    BY <1>2 DEF FindFirst, Goto
  <2>2. local' = [local EXCEPT ![c] = l]
    BY <2>1, Zenon DEF TypeInv
  <2>3. local' \in [Conns -> Locals] /\ pc' \in [Conns -> Control] /\ Frame(c)
    BY <1>1, <2>1, <2>2, Update DEF TypeInv, FindFirst, Frame, Control
  <2> QED
    BY <2>1, <2>3 DEF TypeInv, FindFirst, given, Tree
<1>3. CASE dir \notin Dirs
  <2>1. pc' = [pc EXCEPT ![c] = "reply"] /\ UNCHANGED local
    BY <1>3 DEF FindFirst, Goto
  <2>2. pc' \in [Conns -> Control] /\ Frame(c)
    BY <2>1, Update DEF TypeInv, FindFirst, Frame, Control
  <2> QED
    BY <2>1, <2>2 DEF TypeInv, FindFirst, given, Tree
<1> QED
  BY <1>2, <1>3

\* The size _findnext gives is that of the entry.
LEMMA FindNextSteps ==
  ASSUME TypeInv, NEW c \in Conns, FindNext(c)
  PROVE  /\ pc[c] = "readdir" /\ build = "win32"
         /\ UNCHANGED <<given, answer, cur_dir_, cwd, fds, files>>
         /\ \/ /\ local[c].owed \subseteq local[c].seen
               /\ pc' = [pc EXCEPT ![c] = "reply"] /\ UNCHANGED local
            \/ \E p \in Entries(local[c].dir) \ local[c].seen :
                 /\ Noted(c, p, local[c].statbuf, With(c, p, p \in Dirs, Len(files[p])))
                 /\ UNCHANGED pc
<1>1. /\ pc[c] = "readdir" /\ build = "win32"
      /\ UNCHANGED <<given, answer, cur_dir_, cwd, fds, files>>
  BY DEF FindNext
<1>2. CASE local[c].owed \subseteq local[c].seen /\ Goto(c, "reply") /\ UNCHANGED local
  BY <1>1, <1>2, Zenon DEF Goto
<1>3. ASSUME NEW p \in Entries(local[c].dir) \ local[c].seen,
             local' = [local EXCEPT
               ![c].seen = @ \cup {p},
               ![c].data = IF p \in Dirs THEN @ ELSE @ \cup {<<Last(p), Len(files[p])>>}]
      PROVE  Noted(c, p, local[c].statbuf, With(c, p, p \in Dirs, Len(files[p])))
  <2> DEFINE seen == local[c].seen \cup {p}
             data == With(c, p, p \in Dirs, Len(files[p]))
  <2>1. /\ local' = [local EXCEPT ![c] = [local[c] EXCEPT !.seen = seen, !.data = data]]
        /\ local \in [Conns -> Locals] /\ local[c] \in Locals
    BY <1>3, Zenon DEF With, TypeInv
  <2>2. [local[c] EXCEPT !.seen = seen, !.data = data]
          = [local[c] EXCEPT !.seen = seen, !.statbuf = local[c].statbuf, !.data = data]
    BY <2>1 DEF Locals
  <2> QED
    BY <2>1, <2>2, Zenon DEF Noted
<1> QED
  BY <1>1, <1>2, <1>3, Zenon DEF FindNext

LEMMA FindNextType == ASSUME TypeInv, NEW c \in Conns, FindNext(c) PROVE TypeInv' /\ Frame(c)
<1>1. CASE pc' = [pc EXCEPT ![c] = "reply"] /\ UNCHANGED local
  <2>1. pc' \in [Conns -> Control] /\ Frame(c)
    BY <1>1, Update, FindNextSteps DEF TypeInv, Frame, Control
  <2> QED
    BY <1>1, <2>1, FindNextSteps DEF TypeInv, given, Tree
<1>2. ASSUME NEW p \in Entries(local[c].dir) \ local[c].seen,
             Noted(c, p, local[c].statbuf, With(c, p, p \in Dirs, Len(files[p]))), UNCHANGED pc
      PROVE  TypeInv' /\ Frame(c)
  <2> DEFINE seen == local[c].seen \cup {p}
             data == With(c, p, p \in Dirs, Len(files[p]))
             l    == [local[c] EXCEPT !.seen = seen, !.statbuf = local[c].statbuf, !.data = data]
  <2>1. local[c] \in Locals /\ p \in Seq(STRING) /\ Last(p) \in STRING
    BY EntriesType DEF TypeInv
  <2>2. seen \in SUBSET Seq(STRING) /\ local[c].statbuf \in [isDir : BOOLEAN, size : Int]
    BY <2>1 DEF Locals
  <2>3. p \notin Dirs => Len(files[p]) \in Int
    BY EntriesType DEF TypeInv, Tree, Contents
  <2>4. data \in SUBSET Listed
    BY <2>1, <2>3 DEF With, Locals, Listed
  <2>5. l \in Locals
    BY <2>1, <2>2, <2>4, Zenon DEF Locals
  <2>6. local' = [local EXCEPT ![c] = l]
    BY <1>2, Zenon DEF TypeInv, Noted
  <2>7. local' \in [Conns -> Locals] /\ Frame(c)
    BY <1>2, <2>5, <2>6, Update, FindNextSteps DEF TypeInv, Frame
  <2> QED
    BY <1>2, <2>7, FindNextSteps DEF TypeInv, given, Tree
<1> QED
  BY <1>1, <1>2, FindNextSteps, Zenon

LEMMA UploadType == ASSUME TypeInv, NEW c \in Conns, Upload(c) PROVE TypeInv' /\ Frame(c)
<1> DEFINE l == [local[c] EXCEPT !.path = FileIn(cur_dir_, req[c].name)]
<1>1. l \in Locals
  <2>1. req[c] \in Requests /\ local[c] \in Locals
    BY DEF TypeInv
  <2>2. FileIn(cur_dir_, req[c].name) \in Paths
    BY <2>1, FileInType, Constants DEF TypeInv
  <2> QED
    BY <2>1, <2>2, Zenon DEF Locals
<1>2. \/ local' = [local EXCEPT ![c] = l] /\ pc' = [pc EXCEPT ![c] = "open"]
      \/ UNCHANGED local /\ pc' = [pc EXCEPT ![c] = "done"]
  BY Zenon DEF Upload, Goto
<1>3. local' \in [Conns -> Locals] /\ pc' \in [Conns -> Control] /\ Frame(c)
  <2>1. CASE local' = [local EXCEPT ![c] = l] /\ pc' = [pc EXCEPT ![c] = "open"]
    BY <1>1, <2>1, Update DEF TypeInv, Upload, Frame, Control
  <2>2. CASE UNCHANGED local /\ pc' = [pc EXCEPT ![c] = "done"]
    BY <2>2, Update DEF TypeInv, Upload, Frame, Control, Resting
  <2> QED
    BY <1>2, <2>1, <2>2
<1> QED
  BY <1>3 DEF TypeInv, Upload, given, Tree

\* The file is in a directory, is not one itself, and is empty.
LEMMA UploadOpenType == ASSUME TypeInv, NEW c \in Conns, UploadOpen(c) PROVE TypeInv' /\ Frame(c)
<1> DEFINE p == Resolve(local[c].path)
           l == [local[c] EXCEPT !.dir = p]
<1>1. CASE Front(p) \in Dirs /\ p \notin Dirs /\ fds < MaxFds
  <2>1. p \in Seq(STRING) /\ local[c] \in Locals
    BY ResolveType DEF TypeInv, Locals
  <2>2. /\ files' = [q \in DOMAIN files \cup {p} |-> IF q = p THEN <<>> ELSE files[q]]
        /\ local' = [local EXCEPT ![c] = l] /\ pc' = [pc EXCEPT ![c] = "receiving"]
        /\ answer' = [answer EXCEPT ![c] = Append(answer[c], [type |-> "UPLOAD_ACCEPT"])]
        /\ fds' = fds + 1 /\ UNCHANGED <<given, cur_dir_, cwd>>
    BY <1>1, Zenon DEF UploadOpen, Goto, Write
  <2>3. l \in Locals
    BY <2>1, Zenon DEF Locals
  <2>4. Append(answer[c], [type |-> "UPLOAD_ACCEPT"]) \in Seq(Messages)
    BY DEF TypeInv, Messages
  <2>5. /\ local' \in [Conns -> Locals] /\ pc' \in [Conns -> Control]
        /\ answer' \in [Conns -> Seq(Messages)] /\ Frame(c)
    BY <2>2, <2>3, <2>4, Update DEF TypeInv, Frame, Control, Resting
  <2>6. Tree'
    BY <1>1, <2>1, <2>2 DEF Tree, Contents, TypeInv
  <2> QED
    BY <2>2, <2>5, <2>6 DEF TypeInv, given
<1>2. CASE ~(Front(p) \in Dirs /\ p \notin Dirs /\ fds < MaxFds)
  <2>1. pc' = [pc EXCEPT ![c] = "done"] /\ UNCHANGED <<files, local, fds, answer>>
    BY <1>2, Zenon DEF UploadOpen, Goto
  <2>2. pc' \in [Conns -> Control] /\ Frame(c)
    BY <2>1, Update DEF TypeInv, Frame, Control, Resting
  <2> QED
    BY <2>1, <2>2 DEF TypeInv, UploadOpen, given, Tree
<1> QED
  BY <1>1, <1>2

\* The stream passes on the bytes from + 1 .. flushed.
Passes(c, flushed) ==
  LET recv == local[c].recv_size + 1
      from == local[c].flushed
      p    == local[c].dir
  IN
  /\ pc[c] = "receiving" /\ from \in Nat /\ recv \in Nat
  /\ recv = req[c].size => flushed = recv
  /\ recv # req[c].size => from <= flushed /\ flushed <= recv
  /\ UNCHANGED <<given, cur_dir_, cwd>>
  /\ files' = [files EXCEPT ![p] = Written(files[p], from, flushed, c)]
  /\ local' = [local EXCEPT ![c] = [local[c] EXCEPT !.recv_size = recv, !.flushed = flushed]]
  /\ IF recv = req[c].size
     THEN /\ pc' = [pc EXCEPT ![c] = "done"] /\ fds' = fds - 1
          /\ answer' = [answer EXCEPT ![c] = Append(answer[c], [type |-> "UPLOAD_COMPLETE"])]
     ELSE UNCHANGED <<pc, fds, answer>>

LEMMA ReceiveSteps ==
  ASSUME TypeInv, NEW c \in Conns, Receive(c)
  PROVE  \E flushed \in Nat : Passes(c, flushed)
<1> DEFINE recv == local[c].recv_size + 1
           from == local[c].flushed
           p    == local[c].dir
<1>1. from \in Nat /\ recv \in Nat /\ pc[c] = "receiving" /\ UNCHANGED <<given, cur_dir_, cwd>>
  BY DEF TypeInv, Locals, Receive
<1>2. PICK flushed \in IF recv = req[c].size THEN {recv} ELSE from .. recv :
        /\ files' = [files EXCEPT ![p] = Written(@, from, flushed, c)]
        /\ local' = [local EXCEPT ![c].recv_size = recv, ![c].flushed = flushed]
        /\ IF recv = req[c].size
           THEN /\ Goto(c, "done") /\ fds' = fds - 1
                /\ Write(c, [type |-> "UPLOAD_COMPLETE"])
           ELSE UNCHANGED <<pc, fds, answer>>
  BY Zenon DEF Receive
<1>3. /\ flushed \in Nat /\ (recv = req[c].size => flushed = recv)
      /\ (recv # req[c].size => from <= flushed /\ flushed <= recv)
  BY <1>1
<1>4. /\ files' = [files EXCEPT ![p] = Written(files[p], from, flushed, c)]
      /\ local' = [local EXCEPT ![c] = [local[c] EXCEPT !.recv_size = recv, !.flushed = flushed]]
      /\ IF recv = req[c].size
         THEN /\ pc' = [pc EXCEPT ![c] = "done"] /\ fds' = fds - 1
              /\ answer' = [answer EXCEPT ![c] = Append(answer[c], [type |-> "UPLOAD_COMPLETE"])]
         ELSE UNCHANGED <<pc, fds, answer>>
  BY <1>2, Zenon DEF Goto, Write
<1>5. Passes(c, flushed)
  BY <1>1, <1>3, <1>4, Zenon DEF Passes
<1> QED
  BY <1>3, <1>5

\* A stream has passed on no more than it was given.
LEMMA ReceiveType ==
  ASSUME TypeInv, NEW c \in Conns, local[c].flushed <= local[c].recv_size, Receive(c)
  PROVE  TypeInv' /\ Frame(c)
<1>1. PICK flushed \in Nat : Passes(c, flushed)
  BY ReceiveSteps
<1> DEFINE recv == local[c].recv_size + 1
           from == local[c].flushed
           p    == local[c].dir
           l    == [local[c] EXCEPT !.recv_size = recv, !.flushed = flushed]
<1>2. from \in Nat /\ recv \in Nat /\ from <= flushed /\ UNCHANGED <<given, cur_dir_, cwd>>
  <2>1. local[c].recv_size \in Nat
    BY DEF TypeInv, Locals
  <2> QED
    BY <1>1, <2>1 DEF Passes
<1>3. l \in Locals /\ local' = [local EXCEPT ![c] = l]
  <2>1. local[c] \in Locals
    BY DEF TypeInv
  <2> QED
    BY <1>1, <1>2, <2>1, Zenon DEF Passes, Locals
<1>4. local' \in [Conns -> Locals] /\ \A d \in Conns \ {c} : local'[d] = local[d]
  BY <1>3, Update DEF TypeInv
<1>5. Tree'
  <2>1. files' = [files EXCEPT ![p] = Written(files[p], from, flushed, c)]
    BY <1>1 DEF Passes
  <2>2. p \in DOMAIN files => Written(files[p], from, flushed, c) \in Contents
    BY <1>2, WrittenType DEF TypeInv, Tree
  <2> QED
    BY <2>1, <2>2 DEF Tree, TypeInv
<1>6. CASE recv = req[c].size
  <2>1. /\ pc' = [pc EXCEPT ![c] = "done"] /\ fds' = fds - 1
        /\ answer' = [answer EXCEPT ![c] = Append(answer[c], [type |-> "UPLOAD_COMPLETE"])]
    BY <1>1, <1>6 DEF Passes
  <2>2. Append(answer[c], [type |-> "UPLOAD_COMPLETE"]) \in Seq(Messages)
    BY DEF TypeInv, Messages
  <2>3. pc' \in [Conns -> Control] /\ answer' \in [Conns -> Seq(Messages)] /\ Frame(c)
    BY <1>4, <2>1, <2>2, Update DEF TypeInv, Frame, Control, Resting
  <2> QED
    BY <1>2, <1>4, <1>5, <2>1, <2>3 DEF TypeInv, given
<1>7. CASE recv # req[c].size
  <2>1. UNCHANGED <<pc, fds, answer>>
    BY <1>1, <1>7 DEF Passes
  <2> QED
    BY <1>2, <1>4, <1>5, <2>1 DEF TypeInv, given, Frame
<1> QED
  BY <1>6, <1>7

LEMMA DownloadType == ASSUME TypeInv, NEW c \in Conns, Download(c) PROVE TypeInv' /\ Frame(c)
<1> DEFINE p == Resolve(req[c].path)
           l == [local[c] EXCEPT !.dir = p]
           m == [type |-> "DOWNLOAD_ACCEPT", size |-> Len(files[p])]
<1>1. CASE p \in DOMAIN files /\ fds < MaxFds
  <2>1. /\ local' = [local EXCEPT ![c] = l] /\ pc' = [pc EXCEPT ![c] = "sending"]
        /\ answer' = [answer EXCEPT ![c] = Append(answer[c], m)]
        /\ fds' = fds + 1 /\ UNCHANGED <<given, cur_dir_, cwd, files>>
    BY <1>1, Zenon DEF Download, Goto, Write
  <2>2. l \in Locals
    <3>1. p \in Seq(STRING) /\ local[c] \in Locals
      BY <1>1 DEF TypeInv, Tree
    <3> QED
      BY <3>1, Zenon DEF Locals
  <2>3. Append(answer[c], m) \in Seq(Messages)
    <3>1. Len(files[p]) \in Nat
      BY <1>1 DEF TypeInv, Tree, Contents
    <3>2. m \in Messages
      BY <3>1 DEF Messages
    <3> QED
      BY <3>2 DEF TypeInv
  <2>4. /\ local' \in [Conns -> Locals] /\ pc' \in [Conns -> Control]
        /\ answer' \in [Conns -> Seq(Messages)] /\ Frame(c)
    BY <2>1, <2>2, <2>3, Update DEF TypeInv, Frame, Control, Resting
  <2> QED
    BY <2>1, <2>4 DEF TypeInv, given, Tree
<1>2. CASE ~(p \in DOMAIN files /\ fds < MaxFds)
  <2>1. pc' = [pc EXCEPT ![c] = "done"] /\ UNCHANGED <<local, fds, answer>>
    BY <1>2, Zenon DEF Download, Goto
  <2>2. pc' \in [Conns -> Control] /\ Frame(c)
    BY <2>1, Update DEF TypeInv, Frame, Control, Resting
  <2> QED
    BY <2>1, <2>2 DEF TypeInv, Download, given, Tree
<1> QED
  BY <1>1, <1>2

LEMMA WriteCBType == ASSUME TypeInv, NEW c \in Conns, WriteCB(c) PROVE TypeInv' /\ Frame(c)
<1>1. pc' = [pc EXCEPT ![c] = "done"]
  BY DEF WriteCB, Goto
<1>2. pc' \in [Conns -> Control] /\ Frame(c)
  BY <1>1, Update DEF TypeInv, WriteCB, Frame, Control, Resting
<1> QED
  BY <1>2 DEF TypeInv, WriteCB, given, Tree

LEMMA BreakType == ASSUME TypeInv, NEW c \in Conns, Break(c) PROVE TypeInv' /\ Frame(c)
<1>1. pc' = [pc EXCEPT ![c] = "closed"]
  BY DEF Break, Goto
<1>2. pc' \in [Conns -> Control] /\ Frame(c)
  BY <1>1, Update DEF TypeInv, Break, Frame, Control, Resting
<1> QED
  BY <1>2 DEF TypeInv, Break, given, Tree

LEMMA StepType ==
  ASSUME TypeInv, NEW c \in Conns, Kept(c), Step(c) \/ Break(c)
  PROVE  TypeInv' /\ Frame(c)
BY GetDirType, ReplyType, OpenDirType, ChDirType, ReadDirType, FindFirstType, FindNextType,
   UploadType, UploadOpenType, ReceiveType, DownloadType, WriteCBType, BreakType,
   SMTT(40) DEF Kept, Step, ListStep

--------------------------------------------------------------------------------
(* What a task does, step by step. *)

\* The build and the requests stay; files come, and none goes away.
LEMMA Grows ==
  ASSUME TypeInv, NEW c \in Conns, Step(c) \/ Break(c)
  PROVE  UNCHANGED <<build, req>> /\ DOMAIN files \subseteq DOMAIN files'
<1>1. CASE UploadOpen(c)
  BY <1>1 DEF UploadOpen, given
<1>2. CASE Receive(c)
  <2>1. PICK flushed \in Nat : Passes(c, flushed)
    BY <1>2, ReceiveSteps
  <2> QED
    BY <2>1 DEF Passes, TypeInv, Tree, given
<1> QED
  BY <1>1, <1>2, ZenonT(40) DEF Step, ListStep, GetDir, Reply, OpenDir, ChDir, ReadDir, FindFirst,
     FindNext, Upload, Download, WriteCB, Break, given

LEMMA OthersKept ==
  ASSUME TypeInv, NEW c \in Conns, Step(c) \/ Break(c), NEW d \in Conns, Kept(d), Frame(c), c # d
  PROVE  Kept(d)'
BY Grows DEF Frame, Kept

LEMMA ListKept ==
  ASSUME TypeInv, NEW c \in Conns, Kept(c), ListStep(c) PROVE Kept(c)'
<1> USE DEF Kept
<1>1. req'[c] = req[c] /\ DOMAIN files \subseteq DOMAIN files' /\ req[c].size \in Nat
  BY Grows, Constants DEF Step, TypeInv, Ask
<1>2. CASE GetDir(c)
  <2>1. /\ pc'[c] = "opendir" /\ answer'[c] = answer[c] /\ local'[c].dir = local[c].dir
        /\ local'[c].seen = local[c].seen /\ local'[c].flushed = local[c].flushed
        /\ local'[c].recv_size = local[c].recv_size
    BY <1>2 DEF GetDir, Goto, TypeInv, Locals
  <2>2. local[c].dir = Nowhere /\ answer[c] = <<>> /\ req[c].kind = "list"
    BY <1>2 DEF GetDir, NoLocal
  <2> QED
    BY <1>1, <2>1, <2>2
<1>3. CASE Reply(c)
  <2>1. /\ pc'[c] = "done" /\ local'[c] = local[c] /\ pc[c] = "reply"
        /\ answer'[c] = Append(answer[c], [type |-> "DIRLIST", data |-> local[c].data])
    BY <1>3 DEF Reply, Goto, Write, TypeInv
  <2>2. answer[c] = <<>> /\ req[c].kind = "list"
    BY <2>1, Constants DEF TypeInv, Ask
  <2>3. Len(answer'[c]) = 1
    BY <2>1, <2>2
  <2> QED
    BY <1>1, <2>1, <2>2, <2>3
<1>4. CASE OpenDir(c) \/ FindFirst(c)
  <2> DEFINE dir == Resolve(local[c].path)
  <2>1. /\ pc'[c] \in {"chdir", "readdir", "reply"} /\ pc[c] = "opendir" /\ answer' = answer
        /\ local'[c].seen = local[c].seen /\ local'[c].flushed = local[c].flushed
        /\ local'[c].recv_size = local[c].recv_size
        /\ (dir \in Dirs /\ local'[c].dir = dir) \/ local'[c].dir = local[c].dir
    BY <1>4 DEF OpenDir, FindFirst, Goto, TypeInv, Locals
  <2>2. req[c].kind = "list"
    BY <2>1, Constants DEF TypeInv, Ask
  <2> QED
    BY <1>1, <2>1, <2>2
<1>5. CASE ChDir(c)
  <2>1. pc'[c] = "readdir" /\ pc[c] = "chdir" /\ answer' = answer /\ local'[c] = local[c]
    BY <1>5 DEF ChDir, Goto, TypeInv
  <2>2. req[c].kind = "list"
    BY <2>1, Constants DEF TypeInv, Ask
  <2> QED
    BY <1>1, <2>1, <2>2
<1>6. CASE ReadDir(c) \/ FindNext(c)
  <2>1. pc[c] = "readdir" /\ answer' = answer
    BY <1>6, ZenonT(40) DEF ReadDir, FindNext
  <2>2. req[c].kind = "list"
    BY <2>1, Constants DEF TypeInv, Ask
  <2>3. CASE pc' = [pc EXCEPT ![c] = "reply"] /\ UNCHANGED local
    BY <1>1, <2>1, <2>2, <2>3 DEF TypeInv
  <2>4. ASSUME NEW p \in Entries(local[c].dir), NEW stat, NEW data,
               Noted(c, p, stat, data), UNCHANGED pc
        PROVE  Kept(c)'
    <3>1. /\ local'[c].dir = local[c].dir /\ local'[c].seen = local[c].seen \cup {p}
          /\ local'[c].flushed = local[c].flushed /\ local'[c].recv_size = local[c].recv_size
      BY <2>4 DEF Noted, TypeInv, Locals
    <3> QED
      BY <1>1, <2>1, <2>2, <2>4, <3>1, EntriesType
  <2>5. CASE Dots(c) /\ UNCHANGED pc
    <3>1. /\ local'[c].dir = local[c].dir /\ local'[c].seen = local[c].seen
          /\ local'[c].flushed = local[c].flushed /\ local'[c].recv_size = local[c].recv_size
      BY <2>5, DotsLocal DEF TypeInv
    <3> QED
      BY <1>1, <2>1, <2>2, <2>5, <3>1
  <2> QED
    BY <1>6, <2>3, <2>4, <2>5, ReadDirSteps, FindNextSteps, Zenon, ZenonT(40)
<1> QED
  BY <1>2, <1>3, <1>4, <1>5, <1>6 DEF ListStep

LEMMA TransferKept ==
  ASSUME TypeInv, NEW c \in Conns, Kept(c), Step(c) \/ Break(c), ~ListStep(c) PROVE Kept(c)'
<1> USE DEF Kept
<1>1. req'[c] = req[c] /\ DOMAIN files \subseteq DOMAIN files' /\ req[c].size \in Nat
  BY Grows, Constants DEF Step, TypeInv, Ask
<1>2. CASE Upload(c)
  <2>1. local[c] = NoLocal /\ answer'[c] = <<>> /\ req[c].kind = "upload"
    BY <1>2 DEF Upload
  <2>2. /\ local'[c].dir = local[c].dir /\ local'[c].seen = local[c].seen
        /\ local'[c].flushed = local[c].flushed /\ local'[c].recv_size = local[c].recv_size
        /\ pc'[c] = IF req[c].size = 0 THEN "done" ELSE "open"
    <3>1. CASE req[c].size = 0
      BY <1>2, <3>1 DEF Upload, Goto, TypeInv
    <3>2. CASE req[c].size # 0
      BY <1>2, <3>2 DEF Upload, Goto, TypeInv, Locals
    <3> QED
      BY <3>1, <3>2
  <2> QED
    BY <1>1, <2>1, <2>2 DEF NoLocal
<1>3. CASE UploadOpen(c)
  <2> DEFINE p == Resolve(local[c].path)
  <2>1. pc[c] = "open" /\ req[c].kind = "upload"
    BY <1>3 DEF UploadOpen
  <2>2. CASE Front(p) \in Dirs /\ p \notin Dirs /\ fds < MaxFds
    <3>1. /\ pc'[c] = "receiving" /\ local'[c].dir = p /\ p \in DOMAIN files'
          /\ local'[c].seen = local[c].seen /\ local'[c].flushed = local[c].flushed
          /\ local'[c].recv_size = local[c].recv_size
          /\ answer'[c] = Append(answer[c], [type |-> "UPLOAD_ACCEPT"])
      BY <1>3, <2>2 DEF UploadOpen, Goto, Write, TypeInv, Locals
    <3>2. Len(answer'[c]) = 1
      BY <2>1, <3>1
    <3> QED
      BY <1>1, <2>1, <3>1, <3>2
  <2>3. CASE ~(Front(p) \in Dirs /\ p \notin Dirs /\ fds < MaxFds)
    <3>1. pc'[c] = "done" /\ local'[c] = local[c] /\ answer'[c] = answer[c]
      BY <1>3, <2>3 DEF UploadOpen, Goto, TypeInv
    <3> QED
      BY <1>1, <2>1, <3>1
  <2> QED
    BY <2>2, <2>3
<1>4. CASE Receive(c)
  <2>1. PICK flushed \in Nat : Passes(c, flushed)
    BY <1>4, ReceiveSteps
  <2> DEFINE recv == local[c].recv_size + 1
  <2>2. /\ pc[c] = "receiving" /\ recv <= req[c].size /\ recv \in Nat /\ flushed <= recv
        /\ recv = req[c].size => flushed = recv
    BY <1>1, <2>1 DEF Passes, TypeInv, Locals
  <2>3. /\ local'[c].dir = local[c].dir /\ local'[c].seen = local[c].seen
        /\ local'[c].flushed = flushed /\ local'[c].recv_size = recv
    BY <2>1 DEF Passes, TypeInv, Locals
  <2>4. req[c].kind = "upload"
    BY <2>2, Constants DEF TypeInv, Ask
  <2>5. CASE recv = req[c].size
    <3>1. /\ pc'[c] = "done"
          /\ answer'[c] = Append(answer[c], [type |-> "UPLOAD_COMPLETE"])
      BY <2>1, <2>5 DEF Passes, TypeInv
    <3>2. Len(answer'[c]) = 2
      <4>1. answer[c] \in Seq(Messages) /\ Len(answer[c]) = 1
        BY <2>2 DEF TypeInv
      <4> QED
        BY <3>1, <4>1
    <3> QED
      BY <1>1, <2>2, <2>3, <2>4, <3>1, <3>2
  <2>6. CASE recv # req[c].size
    <3>1. pc'[c] = pc[c] /\ answer'[c] = answer[c]
      BY <2>1, <2>6 DEF Passes, TypeInv
    <3> QED
      BY <1>1, <2>2, <2>3, <2>4, <2>6, <3>1
  <2> QED
    BY <2>5, <2>6
<1>5. CASE Download(c)
  <2> DEFINE p == Resolve(req[c].path)
  <2>1. pc[c] = "idle" /\ req[c].kind = "download"
    BY <1>5 DEF Download
  <2>2. CASE p \in DOMAIN files /\ fds < MaxFds
    <3>1. /\ pc'[c] = "sending" /\ local'[c].dir = p
          /\ local'[c].seen = local[c].seen /\ local'[c].flushed = local[c].flushed
          /\ local'[c].recv_size = local[c].recv_size
          /\ answer'[c] = Append(answer[c], [type |-> "DOWNLOAD_ACCEPT", size |-> Len(files[p])])
      BY <1>5, <2>2 DEF Download, Goto, Write, TypeInv, Locals
    <3>2. Len(answer'[c]) = 1
      BY <2>1, <3>1
    <3> QED
      BY <1>1, <2>1, <2>2, <3>1, <3>2
  <2>3. CASE ~(p \in DOMAIN files /\ fds < MaxFds)
    <3>1. pc'[c] = "done" /\ local'[c] = local[c] /\ answer'[c] = answer[c]
      BY <1>5, <2>3 DEF Download, Goto, TypeInv
    <3> QED
      BY <1>1, <2>1, <3>1
  <2> QED
    BY <2>2, <2>3
<1>6. CASE WriteCB(c)
  <2>1. pc[c] = "sending" /\ pc'[c] = "done" /\ local'[c] = local[c] /\ answer'[c] = answer[c]
    BY <1>6 DEF WriteCB, Goto, TypeInv
  <2>2. req[c].kind = "download"
    BY <2>1, Constants DEF TypeInv, Ask
  <2> QED
    BY <1>1, <2>1, <2>2
<1>7. CASE Break(c)
  <2>1. pc[c] \in {"idle", "receiving", "sending"} /\ pc'[c] = "closed"
        /\ local'[c] = local[c] /\ answer'[c] = answer[c]
    BY <1>7 DEF Break, Goto, TypeInv
  <2> QED
    BY <1>1, <2>1
<1> QED
  BY <1>2, <1>3, <1>4, <1>5, <1>6, <1>7 DEF Step

\* A descriptor is taken for each transfer, and given back at most once.
LEMMA CountedStep ==
  ASSUME TypeInv, Counted, NEW c \in Conns, Kept(c), Step(c) \/ Break(c)
  PROVE  Counted'
<1> DEFINE On == {"receiving", "sending"}
<1>1. TypeInv' /\ Frame(c)
  BY StepType
<1>2. Transfers' = IF pc'[c] \in On THEN Transfers \cup {c} ELSE Transfers \ {c}
  BY <1>1 DEF Frame, Transfers
<1>3. /\ IsFiniteSet(Transfers \cup {c}) /\ IsFiniteSet(Transfers \ {c})
      /\ Cardinality(Transfers) \in Nat
      /\ Cardinality(Transfers \cup {c}) <= Cardinality(Transfers) + 1
      /\ c \in Transfers => Transfers \cup {c} = Transfers
      /\ c \in Transfers => Cardinality(Transfers \ {c}) = Cardinality(Transfers) - 1
      /\ c \notin Transfers => Transfers \ {c} = Transfers
  <2>1. IsFiniteSet(Transfers)
    BY DEF Counted
  <2>2. /\ IsFiniteSet(Transfers \cup {c}) /\ Cardinality(Transfers) \in Nat
        /\ Cardinality(Transfers \cup {c}) = Cardinality(Transfers)
           \/ Cardinality(Transfers \cup {c}) = Cardinality(Transfers) + 1
    BY <2>1, FS_AddElement, FS_CardinalityType
  <2>3. /\ IsFiniteSet(Transfers \ {c})
        /\ c \in Transfers => Cardinality(Transfers \ {c}) = Cardinality(Transfers) - 1
    BY <2>1, FS_RemoveElement
  <2>4. /\ c \in Transfers => Transfers \cup {c} = Transfers
        /\ c \notin Transfers => Transfers \ {c} = Transfers
    OBVIOUS
  <2> QED
    BY <2>2, <2>3, <2>4
<1>4. Cardinality(Transfers) <= fds /\ fds <= MaxFds /\ fds \in Int /\ MaxFds \in Int
  BY DirectoryAssumption DEF Counted, TypeInv
<1>5. \/ fds' = fds /\ (pc'[c] \in On => c \in Transfers)
      \/ fds' = fds + 1 /\ fds < MaxFds
      \/ fds' = fds - 1 /\ c \in Transfers /\ pc'[c] \notin On
  <2>1. CASE ListStep(c)
    BY <2>1, ZenonT(40) DEF ListStep, GetDir, Reply, OpenDir, ChDir, ReadDir, FindFirst, FindNext,
       Goto, TypeInv, Transfers
  <2>2. CASE Upload(c) \/ UploadOpen(c) \/ Download(c) \/ WriteCB(c) \/ Break(c)
    BY <2>2 DEF Upload, UploadOpen, Download, WriteCB, Break, Goto, TypeInv, Transfers
  <2>3. CASE Receive(c)
    <3>1. PICK flushed \in Nat : Passes(c, flushed)
      BY <2>3, ReceiveSteps
    <3> QED
      BY <3>1 DEF Passes, TypeInv, Transfers
  <2> QED
    BY <2>1, <2>2, <2>3, SMTT(40) DEF Step
<1>6. fds' \in Int
  BY <1>1 DEF TypeInv
<1>7. CASE pc'[c] \in On
  <2>1. /\ Transfers' = Transfers \cup {c} /\ IsFiniteSet(Transfers')
        /\ Cardinality(Transfers') \in Int
    BY <1>2, <1>3, <1>7, FS_CardinalityType
  <2>2. /\ Cardinality(Transfers') <= Cardinality(Transfers) + 1
        /\ c \in Transfers => Cardinality(Transfers') = Cardinality(Transfers)
    BY <1>3, <2>1
  <2>3. (fds' = fds /\ c \in Transfers) \/ (fds' = fds + 1 /\ fds < MaxFds)
    BY <1>5, <1>7
  <2>4. Cardinality(Transfers') <= fds' /\ fds' <= MaxFds
    BY <1>3, <1>4, <1>6, <2>1, <2>2, <2>3
  <2> QED
    BY <2>1, <2>4 DEF Counted
<1>8. CASE pc'[c] \notin On
  <2>1. Transfers' = Transfers \ {c} /\ IsFiniteSet(Transfers') /\ Cardinality(Transfers') \in Int
    BY <1>2, <1>3, <1>8, FS_CardinalityType
  <2>2. Cardinality(Transfers') =
          IF c \in Transfers THEN Cardinality(Transfers) - 1 ELSE Cardinality(Transfers)
    BY <1>3, <2>1
  <2>3. \/ fds' = fds
        \/ fds' = fds + 1 /\ fds < MaxFds
        \/ fds' = fds - 1 /\ c \in Transfers
    BY <1>5, <1>8
  <2>4. Cardinality(Transfers') <= fds' /\ fds' <= MaxFds
    BY <1>3, <1>4, <1>6, <2>1, <2>2, <2>3
  <2> QED
    BY <2>1, <2>4 DEF Counted
<1> QED
  BY <1>7, <1>8

\* A listing is begun with set_cur_dir, which nobody else calls, and is not taken back.
LEMMA BegunStep ==
  ASSUME TypeInv, NEW c \in Conns, Kept(c), Step(c) \/ Break(c)
  PROVE  /\ UNCHANGED req /\ Begun \subseteq Begun'
         /\ \/ c \in Begun' /\ cur_dir_' = req[c].path
            \/ Begun' = Begun /\ cur_dir_' = cur_dir_
<1>1. Frame(c) /\ UNCHANGED req /\ Listers' = Listers
  BY StepType, Grows, Constants DEF Listers, TypeInv, Ask
<1>2. CASE GetDir(c)
  <2>1. c \in Listers /\ pc[c] = "idle" /\ pc'[c] = "opendir" /\ cur_dir_' = req[c].path
    BY <1>2 DEF GetDir, Goto, TypeInv, Listers
  <2> QED
    BY <1>1, <2>1 DEF Begun, Frame, Listers
<1>3. CASE ~GetDir(c)
  <2>1. /\ UNCHANGED cur_dir_
        /\ c \in Listers /\ pc[c] \in {"idle", "closed"} => pc'[c] \in {"idle", "closed"}
    BY <1>3, ZenonT(40) DEF Step, ListStep, Reply, OpenDir, ChDir, ReadDir, FindFirst, FindNext,
       Upload, UploadOpen, Receive, Download, WriteCB, Break, Goto, TypeInv, Listers
  <2>2. c \in Listers /\ pc[c] \notin {"idle", "closed"} => pc'[c] \notin {"idle", "closed"}
    <3> SUFFICES ASSUME c \in Listers, pc[c] \notin {"idle", "closed"}
                 PROVE  pc'[c] \notin {"idle", "closed"}
      OBVIOUS
    <3>1. pc[c] \notin {"receiving", "sending"} /\ req[c].kind = "list"
      BY DEF Kept, Listers
    <3>2. \/ Reply(c) \/ OpenDir(c) \/ ChDir(c) \/ ReadDir(c) \/ FindFirst(c) \/ FindNext(c)
      BY <1>3, <3>1 DEF Step, ListStep, Upload, UploadOpen, Receive, Download, WriteCB, Break
    <3>3. \/ \E l \in {"done", "reply", "chdir", "readdir"} : pc' = [pc EXCEPT ![c] = l]
          \/ UNCHANGED pc
      BY <3>2, ZenonT(40) DEF Reply, OpenDir, ChDir, ReadDir, FindFirst, FindNext, Goto
    <3> QED
      BY <3>3 DEF TypeInv
  <2> QED
    BY <1>1, <2>1, <2>2 DEF Begun, Frame, Listers
<1> QED
  BY <1>2, <1>3

LEMMA AnnouncedStep ==
  ASSUME TypeInv, Announced, NEW c \in Conns, Kept(c), Step(c) \/ Break(c)
  PROVE  Announced'
BY BegunStep DEF Announced

\* Upload takes the directory that is set, and no step but its own changes the path.
LEMMA AimedStep ==
  ASSUME TypeInv, Announced, NEW c \in Conns, Kept(c), Step(c) \/ Break(c),
         NEW d \in Uploaders, Aimed(d)
  PROVE  Aimed(d)'
<1>1. Frame(c) /\ UNCHANGED req /\ Begun \subseteq Begun' /\ d \in Conns
  BY StepType, BegunStep DEF Uploaders
<1>2. Known \subseteq Known'
  BY <1>1 DEF Known
<1>3. CASE pc'[d] = "open" /\ pc[d] # "open"
  <2>1. c = d
    BY <1>1, <1>3 DEF Frame
  <2>2. Upload(c)
    BY <1>1, <1>3, <2>1, ZenonT(40) DEF Step, ListStep, GetDir, Reply, OpenDir, ChDir, ReadDir,
       FindFirst, FindNext, UploadOpen, Receive, Download, WriteCB, Break, Goto, TypeInv
  <2>3. local'[c].path = FileIn(cur_dir_, req[c].name)
    BY <1>3, <2>1, <2>2 DEF Upload, Goto, TypeInv, Locals
  <2>4. cur_dir_ \in Known
    BY DEF Announced, Known
  <2> QED
    BY <1>1, <1>2, <2>1, <2>3, <2>4 DEF Aimed
<1>4. CASE pc'[d] = "open" /\ pc[d] = "open"
  <2>1. c # d
    <3> SUFFICES ASSUME c = d PROVE FALSE
      OBVIOUS
    <3>1. UploadOpen(c)
      BY <1>4 DEF Step, ListStep, GetDir, Reply, OpenDir, ChDir, ReadDir,
         FindFirst, FindNext, Upload, Receive, Download, WriteCB, Break
    <3> QED
      BY <1>4, <3>1 DEF UploadOpen, Goto, TypeInv
  <2>2. local'[d] = local[d]
    BY <1>1, <2>1 DEF Frame
  <2> QED
    BY <1>1, <1>2, <1>4, <2>2 DEF Aimed
<1> QED
  BY <1>3, <1>4 DEF Aimed
--------------------------------------------------------------------------------
(* The files. *)

\* What a stream writes is not what was there before the server was started.
LEMMA WrittenFresh ==
  ASSUME NEW content \in Contents, \A k \in DOMAIN content : content[k] # "old",
         NEW from \in Nat, NEW to \in Nat, from <= to, NEW c \in Conns
  PROVE  \A k \in DOMAIN Written(content, from, to, c) : Written(content, from, to, c)[k] # "old"
<1>1. c # "old"
  BY DirectoryAssumption
<1>2. Len(content) \in Nat /\ DOMAIN content = 1 .. Len(content)
  BY DEF Contents
<1> QED
  BY <1>1, <1>2 DEF Written

\* A file that has been all this stream's becomes longer by what is passed on.
LEMMA WrittenOwn ==
  ASSUME NEW from \in Nat, NEW to \in Nat, from <= to, NEW c,
         NEW content, content = [k \in 1 .. from |-> c]
  PROVE  Written(content, from, to, c) = [k \in 1 .. to |-> c]
<1>1. content \in Seq({c}) /\ Len(content) = from
  OBVIOUS
<1>2. CASE from = to
  BY <1>2 DEF Written
<1>3. CASE from # to
  <2>1. Written(content, from, to, c) =
          [k \in 1 .. to |-> IF k \in from + 1 .. to THEN c
                             ELSE IF k <= Len(content) THEN content[k] ELSE "zero"]
    BY <1>1, <1>3 DEF Written
  <2>2. \A k \in 1 .. to : (IF k \in from + 1 .. to THEN c
                            ELSE IF k <= Len(content) THEN content[k] ELSE "zero") = c
    BY <1>1, SMTT(40)
  <2> QED
    BY <2>1, <2>2
<1> QED
  BY <1>2, <1>3

\* A file that is fresh after a step was there, was fresh, and is as it was.
LEMMA FreshStep ==
  ASSUME TypeInv, NEW c \in Conns, Kept(c), c \in Uploaders => Stored(c), Step(c) \/ Break(c)
  PROVE  \A p \in DOMAIN files' :
           Fresh(p)' => p \in DOMAIN files /\ Fresh(p) /\ files'[p] = files[p]
<1>1. CASE UploadOpen(c)
  <2> DEFINE p == Resolve(local[c].path)
  <2>1. CASE files' = [q \in DOMAIN files \cup {p} |-> IF q = p THEN <<>> ELSE files[q]]
    BY <2>1 DEF Fresh
  <2>2. CASE UNCHANGED files
    BY <2>2 DEF Fresh
  <2> QED
    BY <1>1, <2>1, <2>2 DEF UploadOpen
<1>2. CASE Receive(c)
  <2> DEFINE p == local[c].dir
  <2>1. PICK flushed \in Nat : Passes(c, flushed)
    BY <1>2, ReceiveSteps
  <2>2. /\ files' = [files EXCEPT ![p] = Written(files[p], local[c].flushed, flushed, c)]
        /\ local[c].flushed \in Nat /\ pc[c] = "receiving"
    BY <2>1 DEF Passes
  <2>3. local[c].flushed <= flushed
    BY <2>1 DEF Passes, Kept, TypeInv, Locals
  <2>4. c \in Uploaders /\ answer[c] # <<>>
    <3>1. Len(answer[c]) = 1 /\ req[c].kind = "upload"
      BY <2>2, Constants DEF Kept, TypeInv, Ask
    <3>3. answer[c] # <<>>
      BY <3>1, NotEmpty, Zenon
    <3> QED
      BY <3>1, <3>3 DEF Uploaders
  <2>5. p \in DOMAIN files /\ \A k \in DOMAIN files[p] : files[p][k] # "old"
    BY <2>4 DEF Stored, Fresh
  <2>6. files[p] \in Contents
    BY <2>5 DEF TypeInv, Tree
  <2>7. \A k \in DOMAIN files'[p] : files'[p][k] # "old"
    BY <2>2, <2>3, <2>5, <2>6, WrittenFresh
  <2> QED
    BY <2>2, <2>5, <2>7 DEF Fresh
<1>3. CASE UNCHANGED files
  BY <1>3 DEF Fresh
<1> QED
  BY <1>1, <1>2, <1>3, ZenonT(40) DEF Step, ListStep, GetDir, Reply, OpenDir, ChDir, ReadDir,
     FindFirst,
                    FindNext, Upload, Download, WriteCB, Break

\* A step of another task leaves an accepted upload's file alone, unless it is the
\* file of an upload as well.
LEMMA StoredOther ==
  ASSUME TypeInv, NEW c \in Conns, Kept(c), c \in Uploaders => Stored(c), Step(c) \/ Break(c),
         NEW d \in Uploaders, d # c, Stored(d)
  PROVE  Stored(d)'
<1> SUFFICES ASSUME answer'[d] # <<>>
             PROVE  /\ local'[d].dir \in DOMAIN files' /\ (~Fresh(local[d].dir))'
                    /\ Alone(d)' => files'[local'[d].dir] = [k \in 1 .. local'[d].flushed |-> d]
                    /\ pc'[d] = "done" => local'[d].flushed = req'[d].size
  BY DEF Stored
<1>1. /\ TypeInv' /\ Frame(c) /\ d \in Conns /\ UNCHANGED req
      /\ DOMAIN files \subseteq DOMAIN files'
  BY StepType, Grows DEF Uploaders
<1>2. pc'[d] = pc[d] /\ local'[d] = local[d] /\ answer'[d] = answer[d]
  BY <1>1 DEF Frame
<1>3. /\ local[d].dir \in DOMAIN files /\ ~Fresh(local[d].dir)
      /\ Alone(d) => files[local[d].dir] = [k \in 1 .. local[d].flushed |-> d]
      /\ pc[d] = "done" => local[d].flushed = req[d].size
  BY <1>2 DEF Stored
<1>4. (~Fresh(local[d].dir))'
  <2> DEFINE p == local[d].dir
  <2>1. p \in DOMAIN files' /\ ~(\E k \in DOMAIN files'[p] : files'[p][k] = "old")
    BY <1>1, <1>3, FreshStep DEF Fresh
  <2> QED
    BY <1>2, <2>1 DEF Fresh
<1>5. ASSUME Alone(d)' PROVE Alone(d) /\ files'[local[d].dir] = files[local[d].dir]
  <2>1. \A e \in Uploaders \ {d} : answer'[e] # <<>> => local'[e].dir # local[d].dir
    BY <1>1, <1>2, <1>5 DEF Alone, Uploaders
  <2>2. CASE UploadOpen(c)
    <3>1. c \in Uploaders /\ pc[c] = "open" /\ answer[c] = <<>>
      BY <2>2 DEF UploadOpen, Uploaders, Kept
    <3>2. Alone(d)
      BY <1>1, <2>1, <3>1 DEF Alone, Frame, Uploaders
    <3> DEFINE p == Resolve(local[c].path)
    <3>3. CASE Front(p) \in Dirs /\ p \notin Dirs /\ fds < MaxFds
      <4>1. /\ answer'[c] = Append(answer[c], [type |-> "UPLOAD_ACCEPT"]) /\ local'[c].dir = p
            /\ files' = [q \in DOMAIN files \cup {p} |-> IF q = p THEN <<>> ELSE files[q]]
        BY <2>2, <3>3 DEF UploadOpen, Write, TypeInv, Locals
      <4>2. answer'[c] # <<>>
        BY <3>1, <4>1
      <4>3. p # local[d].dir
        BY <2>1, <3>1, <4>1, <4>2
      <4> QED
        BY <1>3, <3>2, <4>1, <4>3
    <3>4. CASE ~(Front(p) \in Dirs /\ p \notin Dirs /\ fds < MaxFds)
      BY <2>2, <3>2, <3>4 DEF UploadOpen
    <3> QED
      BY <3>3, <3>4
  <2>3. CASE Receive(c)
    <3>1. PICK flushed \in Nat : Passes(c, flushed)
      BY <2>3, ReceiveSteps
    <3>2. /\ pc[c] = "receiving" /\ local'[c].dir = local[c].dir
          /\ files' = [files EXCEPT ![local[c].dir] =
                         Written(files[local[c].dir], local[c].flushed, flushed, c)]
          /\ answer'[c] = answer[c] \/ answer'[c] = Append(answer[c], [type |-> "UPLOAD_COMPLETE"])
      BY <3>1 DEF Passes, TypeInv, Locals
    <3>3. req[c].kind = "upload" /\ answer[c] \in Seq(Messages) /\ Len(answer[c]) = 1
      BY <3>2, Constants DEF Kept, TypeInv, Ask
    <3>4. c \in Uploaders /\ answer[c] # <<>> /\ answer'[c] # <<>>
      BY <3>2, <3>3, SMTT(40) DEF Uploaders
    <3>5. local[c].dir # local[d].dir
      BY <2>1, <3>2, <3>4
    <3> QED
      BY <1>1, <1>3, <2>1, <3>2, <3>4, <3>5 DEF Alone, Frame, Uploaders
  <2>4. CASE ~UploadOpen(c) /\ ~Receive(c)
    <3>1. UNCHANGED files
      BY <2>4, ZenonT(40) DEF Step, ListStep, GetDir, Reply, OpenDir, ChDir, ReadDir, FindFirst,
                  FindNext, Upload, Download, WriteCB, Break
    <3>2. c \in Uploaders => local'[c].dir = local[c].dir /\ answer'[c] = answer[c]
      <4>1. SUFFICES ASSUME c \in Uploaders
                     PROVE  local'[c].dir = local[c].dir /\ answer'[c] = answer[c]
        OBVIOUS
      <4>2. Upload(c) \/ Break(c)
        BY <2>4, <4>1, ZenonT(40) DEF Step, ListStep, GetDir, Reply, OpenDir, ChDir, ReadDir,
           FindFirst,
                          FindNext, Download, WriteCB, Uploaders, Kept
      <4>3. CASE Upload(c)
        <5>1. \/ local'[c] = local[c]
              \/ local' = [local EXCEPT ![c].path = FileIn(cur_dir_, req[c].name)]
          BY <4>3 DEF Upload
        <5>2. local'[c].dir = local[c].dir
          BY <5>1 DEF TypeInv, Locals
        <5> QED
          BY <4>3, <5>2 DEF Upload
      <4>4. CASE Break(c)
        BY <4>4 DEF Break
      <4> QED
        BY <4>2, <4>3, <4>4
    <3> QED
      BY <1>1, <2>1, <3>1, <3>2 DEF Alone, Frame, Uploaders
  <2> QED
    BY <2>2, <2>3, <2>4
<1> QED
  BY <1>1, <1>2, <1>3, <1>4, <1>5

\* The upload itself writes what comes behind what it has written.
LEMMA StoredOwn ==
  ASSUME TypeInv, NEW c \in Uploaders, Kept(c), Stored(c), Step(c) \/ Break(c)
  PROVE  Stored(c)'
<1>1. /\ c \in Conns /\ TypeInv' /\ Frame(c) /\ UNCHANGED req
      /\ DOMAIN files \subseteq DOMAIN files' /\ req[c].kind = "upload"
      /\ \A p \in DOMAIN files' : Fresh(p)' => p \in DOMAIN files /\ Fresh(p)
  BY StepType, Grows, FreshStep DEF Uploaders
<1>2. CASE Upload(c)
  <2>1. answer'[c] = <<>>
    BY <1>2 DEF Upload, Kept
  <2> QED
    BY <2>1 DEF Stored
<1>3. CASE UploadOpen(c)
  <2> DEFINE p == Resolve(local[c].path)
  <2>1. pc[c] = "open" /\ answer[c] = <<>> /\ local[c].flushed = 0
    BY <1>3 DEF UploadOpen, Kept
  <2>2. CASE Front(p) \in Dirs /\ p \notin Dirs /\ fds < MaxFds
    <3>1. /\ local'[c].dir = p /\ local'[c].flushed = 0 /\ pc'[c] = "receiving"
          /\ files' = [q \in DOMAIN files \cup {p} |-> IF q = p THEN <<>> ELSE files[q]]
      BY <1>1, <1>3, <2>1, <2>2 DEF UploadOpen, Goto, TypeInv, Locals
    <3>2. p \in DOMAIN files' /\ files'[p] = <<>> /\ [k \in 1 .. 0 |-> c] = <<>>
      BY <3>1
    <3> QED
      BY <3>1, <3>2 DEF Stored, Fresh
  <2>3. CASE ~(Front(p) \in Dirs /\ p \notin Dirs /\ fds < MaxFds)
    BY <1>3, <2>1, <2>3 DEF UploadOpen, Stored
  <2> QED
    BY <2>2, <2>3
<1>4. CASE Receive(c)
  <2> DEFINE p == local[c].dir
  <2>1. PICK flushed \in Nat : Passes(c, flushed)
    BY <1>1, <1>4, ReceiveSteps
  <2>2. /\ pc[c] = "receiving" /\ local'[c].dir = p /\ local'[c].flushed = flushed
        /\ local[c].flushed \in Nat
        /\ files' = [files EXCEPT ![p] = Written(files[p], local[c].flushed, flushed, c)]
        /\ pc'[c] = "done" => flushed = req[c].size
    BY <1>1, <2>1, SMTT(40) DEF Passes, TypeInv, Locals, Goto
  <2>3. local[c].flushed <= flushed
    BY <1>1, <2>1, SMTT(40) DEF Passes, Kept, TypeInv, Locals
  <2>4. answer[c] # <<>>
    <3>1. Len(answer[c]) = 1
      BY <2>2 DEF Kept
    <3> QED
      BY <3>1, NotEmpty, Zenon
  <2>5. /\ p \in DOMAIN files /\ ~Fresh(p)
        /\ Alone(c) => files[p] = [k \in 1 .. local[c].flushed |-> c]
    BY <2>4 DEF Stored
  <2>6. ~Fresh(p)' /\ p \in DOMAIN files'
    BY <1>1, <2>2, <2>5
  <2>7. Alone(c)' => Alone(c)
    BY <1>1, <2>2 DEF Alone, Frame, Uploaders
  <2>8. Alone(c)' => files'[p] = [k \in 1 .. flushed |-> c]
    BY <2>2, <2>3, <2>5, <2>7, WrittenOwn
  <2> QED
    BY <1>1, <2>2, <2>6, <2>8 DEF Stored, Fresh
<1>5. CASE Break(c)
  <2>1. UNCHANGED <<local, answer, files>> /\ pc'[c] = "closed"
    BY <1>1, <1>5 DEF Break, Goto, TypeInv
  <2> QED
    BY <1>1, <2>1 DEF Stored, Alone, Fresh, Uploaders
<1>6. CASE ListStep(c) \/ Download(c) \/ WriteCB(c)
  BY <1>1, <1>6, ZenonT(40) DEF ListStep, GetDir, Reply, OpenDir, ChDir, ReadDir, FindFirst,
     FindNext, Download, WriteCB, Kept
<1> QED
  BY <1>2, <1>3, <1>4, <1>5, <1>6 DEF Step

--------------------------------------------------------------------------------
(* The listings. *)

LEMMA AskedType ==
  ASSUME TypeInv, NEW c \in Conns
  PROVE  /\ Asked(c) \in Seq(STRING) /\ req[c].path \in Paths
         /\ Asked(c) = IF req[c].path.abs THEN req[c].path.names ELSE StartDir \o req[c].path.names
<1>1. req[c].path \in Paths /\ StartDir \in Seq(STRING)
  BY Constants DEF TypeInv
<1>2. req[c].path.names \in Seq(STRING)
  BY <1>1 DEF Paths
<1>3. StartDir \o req[c].path.names \in Seq(STRING)
  BY <1>1, <1>2
<1> QED
  BY <1>1, <1>2, <1>3 DEF Asked

\* A path is looked up where it was meant, also by chdir.
LEMMA ResolveAsked ==
  ASSUME TypeInv, NEW c \in Conns, Meant(c), local[c].path = req[c].path,
         pc[c] \in {"opendir", "chdir"}
  PROVE  Resolve(local[c].path) = Asked(c)
BY AskedType DEF Resolve, Meant

\* chdir leads to where its listing was asked for, if that is an absolute path.
LEMMA WorkingStep ==
  ASSUME TypeInv, Working, NEW c \in Conns, Kept(c), c \in Listers => Listing(c),
         Step(c) \/ Break(c)
  PROVE  Working'
<1>1. UNCHANGED <<build, req>> /\ Begun \subseteq Begun' /\ Frame(c)
  BY StepType, Grows, BegunStep
<1>2. \A e : Asked(e)' = Asked(e)
  BY <1>1 DEF Asked
<1>3. CASE UNCHANGED cwd
  BY <1>1, <1>2, <1>3 DEF Working
<1>4. CASE ChDir(c)
  <2>1. pc[c] = "chdir" /\ req[c].kind = "list"
    BY <1>4, Constants DEF ChDir, Kept, TypeInv, Ask
  <2>2. c \in Listers /\ c \in Begun /\ local[c].path = req[c].path /\ build # "win32"
    BY <2>1 DEF Listers, Begun, Listing, Straight, Meant
  <2>3. cwd' = cwd \/ cwd' = Resolve(req[c].path)
    BY <1>4, <2>2 DEF ChDir
  <2>4. req[c].path.abs => Resolve(req[c].path) = Asked(c)
    BY DEF Resolve, Asked
  <2> QED
    BY <1>1, <1>2, <2>2, <2>3, <2>4 DEF Working
<1> QED
  BY <1>3, <1>4, ZenonT(40) DEF Step, ListStep, GetDir, Reply, OpenDir, ReadDir, FindFirst,
     FindNext, Upload, UploadOpen, Receive, Download, WriteCB, Break

\* A step of another task: chdir does not lead away from an undisturbed listing.
LEMMA ListingOther ==
  ASSUME TypeInv, NEW c \in Conns, Kept(c), c \in Uploaders => Stored(c),
         c \in Listers => Listing(c), Step(c) \/ Break(c),
         NEW d \in Listers, d # c, Listing(d)
  PROVE  Listing(d)'
<1>1. /\ TypeInv' /\ Frame(c) /\ d \in Conns /\ UNCHANGED <<req, build>>
      /\ DOMAIN files \subseteq DOMAIN files'
      /\ \A p \in DOMAIN files' :
           Fresh(p)' => p \in DOMAIN files /\ Fresh(p) /\ files'[p] = files[p]
  BY StepType, Grows, FreshStep DEF Listers
<1>2. pc'[d] = pc[d] /\ local'[d] = local[d] /\ answer'[d] = answer[d]
  BY <1>1 DEF Frame
<1>3. /\ pc[d] \notin {"idle", "closed"} => local[d].path = req[d].path
      /\ answer[d] # <<>> =>
           pc[d] = "done" /\ answer[d] = << [type |-> "DIRLIST", data |-> local[d].data] >>
      /\ Straight(d) => Meant(d) /\ Right(d)
  BY DEF Listing
<1>4. Asked(d)' = Asked(d) /\ Straight(d)' = Straight(d)
  BY <1>1, SMTT(40) DEF Asked, Straight, Agreed, Listers
<1>5. ASSUME Straight(d) PROVE Meant(d)'
  <2>1. CASE UNCHANGED cwd
    BY <1>1, <1>2, <1>3, <1>4, <1>5, <2>1 DEF Meant
  <2>2. CASE ChDir(c)
    <3>1. pc[c] = "chdir" /\ req[c].kind = "list"
      BY <2>2, Constants DEF ChDir, Kept, TypeInv, Ask
    <3>2. c \in Listers /\ local[c].path = req[c].path
      BY <3>1 DEF Listers, Listing
    <3>3. build # "win32"
      BY <3>1, <3>2 DEF Listing, Straight, Meant
    <3>4. req[d].path.abs /\ req[c].path = req[d].path
      BY <1>5, <3>2, <3>3 DEF Straight, Agreed
    <3>5. Resolve(local[c].path) = Asked(d)
      BY <3>2, <3>4 DEF Resolve, Asked
    <3>6. cwd' = IF Asked(d) \in Dirs THEN Asked(d) ELSE cwd
      BY <2>2, <3>5 DEF ChDir
    <3> QED
      BY <1>1, <1>2, <1>3, <1>4, <1>5, <3>3, <3>4, <3>6 DEF Meant
  <2> QED
    BY <2>1, <2>2, ZenonT(40) DEF Step, ListStep, GetDir, Reply, OpenDir, ReadDir, FindFirst,
       FindNext, Upload,
                      UploadOpen, Receive, Download, WriteCB, Break
<1>6. ASSUME Straight(d) PROVE Right(d)'
  <2>1. Right(d)
    BY <1>3, <1>6
  <2>2. ASSUME NEW e \in local[d].data, NEW p, p = Append(Asked(d), e[1])
        PROVE  p \in DOMAIN files' /\ e[2] >= 0 /\ (Fresh(p)' => e[2] = Len(files'[p]))
    <3>1. p \in DOMAIN files /\ e[2] >= 0 /\ (Fresh(p) => e[2] = Len(files[p]))
      BY <2>1, <2>2 DEF Right
    <3>2. p \in DOMAIN files'
      BY <1>1, <3>1
    <3>3. Fresh(p)' => Fresh(p) /\ files'[p] = files[p]
      BY <1>1, <3>2, Zenon
    <3> QED
      BY <3>1, <3>2, <3>3
  <2>3. \A e \in local'[d].data : \A p : p = Append(Asked(d)', e[1]) =>
          p \in DOMAIN files' /\ e[2] >= 0 /\ (Fresh(p)' => e[2] = Len(files'[p]))
    BY <1>2, <1>4, <2>2, Zenon
  <2>4. \A e \in local'[d].data :
          LET p == Append(Asked(d)', e[1]) IN
          /\ p \in DOMAIN files' /\ e[2] >= 0
          /\ (\E k \in DOMAIN files'[p] : files'[p][k] = "old") => e[2] = Len(files'[p])
    BY <2>3 DEF Fresh
  <2> QED
    BY <1>2, <1>4, <2>1, <2>4 DEF Right, Fresh
<1> QED
  BY <1>1, <1>2, <1>3, <1>4, <1>5, <1>6 DEF Listing

\* An entry that is looked up in the directory it is in is noted rightly.
LEMMA NotedRight ==
  ASSUME TypeInv, NEW c \in Conns, Right(c), Asked(c)' = Asked(c), UNCHANGED <<files, pc>>,
         pc[c] = "readdir", local[c].dir = Asked(c), NEW p \in Entries(local[c].dir),
         NEW stat, NEW isDir \in BOOLEAN, NEW size, Noted(c, p, stat, With(c, p, isDir, size)),
         isDir <=> p \in Dirs, ~isDir => size = Len(files[p])
  PROVE  Right(c)'
<1>1. /\ local'[c].owed = local[c].owed /\ local'[c].seen = local[c].seen \cup {p}
      /\ local'[c].data = With(c, p, isDir, size)
  BY DEF Noted, TypeInv, Locals
<1>2. /\ p \in Seq(STRING) /\ p # <<>> /\ Front(p) = Asked(c) /\ p \in Dirs \cup DOMAIN files
      /\ p = Append(Asked(c), Last(p))
  BY EntriesType, Ends DEF Entries
<1>3. CASE p \in Dirs
  <2>1. local'[c].data = local[c].data
    BY <1>1, <1>3 DEF With
  <2> QED
    BY <1>1, <1>3, <2>1 DEF Right, Fresh
<1>4. CASE p \notin Dirs
  <2> DEFINE e == << Last(p), size >>
  <2>1. local'[c].data = local[c].data \cup {e} /\ size = Len(files[p]) /\ p \in DOMAIN files
    BY <1>1, <1>2, <1>4 DEF With
  <2>2. size \in Nat /\ e[1] = Last(p) /\ e[2] = size
    BY <2>1 DEF TypeInv, Tree, Contents
  <2>3. \A q \in local'[c].seen \ Dirs : \E f \in local'[c].data : Append(Asked(c), f[1]) = q
    <3>1. \A q \in local[c].seen \ Dirs : \E f \in local[c].data : Append(Asked(c), f[1]) = q
      BY DEF Right
    <3>2. Append(Asked(c), e[1]) = p
      BY <1>2, <2>2
    <3> HIDE DEF e
    <3> QED
      BY <1>1, <2>1, <3>1, <3>2
  <2>4. \A f \in local'[c].data :
          LET q == Append(Asked(c), f[1]) IN
          q \in DOMAIN files /\ f[2] >= 0 /\ (Fresh(q) => f[2] = Len(files[q]))
    <3>1. \A f \in local[c].data :
            LET q == Append(Asked(c), f[1]) IN
            q \in DOMAIN files /\ f[2] >= 0 /\ (Fresh(q) => f[2] = Len(files[q]))
      BY DEF Right
    <3>2. Append(Asked(c), e[1]) = p /\ e[2] >= 0 /\ e[2] = Len(files[p])
      BY <1>2, <2>1, <2>2
    <3> HIDE DEF e
    <3> QED
      BY <2>1, <3>1, <3>2
  <2> QED
    BY <1>1, <2>3, <2>4 DEF Right, Fresh
<1> QED
  BY <1>3, <1>4

LEMMA ListingOwn ==
  ASSUME TypeInv, NEW c \in Listers, Kept(c), Listing(c), Step(c) \/ Break(c)
  PROVE  Listing(c)'
<1>1. /\ TypeInv' /\ c \in Conns /\ UNCHANGED <<req, build>> /\ req[c].kind = "list"
      /\ build \in {"posix", "win32"}
  BY StepType, Grows, Constants DEF Listers, TypeInv
<1>2. Asked(c)' = Asked(c) /\ Straight(c)' = Straight(c) /\ Asked(c) \in Seq(STRING)
  BY <1>1, AskedType DEF Asked, Straight, Agreed, Listers
<1>3. CASE GetDir(c)
  <2>1. /\ local[c] = NoLocal /\ answer'[c] = <<>> /\ pc[c] = "idle"
        /\ UNCHANGED <<cwd, files>>
    BY <1>3 DEF GetDir, Kept
  <2>2. /\ pc'[c] = "opendir" /\ local'[c].path = req[c].path /\ local'[c].dir = local[c].dir
        /\ local'[c].owed = local[c].owed /\ local'[c].seen = local[c].seen
        /\ local'[c].data = local[c].data
    BY <1>1, <1>3 DEF GetDir, Goto, TypeInv, Locals
  <2>3. /\ local'[c].dir = Nowhere /\ local'[c].owed = {} /\ local'[c].seen = {}
        /\ local'[c].data = {}
    BY <2>1, <2>2 DEF NoLocal
  <2>4. Straight(c) => Meant(c)'
    BY <1>1, <1>2, <2>1, <2>2, <2>3 DEF Meant, Listing
  <2>5. Right(c)'
    BY <2>2, <2>3 DEF Right
  <2> QED
    BY <1>1, <1>2, <2>1, <2>2, <2>4, <2>5 DEF Listing
<1>4. CASE Reply(c)
  <2>1. /\ pc[c] = "reply" /\ pc'[c] = "done" /\ answer[c] = <<>>
        /\ answer'[c] = Append(answer[c], [type |-> "DIRLIST", data |-> local[c].data])
        /\ UNCHANGED <<local, cwd, files>>
    BY <1>1, <1>4 DEF Reply, Goto, Write, Kept, TypeInv
  <2>2. answer'[c] = << [type |-> "DIRLIST", data |-> local'[c].data] >>
    BY <2>1
  <2>3. Straight(c) => Meant(c)'
    BY <1>1, <1>2, <2>1 DEF Meant, Listing
  <2>4. Straight(c) => Right(c)'
    BY <1>1, <1>2, <2>1 DEF Right, Fresh, Listing
  <2> QED
    BY <1>1, <1>2, <2>1, <2>2, <2>3, <2>4 DEF Listing
<1>5. CASE OpenDir(c) \/ FindFirst(c)
  <2> DEFINE dir == Resolve(local[c].path)
  <2>1. /\ pc[c] = "opendir" /\ answer' = answer /\ answer[c] = <<>>
        /\ UNCHANGED <<cwd, files>> /\ local[c].path = req[c].path /\ local[c].dir = Nowhere
    BY <1>5 DEF OpenDir, FindFirst, Kept, Listing
  <2>2. Straight(c) => dir = Asked(c)
    BY <1>1, <2>1, ResolveAsked DEF Listing
  <2>3. CASE /\ dir \in Dirs
             /\ local' = [local EXCEPT ![c].dir = dir, ![c].owed = Entries(dir)]
             /\ pc' = [pc EXCEPT ![c] = IF build = "posix" THEN "chdir" ELSE "readdir"]
    <3>1. /\ local'[c].path = local[c].path /\ local'[c].dir = dir /\ local'[c].owed = Entries(dir)
          /\ local'[c].seen = local[c].seen /\ local'[c].data = local[c].data
          /\ pc'[c] = IF build = "posix" THEN "chdir" ELSE "readdir"
      BY <1>1, <2>3 DEF TypeInv, Locals
    <3>2. Straight(c) => Meant(c)'
      BY <1>1, <1>2, <2>1, <2>2, <2>3, <3>1 DEF Meant, Listing
    <3>3. Straight(c) => Right(c)'
      <4>1. \A p \in Entries(dir) : Front(p) = dir /\ p # <<>>
        BY DEF Entries
      <4> QED
        BY <1>2, <2>1, <2>2, <3>1, <4>1 DEF Right, Fresh, Listing
    <3> QED
      BY <1>1, <1>2, <2>1, <3>1, <3>2, <3>3 DEF Listing
  <2>4. CASE pc' = [pc EXCEPT ![c] = "reply"] /\ UNCHANGED local
    <3>1. pc'[c] = "reply"
      BY <1>1, <2>4 DEF TypeInv
    <3>2. Straight(c) => Meant(c)'
      BY <1>1, <1>2, <2>1, <2>4, <3>1 DEF Meant, Listing
    <3>3. Straight(c) => Right(c)'
      BY <1>2, <2>1, <2>4, <3>1 DEF Right, Fresh, Listing
    <3> QED
      BY <1>1, <1>2, <2>1, <2>4, <3>1, <3>2, <3>3 DEF Listing
  <2>5. CASE OpenDir(c)
    <3>1. CASE dir \in Dirs /\ fds < MaxFds
      BY <2>3, <2>5, <3>1 DEF OpenDir, Goto
    <3>2. CASE ~(dir \in Dirs /\ fds < MaxFds)
      BY <2>4, <2>5, <3>2 DEF OpenDir, Goto
    <3> QED
      BY <3>1, <3>2
  <2>6. CASE FindFirst(c)
    <3>1. build # "posix"
      BY <2>6 DEF FindFirst
    <3>2. CASE dir \in Dirs
      BY <2>3, <2>6, <3>1, <3>2 DEF FindFirst, Goto
    <3>3. CASE dir \notin Dirs
      BY <2>4, <2>6, <3>3 DEF FindFirst, Goto
    <3> QED
      BY <3>2, <3>3
  <2> QED
    BY <1>5, <2>5, <2>6
<1>6. CASE ChDir(c)
  <2>1. /\ pc[c] = "chdir" /\ pc'[c] = "readdir" /\ UNCHANGED <<local, answer, files>>
        /\ answer[c] = <<>> /\ local[c].path = req[c].path
        /\ cwd' = IF Resolve(local[c].path) \in Dirs THEN Resolve(local[c].path) ELSE cwd
    BY <1>1, <1>6 DEF ChDir, Goto, TypeInv, Kept, Listing
  <2>2. Straight(c) => cwd' = Asked(c)
    BY <1>1, <2>1, ResolveAsked DEF Listing, Meant
  <2>3. Straight(c) => Meant(c)'
    BY <1>1, <1>2, <2>1, <2>2 DEF Meant, Listing
  <2>4. Straight(c) => Right(c)'
    BY <1>2, <2>1, SMTT(40) DEF Right, Fresh, Listing
  <2> QED
    BY <1>1, <1>2, <2>1, <2>3, <2>4 DEF Listing
<1>7. CASE ReadDir(c) \/ FindNext(c)
  <2>1. /\ pc[c] = "readdir" /\ answer' = answer /\ answer[c] = <<>> /\ UNCHANGED <<cwd, files>>
        /\ local[c].path = req[c].path
    BY <1>7, ZenonT(40) DEF ReadDir, FindNext, Kept, Listing
  <2>2. CASE /\ local[c].owed \subseteq local[c].seen
             /\ pc' = [pc EXCEPT ![c] = "reply"] /\ UNCHANGED local
    <3>1. pc'[c] = "reply"
      BY <1>1, <2>2 DEF TypeInv
    <3>2. Straight(c) => Meant(c)'
      BY <1>1, <1>2, <2>1, <2>2, <3>1 DEF Meant, Listing
    <3>3. Straight(c) => Right(c)'
      BY <1>2, <2>1, <2>2, <3>1 DEF Right, Fresh, Listing
    <3> QED
      BY <1>1, <1>2, <2>1, <2>2, <3>1, <3>2, <3>3 DEF Listing
  <2>3. ASSUME NEW p \in Entries(local[c].dir), NEW stat, NEW isDir \in BOOLEAN, NEW size,
               Noted(c, p, stat, With(c, p, isDir, size)), UNCHANGED pc,
               Straight(c) => (isDir <=> p \in Dirs) /\ (~isDir => size = Len(files[p]))
        PROVE  Listing(c)'
    <3>1. local'[c].path = local[c].path /\ local'[c].dir = local[c].dir
      BY <1>1, <2>3 DEF Noted, TypeInv, Locals
    <3>2. Straight(c) => Meant(c)'
      BY <1>1, <1>2, <2>1, <2>3, <3>1 DEF Meant, Listing
    <3>3. Straight(c) => Right(c)'
      <4> SUFFICES ASSUME Straight(c) PROVE Right(c)'
        OBVIOUS
      <4>1. Right(c) /\ local[c].dir = Asked(c)
        BY <2>1 DEF Listing, Meant
      <4> QED
        BY <1>1, <1>2, <2>1, <2>3, <4>1, NotedRight
    <3> QED
      BY <1>1, <1>2, <2>1, <2>3, <3>1, <3>2, <3>3 DEF Listing
  <2>6. CASE Dots(c) /\ UNCHANGED pc
    <3>1. /\ local'[c].path = local[c].path /\ local'[c].dir = local[c].dir
          /\ local'[c].owed = local[c].owed /\ local'[c].seen = local[c].seen
          /\ local'[c].data = local[c].data
      BY <1>1, <2>6, DotsLocal DEF TypeInv
    <3>2. Straight(c) => Meant(c)'
      BY <1>1, <1>2, <2>1, <2>6, <3>1 DEF Meant, Listing
    <3>3. Straight(c) => Right(c)'
      BY <1>2, <2>1, <2>6, <3>1 DEF Right, Fresh, Listing
    <3> QED
      BY <1>1, <1>2, <2>1, <2>6, <3>1, <3>2, <3>3 DEF Listing
  <2>4. CASE ReadDir(c)
    <3>1. ASSUME NEW p \in Entries(local[c].dir), NEW isDir \in BOOLEAN, Straight(c),
                 Stat(c, p) = Unread \/ isDir = Stat(c, p).isDir
          PROVE  (isDir <=> p \in Dirs) /\ (~isDir => Stat(c, p).size = Len(files[p]))
      <4>1. local[c].dir = Asked(c) /\ cwd = Asked(c)
        BY <2>1, <2>4, <3>1, ZenonT(40) DEF Listing, Meant, ReadDir
      <4>2. /\ p \in Seq(STRING) /\ p # <<>> /\ Front(p) = Asked(c) /\ p \in Dirs \cup DOMAIN files
            /\ p = Append(cwd, Last(p))
        BY <1>1, <4>1, EntriesType, Ends DEF Entries
      <4>3. CASE p \in Dirs
        <5>1. Stat(c, p) = [isDir |-> TRUE, size |-> 0]
          BY <4>2, <4>3 DEF Stat
        <5>2. Stat(c, p).isDir = TRUE /\ Stat(c, p) # Unread
          BY <5>1 DEF Unread
        <5>3. isDir = TRUE
          BY <3>1, <5>2
        <5> QED
          BY <4>3, <5>3
      <4>4. CASE p \notin Dirs
        <5>1. p \in DOMAIN files /\ Len(files[p]) \in Nat
          BY <4>2, <4>4 DEF TypeInv, Tree, Contents
        <5>2. Stat(c, p) = [isDir |-> FALSE, size |-> Len(files[p])]
          BY <4>2, <4>4, <5>1 DEF Stat
        <5>3. /\ Stat(c, p).isDir = FALSE /\ Stat(c, p).size = Len(files[p])
              /\ Stat(c, p) # Unread
          BY <5>1, <5>2 DEF Unread
        <5>4. isDir = FALSE
          BY <3>1, <5>3
        <5> QED
          BY <4>4, <5>3, <5>4
      <4> QED
        BY <4>3, <4>4
    <3> QED
      BY <1>1, <2>2, <2>3, <2>4, <2>6, <3>1, ReadDirSteps, Zenon, ZenonT(40)
  <2>5. CASE FindNext(c)
    <3>1. ASSUME NEW p \in Entries(local[c].dir), UNCHANGED pc,
                 Noted(c, p, local[c].statbuf, With(c, p, p \in Dirs, Len(files[p])))
          PROVE  Listing(c)'
      <4>1. (p \in Dirs) \in BOOLEAN
        OBVIOUS
      <4> QED
        BY <2>3, <3>1, <4>1, Zenon
    <3> QED
      BY <1>1, <2>2, <2>5, <3>1, FindNextSteps, Zenon
  <2> QED
    BY <1>7, <2>4, <2>5
<1>8. CASE Break(c)
  <2>1. /\ pc[c] = "idle" /\ pc'[c] = "closed" /\ UNCHANGED <<local, answer, cwd, files>>
        /\ answer[c] = <<>>
    BY <1>1, <1>8 DEF Break, Goto, Kept, TypeInv
  <2>2. Straight(c) => Meant(c)'
    BY <1>1, <1>2, <2>1 DEF Meant, Listing
  <2>3. Straight(c) => Right(c)'
    BY <1>2, <2>1 DEF Right, Fresh, Listing
  <2> QED
    BY <1>1, <1>2, <2>1, <2>2, <2>3 DEF Listing
<1>9. ~(Upload(c) \/ UploadOpen(c) \/ Receive(c) \/ Download(c) \/ WriteCB(c))
  BY <1>1 DEF Upload, UploadOpen, Receive, Download, WriteCB, Kept
<1> QED
  BY <1>3, <1>4, <1>5, <1>6, <1>7, <1>8, <1>9 DEF Step, ListStep

--------------------------------------------------------------------------------
(* The invariant. *)

LEMMA DirInit == Init => DirInv
<1> SUFFICES ASSUME Init PROVE DirInv
  OBVIOUS
<1>1. NoLocal \in Locals
  <2>1. Unread \in [isDir : BOOLEAN, size : Int]
    BY DEF Unread
  <2>2. {} \in SUBSET Seq(STRING) /\ {} \in SUBSET Listed
    BY Zenon
  <2>3. 0 \in Nat
    OBVIOUS
  <2> QED
    BY <2>1, <2>2, <2>3, Constants DEF NoLocal, Locals
<1>2. /\ \A c \in Conns : pc[c] = "idle" /\ local[c] = NoLocal /\ answer[c] = <<>>
      /\ req \in [Conns -> Requests] /\ cwd = StartDir /\ fds = 0
  BY DEF Init
<1>3. TypeInv
  <2>1. Tree
    <3>1. \A p \in DOMAIN Files : [k \in 1 .. Files[p] |-> "old"] \in Contents
      <4>1. ASSUME NEW n \in Nat PROVE [k \in 1 .. n |-> "old"] \in Contents
        <5>1. [k \in 1 .. n |-> "old"] \in [1 .. n -> Conns \cup {"old", "zero"}]
          OBVIOUS
        <5> QED
          BY <5>1 DEF Contents
      <4>2. \A p \in DOMAIN Files : Files[p] \in Nat
        BY DirectoryAssumption
      <4> QED
        BY <4>1, <4>2
    <3> QED
      BY <3>1, DirectoryAssumption DEF Tree, Init
  <2>2. /\ pc \in [Conns -> Control] /\ local \in [Conns -> Locals]
        /\ answer \in [Conns -> Seq(Messages)]
    BY <1>1 DEF Init, Control, Resting
  <2> QED
    BY <1>2, <2>1, <2>2, DirectoryAssumption DEF TypeInv, Init
<1>4. Counted
  <2>1. Transfers = {}
    BY <1>2 DEF Transfers
  <2> QED
    BY <1>2, <2>1, FS_EmptySet, DirectoryAssumption DEF Counted
<1>5. ASSUME NEW c \in Conns PROVE Kept(c)
  <2>1. Len(answer[c]) = 0 /\ req[c].size \in Nat
    BY <1>2, Constants DEF Ask
  <2>2. /\ local[c].dir = Nowhere /\ local[c].seen = {} /\ local[c].recv_size = 0
        /\ local[c].flushed = 0
    BY <1>2 DEF NoLocal
  <2> QED
    BY <1>2, <2>1, <2>2 DEF Kept
<1>6. ASSUME NEW c \in Listers PROVE Listing(c)
  <2>1. /\ local[c].dir = Nowhere /\ local[c].owed = {} /\ local[c].seen = {}
        /\ local[c].data = {} /\ pc[c] = "idle" /\ answer[c] = <<>>
    BY <1>2 DEF Listers, NoLocal
  <2> QED
    BY <1>2, <2>1 DEF Listing, Meant, Right
<1>7. Announced /\ Working /\ \A c \in Uploaders : Stored(c) /\ Aimed(c)
  <2>1. Begun = {} /\ cur_dir_ = Here
    BY <1>2 DEF Begun, Listers, Init
  <2> QED
    BY <1>2, <2>1 DEF Announced, Working, Stored, Aimed, Uploaders
<1> QED
  BY <1>3, <1>4, <1>5, <1>6, <1>7 DEF DirInv

LEMMA DirNext == DirInv /\ [Next]_vars => DirInv'
<1> SUFFICES ASSUME DirInv, [Next]_vars PROVE DirInv'
  OBVIOUS
<1>1. ASSUME NEW c \in Conns, Step(c) \/ Break(c) PROVE DirInv'
  <2>1. TypeInv /\ Counted /\ Announced /\ Working /\ Kept(c)
    BY DEF DirInv
  <2>2. (c \in Uploaders => Stored(c)) /\ (c \in Listers => Listing(c))
    BY DEF DirInv
  <2>3. TypeInv' /\ Frame(c) /\ UNCHANGED req /\ Counted' /\ Announced' /\ Working'
    BY <1>1, <2>1, <2>2, StepType, Grows, CountedStep, AnnouncedStep, WorkingStep
  <2>4. Uploaders' = Uploaders /\ Listers' = Listers
    BY <2>3 DEF Uploaders, Listers
  <2>5. ASSUME NEW d \in Conns PROVE Kept(d)'
    <3>1. CASE d = c
      BY <1>1, <2>1, <3>1, ListKept, TransferKept
    <3>2. CASE d # c
      BY <1>1, <2>1, <2>3, <3>2, OthersKept DEF DirInv
    <3> QED
      BY <3>1, <3>2
  <2>6. ASSUME NEW d \in Uploaders PROVE Stored(d)' /\ Aimed(d)'
    <3>1. Stored(d) /\ Aimed(d)
      BY DEF DirInv
    <3>2. Aimed(d)'
      BY <1>1, <2>1, <3>1, AimedStep
    <3>3. CASE d = c
      BY <1>1, <2>1, <2>2, <3>2, <3>3, StoredOwn
    <3>4. CASE d # c
      BY <1>1, <2>1, <2>2, <3>1, <3>2, <3>4, StoredOther
    <3> QED
      BY <3>3, <3>4
  <2>7. ASSUME NEW d \in Listers PROVE Listing(d)'
    <3>1. CASE d = c
      BY <1>1, <2>1, <2>2, <3>1, ListingOwn
    <3>2. CASE d # c
      <4>1. Listing(d)
        BY DEF DirInv
      <4> QED
        BY <1>1, <2>1, <2>2, <3>2, <4>1, ListingOther
    <3> QED
      BY <3>1, <3>2
  <2> QED
    BY <2>3, <2>4, <2>5, <2>6, <2>7 DEF DirInv
<1>2. CASE UNCHANGED vars
  <2>1. /\ UNCHANGED <<build, req, pc, local, answer, cur_dir_, cwd, fds, files>>
        /\ Uploaders' = Uploaders /\ Listers' = Listers /\ Transfers' = Transfers
        /\ Begun' = Begun
    BY <1>2 DEF vars, given, Uploaders, Listers, Transfers, Begun
  <2>2. TypeInv' /\ Counted' /\ Announced' /\ Working'
    BY <2>1 DEF DirInv, TypeInv, Tree, Counted, Announced, Working, Asked
  <2>3. ASSUME NEW d \in Conns PROVE Kept(d)'
    BY <2>1 DEF DirInv, Kept
  <2>4. ASSUME NEW d \in Uploaders PROVE Stored(d)' /\ Aimed(d)'
    <3>1. Stored(d) /\ Aimed(d)
      BY DEF DirInv
    <3>2. Aimed(d)'
      BY <2>1, <3>1 DEF Aimed, Known
    <3> QED
      BY <2>1, <3>1, <3>2 DEF Stored, Fresh, Alone
  <2>5. ASSUME NEW d \in Listers PROVE Listing(d)'
    <3>1. Listing(d)
      BY DEF DirInv
    <3>2. Asked(d)' = Asked(d) /\ Straight(d)' = Straight(d)
      BY <2>1 DEF Asked, Straight, Agreed
    <3>3. (Meant(d) => Meant(d)') /\ (Right(d) => Right(d)')
      BY <2>1, <3>2 DEF Meant, Right, Fresh
    <3> QED
      BY <2>1, <3>1, <3>2, <3>3 DEF Listing
  <2> QED
    BY <2>1, <2>2, <2>3, <2>4, <2>5 DEF DirInv
<1> QED
  BY <1>1, <1>2 DEF Next

\* The inductive invariant of the directory service, which the theorems below use.
THEOREM DirInvariant == Spec => []DirInv
BY DirInit, DirNext, PTL DEF Spec

\* The types of the directory service; at most MaxFds descriptors are open, and a
\* stream passes on no more than it was given.
THEOREM DirectoryTypes == Spec => []TypeOK
<1>1. DirInv => TypeOK
  <2> SUFFICES ASSUME DirInv PROVE TypeOK
    OBVIOUS
  <2>1. TypeInv /\ Counted /\ \A c \in Conns : Kept(c)
    BY DEF DirInv
  <2>2. 0 <= fds /\ fds <= MaxFds /\ fds \in Int
    BY <2>1, FS_CardinalityType, DirectoryAssumption DEF Counted, TypeInv
  <2>3. ASSUME NEW c \in Conns
        PROVE  /\ req[c] \in Requests
               /\ local[c].dir \in Dirs \cup DOMAIN files \cup {Nowhere}
               /\ local[c].seen \subseteq Dirs \cup DOMAIN files
               /\ local[c].flushed <= local[c].recv_size /\ local[c].recv_size <= req[c].size
               /\ Len(answer[c]) <= 2
    BY <2>1 DEF Kept, TypeInv
  <2>4. fds \in 0 .. MaxFds
    BY <2>2, DirectoryAssumption
  <2> QED
    BY <2>1, <2>3, <2>4 DEF TypeOK, TypeInv, Tree, Control
<1> QED
  BY <1>1, DirInvariant, PTL

\* A listing that no other disturbs is of the directory asked for, has its files and
\* only those, with their sizes, whatever is uploaded meanwhile and however
\* the steps of several GetDirData interleave.
THEOREM ListingsAreRight == Spec => []ListingRight
<1>1. DirInv => ListingRight
  <2> SUFFICES ASSUME DirInv, NEW c \in Listers, Straight(c), answer[c] # <<>>,
                      local[c].dir # Nowhere
               PROVE  LET list == answer[c][1].data
                          at(e) == Append(Asked(c), e[1])
                      IN
                      /\ local[c].dir = Asked(c)
                      /\ local[c].owed \ Dirs \subseteq {at(e) : e \in list}
                      /\ \A e \in list :
                           /\ at(e) \in DOMAIN files /\ e[2] >= 0
                           /\ (\A k \in DOMAIN files[at(e)] : files[at(e)][k] = "old")
                                /\ files[at(e)] # <<>> => e[2] = Len(files[at(e)])
    BY DEF ListingRight, Straight
  <2>1. /\ pc[c] = "done" /\ answer[c] = << [type |-> "DIRLIST", data |-> local[c].data] >>
        /\ Meant(c) /\ Right(c)
    BY DEF DirInv, Listing
  <2>2. answer[c][1].data = local[c].data /\ local[c].dir = Asked(c)
        /\ local[c].owed \subseteq local[c].seen
    BY <2>1 DEF Meant, Right
  <2>3. \A p \in local[c].owed \ Dirs : \E e \in local[c].data : Append(Asked(c), e[1]) = p
    BY <2>1, <2>2 DEF Right
  <2>4. ASSUME NEW e \in local[c].data, NEW p, p = Append(Asked(c), e[1])
        PROVE  /\ p \in DOMAIN files /\ e[2] >= 0
               /\ (\A k \in DOMAIN files[p] : files[p][k] = "old") /\ files[p] # <<>>
                    => e[2] = Len(files[p])
    <3>1. p \in DOMAIN files /\ e[2] >= 0 /\ (Fresh(p) => e[2] = Len(files[p]))
      BY <2>1, <2>4 DEF Right
    <3>2. files[p] # <<>> => \E k \in DOMAIN files[p] : TRUE
      <4>1. files[p] \in Seq(Conns \cup {"old", "zero"})
        BY <3>1 DEF DirInv, TypeInv, Tree, Contents
      <4>2. files[p] # <<>> => 1 \in DOMAIN files[p]
        BY <4>1
      <4> QED
        BY <4>2
    <3> QED
      BY <3>1, <3>2 DEF Fresh
  <2> QED
    BY <2>2, <2>3, <2>4
<1> QED
  BY <1>1, DirInvariant, PTL

\* When UPLOAD_COMPLETE is written the file is what was sent, if no other upload was
\* accepted for it.
THEOREM CompletedIsOnDisk == Spec => []CompleteMeansOnDisk
<1>1. DirInv => CompleteMeansOnDisk
  BY DEF DirInv, CompleteMeansOnDisk, Stored, Alone
<1> QED
  BY <1>1, DirInvariant, PTL

\* Whatever clients list, an upload is taken for one of the directories listed, by its
\* path and its own name, and its file is opened in a directory that was listed, or in
\* the one the server was started in, if paths are absolute or nobody calls chdir.
THEOREM UploadsFollowListings == Spec => UploadFollowsListing
<1> DEFINE A == \A c \in Uploaders :
                  /\ pc[c] = "idle" /\ pc'[c] = "open" /\ Begun # {} =>
                       \E e \in Begun : local'[c].path = FileIn(req[e].path, req[c].name)
                  /\ /\ pc[c] = "open" /\ pc'[c] = "receiving"
                     /\ build = "win32" \/ \A e \in Begun : req[e].path.abs
                     => /\ Last(local'[c].dir) = req[c].name
                        /\ Front(local'[c].dir) \in {StartDir} \cup {Asked(e) : e \in Begun}
<1>1. DirInv /\ [Next]_vars => [A]_vars
  <2> DEFINE Taken(c)  == pc[c] = "idle" /\ pc'[c] = "open" /\ Begun # {} =>
                            \E e \in Begun : local'[c].path = FileIn(req[e].path, req[c].name)
             Opened(c) == /\ pc[c] = "open" /\ pc'[c] = "receiving"
                          /\ build = "win32" \/ \A e \in Begun : req[e].path.abs
                          => /\ Last(local'[c].dir) = req[c].name
                             /\ Front(local'[c].dir) \in {StartDir} \cup {Asked(e) : e \in Begun}
  <2> SUFFICES ASSUME DirInv, Next, NEW c \in Uploaders PROVE Taken(c) /\ Opened(c)
    BY DEF A
  <2>1. PICK b \in Conns : Step(b) \/ Break(b)
    BY DEF Next
  <2>2. TypeInv /\ Kept(b) /\ c \in Conns /\ Announced /\ Working /\ Aimed(c)
    BY DEF DirInv, Uploaders
  <2>3. Frame(b)
    BY <2>1, <2>2, StepType
  <2>4. Taken(c)
    <3> SUFFICES ASSUME pc[c] = "idle", pc'[c] = "open", Begun # {}
                 PROVE  \E e \in Begun : local'[c].path = FileIn(req[e].path, req[c].name)
      OBVIOUS
    <3>1. b = c
      BY <2>2, <2>3 DEF Frame
    <3>2. Upload(c)
      BY <2>1, <2>2, <3>1, ZenonT(40) DEF Step, ListStep, GetDir, Reply, OpenDir, ChDir, ReadDir,
         FindFirst, FindNext, UploadOpen, Receive, Download, WriteCB, Break, Goto, TypeInv
    <3>3. local'[c].path = FileIn(cur_dir_, req[c].name)
      BY <2>2, <3>2 DEF Upload, Goto, TypeInv, Locals
    <3> QED
      BY <2>2, <3>3 DEF Announced
  <2>5. Opened(c)
    <3> SUFFICES ASSUME pc[c] = "open", pc'[c] = "receiving",
                        build = "win32" \/ \A e \in Begun : req[e].path.abs
                 PROVE  /\ Last(local'[c].dir) = req[c].name
                        /\ Front(local'[c].dir) \in {StartDir} \cup {Asked(e) : e \in Begun}
      OBVIOUS
    <3>1. b = c
      BY <2>2, <2>3 DEF Frame
    <3>2. UploadOpen(c)
      BY <2>1, <2>2, <3>1, ZenonT(40) DEF Step, ListStep, GetDir, Reply, OpenDir, ChDir, ReadDir,
         FindFirst, FindNext, Upload, Receive, Download, WriteCB, Break
    <3>3. local'[c].dir = Resolve(local[c].path)
      BY <2>2, <3>2 DEF UploadOpen, Goto, TypeInv, Locals
    <3>4. PICK x \in Known : local[c].path = FileIn(x, req[c].name)
      BY <2>2 DEF Aimed
    <3>5. x \in Paths /\ x.names \in Seq(STRING) /\ req[c].name \in STRING
      BY <2>2, <3>4, Constants DEF Known, Begun, Listers, TypeInv, Paths, Ask
    <3>6. local'[c].dir = Append(Resolve(x), req[c].name) /\ Resolve(x) \in Seq(STRING)
      <4>1. /\ FileIn(x, req[c].name).abs = x.abs
            /\ FileIn(x, req[c].name).names = Append(x.names, req[c].name)
        BY <2>2, <3>5, FileInType DEF TypeInv
      <4>2. /\ cwd \in Seq(STRING)
            /\ cwd \o Append(x.names, req[c].name) = Append(cwd \o x.names, req[c].name)
        BY <2>2, <3>5, Constants DEF TypeInv
      <4> QED
        BY <2>2, <3>3, <3>4, <3>5, <4>1, <4>2, ResolveType DEF Resolve
    <3>7. Resolve(x) \in {StartDir} \cup {Asked(e) : e \in Begun}
      <4>1. CASE x = Here
        <5>1. cwd \in Seq(STRING) /\ cwd \o <<>> = cwd
          BY <2>2, Constants DEF TypeInv
        <5>2. Resolve(x) = cwd
          BY <4>1, <5>1, Constants DEF Resolve
        <5> QED
          BY <2>2, <5>2 DEF Working
      <4>2. ASSUME NEW e \in Begun, x = req[e].path PROVE Resolve(x) = Asked(e)
        <5>1. CASE x.abs
          BY <4>2, <5>1 DEF Resolve, Asked
        <5>2. CASE ~x.abs
          BY <2>2, <4>2, <5>2 DEF Resolve, Asked, Working
        <5> QED
          BY <5>1, <5>2
      <4> QED
        BY <3>4, <4>1, <4>2 DEF Known
    <3> QED
      BY <3>5, <3>6, <3>7, EndsOfAppend
  <2> QED
    BY <2>4, <2>5
<1> QED
  BY <1>1, DirInvariant, PTL DEF Spec, UploadFollowsListing
===============================================================================
