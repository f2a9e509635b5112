--------------------------- MODULE XDiskClientProofs ---------------------------
(***************************************************************************)
(* Theorems about the client, for every set of directories and of names,   *)
(* whatever rows the names make and whatever the user does.  They are      *)
(* facts about [][Next]_vars: no fairness is used.                         *)
(*                                                                         *)
(* What the listing is split into is computed along the listing; the       *)
(* facts about it are proved of its least counterexample.                  *)
(***************************************************************************)
EXTENDS XDiskClient, FiniteSetTheorems, SequenceTheorems, WellFoundedInduction, TLAPS

Kinds == {"list", "upload", "download"}
Task  == [kind : Kinds, path : Dirs, dir : Dirs, name : Names \cup {NoItem}, from : Nat,
          pc : {"queued", "asked", "served", "done", "failed"}, listing : Seq(Names)]
Dialog == [kind : {"box", "upload", "download"}, name : Names \cup {NoItem}, from : Nat]

TypeInv ==
  /\ clicks \in Seq(Kinds)
  /\ ui \in {"starting", "open", "crashed"}
  /\ path \in Dirs /\ server_root_ \in Dirs /\ cur_dir_ \in Dirs
  /\ table \in Seq(Names \cup {NoItem}) /\ row \in 0 .. Len(table)
  /\ dialogs \in Seq(Dialog)
  /\ events \in Seq(Nat)
  /\ tasks \in Seq(Task)
  /\ inited \in [Pool!Threads -> Seq(Nat)]
  /\ store \in [Dirs -> SUBSET Names] /\ \A d \in Dirs : IsFiniteSet(store[d])
  /\ shown \in 0 .. Len(tasks) /\ last \in 0 .. Len(tasks)

\* The pool has initialised the tasks that wait no longer.
Initialised == UNION {Range(inited[t]) : t \in Pool!Threads}
PoolInv == /\ Initialised \subseteq DOMAIN tasks
           /\ \A i \in DOMAIN tasks : tasks[i].pc = "queued" <=> i \notin Initialised

\* Each signal is of a task that is done, and every task has one at most.
EventInv ==
  /\ \A i \in Range(events) : i \in DOMAIN tasks /\ tasks[i].pc = "done"
  /\ \A a, b \in DOMAIN events : events[a] = events[b] => a = b

\* A listing that has come.
Listed(i) == i \in DOMAIN tasks /\ tasks[i].kind = "list" /\ tasks[i].pc = "done"

\* The name was a row of the listing it was taken from.
TakenFrom(name, from) ==
  Listed(from) /\ name \in Names /\ (Clean(from) => name \in Range(tasks[from].listing))

ListInv(i) ==
  tasks[i].kind = "list" =>
    /\ tasks[i].dir = tasks[i].path
    /\ tasks[i].pc \in {"served", "done"} =>
         last # 0 /\ Range(tasks[i].listing) \subseteq store[tasks[i].dir]

UploadInv(i) ==
  tasks[i].kind = "upload" =>
    /\ tasks[i].name \in Names
    /\ tasks[i].from # 0 => last # 0
    /\ tasks[i].from # 0 /\ tasks[i].pc \in {"served", "done"} =>
         \E j \in Tasks("list") : tasks[i].dir = tasks[j].path

DownloadInv(i) == tasks[i].kind = "download" => TakenFrom(tasks[i].name, tasks[i].from)

TaskInv == \A i \in DOMAIN tasks : ListInv(i) /\ UploadInv(i) /\ DownloadInv(i)

DialogInv == \A d \in Range(dialogs) : d.kind = "download" => TakenFrom(d.name, d.from)

\* The table has rows when a listing is shown, and those of a clean listing.
TableInv ==
  /\ shown = 0 => table = <<>>
  /\ shown # 0 => Listed(shown) /\ (Clean(shown) => table = tasks[shown].listing)

\* A row without an item, or a crash, was made by a bad piece.
SomeBad == \E i \in DOMAIN tasks : Listed(i) /\ Bad \in Split(i)
ItemInv == NoItem \in Range(table) \/ ui = "crashed" => SomeBad

\* Something is under way that a new listing will follow, or a connection failed.
Owed ==
  \/ \E i \in DOMAIN tasks :
       tasks[i].kind = "upload" /\ (tasks[i].pc \in {"served", "failed"} \/ i \in Range(events))
  \/ \E i \in DOMAIN tasks :
       tasks[i].kind = "list" /\ tasks[i].pc \in {"queued", "asked", "failed"}

\* Else the last listing is still what the server has.
LastInv ==
  last # 0 =>
    /\ tasks[last].kind = "list" /\ cur_dir_ = tasks[last].dir
    /\ store[cur_dir_] = Range(tasks[last].listing) \/ Owed

ClientInv == /\ TypeInv /\ PoolInv /\ EventInv /\ TaskInv /\ DialogInv
             /\ TableInv /\ ItemInv /\ LastInv

--------------------------------------------------------------------------------
(* The operators. *)

LEMMA LeastNat ==
  ASSUME NEW T \in SUBSET Nat, T # {}
  PROVE  \E n \in T : \A m \in T : n <= m
<1> DEFINE R == OpToRel(<, Nat)
<1>1. IsWellFoundedOn(R, Nat)
  BY NatLessThanWellFounded, Zenon
<1>2. PICK n \in T : \A m \in T : << m, n >> \notin R
  BY <1>1, WFMin, Zenon
<1>3. \A m \in T : ~(m < n)
  BY <1>2 DEF OpToRel
<1> QED
  BY <1>3

\* What FlattenSeq computes along s, up to n.
FlatUpTo(s, n, g) ==
  g = [i \in 1 .. n |-> IF i = 1 THEN s[i] ELSE g[i - 1] \o s[i]]

LEMMA FlatMore ==
  ASSUME NEW s, NEW n \in Nat, n # 0, NEW g, FlatUpTo(s, n - 1, g)
  PROVE  \E h : FlatUpTo(s, n, h)
<1> DEFINE e == IF n = 1 THEN s[n] ELSE g[n - 1] \o s[n]
           h == [i \in 1 .. n |-> IF i = n THEN e ELSE g[i]]
<1>1. ASSUME NEW i \in 1 .. n PROVE h[i] = IF i = 1 THEN s[i] ELSE h[i - 1] \o s[i]
  <2>1. CASE i = n
    <3>1. h[i] = e
      BY <2>1
    <3>2. n # 1 => h[n - 1] = g[n - 1]
      OBVIOUS
    <3> QED
      BY <2>1, <3>1, <3>2
  <2>2. CASE i # n
    <3>1. i \in 1 .. n - 1 /\ h[i] = g[i]
      BY <2>2
    <3>2. g[i] = IF i = 1 THEN s[i] ELSE g[i - 1] \o s[i]
      BY <3>1 DEF FlatUpTo
    <3>3. i # 1 => h[i - 1] = g[i - 1]
      BY <2>2
    <3> QED
      BY <3>1, <3>2, <3>3
  <2> QED
    BY <2>1, <2>2
<1>2. h = [i \in 1 .. n |-> IF i = 1 THEN s[i] ELSE h[i - 1] \o s[i]]
  <2>1. h = [i \in 1 .. n |-> h[i]]
    OBVIOUS
  <2> HIDE DEF h
  <2> QED
    BY <1>1, <2>1
<1> HIDE DEF h
<1> QED
  BY <1>2 DEF FlatUpTo

LEMMA FlatExists ==
  ASSUME NEW s
  PROVE  \A n \in Nat : \E g : FlatUpTo(s, n, g)
<1> DEFINE T == {n \in Nat : ~ \E g : FlatUpTo(s, n, g)}
<1>1. CASE T = {}
  BY <1>1
<1>2. CASE T # {}
  <2>1. PICK n \in T : \A m \in T : n <= m
    BY <1>2, LeastNat
  <2>2. n # 0
    <3>1. FlatUpTo(s, 0, << >>)
      BY DEF FlatUpTo
    <3> QED
      BY <2>1, <3>1
  <2>3. n - 1 \in Nat /\ ~(n <= n - 1)
    BY <2>1, <2>2
  <2>4. \E g : FlatUpTo(s, n - 1, g)
    BY <2>1, <2>3
  <2>5. \E g : FlatUpTo(s, n, g)
    BY <2>1, <2>2, <2>4, FlatMore
  <2> QED
    BY <2>1, <2>5
<1> QED
  BY <1>1, <1>2

LEMMA FlattenIs ==
  ASSUME NEW s, Len(s) \in Nat, Len(s) # 0
  PROVE  \E g : FlatUpTo(s, Len(s), g) /\ FlattenSeq(s) = g[Len(s)]
<1> DEFINE flatten[i \in 1 .. Len(s)] == IF i = 1 THEN s[i] ELSE flatten[i - 1] \o s[i]
<1>1. PICK g : FlatUpTo(s, Len(s), g)
  BY FlatExists, Zenon
<1>2. flatten = [i \in 1 .. Len(s) |-> IF i = 1 THEN s[i] ELSE flatten[i - 1] \o s[i]]
  BY <1>1, Zenon DEF FlatUpTo
<1>3. FlattenSeq(s) = flatten[Len(s)]
  BY DEF FlattenSeq
<1> HIDE DEF flatten
<1>4. FlatUpTo(s, Len(s), flatten)
  BY <1>2 DEF FlatUpTo
<1> QED
  BY <1>3, <1>4

LEMMA FlattenType ==
  ASSUME NEW X, NEW s \in Seq(Seq(X))
  PROVE  FlattenSeq(s) \in Seq(X)
<1>1. CASE Len(s) = 0
  <2>1. s = << >>
    BY <1>1
  <2> QED
    BY <1>1, <2>1 DEF FlattenSeq
<1>2. CASE Len(s) # 0
  <2>1. PICK g : FlatUpTo(s, Len(s), g) /\ FlattenSeq(s) = g[Len(s)]
    BY <1>2, FlattenIs
  <2> DEFINE T == {n \in 1 .. Len(s) : g[n] \notin Seq(X)}
  <2>2. CASE T = {}
    BY <1>2, <2>1, <2>2
  <2>3. CASE T # {}
    <3>1. T \in SUBSET Nat
      OBVIOUS
    <3>2. PICK n \in T : \A m \in T : n <= m
      BY <2>3, <3>1, LeastNat
    <3>3. n \in 1 .. Len(s) /\ s[n] \in Seq(X)
      BY <3>2
    <3>4. g[n] = IF n = 1 THEN s[n] ELSE g[n - 1] \o s[n]
      BY <2>1, <3>3 DEF FlatUpTo
    <3>5. n # 1
      BY <3>2, <3>3, <3>4
    <3>6. g[n - 1] \in Seq(X)
      BY <3>2, <3>3, <3>5
    <3>7. g[n] \in Seq(X)
      BY <3>3, <3>4, <3>5, <3>6
    <3> QED
      BY <3>2, <3>7
  <2> QED
    BY <2>2, <2>3
<1> QED
  BY <1>1, <1>2

\* A sequence of one-element sequences is flattened to those elements.
LEMMA FlattenSingles ==
  ASSUME NEW X, NEW t \in Seq(X), NEW s, s = [k \in DOMAIN t |-> << t[k] >>]
  PROVE  FlattenSeq(s) = t
<1>1. DOMAIN t = 1 .. Len(t) /\ Len(t) \in Nat /\ \A k \in 1 .. Len(t) : t[k] \in X
  OBVIOUS
<1>0. s = [k \in 1 .. Len(t) |-> << t[k] >>]
  BY <1>1, Zenon
<1>4. Len(s) = Len(t)
  BY <1>0, <1>1
<1>2. CASE Len(t) = 0
  <2>1. t = << >>
    BY <1>2
  <2>2. s = << >>
    BY <1>0, <1>2
  <2>3. FlattenSeq(s) = s
    BY <1>2, <1>4 DEF FlattenSeq
  <2> QED
    BY <2>1, <2>2, <2>3
<1>3. CASE Len(t) # 0
  <2>1. PICK g : FlatUpTo(s, Len(t), g) /\ FlattenSeq(s) = g[Len(t)]
    BY <1>1, <1>3, <1>4, FlattenIs
  <2> DEFINE P(n) == [k \in 1 .. n |-> t[k]]
             T == {n \in 1 .. Len(t) : g[n] # P(n)}
  <2>2. CASE T = {}
    <3>1. Len(t) \in 1 .. Len(t) /\ Len(t) \notin T
      <4> HIDE DEF T, P
      <4> QED
        BY <1>1, <1>3, <2>2
    <3>3. g[Len(t)] = P(Len(t))
      BY <3>1
    <3>2. P(Len(t)) = t
      OBVIOUS
    <3> QED
      BY <2>1, <3>2, <3>3
  <2>3. CASE T # {}
    <3>1. T \in SUBSET Nat
      OBVIOUS
    <3>2. PICK n \in T : \A m \in T : n <= m
      BY <2>3, <3>1, LeastNat
    <3>3. n \in 1 .. Len(t) /\ s[n] = << t[n] >>
      BY <1>0, <3>2
    <3>4. g[n] = IF n = 1 THEN s[n] ELSE g[n - 1] \o s[n]
      BY <2>1, <3>3 DEF FlatUpTo
    <3>5. CASE n = 1
      <4>1. P(n) = << t[n] >>
        BY <3>5
      <4> QED
        BY <3>2, <3>3, <3>4, <3>5, <4>1
    <3>6. CASE n # 1
      <4>0. n - 1 \in 1 .. Len(t) /\ ~(n <= n - 1)
        BY <1>1, <3>3, <3>6
      <4>4. n - 1 \notin T
        BY <3>2, <4>0
      <4>1. g[n - 1] = P(n - 1)
        BY <4>0, <4>4
      <4>2. P(n - 1) \in Seq(X) /\ Len(P(n - 1)) = n - 1 /\ t[n] \in X
        <5>1. n - 1 \in Nat /\ t[n] \in X /\ \A k \in 1 .. n - 1 : t[k] \in X
          BY <1>1, <3>3
        <5> QED
          BY <5>1
      <4>3. P(n - 1) \o << t[n] >> = P(n)
        BY <3>3, <3>6, <4>2
      <4> QED
        BY <3>2, <3>3, <3>4, <3>6, <4>1, <4>3
    <3> QED
      BY <3>5, <3>6
  <2> QED
    BY <2>2, <2>3
<1> QED
  BY <1>2, <1>3

\* The listings of a set have its elements and no other.
LEMMA ListingOf ==
  ASSUME NEW S, IsFiniteSet(S), NEW s \in SetToSeqs(S)
  PROVE  s \in Seq(S) /\ Range(s) = S
<1> DEFINE D == 1 .. Cardinality(S)
<1>1. Cardinality(S) \in Nat
  BY FS_CardinalityType
<1>2. s \in [D -> S] /\ \A i, j \in D : i # j => s[i] # s[j]
  BY DEF SetToSeqs
<1>3. s \in Seq(S)
  BY <1>1, <1>2
<1>4. s \in Injection(D, S)
  BY <1>2 DEF Injection, IsInjective
<1>5. IsFiniteSet(D) /\ Cardinality(D) = Cardinality(S)
  BY <1>1, FS_Interval
<1>6. s \in Surjection(D, S)
  BY <1>4, <1>5, FS_Injection
<1> QED
  BY <1>2, <1>3, <1>6 DEF Range, Surjection

LEMMA EventCount ==
  ASSUME NEW s \in Seq(Nat), \A a, b \in DOMAIN s : s[a] = s[b] => a = b
  PROVE  Cardinality(Range(s)) = Len(s)
<1>1. IsFiniteSet(1 .. Len(s)) /\ Cardinality(1 .. Len(s)) = Len(s)
  <2>1. Len(s) \in Nat
    OBVIOUS
  <2>2. 1 \in Int /\ Len(s) \in Int
    BY <2>1
  <2>3. /\ IsFiniteSet(1 .. Len(s))
        /\ Cardinality(1 .. Len(s)) = IF 1 > Len(s) THEN 0 ELSE Len(s) - 1 + 1
    BY <2>2, FS_Interval, Zenon
  <2> QED
    BY <2>1, <2>3
<1>2. s \in Bijection(1 .. Len(s), Range(s))
  <2>1. s \in [1 .. Len(s) -> Range(s)] /\ DOMAIN s = 1 .. Len(s)
    BY DEF Range
  <2>2. s \in Injection(1 .. Len(s), Range(s))
    BY <2>1 DEF Injection, IsInjective
  <2>3. s \in Surjection(1 .. Len(s), Range(s))
    BY <2>1 DEF Surjection, Range
  <2> QED
    BY <2>2, <2>3 DEF Bijection
<1>3. ExistsBijection(1 .. Len(s), Range(s))
  BY <1>2 DEF ExistsBijection
<1> QED
  BY <1>1, <1>3, FS_Bijection

LEMMA PiecesType ==
  ASSUME NEW l \in Seq(Names)
  PROVE  Pieces(l) \in Seq(Names \cup {Bad})
<1> DEFINE s == [k \in DOMAIN l |-> Columns[l[k]]]
<1>1. DOMAIN l = 1 .. Len(l) /\ Len(l) \in Nat /\ \A k \in 1 .. Len(l) : l[k] \in Names
  OBVIOUS
<1>2. \A k \in 1 .. Len(l) : Columns[l[k]] \in Seq(Names \cup {Bad})
  BY <1>1, ClientAssumption
<1>3. s = [k \in 1 .. Len(l) |-> Columns[l[k]]]
  BY <1>1, Zenon
<1>4. s \in Seq(Seq(Names \cup {Bad}))
  BY <1>1, <1>2, <1>3
<1> HIDE DEF s
<1>5. FlattenSeq(s) \in Seq(Names \cup {Bad})
  BY <1>4, FlattenType
<1> USE DEF s
<1> QED
  BY <1>5 DEF Pieces

\* A clean listing is split into itself.
LEMMA PiecesClean ==
  ASSUME NEW l \in Seq(Names), \A n \in Range(l) : Columns[n] = << n >>
  PROVE  Pieces(l) = l
<1> DEFINE s == [k \in DOMAIN l |-> Columns[l[k]]]
<1>1. s = [k \in DOMAIN l |-> << l[k] >>]
  BY DEF Range
<1> HIDE DEF s
<1>2. FlattenSeq(s) = l
  BY <1>1, FlattenSingles
<1> USE DEF s
<1> QED
  BY <1>2 DEF Pieces
--------------------------------------------------------------------------------
(* What a step does to the tasks. *)

\* A task is dispatched.
Asked(task) == /\ task \in Task /\ task.pc = "queued"
               /\ tasks' = Append(tasks, task) /\ UNCHANGED inited

\* A task goes on, and stays what was asked for.
Moved(i, r) ==
  /\ i \in DOMAIN tasks /\ r \in Task /\ tasks' = [tasks EXCEPT ![i] = r]
  /\ tasks[i].pc # "done" /\ r.pc # "queued"
  /\ r.kind = tasks[i].kind /\ r.path = tasks[i].path /\ r.name = tasks[i].name
  /\ r.from = tasks[i].from /\ (r.kind = "list" => r.dir = tasks[i].dir)

ListTask == [NewTask EXCEPT !.path = path, !.dir = path]
UploadTask(name) == [NewTask EXCEPT !.kind = "upload", !.path = path, !.name = name,
                                    !.from = shown]
DownloadTask(d) == [NewTask EXCEPT !.kind = "download", !.path = path, !.dir = path,
                                   !.name = d.name, !.from = d.from]

LEMMA TaskFields ==
  ASSUME NEW t \in Task, NEW p \in Dirs, NEW d \in Dirs, NEW n \in Names \cup {NoItem},
         NEW f \in Nat, NEW k \in Kinds
  PROVE  /\ [t EXCEPT !.path = p, !.dir = d] \in Task
         /\ [t EXCEPT !.kind = k, !.path = p, !.name = n, !.from = f] \in Task
         /\ [t EXCEPT !.kind = k, !.path = p, !.dir = d, !.name = n, !.from = f] \in Task
BY DEF Task

LEMMA NewTaskType == NewTask \in Task
<1>1. StartDir \in Dirs
  BY ClientAssumption
<1> QED
  BY <1>1 DEF NewTask, Task, Kinds

LEMMA RefreshAsks ==
  ASSUME TypeInv, Refresh
  PROVE  Asked(ListTask) /\ server_root_' = path
<1>1. ListTask \in Task
  <2>1. path \in Dirs /\ NoItem \in Names \cup {NoItem} /\ 0 \in Nat /\ "list" \in Kinds
    BY DEF TypeInv, Kinds
  <2> QED
    BY <2>1, NewTaskType, TaskFields, Zenon DEF ListTask
<1>2. ListTask.pc = "queued"
  BY DEF ListTask, NewTask
<1>3. server_root_' = path /\ tasks' = Append(tasks, ListTask) /\ UNCHANGED inited
  BY DEF Refresh, UpdateServerInfo, GetDir, Ask, Pool!Dispatch, ListTask
<1> QED
  BY <1>1, <1>2, <1>3 DEF Asked

LEMMA UploadAsks ==
  ASSUME TypeInv, NEW name \in Picks, Upload(name)
  PROVE  Asked(UploadTask(name))
<1>1. UploadTask(name) \in Task
  <2>1. path \in Dirs /\ name \in Names \cup {NoItem} /\ shown \in Nat
    BY ClientAssumption DEF TypeInv
  <2>2. "upload" \in Kinds
    BY DEF Kinds
  <2> QED
    BY <2>1, <2>2, NewTaskType, TaskFields, Zenon DEF UploadTask
<1>2. UploadTask(name).pc = "queued"
  BY DEF UploadTask, NewTask
<1>3. tasks' = Append(tasks, UploadTask(name)) /\ UNCHANGED inited
  BY DEF Upload, Ask, Pool!Dispatch, UploadTask
<1> QED
  BY <1>1, <1>2, <1>3 DEF Asked

LEMMA DownloadAsks ==
  ASSUME TypeInv, NEW d \in Dialog, Download(d.name, d.from)
  PROVE  Asked(DownloadTask(d))
<1>1. DownloadTask(d) \in Task
  <2>1. path \in Dirs /\ d.name \in Names \cup {NoItem} /\ d.from \in Nat
    BY DEF TypeInv, Dialog
  <2>2. "download" \in Kinds
    BY DEF Kinds
  <2> QED
    BY <2>1, <2>2, NewTaskType, TaskFields, Zenon DEF DownloadTask
<1>2. DownloadTask(d).pc = "queued"
  BY DEF DownloadTask, NewTask
<1>3. tasks' = Append(tasks, DownloadTask(d)) /\ UNCHANGED inited
  BY DEF Download, Ask, Pool!Dispatch, DownloadTask
<1> QED
  BY <1>1, <1>2, <1>3 DEF Asked

LEMMA AskedTasks ==
  ASSUME TypeInv, NEW task, Asked(task)
  PROVE  /\ tasks' \in Seq(Task) /\ Len(tasks') = Len(tasks) + 1
         /\ DOMAIN tasks' = DOMAIN tasks \cup {Len(tasks) + 1}
         /\ tasks'[Len(tasks) + 1] = task
         /\ Len(tasks) + 1 \notin DOMAIN tasks
         /\ \A i \in DOMAIN tasks : tasks'[i] = tasks[i]
<1>1. tasks \in Seq(Task) /\ task \in Task /\ tasks' = Append(tasks, task)
  BY DEF TypeInv, Asked
<1> HIDE DEF TypeInv, Asked
<1> QED
  BY <1>1

LEMMA MovedTasks ==
  ASSUME TypeInv, NEW i, NEW r, Moved(i, r)
  PROVE  /\ tasks' \in Seq(Task) /\ Len(tasks') = Len(tasks)
         /\ DOMAIN tasks' = DOMAIN tasks
         /\ tasks'[i] = r
         /\ \A j \in DOMAIN tasks : j # i => tasks'[j] = tasks[j]
<1>1. tasks \in Seq(Task) /\ i \in DOMAIN tasks /\ r \in Task /\ tasks' = [tasks EXCEPT ![i] = r]
  BY DEF TypeInv, Moved
<1> QED
  BY <1>1

LEMMA GoesOn ==
  ASSUME NEW t \in Task, NEW p \in {"asked", "served", "done", "failed"}
  PROVE  [t EXCEPT !.pc = p] \in Task
BY DEF Task

LEMMA GoesOnWithListing ==
  ASSUME NEW t \in Task, NEW p \in {"asked", "served", "done", "failed"}, NEW l \in Seq(Names)
  PROVE  [t EXCEPT !.pc = p, !.listing = l] \in Task
BY DEF Task

LEMMA GoesOnWithDir ==
  ASSUME NEW t \in Task, NEW p \in {"asked", "served", "done", "failed"}, NEW d \in Dirs
  PROVE  [t EXCEPT !.pc = p, !.dir = d] \in Task
BY DEF Task

LEMMA Connects ==
  ASSUME TypeInv, NEW t \in Pool!Threads, Connect(t)
  PROVE  \E i \in DOMAIN tasks :
           /\ tasks[i].pc = "queued" /\ Moved(i, [tasks[i] EXCEPT !.pc = "asked"])
           /\ inited' = [inited EXCEPT ![t] = Append(@, i)]
<1> DEFINE i == Pool!Dealt(t, Len(inited[t]) + 1)
           r == [tasks[i] EXCEPT !.pc = "asked"]
<1>1. /\ i \in DOMAIN tasks /\ tasks[i].pc = "queued"
      /\ tasks' = [tasks EXCEPT ![i].pc = "asked"]
      /\ inited' = [inited EXCEPT ![t] = Append(@, i)]
  BY Zenon DEF Connect, At, Pool!RunNext
<1> HIDE DEF i
<1>2. tasks[i] \in Task
  BY <1>1 DEF TypeInv
<1>3. r \in Task
  BY <1>2, GoesOn
<1>4. tasks' = [tasks EXCEPT ![i] = r]
  BY <1>1
<1>5. /\ r.pc = "asked" /\ r.kind = tasks[i].kind /\ r.path = tasks[i].path
      /\ r.name = tasks[i].name /\ r.from = tasks[i].from /\ r.dir = tasks[i].dir
  BY <1>2 DEF Task
<1>6. Moved(i, r)
  <2> HIDE DEF r
  <2> QED
    BY <1>1, <1>3, <1>4, <1>5 DEF Moved
<1> QED
  BY <1>1, <1>6

LEMMA ServesList ==
  ASSUME TypeInv, NEW i, ServeList(i)
  PROVE  \E listing \in SetToSeqs(store[tasks[i].dir]) :
           /\ tasks[i].kind = "list" /\ tasks[i].pc = "asked" /\ listing \in Seq(Names)
           /\ Range(listing) = store[tasks[i].dir]
           /\ Moved(i, [tasks[i] EXCEPT !.pc = "served", !.listing = listing])
<1>1. i \in DOMAIN tasks /\ tasks[i].kind = "list" /\ tasks[i].pc = "asked"
  BY DEF ServeList, At
<1>0. tasks[i] \in Task
  BY <1>1 DEF TypeInv
<1>2. tasks[i] \in Task /\ tasks[i].dir \in Dirs
  BY <1>0 DEF Task
<1>3. PICK listing \in SetToSeqs(store[tasks[i].dir]) :
        tasks' = [tasks EXCEPT ![i].pc = "served", ![i].listing = listing]
  BY DEF ServeList
<1>4. IsFiniteSet(store[tasks[i].dir]) /\ store[tasks[i].dir] \subseteq Names
  BY <1>2 DEF TypeInv
<1>5. listing \in Seq(store[tasks[i].dir]) /\ Range(listing) = store[tasks[i].dir]
  BY <1>4, ListingOf
<1>6. listing \in Seq(Names)
  BY <1>4, <1>5
<1> DEFINE r == [tasks[i] EXCEPT !.pc = "served", !.listing = listing]
<1>7. r \in Task
  BY <1>2, <1>6, GoesOnWithListing, Zenon
<1>8. tasks' = [tasks EXCEPT ![i] = r]
  BY <1>1, <1>2, <1>3, Zenon
<1>9. /\ r.pc = "served" /\ r.kind = tasks[i].kind /\ r.path = tasks[i].path
      /\ r.name = tasks[i].name /\ r.from = tasks[i].from /\ r.dir = tasks[i].dir
  BY <1>2 DEF Task
<1>10. Moved(i, r)
  <2> HIDE DEF r
  <2> QED
    BY <1>1, <1>7, <1>8, <1>9 DEF Moved
<1> QED
  BY <1>1, <1>5, <1>6, <1>10, Zenon

LEMMA ServesUpload ==
  ASSUME TypeInv, NEW i, ServeUpload(i)
  PROVE  /\ tasks[i].kind = "upload" /\ tasks[i].pc = "asked"
         /\ Moved(i, [tasks[i] EXCEPT !.pc = "served", !.dir = cur_dir_])
<1>1. /\ i \in DOMAIN tasks /\ tasks[i].kind = "upload" /\ tasks[i].pc = "asked"
      /\ tasks' = [tasks EXCEPT ![i].pc = "served", ![i].dir = cur_dir_]
  BY DEF ServeUpload, At
<1>2. tasks[i] \in Task /\ cur_dir_ \in Dirs
  BY <1>1 DEF TypeInv
<1> DEFINE r == [tasks[i] EXCEPT !.pc = "served", !.dir = cur_dir_]
<1>3. r \in Task
  BY <1>2, GoesOnWithDir, Zenon
<1>4. tasks' = [tasks EXCEPT ![i] = r]
  BY <1>1, <1>2, Zenon
<1>5. /\ r.pc = "served" /\ r.kind = tasks[i].kind /\ r.path = tasks[i].path
      /\ r.name = tasks[i].name /\ r.from = tasks[i].from
  BY <1>2 DEF Task
<1>6. Moved(i, r)
  <2> HIDE DEF r
  <2> QED
    BY <1>1, <1>3, <1>4, <1>5 DEF Moved
<1> QED
  BY <1>1, <1>6

\* ServeDownload, Answer.
LEMMA PcMoves ==
  ASSUME TypeInv, NEW i \in DOMAIN tasks, NEW p \in {"asked", "served", "done", "failed"},
         tasks[i].pc # "done", tasks' = [tasks EXCEPT ![i].pc = p]
  PROVE  Moved(i, [tasks[i] EXCEPT !.pc = p])
<1> DEFINE r == [tasks[i] EXCEPT !.pc = p]
<1>1. tasks[i] \in Task
  BY DEF TypeInv
<1>2. r \in Task
  BY <1>1, GoesOn
<1>3. tasks' = [tasks EXCEPT ![i] = r]
  OBVIOUS
<1>4. /\ r.pc = p /\ r.kind = tasks[i].kind /\ r.path = tasks[i].path
      /\ r.name = tasks[i].name /\ r.from = tasks[i].from /\ r.dir = tasks[i].dir
  BY <1>1 DEF Task
<1> HIDE DEF r
<1>5. Moved(i, r)
  BY <1>2, <1>3, <1>4 DEF Moved
<1> USE DEF r
<1> QED
  BY <1>5

LEMMA Fails ==
  ASSUME TypeInv, NEW i, Fail(i)
  PROVE  /\ tasks[i].pc \in {"asked", "served"}
         /\ Moved(i, [tasks[i] EXCEPT !.pc = "failed", !.listing = << >>])
<1>1. /\ i \in DOMAIN tasks /\ tasks[i].pc \in {"asked", "served"}
      /\ tasks' = [tasks EXCEPT ![i].pc = "failed", ![i].listing = << >>]
  BY DEF Fail, At
<1>2. tasks[i] \in Task /\ << >> \in Seq(Names)
  BY <1>1, SMTT(30) DEF TypeInv
<1> DEFINE r == [tasks[i] EXCEPT !.pc = "failed", !.listing = << >>]
<1>3. r \in Task
  BY <1>2, GoesOnWithListing, Zenon
<1>4. tasks' = [tasks EXCEPT ![i] = r]
  BY <1>1, <1>2, Zenon
<1>5. /\ r.pc = "failed" /\ r.kind = tasks[i].kind /\ r.path = tasks[i].path
      /\ r.name = tasks[i].name /\ r.from = tasks[i].from /\ r.dir = tasks[i].dir
  BY <1>2 DEF Task
<1>6. Moved(i, r)
  <2> HIDE DEF r
  <2> QED
    BY <1>1, <1>3, <1>4, <1>5 DEF Moved
<1> QED
  BY <1>1, <1>6

--------------------------------------------------------------------------------
(* The types. *)

LEMMA TailOf ==
  ASSUME NEW X, NEW s \in Seq(X), s # << >>
  PROVE  /\ Head(s) \in X /\ Tail(s) \in Seq(X) /\ Len(Tail(s)) = Len(s) - 1
         /\ Head(s) = s[1] /\ 1 \in DOMAIN s
         /\ \A k \in DOMAIN Tail(s) : k + 1 \in DOMAIN s /\ Tail(s)[k] = s[k + 1]
OBVIOUS

LEMMA FrontOf ==
  ASSUME NEW X, NEW s \in Seq(X), s # << >>
  PROVE  /\ Front(s) \in Seq(X) /\ Last(s) \in X /\ Last(s) \in Range(s)
         /\ Range(Front(s)) \subseteq Range(s)
<1>1. Len(s) \in Nat /\ Len(s) # 0 /\ DOMAIN s = 1 .. Len(s)
  OBVIOUS
<1>2. Len(s) \in DOMAIN s /\ Last(s) = s[Len(s)]
  BY <1>1 DEF Last
<1>3. /\ Front(s) \in Seq(X) /\ Len(Front(s)) = Len(s) - 1
      /\ \A k \in 1 .. Len(s) - 1 : Front(s)[k] = s[k] /\ k \in DOMAIN s
  BY <1>1 DEF Front
<1>4. DOMAIN Front(s) = 1 .. Len(s) - 1
  BY <1>3
<1> QED
  BY <1>2, <1>3, <1>4 DEF Range

LEMMA AppendOf ==
  ASSUME NEW X, NEW s \in Seq(X), NEW e \in X
  PROVE  /\ Append(s, e) \in Seq(X) /\ Len(Append(s, e)) = Len(s) + 1
         /\ Range(Append(s, e)) = Range(s) \cup {e}
<1>1. /\ Append(s, e) \in Seq(X) /\ Len(Append(s, e)) = Len(s) + 1
      /\ DOMAIN Append(s, e) = DOMAIN s \cup {Len(s) + 1}
      /\ Append(s, e)[Len(s) + 1] = e
      /\ \A k \in DOMAIN s : Append(s, e)[k] = s[k]
  OBVIOUS
<1>2. Range(Append(s, e)) \subseteq Range(s) \cup {e}
  BY <1>1 DEF Range
<1>3. Range(s) \cup {e} \subseteq Range(Append(s, e))
  BY <1>1 DEF Range
<1> QED
  BY <1>1, <1>2, <1>3

\* What every step of the tasks leaves typed.
TasksTyped == /\ tasks' \in Seq(Task) /\ inited' \in [Pool!Threads -> Seq(Nat)]
              /\ shown \in 0 .. Len(tasks') /\ last \in 0 .. Len(tasks')

LEMMA AskedTyped ==
  ASSUME TypeInv, NEW task, Asked(task)
  PROVE  TasksTyped
<1>1. tasks' \in Seq(Task) /\ Len(tasks') = Len(tasks) + 1 /\ UNCHANGED inited
  BY AskedTasks DEF Asked
<1>2. /\ inited \in [Pool!Threads -> Seq(Nat)] /\ Len(tasks) \in Nat
      /\ shown \in 0 .. Len(tasks) /\ last \in 0 .. Len(tasks)
  BY DEF TypeInv
<1>3. shown \in 0 .. Len(tasks) + 1 /\ last \in 0 .. Len(tasks) + 1
  BY <1>2
<1> QED
  BY <1>1, <1>2, <1>3 DEF TasksTyped

LEMMA MovedTyped ==
  ASSUME TypeInv, NEW i, NEW r, Moved(i, r), UNCHANGED inited
  PROVE  TasksTyped
<1>1. tasks' \in Seq(Task) /\ Len(tasks') = Len(tasks)
  BY MovedTasks
<1> QED
  BY <1>1 DEF TasksTyped, TypeInv

LEMMA ConnectTyped ==
  ASSUME TypeInv, NEW t \in Pool!Threads, Connect(t)
  PROVE  TasksTyped
<1>1. PICK i \in DOMAIN tasks :
        /\ tasks[i].pc = "queued" /\ Moved(i, [tasks[i] EXCEPT !.pc = "asked"])
        /\ inited' = [inited EXCEPT ![t] = Append(@, i)]
  BY Connects
<1>2. tasks' \in Seq(Task) /\ Len(tasks') = Len(tasks)
  BY <1>1, MovedTasks
<1>3. i \in Nat
  BY DEF TypeInv
<1>4. inited' \in [Pool!Threads -> Seq(Nat)]
  BY <1>1, <1>3 DEF TypeInv
<1> QED
  BY <1>2, <1>4 DEF TasksTyped, TypeInv

--------------------------------------------------------------------------------
(* UpdateDir. *)

LEMMA FilledRows ==
  ASSUME TypeInv, NEW p \in Seq(Names \cup {Bad})
  PROVE  LET new == Filled(Rows(Len(p)), p) IN
         /\ new \in Seq(Names \cup {NoItem}) /\ Len(new) = Len(p)
         /\ NoItem \in Range(new) => Bad \in Range(p)
         /\ Bad \notin Range(p) => new = p
<1> DEFINE rows == Rows(Len(p))
           new  == Filled(rows, p)
<1>1. DOMAIN p = 1 .. Len(p) /\ Len(p) \in Nat /\ \A k \in 1 .. Len(p) : p[k] \in Names \cup {Bad}
  OBVIOUS
<1>2. DOMAIN rows = 1 .. Len(p) /\ \A k \in 1 .. Len(p) : rows[k] \in Names \cup {NoItem}
  <2>1. \A k \in DOMAIN table : table[k] \in Names \cup {NoItem}
    BY DEF TypeInv
  <2> QED
    BY <2>1, Zenon DEF Rows
<1> HIDE DEF rows
<1>3. new = [k \in 1 .. Len(p) |-> IF p[k] # Bad THEN p[k] ELSE rows[k]]
  BY <1>1, <1>2, Zenon DEF Filled
<1> HIDE DEF new
<1>4. \A k \in 1 .. Len(p) : new[k] \in Names \cup {NoItem}
  BY <1>1, <1>2, <1>3
<1>5. new \in Seq(Names \cup {NoItem}) /\ Len(new) = Len(p) /\ DOMAIN new = 1 .. Len(p)
  BY <1>1, <1>3, <1>4
<1>6. ASSUME NoItem \in Range(new) PROVE Bad \in Range(p)
  <2>1. PICK k \in 1 .. Len(p) : new[k] = NoItem
    BY <1>5, <1>6 DEF Range
  <2>2. p[k] = Bad
    BY <1>1, <1>3, <2>1, ClientAssumption
  <2> QED
    BY <1>1, <2>2 DEF Range
<1>7. ASSUME Bad \notin Range(p) PROVE new = p
  <2>1. \A k \in 1 .. Len(p) : p[k] # Bad
    BY <1>1, <1>7 DEF Range
  <2>2. new = [k \in 1 .. Len(p) |-> p[k]]
    BY <1>3, <2>1
  <2> QED
    BY <1>1, <2>2
<1> QED
  BY <1>5, <1>6, <1>7 DEF new, rows

\* The table is that of the listing that is handled, or stays.
Shows(h) ==
  /\ table' \in Seq(Names \cup {NoItem}) /\ row' \in 0 .. Len(table')
  /\ shown' = h
  /\ NoItem \in Range(table') => Bad \in Split(h)
  /\ Clean(h) => table' = tasks[h].listing

LEMMA HandledEvent ==
  ASSUME TypeInv, EventInv, events # << >>
  PROVE  /\ Head(events) \in Range(events) /\ Head(events) \in DOMAIN tasks
         /\ tasks[Head(events)] \in Task /\ tasks[Head(events)].pc = "done"
<1>1. Head(events) = events[1] /\ 1 \in DOMAIN events
  BY TailOf DEF TypeInv
<1>2. Head(events) \in Range(events)
  BY <1>1 DEF Range
<1> QED
  BY <1>2 DEF TypeInv, EventInv

LEMMA UpdatesTable ==
  ASSUME TypeInv, EventInv, UpdateDir
  PROVE  /\ Listed(Head(events)) /\ events # << >> /\ events' = Tail(events)
         /\ UNCHANGED <<table, row, shown>> \/ Shows(Head(events))
<1> DEFINE h == Head(events)
           l == tasks[h].listing
           p == Pieces(l)
<1>1. events # << >> /\ events' = Tail(events) /\ tasks[h].kind = "list"
  BY DEF UpdateDir, Handle
<1>2. h \in DOMAIN tasks /\ tasks[h] \in Task /\ tasks[h].pc = "done"
  BY <1>1, HandledEvent
<1>3. Listed(h)
  BY <1>1, <1>2 DEF Listed
<1>4. l \in Seq(Names)
  BY <1>2 DEF Task
<1>5. p \in Seq(Names \cup {Bad})
  BY <1>4, PiecesType
<1>6. CASE p = << >>
  <2>1. UNCHANGED <<table, row, shown>>
    BY <1>6 DEF UpdateDir
  <2> QED
    BY <1>1, <1>3, <2>1
<1>7. CASE p # << >>
  <2>1. /\ table' = Filled(Rows(Len(p)), p) /\ shown' = h
        /\ row' \in IF row <= Len(p) THEN {row} ELSE 0 .. Len(p)
    BY <1>7 DEF UpdateDir
  <2>2. /\ table' \in Seq(Names \cup {NoItem}) /\ Len(table') = Len(p)
        /\ NoItem \in Range(table') => Bad \in Range(p)
        /\ Bad \notin Range(p) => table' = p
    BY <1>5, <2>1, FilledRows
  <2>3. row' \in 0 .. Len(table')
    <3>1. Len(p) \in Nat /\ row \in Nat
      BY <1>5 DEF TypeInv
    <3> QED
      BY <2>1, <2>2, <3>1
  <2>4. Clean(h) => table' = l
    <3> SUFFICES ASSUME Clean(h) PROVE table' = l
      OBVIOUS
    <3>1. p = l
      BY <1>4, PiecesClean DEF Clean
    <3>2. \A k \in DOMAIN l : l[k] \in Names
      BY <1>4
    <3>3. Bad \notin Range(p)
      BY <3>1, <3>2, ClientAssumption DEF Range
    <3> QED
      BY <2>2, <3>1, <3>3
  <2>5. NoItem \in Range(table') => Bad \in Split(h)
    BY <2>2 DEF Split
  <2>6. Shows(h)
    BY <2>1, <2>2, <2>3, <2>4, <2>5 DEF Shows
  <2> QED
    BY <1>1, <1>3, <2>6
<1> QED
  BY <1>6, <1>7

--------------------------------------------------------------------------------
(* The types, step by step. *)

\* Clicks, dialogs and events keep their types, whatever is taken or put.
QueuesTyped == /\ clicks' \in Seq(Kinds) /\ dialogs' \in Seq(Dialog) /\ events' \in Seq(Nat)

LEMMA NoDialogType == NoDialog \in Dialog
BY DEF NoDialog, Dialog

LEMMA UploadDialogType == [NoDialog EXCEPT !.kind = "upload"] \in Dialog
<1>1. \A d \in Dialog : [d EXCEPT !.kind = "upload"] \in Dialog
  BY DEF Dialog
<1> QED
  BY <1>1, NoDialogType

LEMMA ClickTyped ==
  ASSUME TypeInv, NEW button, Clicked(button)
  PROVE  clicks' \in Seq(Kinds)
<1>1. clicks \in Seq(Kinds) /\ clicks # << >> /\ clicks' = Tail(clicks)
  BY DEF TypeInv, Clicked
<1> QED
  BY <1>1, TailOf

LEMMA CloseTyped ==
  ASSUME TypeInv, CloseDialog
  PROVE  /\ dialogs' \in Seq(Dialog) /\ Last(dialogs) \in Dialog
         /\ Last(dialogs) \in Range(dialogs) /\ Range(dialogs') \subseteq Range(dialogs)
<1>1. dialogs \in Seq(Dialog) /\ dialogs # << >> /\ dialogs' = Front(dialogs)
  BY DEF TypeInv, CloseDialog
<1> QED
  BY <1>1, FrontOf

LEMMA OpenTyped ==
  ASSUME TypeInv, NEW d \in Dialog, Open(d)
  PROVE  dialogs' \in Seq(Dialog) /\ Range(dialogs') = Range(dialogs) \cup {d}
<1>1. dialogs \in Seq(Dialog) /\ dialogs' = Append(dialogs, d)
  BY DEF TypeInv, Open
<1> QED
  BY <1>1, AppendOf

LEMMA HandleTyped ==
  ASSUME TypeInv, events # << >>, events' = Tail(events)
  PROVE  events' \in Seq(Nat)
BY TailOf DEF TypeInv

\* The row clicked has an item, which a listing has put there.
LEMMA DownloadDialogType ==
  ASSUME TypeInv, row > 0, table[row] # NoItem
  PROVE  /\ table[row] \in Names /\ row \in DOMAIN table
         /\ [kind |-> "download", name |-> table[row], from |-> shown] \in Dialog
<1>1. table \in Seq(Names \cup {NoItem}) /\ row \in 1 .. Len(table) /\ shown \in Nat
  BY DEF TypeInv
<1>2. table[row] \in Names /\ row \in DOMAIN table
  BY <1>1
<1> QED
  BY <1>1, <1>2 DEF Dialog

LEMMA AnswerMoves ==
  ASSUME TypeInv, NEW i, Answer(i)
  PROVE  /\ i \in DOMAIN tasks /\ tasks[i].pc = "served"
         /\ Moved(i, [tasks[i] EXCEPT !.pc = "done"])
         /\ events' \in Seq(Nat) /\ events' = Append(events, i)
         /\ Range(events') = Range(events) \cup {i}
<1>1. /\ i \in DOMAIN tasks /\ tasks[i].pc = "served"
      /\ tasks' = [tasks EXCEPT ![i].pc = "done"] /\ events' = Append(events, i)
  BY DEF Answer, At
<1>2. i \in Nat /\ events \in Seq(Nat)
  BY <1>1 DEF TypeInv
<1>3. Moved(i, [tasks[i] EXCEPT !.pc = "done"])
  BY <1>1, PcMoves
<1>4. events' \in Seq(Nat) /\ Range(events') = Range(events) \cup {i}
  BY <1>1, <1>2, AppendOf
<1> QED
  BY <1>1, <1>3, <1>4

LEMMA DownloadMoves ==
  ASSUME TypeInv, NEW i, ServeDownload(i)
  PROVE  /\ tasks[i].kind = "download" /\ tasks[i].pc = "asked"
         /\ Moved(i, [tasks[i] EXCEPT !.pc = "served"])
<1>1. /\ i \in DOMAIN tasks /\ tasks[i].kind = "download" /\ tasks[i].pc = "asked"
      /\ tasks' = [tasks EXCEPT ![i].pc = "served"]
  BY DEF ServeDownload, At
<1>2. Moved(i, [tasks[i] EXCEPT !.pc = "served"])
  BY <1>1, PcMoves
<1> QED
  BY <1>1, <1>2

LEMMA StoreTyped ==
  ASSUME TypeInv, TaskInv, NEW i, ServeUpload(i)
  PROVE  /\ store' \in [Dirs -> SUBSET Names] /\ \A d \in Dirs : IsFiniteSet(store'[d])
         /\ \A d \in Dirs : store[d] \subseteq store'[d]
<1>1. /\ i \in DOMAIN tasks /\ tasks[i].kind = "upload"
      /\ store' = [store EXCEPT ![cur_dir_] = @ \cup {tasks[i].name}]
  BY DEF ServeUpload, At
<1>2. tasks[i].name \in Names
  BY <1>1 DEF TaskInv, UploadInv
<1>3. /\ store \in [Dirs -> SUBSET Names] /\ cur_dir_ \in Dirs
      /\ \A d \in Dirs : IsFiniteSet(store[d])
  BY DEF TypeInv
<1>4. \A d \in Dirs : store'[d] = IF d = cur_dir_ THEN store[d] \cup {tasks[i].name} ELSE store[d]
  BY <1>1, <1>3
<1>5. store' \in [Dirs -> SUBSET Names]
  BY <1>1, <1>2, <1>3
<1>6. \A d \in Dirs : IsFiniteSet(store[d] \cup {tasks[i].name})
  BY <1>3, FS_AddElement
<1>7. \A d \in Dirs : IsFiniteSet(store'[d])
  BY <1>3, <1>4, <1>6
<1> QED
  BY <1>4, <1>5, <1>7

LEMMA TypeStart ==
  ASSUME TypeInv, Start \/ RefreshClicked
  PROVE  TypeInv'
<1>1. Asked(ListTask) /\ server_root_' = path
  BY RefreshAsks DEF Start, RefreshClicked
<1>2. TasksTyped
  BY <1>1, AskedTyped
<1>3. clicks' \in Seq(Kinds)
  BY ClickTyped DEF Start, RefreshClicked, TypeInv
<1> QED
  BY <1>1, <1>2, <1>3 DEF Start, RefreshClicked, TypeInv, TasksTyped, serverVars

LEMMA TypeWindow ==
  ASSUME TypeInv,
         \/ \E p \in Dirs : Edit(p)
         \/ \E r \in DOMAIN table : Select(r)
         \/ UploadClicked \/ Dismiss
  PROVE  TypeInv'
<1>1. ASSUME NEW p \in Dirs, Edit(p) PROVE TypeInv'
  BY <1>1 DEF Edit, TypeInv, serverVars
<1>2. ASSUME NEW r \in DOMAIN table, Select(r) PROVE TypeInv'
  <2>1. r \in 0 .. Len(table)
    BY DEF TypeInv
  <2> QED
    BY <1>2, <2>1 DEF Select, TypeInv, serverVars
<1>3. CASE UploadClicked
  <2>1. clicks' \in Seq(Kinds)
    BY <1>3, ClickTyped DEF UploadClicked
  <2>2. dialogs' \in Seq(Dialog)
    BY <1>3, UploadDialogType, OpenTyped DEF UploadClicked
  <2> QED
    BY <1>3, <2>1, <2>2 DEF UploadClicked, TypeInv, windowVars, serverVars
<1>4. CASE Dismiss
  <2>1. dialogs' \in Seq(Dialog)
    BY <1>4, CloseTyped DEF Dismiss
  <2> QED
    BY <1>4, <2>1 DEF Dismiss, TypeInv, windowVars, serverVars
<1> QED
  BY <1>1, <1>2, <1>3, <1>4

LEMMA TypeDownloadClicked ==
  ASSUME TypeInv, DownloadClicked
  PROVE  TypeInv'
<1>1. clicks' \in Seq(Kinds)
  BY ClickTyped DEF DownloadClicked
<1>2. dialogs' \in Seq(Dialog) /\ ui' \in {"starting", "open", "crashed"}
  <2>1. CASE row = 0 /\ Open(NoDialog) /\ UNCHANGED ui
    BY <2>1, NoDialogType, OpenTyped DEF TypeInv
  <2>2. CASE ui' = "crashed" /\ UNCHANGED dialogs
    BY <2>2 DEF TypeInv
  <2>3. CASE /\ row > 0 /\ table[row] # NoItem
             /\ Open([kind |-> "download", name |-> table[row], from |-> shown])
             /\ UNCHANGED ui
    BY <2>3, DownloadDialogType, OpenTyped DEF TypeInv
  <2> QED
    BY <2>1, <2>2, <2>3 DEF DownloadClicked
<1> QED
  BY <1>1, <1>2 DEF DownloadClicked, UpdateServerInfo, TypeInv, serverVars

LEMMA TypePick ==
  ASSUME TypeInv, PickPath \/ \E name \in Picks : PickFile(name)
  PROVE  TypeInv'
<1>1. CASE PickPath
  <2>1. dialogs' \in Seq(Dialog) /\ Last(dialogs) \in Dialog
    BY <1>1, CloseTyped DEF PickPath
  <2>2. Asked(DownloadTask(Last(dialogs)))
    BY <1>1, <2>1, DownloadAsks DEF PickPath
  <2>3. TasksTyped
    BY <2>2, AskedTyped
  <2> QED
    BY <1>1, <2>1, <2>3 DEF PickPath, TypeInv, TasksTyped, windowVars, serverVars
<1>2. ASSUME NEW name \in Picks, PickFile(name) PROVE TypeInv'
  <2>1. dialogs' \in Seq(Dialog)
    BY <1>2, CloseTyped DEF PickFile
  <2>2. Asked(UploadTask(name))
    BY <1>2, UploadAsks DEF PickFile
  <2>3. TasksTyped
    BY <2>2, AskedTyped
  <2> QED
    BY <1>2, <2>1, <2>3 DEF PickFile, UpdateServerInfo, TypeInv, TasksTyped, serverVars
<1> QED
  BY <1>1, <1>2

LEMMA TypeSlot ==
  ASSUME TypeInv, EventInv, Slot
  PROVE  TypeInv'
<1>1. CASE UpdateDir
  <2>1. events' \in Seq(Nat)
    BY <1>1, HandleTyped DEF UpdateDir, Handle
  <2>2. /\ Listed(Head(events))
        /\ UNCHANGED <<table, row, shown>> \/ Shows(Head(events))
    BY <1>1, UpdatesTable
  <2>3. Head(events) \in 0 .. Len(tasks)
    BY <2>2, SMTT(30) DEF Listed, TypeInv
  <2>4. /\ table' \in Seq(Names \cup {NoItem}) /\ row' \in 0 .. Len(table')
        /\ shown' \in 0 .. Len(tasks)
    BY <2>2, <2>3 DEF Shows, TypeInv
  <2> QED
    BY <1>1, <2>1, <2>4 DEF UpdateDir, TypeInv, serverVars
<1>2. CASE UploadComplete
  <2>1. events' \in Seq(Nat)
    BY <1>2, HandleTyped DEF UploadComplete, Handle
  <2>2. Asked(ListTask) /\ server_root_' = path
    BY <1>2, RefreshAsks DEF UploadComplete
  <2>3. TasksTyped
    BY <2>2, AskedTyped
  <2> QED
    BY <1>2, <2>1, <2>2, <2>3 DEF UploadComplete, TypeInv, TasksTyped, serverVars
<1>3. CASE DownloadComplete
  <2>1. events' \in Seq(Nat)
    BY <1>3, HandleTyped DEF DownloadComplete, Handle
  <2>2. dialogs' \in Seq(Dialog)
    BY <1>3, NoDialogType, OpenTyped DEF DownloadComplete
  <2> QED
    BY <1>3, <2>1, <2>2 DEF DownloadComplete, TypeInv, windowVars, serverVars
<1> QED
  BY <1>1, <1>2, <1>3 DEF Slot

LEMMA TypeTask ==
  ASSUME TypeInv, TaskInv, NEW i, TaskStep(i)
  PROVE  TypeInv'
<1>1. CASE ServeList(i)
  <2>1. i \in DOMAIN tasks /\ cur_dir_' = tasks[i].dir /\ last' = i
    BY <1>1 DEF ServeList, At
  <2>2. \E r : Moved(i, r)
    BY <1>1, ServesList, Zenon
  <2>3. tasks' \in Seq(Task) /\ Len(tasks') = Len(tasks)
    BY <2>2, MovedTasks
  <2>4. tasks[i] \in Task /\ last' \in 0 .. Len(tasks)
    BY <2>1 DEF TypeInv
  <2>5. cur_dir_' \in Dirs
    BY <2>1, <2>4 DEF Task
  <2> QED
    BY <1>1, <2>3, <2>4, <2>5, SMTT(30) DEF ServeList, TypeInv, guiVars, windowVars
<1>2. CASE ServeUpload(i)
  <2>1. tasks' \in Seq(Task) /\ Len(tasks') = Len(tasks)
    BY <1>2, ServesUpload, MovedTasks, Zenon
  <2>2. store' \in [Dirs -> SUBSET Names] /\ \A d \in Dirs : IsFiniteSet(store'[d])
    BY <1>2, StoreTyped
  <2> QED
    BY <1>2, <2>1, <2>2 DEF ServeUpload, TypeInv, guiVars, windowVars
<1>3. CASE ServeDownload(i)
  <2>1. TasksTyped
    BY <1>3, DownloadMoves, MovedTyped DEF ServeDownload
  <2> QED
    BY <1>3, <2>1 DEF ServeDownload, TypeInv, TasksTyped, guiVars, windowVars, serverVars
<1>4. CASE Answer(i)
  <2>1. TasksTyped /\ events' \in Seq(Nat)
    BY <1>4, AnswerMoves, MovedTyped DEF Answer
  <2> QED
    BY <1>4, <2>1 DEF Answer, TypeInv, TasksTyped, windowVars, serverVars
<1>5. CASE Fail(i)
  <2>0. UNCHANGED inited
    BY <1>5, Zenon DEF Fail
  <2>1. TasksTyped
    BY <1>5, <2>0, Fails, MovedTyped, Zenon
  <2> QED
    BY <1>5, <2>1 DEF Fail, TypeInv, TasksTyped, guiVars, windowVars, serverVars
<1> QED
  BY <1>1, <1>2, <1>3, <1>4, <1>5 DEF TaskStep, Serve, DirCB, UploadCB, DownloadCB

LEMMA TypeNext ==
  ASSUME ClientInv, Next
  PROVE  TypeInv'
<1>1. ASSUME NEW t \in Pool!Threads, Connect(t) PROVE TypeInv'
  <2>1. TasksTyped
    BY <1>1, ConnectTyped DEF ClientInv
  <2> QED
    BY <1>1, <2>1 DEF Connect, ClientInv, TypeInv, TasksTyped, guiVars, windowVars, serverVars
<1>2. ASSUME NEW i, TaskStep(i) PROVE TypeInv'
  BY <1>2, TypeTask DEF ClientInv
<1> QED
  BY <1>1, <1>2, TypeStart, TypeWindow, TypeDownloadClicked, TypePick, TypeSlot
     DEF Next, User, ClientInv

--------------------------------------------------------------------------------
(* The effects of a step on the tasks, the server and the signals. *)

\* A button asks for what its window shows.
NewAsk(task) ==
  /\ Asked(task) /\ UNCHANGED serverVars
  /\ task.kind = "list" => task.dir = task.path
  /\ task.kind = "upload" => task.name \in Names /\ task.from = shown
  /\ task.kind = "download" => TakenFrom(task.name, task.from)

ListServed(i, r) ==
  /\ Moved(i, r) /\ tasks[i].pc = "asked" /\ r.kind = "list" /\ r.pc = "served"
  /\ Range(r.listing) = store[r.dir]
  /\ last' = i /\ cur_dir_' = r.dir /\ UNCHANGED <<inited, store, events>>

UploadServed(i, r) ==
  /\ Moved(i, r) /\ tasks[i].pc = "asked" /\ r.kind = "upload" /\ r.pc = "served"
  /\ r.dir = cur_dir_ /\ \A d \in Dirs : store[d] \subseteq store'[d]
  /\ UNCHANGED <<inited, cur_dir_, last, events>>

\* The task is connected, answered by its callback, served a file, or fails.
Connected(i, r) == /\ Moved(i, r) /\ tasks[i].pc = "queued" /\ r.pc = "asked"
                   /\ UNCHANGED <<serverVars, events>>
                   /\ \E t \in Pool!Threads : inited' = [inited EXCEPT ![t] = Append(@, i)]
Answered(i, r)  == /\ Moved(i, r) /\ tasks[i].pc = "served" /\ r.pc = "done"
                   /\ r.dir = tasks[i].dir /\ r.listing = tasks[i].listing
                   /\ Range(events') = Range(events) \cup {i} /\ events' = Append(events, i)
                   /\ UNCHANGED <<serverVars, inited>>
FileServed(i, r) == /\ Moved(i, r) /\ tasks[i].pc = "asked" /\ r.pc = "served"
                    /\ r.kind = "download" /\ UNCHANGED <<serverVars, inited, events>>
Failed(i, r)    == /\ Moved(i, r) /\ tasks[i].pc \in {"asked", "served"} /\ r.pc = "failed"
                   /\ UNCHANGED <<serverVars, inited, events>>

TaskGoes(i, r) == \/ ListServed(i, r) \/ UploadServed(i, r) \/ Connected(i, r)
                  \/ Answered(i, r) \/ FileServed(i, r) \/ Failed(i, r)

\* A signal is handled, that of an upload by a Refresh.
Handles == /\ events # << >> /\ events' = Tail(events)
           /\ \/ tasks[Head(events)].kind # "upload" /\ UNCHANGED <<tasks, inited, serverVars>>
              \/ NewAsk(ListTask)

\* The tasks, the server and the signals change in one of these ways.
Effect == \/ UNCHANGED <<tasks, inited, serverVars, events>>
          \/ \E task : NewAsk(task) /\ UNCHANGED events
          \/ Handles
          \/ \E i, r : TaskGoes(i, r)

LEMMA ListTaskAsked ==
  ASSUME TypeInv, Refresh, UNCHANGED serverVars
  PROVE  NewAsk(ListTask) /\ ListTask.kind = "list"
<1>1. ListTask.kind = "list" /\ ListTask.dir = path /\ ListTask.path = path
  BY SMTT(30) DEF ListTask, NewTask
<1> QED
  BY <1>1, RefreshAsks DEF NewAsk

LEMMA EffectOfUser ==
  ASSUME ClientInv, Start \/ User
  PROVE  Effect
<1> USE DEF ClientInv
<1>1. CASE Start \/ RefreshClicked
  BY <1>1, ListTaskAsked DEF Start, RefreshClicked, Effect
<1>2. ASSUME NEW p \in Dirs, Edit(p) PROVE Effect
  BY <1>2 DEF Edit, Effect
<1>3. ASSUME NEW r \in DOMAIN table, Select(r) PROVE Effect
  BY <1>3 DEF Select, Effect
<1>4. CASE UploadClicked
  BY <1>4 DEF UploadClicked, Effect
<1>5. CASE DownloadClicked
  BY <1>5 DEF DownloadClicked, Effect
<1>6. CASE Dismiss
  BY <1>6 DEF Dismiss, Effect
<1>7. CASE PickPath
  <2> DEFINE d == Last(dialogs)
  <2>1. d \in Dialog /\ d \in Range(dialogs) /\ d.kind = "download"
    BY <1>7, CloseTyped DEF PickPath
  <2>2. Asked(DownloadTask(d))
    BY <1>7, <2>1, DownloadAsks DEF PickPath
  <2>3. TakenFrom(d.name, d.from)
    BY <2>1 DEF DialogInv
  <2>4. /\ DownloadTask(d).kind = "download" /\ DownloadTask(d).name = d.name
        /\ DownloadTask(d).from = d.from
    BY DEF DownloadTask, NewTask
  <2>5. UNCHANGED <<serverVars, events>>
    BY <1>7 DEF PickPath
  <2>6. NewAsk(DownloadTask(d))
    BY <2>2, <2>3, <2>4, <2>5 DEF NewAsk
  <2> QED
    BY <2>5, <2>6 DEF Effect
<1>8. ASSUME NEW name \in Picks, PickFile(name) PROVE Effect
  <2>1. Asked(UploadTask(name)) /\ name \in Names
    BY <1>8, UploadAsks, ClientAssumption DEF PickFile
  <2>2. /\ UploadTask(name).kind = "upload" /\ UploadTask(name).name = name
        /\ UploadTask(name).from = shown
    BY DEF UploadTask, NewTask
  <2>3. UNCHANGED <<serverVars, events>>
    BY <1>8 DEF PickFile
  <2>4. NewAsk(UploadTask(name))
    BY <2>1, <2>2, <2>3 DEF NewAsk
  <2> QED
    BY <2>3, <2>4 DEF Effect
<1> QED
  BY <1>1, <1>2, <1>3, <1>4, <1>5, <1>6, <1>7, <1>8 DEF User

LEMMA EffectOfSlot ==
  ASSUME ClientInv, Slot
  PROVE  Effect
<1> USE DEF ClientInv
<1>1. CASE UpdateDir
  <2>1. Listed(Head(events)) /\ events # << >> /\ events' = Tail(events)
    BY <1>1, UpdatesTable
  <2>2. UNCHANGED <<tasks, inited, serverVars>>
    BY <1>1 DEF UpdateDir
  <2> QED
    BY <2>1, <2>2 DEF Effect, Handles, Listed
<1>2. CASE UploadComplete
  <2>1. UNCHANGED serverVars /\ events # << >> /\ events' = Tail(events)
    BY <1>2 DEF UploadComplete, Handle
  <2>2. NewAsk(ListTask)
    BY <1>2, <2>1, ListTaskAsked DEF UploadComplete
  <2> QED
    BY <2>1, <2>2 DEF Effect, Handles
<1>3. CASE DownloadComplete
  BY <1>3 DEF DownloadComplete, Handle, Effect, Handles
<1> QED
  BY <1>1, <1>2, <1>3 DEF Slot

LEMMA EffectOfTask ==
  ASSUME ClientInv, NEW i, TaskStep(i)
  PROVE  \E r : TaskGoes(i, r)
<1> USE DEF ClientInv
<1>1. CASE ServeList(i)
  <2>1. PICK l \in SetToSeqs(store[tasks[i].dir]) :
          /\ tasks[i].kind = "list" /\ tasks[i].pc = "asked" /\ l \in Seq(Names)
          /\ Range(l) = store[tasks[i].dir]
          /\ Moved(i, [tasks[i] EXCEPT !.pc = "served", !.listing = l])
    BY <1>1, ServesList, Zenon
  <2> DEFINE r == [tasks[i] EXCEPT !.pc = "served", !.listing = l]
  <2>2. i \in DOMAIN tasks /\ tasks[i] \in Task
    BY <2>1 DEF Moved, TypeInv
  <2>3. r.kind = tasks[i].kind /\ r.pc = "served" /\ r.listing = l /\ r.dir = tasks[i].dir
    BY <2>2 DEF Task
  <2>4. cur_dir_' = tasks[i].dir /\ last' = i /\ UNCHANGED <<inited, store, events>>
    BY <1>1 DEF ServeList, guiVars
  <2> HIDE DEF r
  <2> QED
    BY <2>1, <2>3, <2>4 DEF TaskGoes, ListServed, r
<1>2. CASE ServeUpload(i)
  <2> DEFINE r == [tasks[i] EXCEPT !.pc = "served", !.dir = cur_dir_]
  <2>1. tasks[i].kind = "upload" /\ tasks[i].pc = "asked" /\ Moved(i, r)
    BY <1>2, ServesUpload, Zenon
  <2>2. i \in DOMAIN tasks /\ tasks[i] \in Task
    BY <2>1 DEF Moved, TypeInv
  <2>3. r.kind = tasks[i].kind /\ r.pc = "served" /\ r.dir = cur_dir_
    BY <2>2 DEF Task
  <2>4. UNCHANGED <<inited, cur_dir_, last, events>>
    BY <1>2 DEF ServeUpload, guiVars
  <2>5. \A d \in Dirs : store[d] \subseteq store'[d]
    BY <1>2, StoreTyped
  <2> HIDE DEF r
  <2> QED
    BY <2>1, <2>3, <2>4, <2>5 DEF TaskGoes, UploadServed
<1>3. CASE ServeDownload(i)
  <2> DEFINE r == [tasks[i] EXCEPT !.pc = "served"]
  <2>1. tasks[i].kind = "download" /\ tasks[i].pc = "asked" /\ Moved(i, r)
    BY <1>3, DownloadMoves
  <2>2. i \in DOMAIN tasks /\ tasks[i] \in Task
    BY <2>1 DEF Moved, TypeInv
  <2>3. r.kind = tasks[i].kind /\ r.pc = "served"
    BY <2>2 DEF Task
  <2>4. UNCHANGED <<serverVars, inited, events>>
    BY <1>3 DEF ServeDownload, guiVars
  <2> HIDE DEF r
  <2> QED
    BY <2>1, <2>3, <2>4 DEF TaskGoes, FileServed
<1>4. CASE Answer(i)
  <2> DEFINE r == [tasks[i] EXCEPT !.pc = "done"]
  <2>1. /\ i \in DOMAIN tasks /\ tasks[i].pc = "served" /\ Moved(i, r)
        /\ events' = Append(events, i) /\ Range(events') = Range(events) \cup {i}
    BY <1>4, AnswerMoves
  <2>2. tasks[i] \in Task
    BY <2>1 DEF TypeInv
  <2>3. r.pc = "done" /\ r.dir = tasks[i].dir /\ r.listing = tasks[i].listing
    BY <2>2 DEF Task
  <2>4. UNCHANGED <<serverVars, inited>>
    BY <1>4 DEF Answer
  <2> HIDE DEF r
  <2> QED
    BY <2>1, <2>3, <2>4 DEF TaskGoes, Answered
<1>5. CASE Fail(i)
  <2> DEFINE r == [tasks[i] EXCEPT !.pc = "failed", !.listing = << >>]
  <2>1. tasks[i].pc \in {"asked", "served"} /\ Moved(i, r)
    BY <1>5, Fails, Zenon
  <2>2. i \in DOMAIN tasks /\ tasks[i] \in Task
    BY <2>1 DEF Moved, TypeInv
  <2>3. r.pc = "failed"
    BY <2>2 DEF Task
  <2>4. UNCHANGED <<serverVars, inited, guiVars>>
    BY <1>5, Zenon DEF Fail
  <2>5. UNCHANGED events
    BY <2>4 DEF guiVars
  <2> HIDE DEF r
  <2> QED
    BY <2>1, <2>3, <2>4, <2>5 DEF TaskGoes, Failed
<1> QED
  BY <1>1, <1>2, <1>3, <1>4, <1>5 DEF TaskStep, Serve, DirCB, UploadCB, DownloadCB

LEMMA EffectOfNext ==
  ASSUME ClientInv, Next
  PROVE  Effect
<1>1. ASSUME NEW t \in Pool!Threads, Connect(t) PROVE Effect
  <2>1. PICK i \in DOMAIN tasks :
          /\ tasks[i].pc = "queued" /\ Moved(i, [tasks[i] EXCEPT !.pc = "asked"])
          /\ inited' = [inited EXCEPT ![t] = Append(@, i)]
    BY <1>1, Connects DEF ClientInv
  <2> DEFINE r == [tasks[i] EXCEPT !.pc = "asked"]
  <2>2. tasks[i] \in Task
    BY DEF ClientInv, TypeInv
  <2>3. r.pc = "asked"
    BY <2>2 DEF Task
  <2>4. UNCHANGED <<serverVars, events>>
    BY <1>1, Zenon DEF Connect, guiVars
  <2> HIDE DEF r
  <2>5. Connected(i, r)
    BY <2>1, <2>3, <2>4 DEF Connected, r
  <2> QED
    BY <2>5 DEF Effect, TaskGoes
<1>2. ASSUME NEW i, TaskStep(i) PROVE Effect
  BY <1>2, EffectOfTask DEF Effect
<1> QED
  BY <1>1, <1>2, EffectOfUser, EffectOfSlot DEF Next

--------------------------------------------------------------------------------
(* What no step takes back. *)

Grows ==
  /\ \A i \in DOMAIN tasks :
       /\ i \in DOMAIN tasks' /\ tasks'[i].kind = tasks[i].kind
       /\ tasks'[i].path = tasks[i].path
       /\ tasks[i].pc = "done" => tasks'[i] = tasks[i]
  /\ \A d \in Dirs : store[d] \subseteq store'[d]
  /\ last # 0 => last' # 0

LEMMA GrowsNext ==
  ASSUME TypeInv, Effect
  PROVE  Grows
<1>1. ASSUME NEW task, NewAsk(task) PROVE Grows
  <2>1. Asked(task) /\ UNCHANGED serverVars
    BY <1>1 DEF NewAsk
  <2> QED
    BY <2>1, AskedTasks DEF Grows, serverVars
<1>2. ASSUME NEW i, NEW r, TaskGoes(i, r) PROVE Grows
  <2>1. Moved(i, r)
    BY <1>2 DEF TaskGoes, ListServed, UploadServed, Connected, Answered, FileServed, Failed
  <2>2. /\ i \in DOMAIN tasks /\ tasks[i].pc # "done"
        /\ r.kind = tasks[i].kind /\ r.path = tasks[i].path
    BY <2>1 DEF Moved
  <2>3. /\ DOMAIN tasks' = DOMAIN tasks /\ tasks'[i] = r
        /\ \A j \in DOMAIN tasks : j # i => tasks'[j] = tasks[j]
    BY <2>1, MovedTasks
  <2>4. i # 0
    BY <2>2 DEF TypeInv
  <2>5. (\A d \in Dirs : store[d] \subseteq store'[d]) /\ (last # 0 => last' # 0)
    BY <1>2, <2>4 DEF TaskGoes, ListServed, UploadServed, Connected, Answered, FileServed, Failed,
                      serverVars
  <2> QED
    BY <2>2, <2>3, <2>5 DEF Grows
<1>3. CASE UNCHANGED <<tasks, inited, serverVars>>
  BY <1>3 DEF Grows, serverVars
<1> QED
  BY <1>1, <1>2, <1>3 DEF Effect, Handles

LEMMA ListedStays ==
  ASSUME Grows, NEW i, Listed(i)
  PROVE  Listed(i)' /\ tasks'[i] = tasks[i] /\ Clean(i)' = Clean(i) /\ Split(i)' = Split(i)
<1>1. i \in DOMAIN tasks' /\ tasks'[i] = tasks[i]
  BY DEF Grows, Listed
<1>2. Listed(i)'
  BY <1>1 DEF Listed
<1>3. Clean(i)' = Clean(i)
  BY <1>1 DEF Clean
<1>4. Split(i)' = Split(i)
  BY <1>1 DEF Split
<1> QED
  BY <1>1, <1>2, <1>3, <1>4

LEMMA TakenStays ==
  ASSUME Grows, NEW name, NEW from, TakenFrom(name, from)
  PROVE  TakenFrom(name, from)'
<1>1. Listed(from) /\ name \in Names /\ (Clean(from) => name \in Range(tasks[from].listing))
  BY DEF TakenFrom
<1>2. Listed(from)' /\ tasks'[from] = tasks[from] /\ Clean(from)' = Clean(from)
  BY <1>1, ListedStays
<1> QED
  BY <1>1, <1>2 DEF TakenFrom
--------------------------------------------------------------------------------
LEMMA PoolNext ==
  ASSUME ClientInv, Effect
  PROVE  PoolInv'
<1> USE DEF ClientInv
<1>0. /\ Initialised \subseteq DOMAIN tasks
      /\ \A i \in DOMAIN tasks : tasks[i].pc = "queued" <=> i \notin Initialised
  BY DEF PoolInv
<1>1. ASSUME NEW task, NewAsk(task) PROVE PoolInv'
  <2>1. Asked(task) /\ task.pc = "queued" /\ UNCHANGED inited
    BY <1>1 DEF NewAsk, Asked
  <2>2. Initialised' = Initialised
    BY <2>1 DEF Initialised
  <2> QED
    BY <1>0, <2>1, <2>2, AskedTasks DEF PoolInv
<1>2. ASSUME NEW i, NEW r, TaskGoes(i, r) PROVE PoolInv'
  <2>1. Moved(i, r)
    BY <1>2 DEF TaskGoes, ListServed, UploadServed, Connected, Answered, FileServed, Failed
  <2>2. i \in DOMAIN tasks /\ r.pc # "queued"
    BY <2>1 DEF Moved
  <2>3. /\ DOMAIN tasks' = DOMAIN tasks /\ tasks'[i] = r
        /\ \A j \in DOMAIN tasks : j # i => tasks'[j] = tasks[j]
    BY <2>1, MovedTasks
  <2>4. Initialised' = Initialised \cup {i}
    <3>1. CASE Connected(i, r)
      <4>1. PICK t \in Pool!Threads : inited' = [inited EXCEPT ![t] = Append(@, i)]
        BY <3>1 DEF Connected
      <4>2. inited[t] \in Seq(Nat) /\ i \in Nat
        BY <2>2 DEF TypeInv
      <4>3. Range(Append(inited[t], i)) = Range(inited[t]) \cup {i}
        BY <4>2, AppendOf
      <4>4. /\ inited'[t] = Append(inited[t], i)
            /\ \A u \in Pool!Threads : u # t => inited'[u] = inited[u]
        BY <4>1 DEF TypeInv
      <4> QED
        BY <4>3, <4>4 DEF Initialised
    <3>2. CASE ~Connected(i, r)
      <4>1. UNCHANGED inited /\ tasks[i].pc # "queued"
        BY <1>2, <3>2 DEF TaskGoes, ListServed, UploadServed, Answered, FileServed, Failed
      <4>2. Initialised' = Initialised
        BY <4>1 DEF Initialised
      <4> QED
        BY <1>0, <2>2, <4>1, <4>2
    <3> QED
      BY <3>1, <3>2
  <2> QED
    BY <1>0, <2>2, <2>3, <2>4 DEF PoolInv
<1>3. CASE UNCHANGED <<tasks, inited>>
  BY <1>3 DEF PoolInv, Initialised
<1> QED
  BY <1>1, <1>2, <1>3 DEF Effect, Handles

LEMMA EventNext ==
  ASSUME ClientInv, Effect
  PROVE  EventInv'
<1> USE DEF ClientInv
<1>0. /\ \A i \in Range(events) : i \in DOMAIN tasks /\ tasks[i].pc = "done"
      /\ \A a, b \in DOMAIN events : events[a] = events[b] => a = b
      /\ events \in Seq(Nat)
  BY DEF EventInv, TypeInv
<1>1. \A i \in Range(events) : i \in DOMAIN tasks' /\ tasks'[i].pc = "done"
  BY <1>0, GrowsNext DEF Grows
<1>2. CASE UNCHANGED events
  BY <1>0, <1>1, <1>2 DEF EventInv
<1>3. CASE events # << >> /\ events' = Tail(events)
  <2>1. /\ \A k \in DOMAIN events' : k + 1 \in DOMAIN events /\ events'[k] = events[k + 1]
        /\ events' \in Seq(Nat)
    BY <1>0, <1>3, TailOf
  <2>2. Range(events') \subseteq Range(events)
    BY <2>1 DEF Range
  <2>3. ASSUME NEW a \in DOMAIN events', NEW b \in DOMAIN events', events'[a] = events'[b]
        PROVE  a = b
    <3>1. a + 1 = b + 1 /\ a \in Nat /\ b \in Nat
      BY <1>0, <2>1, <2>3
    <3> QED
      BY <3>1
  <2> QED
    BY <1>1, <2>2, <2>3 DEF EventInv
<1>4. ASSUME NEW i, NEW r, Answered(i, r) PROVE EventInv'
  <2>1. /\ Moved(i, r) /\ tasks[i].pc = "served" /\ r.pc = "done"
        /\ events' = Append(events, i) /\ Range(events') = Range(events) \cup {i}
    BY <1>4 DEF Answered
  <2>2. i \in DOMAIN tasks' /\ tasks'[i].pc = "done" /\ i \in Nat
    BY <2>1, MovedTasks DEF Moved, TypeInv
  <2>3. i \notin Range(events)
    BY <1>0, <2>1
  <2>4. \A k \in DOMAIN events : events[k] # i
    BY <2>3 DEF Range
  <2>5. /\ DOMAIN events' = DOMAIN events \cup {Len(events) + 1}
        /\ events'[Len(events) + 1] = i
        /\ \A k \in DOMAIN events : events'[k] = events[k]
    BY <1>0, <2>1, <2>2
  <2>6. \A a, b \in DOMAIN events' : events'[a] = events'[b] => a = b
    BY <1>0, <2>4, <2>5
  <2> QED
    BY <1>1, <2>1, <2>2, <2>6 DEF EventInv
<1>5. \/ UNCHANGED events
      \/ events # << >> /\ events' = Tail(events)
      \/ \E i, r : Answered(i, r)
  BY DEF Effect, Handles, TaskGoes, ListServed, UploadServed, Connected, FileServed, Failed
<1> QED
  BY <1>2, <1>3, <1>4, <1>5

--------------------------------------------------------------------------------
(* What is known of each task. *)

\* A task that stays as it is.
LEMMA TaskStays ==
  ASSUME TypeInv, Grows, NEW i \in DOMAIN tasks, tasks'[i] = tasks[i],
         ListInv(i), UploadInv(i), DownloadInv(i)
  PROVE  ListInv(i)' /\ UploadInv(i)' /\ DownloadInv(i)'
<1>1. ListInv(i)'
  <2>1. tasks[i] \in Task
    BY DEF TypeInv
  <2>2. tasks[i].dir \in Dirs
    BY <2>1 DEF Task
  <2> QED
    BY <2>2 DEF ListInv, Grows
<1>2. UploadInv(i)'
  <2>1. /\ Tasks("list") \subseteq Tasks("list")'
        /\ \A j \in DOMAIN tasks : tasks'[j].path = tasks[j].path
    BY DEF Tasks, Grows
  <2> QED
    BY <2>1 DEF UploadInv, Grows, Tasks
<1>3. DownloadInv(i)'
  BY TakenStays DEF DownloadInv
<1> QED
  BY <1>1, <1>2, <1>3

LEMMA NewTaskInv ==
  ASSUME ClientInv, Grows, NEW task, NewAsk(task)
  PROVE  TaskInv'
<1> USE DEF ClientInv
<1>0. PICK n : n = Len(tasks) + 1
  OBVIOUS
<1>1. /\ Asked(task) /\ task.pc = "queued" /\ UNCHANGED last
      /\ task.kind = "list" => task.dir = task.path
      /\ task.kind = "upload" => task.name \in Names /\ task.from = shown
      /\ task.kind = "download" => TakenFrom(task.name, task.from)
  BY DEF NewAsk, Asked, serverVars
<1>2. /\ DOMAIN tasks' = DOMAIN tasks \cup {n} /\ tasks'[n] = task
      /\ \A i \in DOMAIN tasks : tasks'[i] = tasks[i]
  BY <1>0, <1>1, AskedTasks
<1>3. ASSUME NEW i \in DOMAIN tasks PROVE ListInv(i)' /\ UploadInv(i)' /\ DownloadInv(i)'
  BY <1>2, TaskStays DEF TaskInv
<1>4. ListInv(n)'
  BY <1>1, <1>2 DEF ListInv
<1>5. UploadInv(n)'
  <2>1. shown # 0 => last # 0
    BY DEF TableInv, TaskInv, ListInv, Listed
  <2> QED
    BY <1>1, <1>2, <2>1 DEF UploadInv
<1>6. DownloadInv(n)'
  <2>1. task.kind = "download" => TakenFrom(task.name, task.from)'
    BY <1>1, TakenStays
  <2> QED
    BY <1>2, <2>1 DEF DownloadInv, TakenFrom, Clean
<1> QED
  BY <1>2, <1>3, <1>4, <1>5, <1>6 DEF TaskInv

LEMMA MovedTaskInv ==
  ASSUME ClientInv, Grows, NEW i, NEW r, TaskGoes(i, r)
  PROVE  TaskInv'
<1> USE DEF ClientInv
<1>1. Moved(i, r)
  BY DEF TaskGoes, ListServed, UploadServed, Connected, Answered, FileServed, Failed
<1>2. /\ i \in DOMAIN tasks /\ r.kind = tasks[i].kind /\ r.path = tasks[i].path
      /\ r.name = tasks[i].name /\ r.from = tasks[i].from
      /\ r.kind = "list" => r.dir = tasks[i].dir
      /\ r \in Task
  BY <1>1 DEF Moved
<1>3. /\ DOMAIN tasks' = DOMAIN tasks /\ tasks'[i] = r
      /\ \A j \in DOMAIN tasks : j # i => tasks'[j] = tasks[j]
  BY <1>1, MovedTasks
<1>4. ASSUME NEW j \in DOMAIN tasks, j # i
      PROVE  ListInv(j)' /\ UploadInv(j)' /\ DownloadInv(j)'
  BY <1>3, <1>4, TaskStays DEF TaskInv
<1>5. ListInv(i) /\ UploadInv(i) /\ DownloadInv(i)
  BY <1>2 DEF TaskInv
<1>6. ListInv(i)'
  <2> SUFFICES ASSUME r.kind = "list"
               PROVE  /\ r.dir = r.path
                      /\ r.pc \in {"served", "done"} =>
                           last' # 0 /\ Range(r.listing) \subseteq store'[r.dir]
    BY <1>3 DEF ListInv
  <2>1. r.dir = r.path
    BY <1>2, <1>5 DEF ListInv
  <2>2. r.dir \in Dirs
    BY <1>2 DEF Task
  <2>3. CASE ListServed(i, r)
    <3>1. last' = i /\ i # 0 /\ Range(r.listing) = store[r.dir] /\ UNCHANGED store
      BY <1>2, <2>3 DEF ListServed, TypeInv
    <3> QED
      BY <2>1, <3>1
  <2>4. CASE Answered(i, r)
    <3>1. /\ tasks[i].pc = "served" /\ r.listing = tasks[i].listing
          /\ UNCHANGED serverVars /\ r.dir = tasks[i].dir
      BY <2>4 DEF Answered
    <3>2. last # 0 /\ Range(tasks[i].listing) \subseteq store[tasks[i].dir]
      BY <1>2, <1>5, <3>1 DEF ListInv
    <3> QED
      BY <2>1, <3>1, <3>2 DEF serverVars
  <2>5. CASE ~ListServed(i, r) /\ ~Answered(i, r)
    <3>1. r.pc \notin {"served", "done"}
      BY <2>5 DEF TaskGoes, UploadServed, Connected, FileServed, Failed
    <3> QED
      BY <2>1, <3>1
  <2> QED
    BY <2>3, <2>4, <2>5
<1>7. UploadInv(i)'
  <2> SUFFICES ASSUME r.kind = "upload"
               PROVE  /\ r.name \in Names
                      /\ r.from # 0 => last' # 0
                      /\ r.from # 0 /\ r.pc \in {"served", "done"} =>
                           \E j \in Tasks("list")' : r.dir = tasks'[j].path
    BY <1>3 DEF UploadInv
  <2>1. r.name \in Names /\ (r.from # 0 => last # 0)
    BY <1>2, <1>5 DEF UploadInv
  <2>2. r.from # 0 => last' # 0
    BY <2>1 DEF Grows
  <2>3. \A j \in Tasks("list") : j \in Tasks("list")' /\ tasks'[j].path = tasks[j].path
    BY DEF Tasks, Grows
  <2>4. CASE UploadServed(i, r)
    <3>1. r.dir = cur_dir_
      BY <2>4 DEF UploadServed
    <3>2. CASE r.from # 0
      <4>1. last # 0
        BY <2>1, <3>2
      <4>2. last \in DOMAIN tasks /\ tasks[last].kind = "list" /\ cur_dir_ = tasks[last].dir
        BY <4>1 DEF LastInv, TypeInv
      <4>3. tasks[last].dir = tasks[last].path /\ last \in Tasks("list")
        BY <4>2 DEF TaskInv, ListInv, Tasks
      <4> QED
        BY <2>1, <2>2, <2>3, <3>1, <4>2, <4>3
    <3> QED
      BY <2>1, <2>2, <3>2
  <2>5. CASE Answered(i, r)
    <3>1. tasks[i].pc = "served" /\ r.dir = tasks[i].dir
      BY <2>5 DEF Answered
    <3>2. r.from # 0 => \E j \in Tasks("list") : tasks[i].dir = tasks[j].path
      BY <1>2, <1>5, <3>1 DEF UploadInv
    <3> QED
      BY <2>1, <2>2, <2>3, <3>1, <3>2
  <2>6. CASE ~UploadServed(i, r) /\ ~Answered(i, r)
    <3>1. r.pc \notin {"served", "done"}
      BY <2>6 DEF TaskGoes, ListServed, Connected, FileServed, Failed
    <3> QED
      BY <2>1, <2>2, <3>1
  <2> QED
    BY <2>4, <2>5, <2>6
<1>8. DownloadInv(i)'
  <2> SUFFICES ASSUME r.kind = "download" PROVE TakenFrom(r.name, r.from)'
    BY <1>3 DEF DownloadInv, TakenFrom, Clean
  <2>1. TakenFrom(r.name, r.from)
    BY <1>2, <1>5 DEF DownloadInv
  <2> QED
    BY <2>1, TakenStays
<1> QED
  BY <1>3, <1>4, <1>6, <1>7, <1>8 DEF TaskInv

LEMMA TaskNext ==
  ASSUME ClientInv, Effect
  PROVE  TaskInv'
<1>1. Grows
  BY GrowsNext DEF ClientInv
<1>2. CASE UNCHANGED <<tasks, inited, serverVars>>
  BY <1>1, <1>2, TaskStays DEF TaskInv, ClientInv
<1> QED
  BY <1>1, <1>2, NewTaskInv, MovedTaskInv DEF Effect, Handles

--------------------------------------------------------------------------------
(* The window. *)

TableEffect  == UNCHANGED <<table, shown>> \/ \E h : Listed(h) /\ Shows(h)
CrashEffect  == ui' = "crashed" => ui = "crashed" \/ NoItem \in Range(table)
DialogEffect == \A d \in Range(dialogs') :
                  d.kind = "download" => d \in Range(dialogs) \/ TakenFrom(d.name, d.from)
WindowEffect == TableEffect /\ CrashEffect /\ DialogEffect

LEMMA WindowStays ==
  ASSUME UNCHANGED <<table, shown, ui, dialogs>>
  PROVE  WindowEffect
BY DEF WindowEffect, TableEffect, CrashEffect, DialogEffect

LEMMA WindowOpens ==
  ASSUME TypeInv, NEW d \in Dialog, Open(d), UNCHANGED <<table, shown, ui>>,
         d.kind = "download" => TakenFrom(d.name, d.from)
  PROVE  WindowEffect
<1>1. Range(dialogs') = Range(dialogs) \cup {d}
  BY OpenTyped
<1>2. DialogEffect
  BY <1>1 DEF DialogEffect
<1> QED
  BY <1>2 DEF WindowEffect, TableEffect, CrashEffect

LEMMA WindowCloses ==
  ASSUME TypeInv, CloseDialog, UNCHANGED <<table, shown, ui>>
  PROVE  WindowEffect
<1>1. Range(dialogs') \subseteq Range(dialogs)
  BY CloseTyped
<1>2. DialogEffect
  BY <1>1 DEF DialogEffect
<1> QED
  BY <1>2 DEF WindowEffect, TableEffect, CrashEffect

\* The row clicked is of the listing that is shown.
LEMMA WindowDownload ==
  ASSUME ClientInv, DownloadClicked
  PROVE  WindowEffect
<1> USE DEF ClientInv
<1>0. UNCHANGED <<table, shown>>
  BY DEF DownloadClicked
<1>1. CASE row = 0 /\ Open(NoDialog) /\ UNCHANGED ui
  <2>1. NoDialog \in Dialog /\ NoDialog.kind # "download"
    BY NoDialogType DEF NoDialog
  <2> QED
    BY <1>0, <1>1, <2>1, WindowOpens
<1>2. CASE row > 0 /\ table[row] = NoItem /\ ui' = "crashed" /\ UNCHANGED dialogs
  <2>1. row \in DOMAIN table
    BY <1>2 DEF TypeInv
  <2>2. NoItem \in Range(table)
    BY <1>2, <2>1 DEF Range
  <2> QED
    BY <1>0, <1>2, <2>2 DEF WindowEffect, TableEffect, CrashEffect, DialogEffect
<1>3. CASE /\ row > 0 /\ table[row] # NoItem
           /\ Open([kind |-> "download", name |-> table[row], from |-> shown])
           /\ UNCHANGED ui
  <2> DEFINE d == [kind |-> "download", name |-> table[row], from |-> shown]
  <2>1. table[row] \in Names /\ row \in DOMAIN table /\ d \in Dialog
    BY <1>3, DownloadDialogType
  <2>2. table # << >>
    BY <2>1
  <2>3. Listed(shown) /\ (Clean(shown) => table = tasks[shown].listing)
    BY <2>2 DEF TableInv
  <2>4. TakenFrom(table[row], shown)
    BY <2>1, <2>3 DEF TakenFrom, Range
  <2>5. d.name = table[row] /\ d.from = shown
    OBVIOUS
  <2> HIDE DEF d
  <2>6. TakenFrom(d.name, d.from)
    BY <2>4, <2>5
  <2> QED
    BY <1>0, <1>3, <2>1, <2>6, WindowOpens DEF d
<1> QED
  BY <1>1, <1>2, <1>3 DEF DownloadClicked

LEMMA WindowNext ==
  ASSUME ClientInv, Next
  PROVE  WindowEffect
<1> USE DEF ClientInv
<1>1. CASE Start
  BY <1>1 DEF Start, WindowEffect, TableEffect, CrashEffect, DialogEffect
<1>2. CASE RefreshClicked
  BY <1>2, WindowStays DEF RefreshClicked
<1>3. ASSUME NEW p \in Dirs, Edit(p) PROVE WindowEffect
  BY <1>3, WindowStays DEF Edit
<1>4. ASSUME NEW r \in DOMAIN table, Select(r) PROVE WindowEffect
  BY <1>4, WindowStays DEF Select
<1>5. CASE UploadClicked
  <2>1. [NoDialog EXCEPT !.kind = "upload"].kind # "download"
    BY DEF NoDialog
  <2>2. UNCHANGED <<table, shown, ui>> /\ Open([NoDialog EXCEPT !.kind = "upload"])
    BY <1>5 DEF UploadClicked, windowVars
  <2> QED
    BY <2>1, <2>2, UploadDialogType, WindowOpens
<1>6. CASE DownloadClicked
  BY <1>6, WindowDownload
<1>7. CASE Dismiss
  BY <1>7, WindowCloses DEF Dismiss, windowVars
<1>8. CASE PickPath
  BY <1>8, WindowCloses DEF PickPath, windowVars
<1>9. ASSUME NEW name \in Picks, PickFile(name) PROVE WindowEffect
  BY <1>9, WindowCloses DEF PickFile
<1>10. CASE UpdateDir
  <2>1. Listed(Head(events)) /\ (UNCHANGED <<table, row, shown>> \/ Shows(Head(events)))
    BY <1>10, UpdatesTable
  <2>2. TableEffect
    BY <2>1 DEF TableEffect
  <2>3. UNCHANGED <<ui, dialogs>>
    BY <1>10 DEF UpdateDir
  <2> QED
    BY <2>2, <2>3 DEF WindowEffect, CrashEffect, DialogEffect
<1>11. CASE UploadComplete
  BY <1>11, WindowStays DEF UploadComplete
<1>12. CASE DownloadComplete
  <2>1. NoDialog \in Dialog /\ NoDialog.kind # "download"
    BY NoDialogType DEF NoDialog
  <2>2. Open(NoDialog) /\ UNCHANGED <<table, shown, ui>>
    BY <1>12 DEF DownloadComplete, windowVars
  <2> QED
    BY <2>1, <2>2, WindowOpens
<1>13. ASSUME NEW t \in Pool!Threads, Connect(t) PROVE WindowEffect
  <2>1. UNCHANGED guiVars
    BY <1>13, Zenon DEF Connect
  <2> QED
    BY <2>1, WindowStays DEF guiVars, windowVars
<1>14. ASSUME NEW i, TaskStep(i) PROVE WindowEffect
  <2>1. UNCHANGED <<table, shown, ui, dialogs>>
    BY <1>14, ZenonT(30) DEF TaskStep, Serve, ServeList, ServeUpload, ServeDownload, DirCB,
       UploadCB, DownloadCB, Answer, Fail, guiVars, windowVars
  <2> QED
    BY <2>1, WindowStays
<1> QED
  BY <1>1, <1>2, <1>3, <1>4, <1>5, <1>6, <1>7, <1>8, <1>9, <1>10, <1>11, <1>12, <1>13, <1>14
     DEF Next, User, Slot

LEMMA DialogNext ==
  ASSUME ClientInv, Grows, WindowEffect
  PROVE  DialogInv'
BY TakenStays DEF WindowEffect, DialogEffect, DialogInv, ClientInv

LEMMA TableNext ==
  ASSUME ClientInv, Grows, WindowEffect
  PROVE  TableInv' /\ ItemInv'
<1> USE DEF ClientInv
<1>1. SomeBad => SomeBad'
  <2> SUFFICES ASSUME NEW i \in DOMAIN tasks, Listed(i), Bad \in Split(i) PROVE SomeBad'
    BY DEF SomeBad
  <2>1. Listed(i)' /\ Split(i)' = Split(i)
    BY ListedStays
  <2> QED
    BY <2>1 DEF SomeBad, Listed
<1>2. ui' = "crashed" => SomeBad'
  BY <1>1 DEF WindowEffect, CrashEffect, ItemInv
<1>3. CASE UNCHANGED <<table, shown>>
  <2>1. ItemInv'
    BY <1>1, <1>2, <1>3 DEF ItemInv
  <2>2. TableInv'
    <3>1. CASE shown = 0
      BY <1>3, <3>1 DEF TableInv
    <3>2. CASE shown # 0
      <4>1. Listed(shown) /\ (Clean(shown) => table = tasks[shown].listing)
        BY <3>2 DEF TableInv
      <4>2. PICK s : s = shown
        OBVIOUS
      <4>3. Listed(s)' /\ tasks'[s] = tasks[s] /\ Clean(s)' = Clean(s)
        BY <4>1, <4>2, ListedStays
      <4>4. shown' = s /\ (Clean(s)' => table' = tasks'[s].listing)
        BY <1>3, <4>1, <4>2, <4>3
      <4> QED
        BY <4>3, <4>4 DEF TableInv, Listed, Clean
    <3> QED
      BY <3>1, <3>2
  <2> QED
    BY <2>1, <2>2
<1>4. ASSUME NEW h, Listed(h), Shows(h) PROVE TableInv' /\ ItemInv'
  <2>1. /\ Listed(h)' /\ tasks'[h] = tasks[h] /\ Clean(h)' = Clean(h)
        /\ Split(h)' = Split(h)
    BY <1>4, ListedStays
  <2>2. shown' = h /\ h # 0
    BY <1>4, SMTT(30) DEF Shows, Listed, TypeInv
  <2>3. Clean(h)' => table' = tasks'[h].listing
    BY <1>4, <2>1 DEF Shows
  <2>4. TableInv'
    BY <2>1, <2>2, <2>3 DEF TableInv, Listed, Clean
  <2>5. NoItem \in Range(table') => SomeBad'
    BY <1>4, <2>1 DEF Shows, SomeBad, Listed
  <2> QED
    BY <1>2, <2>4, <2>5 DEF ItemInv
<1> QED
  BY <1>3, <1>4 DEF WindowEffect, TableEffect

--------------------------------------------------------------------------------
(* The last listing, and what will replace it. *)

OwedUpload(i) == /\ i \in DOMAIN tasks /\ tasks[i].kind = "upload"
                 /\ tasks[i].pc \in {"served", "failed"} \/ i \in Range(events)
OwedList(i)   == /\ i \in DOMAIN tasks /\ tasks[i].kind = "list"
                 /\ tasks[i].pc \in {"queued", "asked", "failed"}

LEMMA OwedIs == Owed <=> \E i : OwedUpload(i) \/ OwedList(i)
BY DEF Owed, OwedUpload, OwedList

\* A new listing, or its Refresh, takes the place of what was owed.
LEMMA NewListOwed ==
  ASSUME TypeInv, NEW task, NewAsk(task), task.kind = "list"
  PROVE  Owed'
<1>0. PICK n : n = Len(tasks) + 1
  OBVIOUS
<1>1. Asked(task) /\ task.pc = "queued"
  BY DEF NewAsk, Asked
<1>2. n \in DOMAIN tasks' /\ tasks'[n] = task
  BY <1>0, <1>1, AskedTasks
<1> QED
  BY <1>1, <1>2 DEF Owed

LEMMA OwedUploadStays ==
  ASSUME ClientInv, Effect, NEW i, OwedUpload(i)
  PROVE  Owed'
<1> USE DEF ClientInv
<1>0. Grows /\ i \in DOMAIN tasks /\ tasks[i].kind = "upload"
  BY GrowsNext DEF OwedUpload
<1>1. i \in DOMAIN tasks' /\ tasks'[i].kind = "upload"
  BY <1>0 DEF Grows
<1>2. SUFFICES ASSUME ~Owed' PROVE FALSE
  OBVIOUS
<1>3. tasks'[i].pc \notin {"served", "failed"} /\ i \notin Range(events')
  BY <1>1, <1>2 DEF Owed
<1>4. CASE UNCHANGED <<tasks, inited, serverVars, events>>
  BY <1>3, <1>4 DEF OwedUpload
<1>5. ASSUME NEW task, NewAsk(task), UNCHANGED events PROVE FALSE
  <2>1. tasks'[i] = tasks[i]
    BY <1>0, <1>5, AskedTasks DEF NewAsk
  <2> QED
    BY <1>3, <1>5, <2>1 DEF OwedUpload
<1>6. CASE Handles
  <2>1. events # << >> /\ events' = Tail(events) /\ events \in Seq(Nat)
    BY <1>6 DEF Handles, TypeInv
  <2>2. CASE tasks[Head(events)].kind # "upload" /\ UNCHANGED <<tasks, inited, serverVars>>
    <3>1. i \in Range(events)
      BY <1>3, <2>2 DEF OwedUpload
    <3>2. PICK k \in DOMAIN events : events[k] = i
      BY <3>1 DEF Range
    <3>3. k # 1 /\ k \in 1 .. Len(events)
      BY <1>0, <2>1, <2>2, <3>2
    <3>4. k - 1 \in DOMAIN Tail(events) /\ Tail(events)[k - 1] = events[k]
      BY <2>1, <3>3
    <3> QED
      BY <1>3, <2>1, <3>2, <3>4 DEF Range
  <2>3. CASE NewAsk(ListTask)
    <3>1. ListTask.kind = "list"
      BY DEF ListTask, NewTask
    <3> QED
      BY <1>2, <2>3, <3>1, NewListOwed
  <2> QED
    BY <1>6, <2>2, <2>3 DEF Handles
<1>7. ASSUME NEW j, NEW r, TaskGoes(j, r) PROVE FALSE
  <2>1. Moved(j, r) /\ Range(events) \subseteq Range(events')
    BY <1>7 DEF TaskGoes, ListServed, UploadServed, Connected, Answered, FileServed, Failed
  <2>2. /\ tasks'[j] = r /\ r.kind = tasks[j].kind
        /\ \A k \in DOMAIN tasks : k # j => tasks'[k] = tasks[k]
    BY <2>1, MovedTasks DEF Moved
  <2>3. tasks[i].pc \in {"served", "failed"}
    BY <1>3, <2>1 DEF OwedUpload
  <2>4. j = i /\ r.kind = "upload"
    BY <1>0, <1>3, <2>2, <2>3
  <2>5. CASE Answered(j, r)
    BY <1>3, <2>4, <2>5 DEF Answered
  <2>6. CASE ~Answered(j, r)
    BY <1>3, <1>7, <2>2, <2>3, <2>4, <2>6
       DEF TaskGoes, ListServed, UploadServed, Connected, FileServed, Failed
  <2> QED
    BY <2>5, <2>6
<1> QED
  BY <1>4, <1>5, <1>6, <1>7 DEF Effect

LEMMA OwedListStays ==
  ASSUME ClientInv, Effect, NEW i, OwedList(i), ~ \E j, r : ListServed(j, r)
  PROVE  Owed'
<1> USE DEF ClientInv
<1>0. /\ Grows /\ i \in DOMAIN tasks /\ tasks[i].kind = "list"
      /\ tasks[i].pc \in {"queued", "asked", "failed"}
  BY GrowsNext DEF OwedList
<1>1. i \in DOMAIN tasks' /\ tasks'[i].kind = "list"
  BY <1>0 DEF Grows
<1>2. tasks'[i].pc \in {"queued", "asked", "failed"}
  <2>1. CASE tasks'[i] = tasks[i]
    BY <1>0, <2>1
  <2>2. ASSUME NEW task, NewAsk(task) PROVE tasks'[i] = tasks[i]
    BY <1>0, <2>2, AskedTasks DEF NewAsk
  <2>3. ASSUME NEW j, NEW r, TaskGoes(j, r) PROVE tasks'[i].pc \in {"queued", "asked", "failed"}
    <3>1. Moved(j, r)
      BY <2>3 DEF TaskGoes, ListServed, UploadServed, Connected, Answered, FileServed, Failed
    <3>2. /\ tasks'[j] = r /\ r.kind = tasks[j].kind
          /\ \A k \in DOMAIN tasks : k # j => tasks'[k] = tasks[k]
      BY <3>1, MovedTasks DEF Moved
    <3>3. CASE j = i
      BY <1>0, <2>3, <3>2, <3>3
         DEF TaskGoes, UploadServed, Connected, Answered, FileServed, Failed
    <3> QED
      BY <1>0, <3>2, <3>3
  <2> QED
    BY <2>1, <2>2, <2>3 DEF Effect, Handles
<1> QED
  BY <1>1, <1>2 DEF Owed

LEMMA LastNext ==
  ASSUME ClientInv, Effect
  PROVE  LastInv'
<1> USE DEF ClientInv
<1>0. Grows
  BY GrowsNext
<1>1. ASSUME NEW i, NEW r, ListServed(i, r) PROVE LastInv'
  <2>1. /\ Moved(i, r) /\ last' = i /\ cur_dir_' = r.dir /\ r.kind = "list"
        /\ Range(r.listing) = store[r.dir] /\ UNCHANGED store
    BY <1>1 DEF ListServed
  <2>2. tasks'[i] = r
    BY <2>1, MovedTasks
  <2> QED
    BY <2>1, <2>2 DEF LastInv
<1>2. CASE ~ \E i, r : ListServed(i, r)
  <2>1. Owed => Owed'
    BY <1>2, OwedIs, OwedUploadStays, OwedListStays
  <2>2. UNCHANGED <<last, cur_dir_>>
    BY <1>2 DEF Effect, Handles, NewAsk, TaskGoes, UploadServed, Connected, Answered, FileServed,
                Failed, serverVars
  <2> SUFFICES ASSUME last # 0
               PROVE  /\ tasks'[last].kind = "list" /\ cur_dir_ = tasks'[last].dir
                      /\ store'[cur_dir_] = Range(tasks'[last].listing) \/ Owed'
    BY <2>2 DEF LastInv
  <2>3. /\ last \in DOMAIN tasks /\ tasks[last].kind = "list" /\ cur_dir_ = tasks[last].dir
        /\ store[cur_dir_] = Range(tasks[last].listing) \/ Owed
    BY DEF LastInv, TypeInv
  <2>4. CASE tasks'[last] = tasks[last] /\ UNCHANGED store
    BY <2>1, <2>3, <2>4
  <2>5. ASSUME NEW task, NewAsk(task) PROVE tasks'[last] = tasks[last] /\ UNCHANGED store
    BY <2>3, <2>5, AskedTasks DEF NewAsk, serverVars
  <2>6. ASSUME NEW i, NEW r, TaskGoes(i, r)
        PROVE  /\ tasks'[last].kind = "list" /\ cur_dir_ = tasks'[last].dir
               /\ store'[cur_dir_] = Range(tasks'[last].listing) \/ Owed'
    <3>1. Moved(i, r)
      BY <2>6 DEF TaskGoes, ListServed, UploadServed, Connected, Answered, FileServed, Failed
    <3>2. /\ i \in DOMAIN tasks /\ r.kind = tasks[i].kind
          /\ r.kind = "list" => r.dir = tasks[i].dir
      BY <3>1 DEF Moved
    <3>3. /\ tasks'[i] = r /\ DOMAIN tasks' = DOMAIN tasks
          /\ \A k \in DOMAIN tasks : k # i => tasks'[k] = tasks[k]
      BY <3>1, MovedTasks
    <3>4. tasks'[last].kind = "list" /\ cur_dir_ = tasks'[last].dir
      BY <2>3, <3>2, <3>3
    <3>5. CASE UploadServed(i, r)
      <4>1. tasks'[i].kind = "upload" /\ tasks'[i].pc = "served" /\ i \in DOMAIN tasks'
        BY <3>2, <3>3, <3>5 DEF UploadServed
      <4> QED
        BY <3>4, <4>1 DEF Owed
    <3>6. CASE ~UploadServed(i, r)
      <4>1. UNCHANGED store
        BY <1>2, <2>6, <3>6 DEF TaskGoes, Connected, Answered, FileServed, Failed, serverVars
      <4>2. CASE i # last
        BY <2>1, <2>3, <3>3, <3>4, <4>1, <4>2
      <4>3. CASE i = last
        <5>1. tasks[last].pc \in {"queued", "asked"} => Owed
          BY <2>3 DEF Owed
        <5>2. r.pc = "failed" => Owed'
          BY <2>3, <3>2, <3>3, <3>4, <4>3 DEF Owed
        <5>3. CASE Answered(i, r)
          BY <2>1, <2>3, <3>3, <3>4, <4>1, <4>3, <5>3 DEF Answered
        <5>4. CASE ~Answered(i, r)
          <6>1. tasks[last].pc \in {"queued", "asked"} \/ r.pc = "failed"
            BY <1>2, <2>6, <3>6, <4>3, <5>4 DEF TaskGoes, Connected, FileServed, Failed
          <6> QED
            BY <2>1, <3>4, <5>1, <5>2, <6>1
        <5> QED
          BY <5>3, <5>4
      <4> QED
        BY <4>2, <4>3
    <3> QED
      BY <3>5, <3>6
  <2> QED
    BY <2>4, <2>5, <2>6 DEF Effect, Handles, serverVars
<1> QED
  BY <1>1, <1>2
--------------------------------------------------------------------------------
LEMMA ClientInit == Init => ClientInv
<1> SUFFICES ASSUME Init PROVE ClientInv
  OBVIOUS
<1>1. /\ tasks = << >> /\ events = << >> /\ dialogs = << >> /\ table = << >> /\ row = 0
      /\ shown = 0 /\ last = 0 /\ inited = [t \in Pool!Threads |-> << >>]
      /\ ui = "starting" /\ store = Stored /\ clicks \in Sessions
      /\ path = FirstDir /\ server_root_ = StartDir /\ cur_dir_ = StartDir
  BY DEF Init, Pool!Init
<1>2. TypeInv
  BY <1>1, ClientAssumption DEF TypeInv, Kinds
<1>3. PoolInv
  <2>1. \A t \in Pool!Threads : Range(inited[t]) = {}
    BY <1>1 DEF Range
  <2> QED
    BY <1>1, <2>1 DEF PoolInv, Initialised
<1>4. EventInv /\ TaskInv /\ DialogInv /\ TableInv /\ ItemInv /\ LastInv
  BY <1>1 DEF EventInv, TaskInv, DialogInv, TableInv, ItemInv, LastInv, Range
<1> QED
  BY <1>2, <1>3, <1>4 DEF ClientInv

LEMMA ClientNext == ClientInv /\ [Next]_vars => ClientInv'
<1>1. ASSUME ClientInv, Next PROVE ClientInv'
  <2>1. TypeInv' /\ Effect /\ WindowEffect
    BY <1>1, TypeNext, EffectOfNext, WindowNext
  <2>2. Grows
    BY <1>1, <2>1, GrowsNext DEF ClientInv
  <2> QED
    BY <1>1, <2>1, <2>2, PoolNext, EventNext, TaskNext, DialogNext, TableNext, LastNext
       DEF ClientInv
<1>2. ASSUME ClientInv, UNCHANGED vars PROVE ClientInv'
  <2> USE <1>2 DEF vars, guiVars, windowVars, serverVars
  <2>1. TypeInv' /\ PoolInv' /\ EventInv'
    BY DEF ClientInv, TypeInv, PoolInv, Initialised, EventInv
  <2>2. TaskInv' /\ DialogInv'
    BY DEF ClientInv, TaskInv, ListInv, UploadInv, DownloadInv, DialogInv, TakenFrom, Listed,
           Clean, Tasks
  <2>3. TableInv' /\ ItemInv' /\ LastInv'
    BY DEF ClientInv, TableInv, ItemInv, LastInv, SomeBad, Listed, Split, Clean, Owed
  <2> QED
    BY <2>1, <2>2, <2>3 DEF ClientInv
<1> QED
  BY <1>1, <1>2

\* The inductive invariant of the client, which the theorems below use.
THEOREM ClientInvariant == Spec => []ClientInv
BY ClientInit, ClientNext, PTL DEF Spec

--------------------------------------------------------------------------------
(* The properties. *)

\* The types of the client; a signal is queued once per task that is done, and the
\* pool has initialised exactly the tasks that no longer wait.
THEOREM ClientTypes == Spec => []ClientTypeOK
<1>1. ClientInv => ClientTypeOK
  <2> SUFFICES ASSUME ClientInv PROVE ClientTypeOK
    OBVIOUS
  <2> USE DEF ClientInv
  <2>1. Range(table) \subseteq Names \cup {NoItem}
    BY DEF TypeInv, Range
  <2>2. \A d \in Range(dialogs) : d.kind \in {"box", "upload", "download"}
    <3>1. \A k \in DOMAIN dialogs : dialogs[k] \in Dialog
      BY DEF TypeInv
    <3> QED
      BY <3>1 DEF Range, Dialog
  <2>3. Cardinality(Range(events)) = Len(events)
    BY EventCount DEF TypeInv, EventInv
  <2>4. \A i \in DOMAIN tasks :
          /\ tasks[i].kind \in {"list", "upload", "download"}
          /\ tasks[i].pc \in {"queued", "asked", "served", "done", "failed"}
          /\ Range(tasks[i].listing) \subseteq Names
    <3>1. \A i \in DOMAIN tasks : tasks[i] \in Task
      BY DEF TypeInv
    <3>2. \A t \in Task : /\ t.kind \in {"list", "upload", "download"}
                          /\ t.pc \in {"queued", "asked", "served", "done", "failed"}
                          /\ Range(t.listing) \subseteq Names
      BY DEF Task, Kinds, Range
    <3> QED
      BY <3>1, <3>2
  <2>5. \A i \in DOMAIN tasks :
          tasks[i].pc = "queued" <=> i \notin UNION {Range(inited[t]) : t \in Pool!Threads}
    BY DEF PoolInv, Initialised
  <2>6. \A i \in Range(events) : i \in DOMAIN tasks /\ tasks[i].pc = "done"
    BY DEF EventInv
  <2>7. /\ ui \in {"starting", "open", "crashed"} /\ {path, server_root_, cur_dir_} \subseteq Dirs
        /\ row \in 0 .. Len(table) /\ store \in [Dirs -> SUBSET Names]
        /\ {shown, last} \subseteq 0 .. Len(tasks)
    BY DEF TypeInv
  <2> QED
    BY <2>1, <2>2, <2>3, <2>4, <2>5, <2>6, <2>7 DEF ClientTypeOK
<1> QED
  BY <1>1, ClientInvariant, PTL

\* When everything asked for has been answered and handled, and the listing shown is
\* the server's last, the table shows what the server has: each upload's Refresh
\* comes, whatever dialogs are open (xdisk_gui.cpp:24-30).
THEOREM SettledIsRight == Spec => []SettledShowsStore
<1>1. ClientInv => SettledShowsStore
  <2> SUFFICES ASSUME ClientInv, events = << >>, \A i \in DOMAIN tasks : tasks[i].pc = "done",
                      shown # 0, shown = last, Clean(shown)
               PROVE  Range(table) = store[tasks[shown].dir]
    BY DEF SettledShowsStore
  <2> USE DEF ClientInv
  <2>1. table = tasks[shown].listing
    BY DEF TableInv
  <2>2. ~Owed
    BY DEF Owed, Range
  <2>3. cur_dir_ = tasks[last].dir /\ store[cur_dir_] = Range(tasks[last].listing)
    BY <2>2 DEF LastInv
  <2> QED
    BY <2>1, <2>3
<1> QED
  BY <1>1, ClientInvariant, PTL

\* A file picked when the table shows something is stored in the directory of the
\* path, if only that path was listed, though UPLOAD_INFO does not name it.
THEOREM UploadsGoWhereShown == Spec => []UploadGoesWhereShown
<1>1. ClientInv => UploadGoesWhereShown
  <2> SUFFICES ASSUME ClientInv, NEW i \in Tasks("upload"),
                      tasks[i].pc \in {"served", "done"}, tasks[i].from # 0,
                      \A j \in Tasks("list") : tasks[j].path = tasks[i].path
               PROVE  tasks[i].dir = tasks[i].path
    BY DEF UploadGoesWhereShown
  <2>1. \E j \in Tasks("list") : tasks[i].dir = tasks[j].path
    BY DEF ClientInv, TaskInv, UploadInv, Tasks
  <2> QED
    BY <2>1
<1> QED
  BY <1>1, ClientInvariant, PTL

\* A download asks for a file that is there, if the table showed a clean listing of
\* the path when the button was clicked, whatever was listed meanwhile.
THEOREM DownloadsFindFiles == Spec => []DownloadFindsFile
<1>1. ClientInv => DownloadFindsFile
  <2> SUFFICES ASSUME ClientInv, NEW i \in Tasks("download"), NEW f, f = tasks[i].from,
                      tasks[f].dir = tasks[i].dir, Clean(f)
               PROVE  tasks[i].name \in store[tasks[i].dir]
    BY DEF DownloadFindsFile
  <2> USE DEF ClientInv
  <2>1. i \in DOMAIN tasks /\ tasks[i].kind = "download"
    BY DEF Tasks
  <2>2. TakenFrom(tasks[i].name, f)
    BY <2>1 DEF TaskInv, DownloadInv
  <2>3. Listed(f) /\ tasks[i].name \in Range(tasks[f].listing)
    BY <2>2 DEF TakenFrom
  <2>4. Range(tasks[f].listing) \subseteq store[tasks[f].dir]
    BY <2>3 DEF TaskInv, ListInv, Listed
  <2> QED
    BY <2>3, <2>4
<1> QED
  BY <1>1, ClientInvariant, PTL

\* A null item is only met behind a name that has a separator of the listing in it:
\* no sequence of longer and shorter listings leaves a row without one.
THEOREM CrashesNeedBadNames == Spec => []CrashNeedsBadName
<1>1. ClientInv => CrashNeedsBadName
  BY DEF ClientInv, ItemInv, SomeBad, CrashNeedsBadName, Listed, Tasks
<1> QED
  BY <1>1, ClientInvariant, PTL
===============================================================================
