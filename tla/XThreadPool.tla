------------------------------ MODULE XThreadPool ------------------------------
(***************************************************************************)
(* XThreadPool and XThread (src/src/xcom/xthread_pool.cpp, xthread.cpp):   *)
(* one thread, the dispatcher, deals tasks to the pool's threads.  Each    *)
(* thread owns a queue of tasks under a mutex and a notify pipe watched by *)
(* its event_base; the dispatcher pushes a task, then writes one byte, and *)
(* the thread reads one byte, then pops one task and calls its Init().     *)
(*                                                                         *)
(* A task is named by its place in the order of dispatch (each Dispatch is *)
(* given a new object).  A pool has one dispatcher: the main thread or the *)
(* listener's thread in the server, the GUI thread in the client.          *)
(***************************************************************************)
EXTENDS Integers, Sequences

CONSTANTS
  ThreadCount,   \* thread_count, the argument of XThreadPool::Init
  MaxTasks,      \* bound on the number of tasks dispatched
  PipeCap,       \* capacity of a notify pipe, in bytes
  NonBlocking,   \* TRUE: the _WIN32 build's non-blocking pair of sockets
  SetupMayFail   \* TRUE: pipe() or event_base_new_with_config may fail

ASSUME PoolAssumption == /\ ThreadCount \in Nat \ {0}
                         /\ MaxTasks \in Nat
                         /\ PipeCap \in Nat \ {0}
                         /\ NonBlocking \in BOOLEAN
                         /\ SetupMayFail \in BOOLEAN

Threads == 0 .. ThreadCount - 1

VARIABLES
  created,       \* threads_.size()
  last_thread_,  \* the thread that got the last task, -1 before the first
  setup,         \* per thread, how XThread::Setup ended
  dispatched,    \* number of tasks Dispatch was called with
  dpc, dtid,     \* the dispatcher: where it is, and the thread it deals to
  tasks_,        \* per thread, the queue of tasks
  tasks_mutex_,  \* per thread, who holds the queue's mutex
  notify,        \* per thread, bytes in the notify pipe
  wpc,           \* per thread, where it is
  wtask,         \* per thread, the task Notify popped
  inited         \* per thread, the tasks whose Init() was called (history)

vars == <<created, last_thread_, setup, dispatched, dpc, dtid, tasks_,
          tasks_mutex_, notify, wpc, wtask, inited>>

dispatcherVars == <<created, last_thread_, setup, dispatched, dpc, dtid>>
threadVars     == <<wpc, wtask, inited>>

NoTask == 0
SetupOutcomes == IF SetupMayFail THEN {"ok", "nopipe", "nobase"} ELSE {"ok"}

TypeOK ==
  /\ created \in 0 .. ThreadCount
  /\ last_thread_ \in -1 .. ThreadCount - 1
  /\ setup \in [Threads -> {"none", "ok", "nopipe", "nobase"}]
  /\ dispatched \in 0 .. MaxTasks
  /\ dpc \in {"init", "idle", "add", "push", "activate"}
  /\ dtid \in Threads
  /\ tasks_ \in [Threads -> Seq(1 .. MaxTasks)]
  /\ tasks_mutex_ \in [Threads -> {"free", "dispatcher", "thread"}]
  /\ notify \in [Threads -> 0 .. PipeCap]
  /\ wpc \in [Threads -> {"none", "begin", "dispatch", "lock", "pop", "init", "ended"}]
  /\ wtask \in [Threads -> 0 .. MaxTasks]
  /\ inited \in [Threads -> Seq(1 .. MaxTasks)]

Init ==
  /\ created = 0 /\ last_thread_ = -1
  /\ setup = [t \in Threads |-> "none"]
  /\ dispatched = 0
  /\ dpc = "init" /\ dtid = 0
  /\ tasks_ = [t \in Threads |-> <<>>]
  /\ tasks_mutex_ = [t \in Threads |-> "free"]
  /\ notify = [t \in Threads |-> 0]
  /\ wpc = [t \in Threads |-> "none"]
  /\ wtask = [t \in Threads |-> NoTask]
  /\ inited = [t \in Threads |-> <<>>]
--------------------------------------------------------------------------------
(* The dispatcher. *)

\* One turn of the loop of XThreadPool::Init: create a thread and Start() it.
\* Start ignores Setup's result, so the thread joins threads_ whatever it was.
StartThread ==
  /\ dpc = "init" /\ created < ThreadCount
  /\ \E s \in SetupOutcomes : setup' = [setup EXCEPT ![created] = s]
  /\ wpc' = [wpc EXCEPT ![created] = "begin"]
  /\ created' = created + 1
  /\ dpc' = IF created' = ThreadCount THEN "idle" ELSE "init"
  /\ UNCHANGED <<last_thread_, dispatched, dtid, tasks_, tasks_mutex_, notify,
                 wtask, inited>>

\* Dispatch without the wrap-around of the round robin.
DispatchNoWrap ==
  /\ dpc = "idle" /\ dispatched < MaxTasks
  /\ dispatched' = dispatched + 1
  /\ dtid' = last_thread_ + 1
  /\ last_thread_' = dtid'
  /\ dpc' = "add"
  /\ UNCHANGED <<created, setup, tasks_, tasks_mutex_, notify, threadVars>>

\* Dispatch that forgets which thread got the last task.
DispatchNoTurn ==
  /\ dpc = "idle" /\ dispatched < MaxTasks
  /\ dispatched' = dispatched + 1
  /\ dtid' = (last_thread_ + 1) % ThreadCount
  /\ UNCHANGED last_thread_
  /\ dpc' = "add"
  /\ UNCHANGED <<created, setup, tasks_, tasks_mutex_, notify, threadVars>>

\* XThreadPool::Dispatch picks the next thread in turn and calls AddTask.
Dispatch ==
  /\ dpc = "idle" /\ dispatched < MaxTasks
  /\ dispatched' = dispatched + 1
  /\ dtid' = (last_thread_ + 1) % ThreadCount
  /\ last_thread_' = dtid'
  /\ dpc' = "add"
  /\ UNCHANGED <<created, setup, tasks_, tasks_mutex_, notify, threadVars>>

\* AddTask without tasks_mutex_.lock().
AddTaskUnlocked ==
  /\ dpc = "add"
  /\ dpc' = "push"
  /\ UNCHANGED <<created, last_thread_, setup, dispatched, dtid, tasks_,
                 tasks_mutex_, notify, threadVars>>

\* XThread::AddTask, up to tasks_mutex_.lock().
AddTaskLock ==
  /\ dpc = "add" /\ tasks_mutex_[dtid] = "free"
  /\ tasks_mutex_' = [tasks_mutex_ EXCEPT ![dtid] = "dispatcher"]
  /\ dpc' = "push"
  /\ UNCHANGED <<created, last_thread_, setup, dispatched, dtid, tasks_, notify,
                 threadVars>>

\* AddTask that pushes at the front of the queue.
AddTaskPushFront ==
  /\ dpc = "push"
  /\ tasks_' = [tasks_ EXCEPT ![dtid] = <<dispatched>> \o @]
  /\ tasks_mutex_' = [tasks_mutex_ EXCEPT ![dtid] = "free"]
  /\ dpc' = "activate"
  /\ UNCHANGED <<created, last_thread_, setup, dispatched, dtid, notify, threadVars>>

\* XThread::AddTask: push_back, unlock.  Dispatch then calls Activate.
AddTaskPush ==
  /\ dpc = "push"
  /\ tasks_' = [tasks_ EXCEPT ![dtid] = Append(@, dispatched)]
  /\ tasks_mutex_' = [tasks_mutex_ EXCEPT ![dtid] = "free"]
  /\ dpc' = "activate"
  /\ UNCHANGED <<created, last_thread_, setup, dispatched, dtid, notify, threadVars>>

\* Activate whose write does not wait for room in the pipe.
ActivateNoWait ==
  /\ dpc = "activate"
  /\ notify' = [notify EXCEPT ![dtid] = IF setup[dtid] # "nopipe" /\ @ < PipeCap THEN @ + 1 ELSE @]
  /\ dpc' = "idle"
  /\ UNCHANGED <<created, last_thread_, setup, dispatched, dtid, tasks_,
                 tasks_mutex_, threadVars>>

\* XThread::Activate writes one byte.  A full pipe blocks the dispatcher, or
\* makes send() fail in the non-blocking build; the failure is only logged.
\* After a failed pipe() the byte goes to descriptor 0, which is not the pool's.
Activate ==
  /\ dpc = "activate"
  /\ \/ /\ setup[dtid] # "nopipe" /\ notify[dtid] < PipeCap
        /\ notify' = [notify EXCEPT ![dtid] = @ + 1]
     \/ /\ setup[dtid] # "nopipe" /\ notify[dtid] = PipeCap /\ NonBlocking
        /\ UNCHANGED notify
     \/ /\ setup[dtid] = "nopipe"
        /\ UNCHANGED notify
  /\ dpc' = "idle"
  /\ UNCHANGED <<created, last_thread_, setup, dispatched, dtid, tasks_,
                 tasks_mutex_, threadVars>>
--------------------------------------------------------------------------------
(* A thread of the pool. *)

\* XThread::Main: without an event_base it returns at once, otherwise
\* event_base_dispatch runs for ever, the notify event being persistent.
Main(t) ==
  /\ wpc[t] = "begin"
  /\ wpc' = [wpc EXCEPT ![t] = IF setup[t] = "ok" THEN "dispatch" ELSE "ended"]
  /\ UNCHANGED <<dispatcherVars, tasks_, tasks_mutex_, notify, wtask, inited>>

\* Notify that leaves the byte in the pipe.
NotifyNoRead(t) ==
  /\ wpc[t] = "dispatch" /\ notify[t] > 0
  /\ wpc' = [wpc EXCEPT ![t] = "lock"]
  /\ UNCHANGED <<dispatcherVars, tasks_, tasks_mutex_, notify, wtask, inited>>

\* The notify event fires and XThread::Notify reads one byte.
Notify(t) ==
  /\ wpc[t] = "dispatch" /\ notify[t] > 0
  /\ notify' = [notify EXCEPT ![t] = @ - 1]
  /\ wpc' = [wpc EXCEPT ![t] = "lock"]
  /\ UNCHANGED <<dispatcherVars, tasks_, tasks_mutex_, wtask, inited>>

\* Notify: tasks_mutex_.lock().
NotifyLock(t) ==
  /\ wpc[t] = "lock" /\ tasks_mutex_[t] = "free"
  /\ tasks_mutex_' = [tasks_mutex_ EXCEPT ![t] = "thread"]
  /\ wpc' = [wpc EXCEPT ![t] = "pop"]
  /\ UNCHANGED <<dispatcherVars, tasks_, notify, wtask, inited>>

\* Notify: an empty queue ends it, otherwise the front task is taken; unlock.
NotifyPop(t) ==
  /\ wpc[t] = "pop"
  /\ tasks_mutex_' = [tasks_mutex_ EXCEPT ![t] = "free"]
  /\ IF tasks_[t] = <<>>
     THEN /\ wpc' = [wpc EXCEPT ![t] = "dispatch"]
          /\ UNCHANGED <<tasks_, wtask>>
     ELSE /\ wpc' = [wpc EXCEPT ![t] = "init"]
          /\ wtask' = [wtask EXCEPT ![t] = Head(tasks_[t])]
          /\ tasks_' = [tasks_ EXCEPT ![t] = Tail(@)]
  /\ UNCHANGED <<dispatcherVars, notify, inited>>

\* Notify: task->Init(), whose result it ignores.
InitTask(t) ==
  /\ wpc[t] = "init"
  /\ inited' = [inited EXCEPT ![t] = Append(@, wtask[t])]
  /\ wpc' = [wpc EXCEPT ![t] = "dispatch"]
  /\ wtask' = [wtask EXCEPT ![t] = NoTask]
  /\ UNCHANGED <<dispatcherVars, tasks_, tasks_mutex_, notify>>
--------------------------------------------------------------------------------
\* The dispatcher's steps inside Init and Dispatch; it need not call Dispatch.
DispatcherStep == StartThread \/ AddTaskLock \/ AddTaskPush \/ Activate

ThreadStep(t) ==
  Main(t) \/ Notify(t) \/ NotifyLock(t) \/ NotifyPop(t) \/ InitTask(t)

Next == DispatcherStep \/ Dispatch \/ \E t \in Threads : ThreadStep(t)

\* The operating system runs every thread that can run.
Fairness == /\ WF_vars(DispatcherStep)
            /\ \A t \in Threads : WF_vars(ThreadStep(t))

Spec == Init /\ [][Next]_vars /\ Fairness
--------------------------------------------------------------------------------
(* Safety. *)

\* The dispatcher's push_back and the thread's pop_front never run at the same
\* time on one list (xthread.cpp:40-48 and 62-64).
ListExclusive ==
  \A t \in Threads : ~(dpc = "push" /\ dtid = t /\ wpc[t] = "pop")

\* The byte a thread has read without having popped a task for it yet, and
\* the byte the dispatcher owes for the task it has just pushed.
ByteRead(t) == IF wpc[t] \in {"lock", "pop"} THEN 1 ELSE 0
ByteOwed(t) == IF dpc = "activate" /\ dtid = t THEN 1 ELSE 0

\* No wake-up is lost and none is spare: each queued task has a byte of its
\* own, in the pipe, owed by the dispatcher or already read by the thread, so
\* Notify never finds the queue empty and no task is stranded.  Needs a pipe,
\* and a write that blocks when the pipe is full (xthread.cpp:21-80).
WakeupBalance ==
  \A t \in Threads : setup[t] # "nopipe" /\ ~NonBlocking =>
    Len(tasks_[t]) = notify[t] + ByteRead(t) + ByteOwed(t)

\* Whatever fails in Setup or in the write, a thread that has read a byte finds
\* a task: the queue is never behind the pipe (xthread.cpp:38-48).
NotifyFindsTask == \A t \in Threads : wpc[t] = "pop" => tasks_[t] # <<>>

TD == INSTANCE TaskDispatch WITH dispatched <- dispatched, inited <- inited

\* What thread t has initialised, holds and has queued, in this order, is what
\* it was dealt: every ThreadCount-th task, none twice, none left out.
DealtInTurn ==
  \A t \in Threads :
    LET held == IF wpc[t] = "init" THEN <<wtask[t]>> ELSE <<>>
        all  == inited[t] \o held \o tasks_[t]
    IN  \A k \in 1 .. Len(all) : all[k] = TD!Dealt(t, k)

\* The pool does what it promises: each task is initialised once, tasks are
\* dealt in turn and initialised in the order of dispatch, and none is left
\* waiting for ever (xthread_pool.h:41-47).
ImplementsDispatch == TD!Spec
===============================================================================
