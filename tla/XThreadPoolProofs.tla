--------------------------- MODULE XThreadPoolProofs ---------------------------
(***************************************************************************)
(* Theorems about the thread pool, and that it does what TaskDispatch      *)
(* promises, for every number of threads, tasks and pipe bytes, for the    *)
(* blocking pipe and the non-blocking pair of sockets, and whatever fails  *)
(* in XThread::Setup.  All of them are facts about [][Next]_vars: no       *)
(* fairness is used.                                                       *)
(***************************************************************************)
EXTENDS XThreadPool, SequenceTheorems, TLAPS

\* The dispatcher, or the thread, holds a queue's mutex exactly while it is
\* between lock and unlock there.
MutexHeld ==
  \A t \in Threads :
    /\ tasks_mutex_[t] = "dispatcher" <=> (dpc = "push" /\ dtid = t)
    /\ tasks_mutex_[t] = "thread" <=> wpc[t] = "pop"

\* A task is in the hands of whoever works on it.
TaskInHand ==
  /\ dpc \in {"add", "push", "activate"} => dispatched >= 1
  /\ \A t \in Threads : wpc[t] = "init" => wtask[t] # NoTask

\* A thread runs once it is started, and serves its pipe when Setup was good.
ThreadsStarted ==
  \A t \in Threads :
    /\ t >= created => wpc[t] = "none" /\ setup[t] = "none"
    /\ wpc[t] \in {"dispatch", "lock", "pop", "init"} => setup[t] = "ok"

\* With a pipe there are never more bytes than tasks, though a failed write may
\* leave fewer.
EnoughTasks ==
  \A t \in Threads : setup[t] # "nopipe" =>
    Len(tasks_[t]) >= notify[t] + ByteRead(t) + ByteOwed(t)

\* How many tasks of thread t have no byte of their own.
Spare(t) == Len(tasks_[t]) - (notify[t] + ByteRead(t) + ByteOwed(t))

\* The inductive invariant.
PoolInv == /\ TypeOK /\ MutexHeld /\ TaskInHand /\ ThreadsStarted
           /\ EnoughTasks /\ WakeupBalance
--------------------------------------------------------------------------------
\* The round robin of Dispatch stays among the threads.
LEMMA NextThreadOK ==
  ASSUME NEW i \in -1 .. ThreadCount - 1
  PROVE  (i + 1) % ThreadCount \in Threads
BY PoolAssumption DEF Threads

\* The thread that Init creates next is one of the pool's.
LEMMA CreatedThread ==
  ASSUME created \in 0 .. ThreadCount, created < ThreadCount
  PROVE  created \in Threads
BY PoolAssumption DEF Threads

\* The pool starts in its invariant.
LEMMA PoolInvInit == Init => PoolInv
BY PoolAssumption DEF Init, PoolInv, TypeOK, MutexHeld, TaskInHand, ThreadsStarted,
   EnoughTasks, WakeupBalance, ByteRead, ByteOwed, Threads, NoTask

\* Every step keeps the types.
LEMMA TypeStep == TypeOK /\ TaskInHand /\ [Next]_vars => TypeOK'
<1> SUFFICES ASSUME TypeOK, TaskInHand, [Next]_vars PROVE TypeOK'
    OBVIOUS
<1> USE DEF TypeOK, dispatcherVars, threadVars
<1>1. CASE StartThread
  <2>1. created \in Threads
      BY <1>1, CreatedThread DEF StartThread
  <2>2. created + 1 \in 0 .. ThreadCount
      BY <1>1, PoolAssumption DEF StartThread
  <2>3. setup' \in [Threads -> {"none", "ok", "nopipe", "nobase"}]
    <3>1. PICK o \in SetupOutcomes : setup' = [setup EXCEPT ![created] = o]
        BY <1>1 DEF StartThread
    <3>2. o \in {"none", "ok", "nopipe", "nobase"}
        BY <3>1 DEF SetupOutcomes
    <3> QED
        BY <3>1, <3>2
  <2>4. dpc' \in {"init", "idle"}
      BY <1>1 DEF StartThread
  <2> QED
      BY <1>1, <2>1, <2>2, <2>3, <2>4 DEF StartThread
<1>2. CASE Dispatch
  <2>1. dtid' \in Threads
      BY <1>2, NextThreadOK DEF Dispatch
  <2>2. last_thread_' \in -1 .. ThreadCount - 1
      BY <1>2, <2>1, PoolAssumption DEF Dispatch, Threads
  <2>3. dispatched' \in 0 .. MaxTasks
      BY <1>2, PoolAssumption DEF Dispatch
  <2> QED
      BY <1>2, <2>1, <2>2, <2>3 DEF Dispatch
<1>3. CASE AddTaskLock
    BY <1>3 DEF AddTaskLock
<1>4. CASE AddTaskPush
  <2>1. dispatched \in 1 .. MaxTasks
      BY <1>4, PoolAssumption DEF AddTaskPush, TaskInHand
  <2>2. Append(tasks_[dtid], dispatched) \in Seq(1 .. MaxTasks)
      BY <2>1
  <2> QED
      BY <1>4, <2>2 DEF AddTaskPush
<1>5. CASE Activate
  <2>1. CASE notify' = notify
      BY <1>5, <2>1 DEF Activate
  <2>2. CASE /\ notify[dtid] < PipeCap
             /\ notify' = [notify EXCEPT ![dtid] = @ + 1]
    <3>1. notify[dtid] + 1 \in 0 .. PipeCap
        BY <2>2, PoolAssumption
    <3> QED
        BY <1>5, <2>2, <3>1 DEF Activate
  <2> QED
      BY <1>5, <2>1, <2>2 DEF Activate
<1>6. ASSUME NEW t \in Threads, Main(t) PROVE TypeOK'
    BY <1>6 DEF Main
<1>7. ASSUME NEW t \in Threads, Notify(t) PROVE TypeOK'
  <2>1. notify[t] - 1 \in 0 .. PipeCap
      BY <1>7, PoolAssumption DEF Notify
  <2> QED
      BY <1>7, <2>1 DEF Notify
<1>8. ASSUME NEW t \in Threads, NotifyLock(t) PROVE TypeOK'
    BY <1>8 DEF NotifyLock
<1>9. ASSUME NEW t \in Threads, NotifyPop(t) PROVE TypeOK'
  <2>1. CASE tasks_[t] = <<>>
      BY <1>9, <2>1 DEF NotifyPop
  <2>2. CASE tasks_[t] # <<>>
    <3>1. Head(tasks_[t]) \in 1 .. MaxTasks /\ Tail(tasks_[t]) \in Seq(1 .. MaxTasks)
        BY <2>2, HeadTailProperties
    <3>2. Head(tasks_[t]) \in 0 .. MaxTasks
        BY <3>1, PoolAssumption
    <3> QED
        BY <1>9, <2>2, <3>1, <3>2 DEF NotifyPop
  <2> QED
      BY <2>1, <2>2
<1>10. ASSUME NEW t \in Threads, InitTask(t) PROVE TypeOK'
  <2>1. wtask[t] \in 1 .. MaxTasks
      BY <1>10, PoolAssumption DEF InitTask, TaskInHand, NoTask
  <2>2. Append(inited[t], wtask[t]) \in Seq(1 .. MaxTasks)
      BY <2>1
  <2>3. NoTask \in 0 .. MaxTasks
      BY PoolAssumption DEF NoTask
  <2> QED
      BY <1>10, <2>2, <2>3 DEF InitTask
<1>11. CASE UNCHANGED vars
    BY <1>11 DEF vars
<1> QED
    BY <1>1, <1>2, <1>3, <1>4, <1>5, <1>6, <1>7, <1>8, <1>9, <1>10, <1>11
    DEF Next, DispatcherStep, ThreadStep

\* The thread that Init creates next has not run.
LEMMA NotStarted ==
  ASSUME TypeOK, ThreadsStarted, created \in Threads
  PROVE  wpc[created] = "none" /\ setup[created] = "none"
<1>1. created >= created
    BY PoolAssumption DEF TypeOK
<1> QED
    BY <1>1 DEF ThreadsStarted

\* Lock and unlock are paired in every step.
LEMMA MutexStep == PoolInv /\ [Next]_vars => MutexHeld'
<1> SUFFICES ASSUME PoolInv, [Next]_vars PROVE MutexHeld'
    OBVIOUS
<1> USE DEF PoolInv, TypeOK, MutexHeld, dispatcherVars, threadVars
<1>1. CASE StartThread
  <2>1. created \in Threads
      BY <1>1, CreatedThread DEF StartThread
  <2>2. wpc[created] = "none"
      BY <2>1, NotStarted
  <2> QED
      BY <1>1, <2>1, <2>2 DEF StartThread
<1>2. CASE Dispatch
    BY <1>2 DEF Dispatch
<1>3. CASE AddTaskLock
    BY <1>3 DEF AddTaskLock
<1>4. CASE AddTaskPush
    BY <1>4 DEF AddTaskPush
<1>5. CASE Activate
    BY <1>5 DEF Activate
<1>6. ASSUME NEW t \in Threads, Main(t) PROVE MutexHeld'
    BY <1>6 DEF Main
<1>7. ASSUME NEW t \in Threads, Notify(t) PROVE MutexHeld'
    BY <1>7 DEF Notify
<1>8. ASSUME NEW t \in Threads, NotifyLock(t) PROVE MutexHeld'
    BY <1>8 DEF NotifyLock
<1>9. ASSUME NEW t \in Threads, NotifyPop(t) PROVE MutexHeld'
    BY <1>9 DEF NotifyPop
<1>10. ASSUME NEW t \in Threads, InitTask(t) PROVE MutexHeld'
    BY <1>10 DEF InitTask
<1>11. CASE UNCHANGED vars
    BY <1>11 DEF vars
<1> QED
    BY <1>1, <1>2, <1>3, <1>4, <1>5, <1>6, <1>7, <1>8, <1>9, <1>10, <1>11
    DEF Next, DispatcherStep, ThreadStep

\* A task stays in hand while it is worked on.
LEMMA TaskStep == PoolInv /\ [Next]_vars => TaskInHand'
<1> SUFFICES ASSUME PoolInv, [Next]_vars PROVE TaskInHand'
    OBVIOUS
<1> USE DEF PoolInv, TypeOK, TaskInHand, dispatcherVars, threadVars
<1>1. CASE StartThread
    BY <1>1 DEF StartThread
<1>2. CASE Dispatch
    BY <1>2, PoolAssumption DEF Dispatch
<1>3. CASE AddTaskLock
    BY <1>3 DEF AddTaskLock
<1>4. CASE AddTaskPush
    BY <1>4 DEF AddTaskPush
<1>5. CASE Activate
    BY <1>5 DEF Activate
<1>6. ASSUME NEW t \in Threads, Main(t) PROVE TaskInHand'
    BY <1>6 DEF Main
<1>7. ASSUME NEW t \in Threads, Notify(t) PROVE TaskInHand'
    BY <1>7 DEF Notify
<1>8. ASSUME NEW t \in Threads, NotifyLock(t) PROVE TaskInHand'
    BY <1>8 DEF NotifyLock
<1>9. ASSUME NEW t \in Threads, NotifyPop(t) PROVE TaskInHand'
  <2>1. CASE tasks_[t] = <<>>
      BY <1>9, <2>1 DEF NotifyPop
  <2>2. CASE tasks_[t] # <<>>
    <3>1. Head(tasks_[t]) \in 1 .. MaxTasks
        BY <2>2, HeadTailProperties
    <3>2. Head(tasks_[t]) # NoTask
        BY <3>1, PoolAssumption DEF NoTask
    <3> QED
        BY <1>9, <2>2, <3>2 DEF NotifyPop
  <2> QED
      BY <2>1, <2>2
<1>10. ASSUME NEW t \in Threads, InitTask(t) PROVE TaskInHand'
    BY <1>10 DEF InitTask
<1>11. CASE UNCHANGED vars
    BY <1>11 DEF vars
<1> QED
    BY <1>1, <1>2, <1>3, <1>4, <1>5, <1>6, <1>7, <1>8, <1>9, <1>10, <1>11
    DEF Next, DispatcherStep, ThreadStep

\* A thread serves its pipe only after a good Setup, in every step.
LEMMA StartedStep == TypeOK /\ ThreadsStarted /\ [Next]_vars => ThreadsStarted'
<1> SUFFICES ASSUME TypeOK, ThreadsStarted, [Next]_vars PROVE ThreadsStarted'
    OBVIOUS
<1> USE DEF TypeOK, ThreadsStarted, dispatcherVars, threadVars
<1>1. CASE StartThread
  <2>1. created \in Threads
      BY <1>1, CreatedThread DEF StartThread
  <2>2. PICK o \in SetupOutcomes : setup' = [setup EXCEPT ![created] = o]
      BY <1>1 DEF StartThread
  <2>3. ASSUME NEW t \in Threads, t # created, t >= created'
        PROVE  t >= created
      BY <1>1, <2>3, PoolAssumption DEF StartThread, Threads
  <2>4. ASSUME NEW t \in Threads, t = created
        PROVE  ~(t >= created')
      BY <1>1, <2>4, PoolAssumption DEF StartThread
  <2> QED
      BY <1>1, <2>1, <2>2, <2>3, <2>4 DEF StartThread
<1>2. CASE Dispatch
    BY <1>2 DEF Dispatch
<1>3. CASE AddTaskLock
    BY <1>3 DEF AddTaskLock
<1>4. CASE AddTaskPush
    BY <1>4 DEF AddTaskPush
<1>5. CASE Activate
    BY <1>5 DEF Activate
<1>6. ASSUME NEW t \in Threads, Main(t) PROVE ThreadsStarted'
    BY <1>6 DEF Main
<1>7. ASSUME NEW t \in Threads, Notify(t) PROVE ThreadsStarted'
    BY <1>7 DEF Notify
<1>8. ASSUME NEW t \in Threads, NotifyLock(t) PROVE ThreadsStarted'
    BY <1>8 DEF NotifyLock
<1>9. ASSUME NEW t \in Threads, NotifyPop(t) PROVE ThreadsStarted'
    BY <1>9 DEF NotifyPop
<1>10. ASSUME NEW t \in Threads, InitTask(t) PROVE ThreadsStarted'
    BY <1>10 DEF InitTask
<1>11. CASE UNCHANGED vars
    BY <1>11 DEF vars
<1> QED
    BY <1>1, <1>2, <1>3, <1>4, <1>5, <1>6, <1>7, <1>8, <1>9, <1>10, <1>11
    DEF Next, DispatcherStep, ThreadStep

\* A thread that has read a byte finds a task.
LEMMA PopFinds == PoolInv => NotifyFindsTask
<1> SUFFICES ASSUME PoolInv, NEW t \in Threads, wpc[t] = "pop"
             PROVE  tasks_[t] # <<>>
    BY DEF NotifyFindsTask
<1>1. setup[t] # "nopipe"
    BY DEF PoolInv, ThreadsStarted
<1>2. notify[t] \in Nat /\ ByteRead(t) = 1 /\ ByteOwed(t) \in Nat
    BY PoolAssumption DEF PoolInv, TypeOK, ByteRead, ByteOwed
<1>3. Len(tasks_[t]) >= 1
    BY <1>1, <1>2, LenProperties DEF PoolInv, TypeOK, EnoughTasks
<1> QED
    BY <1>3, EmptySeq

\* What a step does to a thread's tasks without a byte: nothing, but for a
\* failing write, which only the non-blocking pair of sockets has.
LEMMA SpareStep ==
  ASSUME PoolInv, [Next]_vars, NEW u \in Threads, setup'[u] # "nopipe"
  PROVE  /\ setup[u] # "nopipe"
         /\ Spare(u) \in Int
         /\ Spare(u)' = Spare(u) \/ (NonBlocking /\ Spare(u)' = Spare(u) + 1)
<1> USE DEF PoolInv, TypeOK, dispatcherVars, threadVars
<1>0. Len(tasks_[u]) \in Nat /\ notify[u] \in Nat /\ Spare(u) \in Int
  <2>1. Len(tasks_[u]) \in Nat
      BY LenProperties
  <2>2. notify[u] \in Nat /\ ByteRead(u) \in Nat /\ ByteOwed(u) \in Nat
      BY PoolAssumption DEF ByteRead, ByteOwed
  <2> QED
      BY <2>1, <2>2 DEF Spare
<1> USE <1>0
<1>1. CASE StartThread
  <2>1. created \in Threads
      BY <1>1, CreatedThread DEF StartThread
  <2>2. PICK o \in SetupOutcomes : setup' = [setup EXCEPT ![created] = o]
      BY <1>1 DEF StartThread
  <2>3. wpc[created] = "none" /\ setup[u] # "nopipe"
      BY <1>1, <2>1, <2>2, NotStarted DEF StartThread
  <2> QED
      BY <1>1, <2>1, <2>2, <2>3 DEF StartThread, Spare, ByteRead, ByteOwed
<1>2. CASE Dispatch
    BY <1>2 DEF Dispatch, Spare, ByteRead, ByteOwed
<1>3. CASE AddTaskLock
    BY <1>3 DEF AddTaskLock, Spare, ByteRead, ByteOwed
<1>4. CASE AddTaskPush
  <2>1. CASE u # dtid
      BY <1>4, <2>1 DEF AddTaskPush, Spare, ByteRead, ByteOwed
  <2>2. CASE u = dtid
    <3>1. Len(tasks_'[u]) = Len(tasks_[u]) + 1
        BY <1>4, <2>2 DEF AddTaskPush
    <3>2. ByteOwed(u)' = 1 /\ ByteOwed(u) = 0
        BY <1>4, <2>2 DEF AddTaskPush, ByteOwed
    <3>3. UNCHANGED <<notify, wpc, setup>>
        BY <1>4 DEF AddTaskPush
    <3>4. ByteRead(u) \in Nat /\ ByteRead(u)' = ByteRead(u)
        BY <3>3 DEF ByteRead
    <3>5. notify'[u] = notify[u]
        BY <3>3
    <3>6. Spare(u) = Len(tasks_[u]) - (notify[u] + ByteRead(u) + 0)
        BY <3>2 DEF Spare
    <3>7. Spare(u)' = Len(tasks_'[u]) - (notify[u] + ByteRead(u) + 1)
        BY <3>2, <3>4, <3>5 DEF Spare
    <3> HIDE DEF TypeOK, PoolInv
    <3> QED
        BY <3>1, <3>3, <3>4, <3>6, <3>7
  <2> QED
      BY <2>1, <2>2
<1>5. CASE Activate
  <2>1. CASE u # dtid
      BY <1>5, <2>1 DEF Activate, Spare, ByteRead, ByteOwed
  <2>2. CASE u = dtid
    <3>1. ByteOwed(u)' = 0 /\ ByteOwed(u) = 1
        BY <1>5, <2>2 DEF Activate, ByteOwed
    <3>2. UNCHANGED <<tasks_, wpc, setup>>
        BY <1>5 DEF Activate
    <3>3. CASE notify' = [notify EXCEPT ![dtid] = @ + 1]
      <4>1. notify'[u] = notify[u] + 1
          BY <2>2, <3>3
      <4> QED
          BY <3>1, <3>2, <4>1 DEF Spare, ByteRead
    <3>4. CASE NonBlocking /\ notify' = notify
        BY <3>1, <3>2, <3>4, SMTT(30) DEF Spare, ByteRead
    <3> QED
        BY <1>5, <2>2, <3>2, <3>3, <3>4 DEF Activate
  <2> QED
      BY <2>1, <2>2
<1>6. ASSUME NEW t \in Threads, Main(t)
      PROVE  setup[u] # "nopipe" /\ Spare(u)' = Spare(u)
    BY <1>6 DEF Main, Spare, ByteRead, ByteOwed
<1>7. ASSUME NEW t \in Threads, Notify(t)
      PROVE  setup[u] # "nopipe" /\ Spare(u)' = Spare(u)
  <2>1. CASE u # t
      BY <1>7, <2>1 DEF Notify, Spare, ByteRead, ByteOwed
  <2>2. CASE u = t
    <3>1. notify'[u] = notify[u] - 1
        BY <1>7, <2>2 DEF Notify
    <3>2. ByteRead(u)' = 1 /\ ByteRead(u) = 0
        BY <1>7, <2>2 DEF Notify, ByteRead
    <3>3. UNCHANGED <<tasks_, dpc, dtid, setup>>
        BY <1>7 DEF Notify
    <3> QED
        BY <3>1, <3>2, <3>3 DEF Spare, ByteOwed
  <2> QED
      BY <2>1, <2>2
<1>8. ASSUME NEW t \in Threads, NotifyLock(t)
      PROVE  setup[u] # "nopipe" /\ Spare(u)' = Spare(u)
    BY <1>8 DEF NotifyLock, Spare, ByteRead, ByteOwed
<1>9. ASSUME NEW t \in Threads, NotifyPop(t)
      PROVE  setup[u] # "nopipe" /\ Spare(u)' = Spare(u)
  <2>1. CASE u # t
      BY <1>9, <2>1 DEF NotifyPop, Spare, ByteRead, ByteOwed
  <2>2. CASE u = t
    <3>1. tasks_[u] # <<>>
        BY <1>9, <2>2, PopFinds DEF NotifyPop, NotifyFindsTask
    <3>2. Len(tasks_'[u]) = Len(tasks_[u]) - 1
        BY <1>9, <2>2, <3>1, HeadTailProperties DEF NotifyPop
    <3>3. ByteRead(u)' = 0 /\ ByteRead(u) = 1
        BY <1>9, <2>2, <3>1 DEF NotifyPop, ByteRead
    <3>4. UNCHANGED <<notify, dpc, dtid, setup>>
        BY <1>9 DEF NotifyPop
    <3>5. ByteOwed(u) \in Nat /\ ByteOwed(u)' = ByteOwed(u)
        BY <3>4 DEF ByteOwed
    <3>6. notify'[u] = notify[u]
        BY <3>4
    <3>7. Spare(u) = Len(tasks_[u]) - (notify[u] + 1 + ByteOwed(u))
        BY <3>3 DEF Spare
    <3>8. Spare(u)' = Len(tasks_'[u]) - (notify[u] + 0 + ByteOwed(u))
        BY <3>3, <3>5, <3>6 DEF Spare
    <3> HIDE DEF TypeOK, PoolInv
    <3> QED
        BY <3>2, <3>4, <3>5, <3>7, <3>8, SMTT(30)
  <2> QED
      BY <2>1, <2>2
<1>10. ASSUME NEW t \in Threads, InitTask(t)
       PROVE  setup[u] # "nopipe" /\ Spare(u)' = Spare(u)
    BY <1>10 DEF InitTask, Spare, ByteRead, ByteOwed
<1>11. CASE UNCHANGED vars
    BY <1>11 DEF vars, Spare, ByteRead, ByteOwed
<1> QED
    BY <1>1, <1>2, <1>3, <1>4, <1>5, <1>6, <1>7, <1>8, <1>9, <1>10, <1>11
    DEF Next, DispatcherStep, ThreadStep

\* The strengthened invariant is inductive.
LEMMA PoolInvStep == PoolInv /\ [Next]_vars => PoolInv'
<1> SUFFICES ASSUME PoolInv, [Next]_vars PROVE PoolInv'
    OBVIOUS
<1>1. ASSUME NEW u \in Threads
      PROVE  /\ Spare(u) >= 0
                <=> Len(tasks_[u]) >= notify[u] + ByteRead(u) + ByteOwed(u)
             /\ Spare(u) = 0
                <=> Len(tasks_[u]) = notify[u] + ByteRead(u) + ByteOwed(u)
  <2>1. Len(tasks_[u]) \in Nat /\ notify[u] \in Nat
      BY PoolAssumption, LenProperties DEF PoolInv, TypeOK
  <2> QED
      BY <2>1 DEF Spare, ByteRead, ByteOwed
<1>2. TypeOK' /\ ThreadsStarted'
    BY TypeStep, StartedStep DEF PoolInv
<1>3. ASSUME NEW u \in Threads
      PROVE  /\ Spare(u)' >= 0
                => (Len(tasks_[u]) >= notify[u] + ByteRead(u) + ByteOwed(u))'
             /\ Spare(u)' = 0
                => (Len(tasks_[u]) = notify[u] + ByteRead(u) + ByteOwed(u))'
  <2>1. Len(tasks_'[u]) \in Nat /\ notify'[u] \in Nat
      BY <1>2, PoolAssumption, LenProperties DEF TypeOK
  <2> QED
      BY <2>1 DEF Spare, ByteRead, ByteOwed
<1>4. EnoughTasks'
  <2> SUFFICES ASSUME NEW u \in Threads, setup'[u] # "nopipe"
               PROVE  Spare(u)' >= 0
      BY <1>3 DEF EnoughTasks
  <2> QED
      BY SpareStep, <1>1 DEF PoolInv, EnoughTasks
<1>5. WakeupBalance'
  <2> SUFFICES ASSUME NEW u \in Threads, setup'[u] # "nopipe", ~NonBlocking
               PROVE  Spare(u)' = 0
      BY <1>3 DEF WakeupBalance
  <2> QED
      BY SpareStep, <1>1 DEF PoolInv, WakeupBalance
<1> QED
    BY <1>2, <1>4, <1>5, MutexStep, TaskStep DEF PoolInv

\* The strengthened invariant holds in every reachable state of the pool.
THEOREM PoolInvariant == Spec => []PoolInv
<1> QED
    BY PoolInvInit, PoolInvStep, PTL DEF Spec

\* Types: no queue, pipe or thread counter leaves its range, for any number of
\* threads.
THEOREM TypeCorrect == Spec => []TypeOK
<1>1. PoolInv => TypeOK
    BY DEF PoolInv
<1> QED
    BY <1>1, PoolInvariant, PTL

\* push_back and pop_front never run at once on one queue.
THEOREM ExclusiveLists == Spec => []ListExclusive
<1>1. PoolInv => ListExclusive
    BY DEF PoolInv, MutexHeld, ListExclusive, TypeOK
<1> QED
    BY <1>1, PoolInvariant, PTL

\* Each queued task has a wake-up byte of its own when writes block.
THEOREM Balanced == Spec => []WakeupBalance
<1>1. PoolInv => WakeupBalance
    BY DEF PoolInv
<1> QED
    BY <1>1, PoolInvariant, PTL

\* Notify finds a task for every byte it reads, even when writes may fail.
THEOREM FindsTask == Spec => []NotifyFindsTask
    BY PopFinds, PoolInvariant, PTL
--------------------------------------------------------------------------------
(* The safety part of what TaskDispatch promises: tasks are dealt to the threads in
   turn, and each is initialised once, in its thread's order of dispatch.  That every
   task is initialised in the end is left to TLC. *)

\* The tasks thread t has been dealt: those it has initialised, the one it holds
\* and those in its queue.
Held(t)     == IF wpc[t] = "init" THEN <<wtask[t]>> ELSE <<>>
AllTasks(t) == inited[t] \o Held(t) \o tasks_[t]

\* The task that the dispatcher is about to push to t's queue.
Due(t) == IF dpc \in {"add", "push"} /\ dtid = t THEN 1 ELSE 0

\* The thread's tasks are every ThreadCount-th one, up to the last dispatched.
TurnsTaken ==
  \A t \in Threads : \A k \in 1 .. Len(AllTasks(t)) :
    AllTasks(t)[k] = TD!Dealt(t, k) /\ AllTasks(t)[k] <= dispatched

\* After r full rounds, and one more up to last_thread_, everybody has been
\* dealt r tasks or r + 1.
Rounds(r) ==
  /\ dispatched = r * ThreadCount + last_thread_ + 1
  /\ \A t \in Threads :
       Len(AllTasks(t)) + Due(t) = IF t <= last_thread_ THEN r + 1 ELSE r

\* The dispatcher works for the thread it dealt to last.
DealsToLast == dpc \in {"add", "push", "activate"} => dtid = last_thread_

\* The inductive invariant.
TurnInv == TurnsTaken /\ DealsToLast /\ \E r \in Nat : Rounds(r)
--------------------------------------------------------------------------------
\* A sequence is its head, then its tail.
LEMMA HeadThenTail ==
  ASSUME NEW S, NEW s \in Seq(S), s # <<>>
  PROVE  s = <<Head(s)>> \o Tail(s)
<1>1. Tail(s) \in Seq(S) /\ Head(s) \in S /\ Len(Tail(s)) = Len(s) - 1
      /\ \A i \in 1 .. Len(Tail(s)) : Tail(s)[i] = s[i + 1]
    BY HeadTailProperties
<1>2. <<Head(s)>> \in Seq(S) /\ Len(<<Head(s)>>) = 1 /\ <<Head(s)>>[1] = s[1]
    BY <1>1
<1>3. /\ <<Head(s)>> \o Tail(s) \in Seq(S)
      /\ Len(<<Head(s)>> \o Tail(s)) = Len(s)
      /\ \A i \in 1 .. Len(s) : (<<Head(s)>> \o Tail(s))[i] = s[i]
  <2>1. Len(s) \in Nat
      BY LenProperties
  <2> QED
      BY <1>1, <1>2, <2>1, ConcatProperties
<1> QED
    BY <1>3, SeqEqual

\* Taking a task from the queue and initialising it leave the order as it is.
LEMMA TakeFirst ==
  ASSUME NEW S, NEW a \in Seq(S), NEW c \in Seq(S), c # <<>>
  PROVE  (a \o <<Head(c)>>) \o Tail(c) = (a \o <<>>) \o c
<1>1. Head(c) \in S /\ Tail(c) \in Seq(S) /\ <<Head(c)>> \in Seq(S)
    BY HeadTailProperties
<1>2. (a \o <<Head(c)>>) \o Tail(c) = a \o (<<Head(c)>> \o Tail(c))
    BY <1>1, ConcatAssociative
<1> QED
    BY <1>2, HeadThenTail, ConcatEmptySeq

\* A task pushed to the queue comes behind all others.
LEMMA PushLast ==
  ASSUME NEW S, NEW a \in Seq(S), NEW c \in Seq(S), NEW e \in S
  PROVE  a \o Append(c, e) = Append(a \o c, e)
<1>1. <<e>> \in Seq(S) /\ a \o c \in Seq(S)
    BY ConcatProperties
<1>2. Append(c, e) = c \o <<e>> /\ Append(a \o c, e) = (a \o c) \o <<e>>
    BY <1>1, AppendIsConcat
<1> QED
    BY <1>1, <1>2, ConcatAssociative

\* What comes right behind a sequence has the next place.
LEMMA InTheMiddle ==
  ASSUME NEW S, NEW a \in Seq(S), NEW c \in Seq(S), NEW e \in S
  PROVE  /\ Len(a) + 1 \in 1 .. Len((a \o <<e>>) \o c)
         /\ ((a \o <<e>>) \o c)[Len(a) + 1] = e
<1>1. Len(a) \in Nat /\ Len(c) \in Nat
    BY LenProperties
<1>2. a \o <<e>> \in Seq(S) /\ Len(a \o <<e>>) = Len(a) + 1
      /\ (a \o <<e>>)[Len(a) + 1] = e
    BY AppendIsConcat, AppendProperties
<1> QED
    BY <1>1, <1>2, ConcatProperties

\* The round robin goes on with the next thread, or with the first.
LEMMA NextThread ==
  ASSUME NEW i \in -1 .. ThreadCount - 1
  PROVE  (i + 1) % ThreadCount = IF i + 1 = ThreadCount THEN 0 ELSE i + 1
<1>1. CASE i + 1 = ThreadCount
    BY <1>1, PoolAssumption
<1>2. CASE i + 1 # ThreadCount
    BY <1>2, PoolAssumption
<1> QED
    BY <1>1, <1>2

\* What a thread has been dealt is a sequence of tasks.
LEMMA AllTasksOK ==
  ASSUME TypeOK, TaskInHand, NEW t \in Threads
  PROVE  /\ Held(t) \in Seq(1 .. MaxTasks)
         /\ inited[t] \o Held(t) \in Seq(1 .. MaxTasks)
         /\ AllTasks(t) \in Seq(1 .. MaxTasks)
<1>1. wpc[t] = "init" => wtask[t] \in 1 .. MaxTasks
    BY PoolAssumption DEF TypeOK, TaskInHand, NoTask
<1>2. Held(t) \in Seq(1 .. MaxTasks)
  <2>1. CASE wpc[t] = "init"
    <3>1. <<wtask[t]>> \in Seq(1 .. MaxTasks)
        BY <1>1, <2>1
    <3> QED
        BY <2>1, <3>1 DEF Held
  <2>2. CASE wpc[t] # "init"
      BY <2>2, EmptySeq DEF Held
  <2> QED
      BY <2>1, <2>2
<1> QED
    BY <1>2, ConcatProperties DEF TypeOK, AllTasks

\* A step leaves what a thread has been dealt as it is, but for the push to its
\* queue, which adds the task dispatched last.
LEMMA TasksStep ==
  ASSUME PoolInv, [Next]_vars, NEW u \in Threads
  PROVE  IF AddTaskPush /\ dtid = u
         THEN AllTasks(u)' = Append(AllTasks(u), dispatched)
         ELSE AllTasks(u)' = AllTasks(u)
<1>0. /\ TypeOK /\ TaskInHand
      /\ AllTasks(u) \in Seq(1 .. MaxTasks)
      /\ inited[u] \o Held(u) \in Seq(1 .. MaxTasks)
      /\ tasks_[u] \in Seq(1 .. MaxTasks) /\ inited[u] \in Seq(1 .. MaxTasks)
    BY AllTasksOK DEF PoolInv, TypeOK
<1> USE DEF TypeOK, dispatcherVars, threadVars
<1>1. CASE AddTaskPush
  <2>1. CASE dtid = u
    <3>1. dispatched \in 1 .. MaxTasks
        BY <1>0, <1>1, PoolAssumption DEF AddTaskPush, TaskInHand
    <3>2. tasks_'[u] = Append(tasks_[u], dispatched) /\ UNCHANGED <<inited, wpc, wtask>>
        BY <1>0, <1>1, <2>1 DEF AddTaskPush
    <3>3. AllTasks(u)' = (inited[u] \o Held(u)) \o Append(tasks_[u], dispatched)
        BY <3>2 DEF AllTasks, Held
    <3> DEFINE Tasks == 1 .. MaxTasks
    <3>4. /\ inited[u] \o Held(u) \in Seq(Tasks) /\ tasks_[u] \in Seq(Tasks)
          /\ dispatched \in Tasks
        BY <1>0, <3>1
    <3> HIDE DEF TypeOK, Tasks
    <3>5. (inited[u] \o Held(u)) \o Append(tasks_[u], dispatched)
             = Append((inited[u] \o Held(u)) \o tasks_[u], dispatched)
      <4>1. \A a, c \in Seq(Tasks), e \in Tasks : a \o Append(c, e) = Append(a \o c, e)
          BY PushLast
      <4> QED
          BY <4>1, <3>4
    <3> QED
        BY <1>1, <2>1, <3>3, <3>5 DEF AllTasks
  <2>2. CASE dtid # u
      BY <1>0, <1>1, <2>2 DEF AddTaskPush, AllTasks, Held
  <2> QED
      BY <2>1, <2>2
<1>2. ASSUME UNCHANGED <<tasks_, inited, wtask>>, NEW t \in Threads,
             wpc[t] # "init", wpc'[t] # "init",
             wpc' = [wpc EXCEPT ![t] = wpc'[t]]
      PROVE  AllTasks(u)' = AllTasks(u)
  <2>1. Held(u)' = Held(u)
      BY <1>0, <1>2 DEF Held
  <2> QED
      BY <1>2, <2>1 DEF AllTasks
<1>3. CASE StartThread
  <2>1. created \in Threads
      BY <1>3, CreatedThread, <1>0 DEF StartThread
  <2>2. wpc[created] = "none"
      BY <2>1, NotStarted DEF PoolInv
  <2>3. AllTasks(u)' = AllTasks(u)
      BY <1>0, <1>3, <2>1, <2>2 DEF StartThread, AllTasks, Held
  <2> QED
      BY <1>3, <2>3 DEF StartThread, AddTaskPush
<1>4. CASE Dispatch
    BY <1>4 DEF Dispatch, AddTaskPush, AllTasks, Held
<1>5. CASE AddTaskLock
    BY <1>5 DEF AddTaskLock, AddTaskPush, AllTasks, Held
<1>6. CASE Activate
    BY <1>6 DEF Activate, AddTaskPush, AllTasks, Held
<1>7. ASSUME NEW t \in Threads, Main(t) \/ Notify(t) \/ NotifyLock(t)
      PROVE  AllTasks(u)' = AllTasks(u)
  <2>1. UNCHANGED <<tasks_, inited, wtask>>
      BY <1>7 DEF Main, Notify, NotifyLock
  <2>2. wpc[t] # "init" /\ wpc'[t] # "init" /\ wpc' = [wpc EXCEPT ![t] = wpc'[t]]
      BY <1>0, <1>7 DEF Main, Notify, NotifyLock
  <2> QED
      BY <2>1, <2>2, <1>2
<1>8. ASSUME NEW t \in Threads, NotifyPop(t)
      PROVE  AllTasks(u)' = AllTasks(u)
  <2>1. CASE t # u
      BY <1>0, <1>8, <2>1 DEF NotifyPop, AllTasks, Held
  <2>2. CASE t = u
    <3>1. tasks_[u] # <<>>
        BY <1>8, <2>2, PopFinds DEF NotifyPop, NotifyFindsTask
    <3>2. Held(u) = <<>> /\ Held(u)' = <<Head(tasks_[u])>>
        BY <1>0, <1>8, <2>2, <3>1 DEF NotifyPop, Held
    <3>3. tasks_'[u] = Tail(tasks_[u]) /\ inited' = inited
        BY <1>0, <1>8, <2>2, <3>1 DEF NotifyPop
    <3> QED
        BY <1>0, <3>1, <3>2, <3>3, TakeFirst DEF AllTasks
  <2> QED
      BY <2>1, <2>2
<1>9. ASSUME NEW t \in Threads, InitTask(t)
      PROVE  AllTasks(u)' = AllTasks(u)
  <2>1. CASE t # u
      BY <1>0, <1>9, <2>1 DEF InitTask, AllTasks, Held
  <2>2. CASE t = u
    <3>1. Held(u) = <<wtask[u]>> /\ Held(u)' = <<>> /\ tasks_' = tasks_
        BY <1>0, <1>9, <2>2 DEF InitTask, Held
    <3>2. wtask[u] \in 1 .. MaxTasks
        BY <1>0, <1>9, <2>2, PoolAssumption DEF InitTask, TaskInHand, NoTask
    <3>3. inited'[u] = inited[u] \o <<wtask[u]>>
        BY <1>0, <1>9, <2>2, <3>2, AppendIsConcat, SMTT(30) DEF InitTask
    <3>5. inited'[u] \o <<>> = inited'[u]
        BY <1>0, <3>1, <3>3, ConcatEmptySeq
    <3> QED
        BY <3>1, <3>3, <3>5 DEF AllTasks
  <2> QED
      BY <2>1, <2>2
<1>10. CASE UNCHANGED vars
    BY <1>10 DEF vars, AllTasks, Held, AddTaskPush
<1>11. ASSUME NEW t \in Threads, ThreadStep(t) PROVE ~AddTaskPush
    BY <1>11, <1>0 DEF ThreadStep, Main, Notify, NotifyLock, NotifyPop, InitTask,
       AddTaskPush
<1> QED
    BY <1>1, <1>3, <1>4, <1>5, <1>6, <1>7, <1>8, <1>9, <1>10, <1>11
    DEF Next, DispatcherStep, ThreadStep

\* The system starts in the invariant, with no rounds dealt.
LEMMA TurnInvInit == Init => TurnInv
<1> SUFFICES ASSUME Init PROVE TurnInv
    OBVIOUS
<1>1. ASSUME NEW t \in Threads PROVE AllTasks(t) = <<>> /\ Due(t) = 0
    BY <1>1 DEF Init, AllTasks, Held, Due
<1>2. Rounds(0)
    BY <1>1, PoolAssumption DEF Init, Rounds, Threads
<1> QED
    BY <1>1, <1>2 DEF TurnInv, TurnsTaken, DealsToLast, Init

\* The next Dispatch deals to the next thread, or begins a round.
LEMMA DispatchStep == PoolInv /\ TurnInv /\ Dispatch => TurnInv'
<1> SUFFICES ASSUME PoolInv, TurnInv, Dispatch PROVE TurnInv'
    OBVIOUS
<1>1. PICK r \in Nat : Rounds(r)
    BY DEF TurnInv
<1>2. /\ last_thread_ \in -1 .. ThreadCount - 1 /\ dispatched \in Nat
      /\ dispatched' = dispatched + 1 /\ dpc = "idle" /\ dpc' = "add"
      /\ dtid' = last_thread_'
      /\ last_thread_' = IF last_thread_ + 1 = ThreadCount THEN 0 ELSE last_thread_ + 1
    BY NextThread, PoolAssumption DEF PoolInv, TypeOK, Dispatch
<1>3. ASSUME NEW t \in Threads
      PROVE  /\ AllTasks(t)' = AllTasks(t) /\ Len(AllTasks(t)) \in Nat
             /\ AllTasks(t) \in Seq(1 .. MaxTasks)
             /\ Due(t) = 0 /\ Due(t)' = IF t = last_thread_' THEN 1 ELSE 0
  <2>1. AllTasks(t)' = AllTasks(t)
      BY TasksStep, <1>2 DEF Next, AddTaskPush
  <2>2. AllTasks(t) \in Seq(1 .. MaxTasks)
      BY AllTasksOK DEF PoolInv
  <2>3. Len(AllTasks(t)) \in Nat
      BY <2>2, LenProperties
  <2> QED
      BY <1>2, <2>1, <2>2, <2>3 DEF Due
<1>4. TurnsTaken'
  <2> SUFFICES ASSUME NEW t \in Threads, NEW k \in 1 .. Len(AllTasks(t)')
               PROVE  AllTasks(t)'[k] = TD!Dealt(t, k) /\ AllTasks(t)'[k] <= dispatched'
      BY DEF TurnsTaken, TD!Dealt
  <2>0. k \in 1 .. Len(AllTasks(t))
      BY <1>3
  <2>1. AllTasks(t)[k] = TD!Dealt(t, k) /\ AllTasks(t)[k] <= dispatched
      BY <2>0 DEF TurnInv, TurnsTaken
  <2>2. AllTasks(t)[k] \in 1 .. MaxTasks
      BY <1>3, <2>0, ElementOfSeq
  <2> QED
      BY <1>2, <1>3, <2>1, <2>2
<1>5. \E q \in Nat : Rounds(q)'
  <2>1. CASE last_thread_ + 1 = ThreadCount
    <3>1. dispatched' = (r + 1) * ThreadCount + last_thread_' + 1
        BY <1>1, <1>2, <2>1, PoolAssumption DEF Rounds
    <3>2. ASSUME NEW t \in Threads
          PROVE  Len(AllTasks(t)') + Due(t)' = IF t <= last_thread_' THEN r + 2 ELSE r + 1
        BY <1>1, <1>2, <1>3, <2>1, PoolAssumption DEF Rounds, Threads
    <3> QED
        BY <3>1, <3>2 DEF Rounds
  <2>2. CASE last_thread_ + 1 # ThreadCount
    <3>1. dispatched' = r * ThreadCount + last_thread_' + 1
        BY <1>1, <1>2, <2>2, PoolAssumption DEF Rounds
    <3>2. ASSUME NEW t \in Threads
          PROVE  Len(AllTasks(t)') + Due(t)' = IF t <= last_thread_' THEN r + 1 ELSE r
      <4>1. last_thread_' = last_thread_ + 1 /\ last_thread_ \in Int /\ t \in Int
          BY <1>2, <2>2 DEF Threads
      <4>2. Len(AllTasks(t)) = IF t <= last_thread_ THEN r + 1 ELSE r
          BY <1>1, <1>3 DEF Rounds
      <4> QED
          BY <1>3, <4>1, <4>2
    <3> QED
        BY <3>1, <3>2 DEF Rounds
  <2> QED
      BY <2>1, <2>2
<1> QED
    BY <1>2, <1>4, <1>5 DEF TurnInv, DealsToLast

\* A push puts the task where its turn is.
LEMMA PushStep == PoolInv /\ TurnInv /\ AddTaskPush => TurnInv'
<1> SUFFICES ASSUME PoolInv, TurnInv, AddTaskPush PROVE TurnInv'
    OBVIOUS
<1>1. PICK r \in Nat : Rounds(r)
    BY DEF TurnInv
<1>2. /\ dtid \in Threads /\ dispatched \in 1 .. MaxTasks
      /\ dpc = "push" /\ dpc' = "activate" /\ dtid = last_thread_
      /\ UNCHANGED <<dispatched, last_thread_, dtid>>
    BY PoolAssumption
    DEF PoolInv, TypeOK, TaskInHand, AddTaskPush, TurnInv, DealsToLast
<1>3. ASSUME NEW t \in Threads
      PROVE  /\ AllTasks(t) \in Seq(1 .. MaxTasks) /\ Len(AllTasks(t)) \in Nat
             /\ Due(t) = (IF t = dtid THEN 1 ELSE 0) /\ Due(t)' = 0
  <2>1. AllTasks(t) \in Seq(1 .. MaxTasks)
      BY AllTasksOK DEF PoolInv
  <2>2. Len(AllTasks(t)) \in Nat
      BY <2>1, LenProperties
  <2> QED
      BY <1>2, <2>1, <2>2 DEF Due
<1>4. ASSUME NEW t \in Threads, t # dtid
      PROVE  AllTasks(t)' = AllTasks(t)
    BY <1>4, TasksStep DEF Next, DispatcherStep
<1>5. ASSUME NEW t \in Threads, t = dtid
      PROVE  /\ AllTasks(t)' = Append(AllTasks(t), dispatched)
             /\ Len(AllTasks(t)) = r /\ Len(AllTasks(t)') = r + 1
             /\ \A k \in 1 .. r : AllTasks(t)'[k] = AllTasks(t)[k]
             /\ AllTasks(t)'[r + 1] = dispatched
  <2>1. Len(AllTasks(t)) + 1 = r + 1
      BY <1>1, <1>2, <1>3, <1>5 DEF Rounds, Threads
  <2>2. Len(AllTasks(t)) = r
      BY <1>3, <2>1
  <2>3. AllTasks(t)' = Append(AllTasks(t), dispatched)
      BY <1>5, TasksStep DEF Next, DispatcherStep
  <2> QED
      BY <1>2, <1>3, <2>2, <2>3, AppendProperties
<1>6. TurnsTaken'
  <2> SUFFICES ASSUME NEW t \in Threads, NEW k \in 1 .. Len(AllTasks(t)')
               PROVE  AllTasks(t)'[k] = TD!Dealt(t, k) /\ AllTasks(t)'[k] <= dispatched
      BY <1>2 DEF TurnsTaken, TD!Dealt
  <2>1. CASE t # dtid
      BY <1>4, <2>1 DEF TurnInv, TurnsTaken
  <2>2. CASE t = dtid
    <3>1. k \in 1 .. r + 1
        BY <1>5, <2>2
    <3>2. CASE k \in 1 .. r
        BY <1>5, <2>2, <3>2 DEF TurnInv, TurnsTaken
    <3>3. CASE k = r + 1
        BY <1>1, <1>2, <1>5, <2>2, <3>3, PoolAssumption DEF Rounds, TD!Dealt
    <3> QED
        BY <3>1, <3>2, <3>3
  <2> QED
      BY <2>1, <2>2
<1>7. Rounds(r)'
  <2> SUFFICES ASSUME NEW t \in Threads
               PROVE  Len(AllTasks(t)') + 0 = IF t <= last_thread_ THEN r + 1 ELSE r
      BY <1>1, <1>2, <1>3 DEF Rounds
  <2>1. CASE t # dtid
      BY <1>1, <1>3, <1>4, <2>1 DEF Rounds
  <2>2. CASE t = dtid
      BY <1>2, <1>5, <2>2 DEF Threads
  <2> QED
      BY <2>1, <2>2
<1> QED
    BY <1>2, <1>6, <1>7 DEF TurnInv, DealsToLast

\* No other step has a part in it.
LEMMA OtherStep ==
  PoolInv /\ TurnInv /\ [Next]_vars /\ ~Dispatch /\ ~AddTaskPush => TurnInv'
<1> SUFFICES ASSUME PoolInv, TurnInv, [Next]_vars, ~Dispatch, ~AddTaskPush
             PROVE  TurnInv'
    OBVIOUS
<1>1. /\ UNCHANGED <<dispatched, last_thread_, dtid>>
      /\ dpc' \in {"add", "push"} <=> dpc \in {"add", "push"}
      /\ dpc' = "activate" => dpc = "activate"
    BY DEF Next, DispatcherStep, ThreadStep, StartThread, AddTaskLock, Activate, Main,
       Notify, NotifyLock, NotifyPop, InitTask, vars, dispatcherVars, threadVars
<1>2. ASSUME NEW t \in Threads
      PROVE  AllTasks(t)' = AllTasks(t) /\ Due(t)' = Due(t)
    BY <1>1, TasksStep DEF Due
<1>3. TurnsTaken'
    BY <1>1, <1>2 DEF TurnInv, TurnsTaken, TD!Dealt
<1>4. \E r \in Nat : Rounds(r)'
    BY <1>1, <1>2 DEF TurnInv, Rounds
<1> QED
    BY <1>1, <1>3, <1>4 DEF TurnInv, DealsToLast

\* The invariant of the round robin holds in every reachable state: the threads'
\* tasks and the one that is due are always those of the rounds dealt.
THEOREM TurnInvariant == Spec => [](PoolInv /\ TurnInv)
<1>1. PoolInv /\ TurnInv /\ [Next]_vars => (PoolInv /\ TurnInv)'
    BY PoolInvStep, DispatchStep, PushStep, OtherStep
<1> QED
    BY <1>1, PoolInvInit, TurnInvInit, PTL DEF Spec

\* Each thread has, in order, every ThreadCount-th task, for any number of threads.
THEOREM InTurn == Spec => []DealtInTurn
<1>1. TurnInv => DealtInTurn
    BY DEF TurnInv, TurnsTaken, DealtInTurn, AllTasks, Held
<1> QED
    BY <1>1, TurnInvariant, PTL

\* A step of the pool is one of TaskDispatch, or changes nothing there.
LEMMA StepImplements ==
  PoolInv /\ TurnInv /\ [Next]_vars => [TD!Next]_(TD!vars)
<1> SUFFICES ASSUME PoolInv, TurnInv, [Next]_vars PROVE [TD!Next]_(TD!vars)
    OBVIOUS
<1>1. CASE Dispatch
    BY <1>1 DEF Dispatch, threadVars, TD!Next, TD!Dispatch
<1>2. ASSUME NEW t \in Threads, InitTask(t) PROVE TD!RunNext(t)
  <2>1. /\ wpc[t] = "init" /\ UNCHANGED dispatched
        /\ inited' = [inited EXCEPT ![t] = Append(@, wtask[t])]
      BY <1>2 DEF InitTask, dispatcherVars
  <2> DEFINE Tasks == 1 .. MaxTasks
             n     == Len(inited[t]) + 1
  <2>2. inited[t] \in Seq(Tasks) /\ tasks_[t] \in Seq(Tasks) /\ wtask[t] \in Tasks
      BY <2>1, PoolAssumption DEF PoolInv, TypeOK, TaskInHand, NoTask
  <2>3. AllTasks(t) = (inited[t] \o <<wtask[t]>>) \o tasks_[t]
      BY <2>1 DEF AllTasks, Held
  <2>4. n \in 1 .. Len(AllTasks(t)) /\ AllTasks(t)[n] = wtask[t]
    <3> HIDE DEF Tasks
    <3>1. \A a, c \in Seq(Tasks), e \in Tasks :
            /\ Len(a) + 1 \in 1 .. Len((a \o <<e>>) \o c)
            /\ ((a \o <<e>>) \o c)[Len(a) + 1] = e
        BY InTheMiddle
    <3>2. /\ n \in 1 .. Len((inited[t] \o <<wtask[t]>>) \o tasks_[t])
          /\ ((inited[t] \o <<wtask[t]>>) \o tasks_[t])[n] = wtask[t]
        BY <2>2, <3>1
    <3> HIDE DEF n
    <3> QED
        BY <2>3, <3>2
  <2>5. wtask[t] = TD!Dealt(t, n) /\ TD!Dealt(t, n) <= dispatched
      BY <2>4 DEF TurnInv, TurnsTaken
  <2> QED
      BY <2>1, <2>5 DEF TD!RunNext
<1>3. ASSUME ~Dispatch, ~(\E t \in Threads : InitTask(t))
      PROVE  UNCHANGED <<dispatched, inited>>
    BY <1>3 DEF Next, DispatcherStep, ThreadStep, StartThread, AddTaskLock, AddTaskPush,
       Activate, Main, Notify, NotifyLock, NotifyPop, vars, dispatcherVars, threadVars
<1> QED
    BY <1>1, <1>2, <1>3 DEF TD!Next, TD!vars, TD!Threads, Threads

\* The pool never does what TaskDispatch does not allow: the safety part of
\* ImplementsDispatch, for every pool.
THEOREM SafelyImplements == Spec => TD!Init /\ [][TD!Next]_(TD!vars)
<1>1. Init => TD!Init
    BY DEF Init, TD!Init, TD!Threads, Threads
<1> QED
    BY <1>1, StepImplements, TurnInvariant, PTL DEF Spec
===============================================================================
