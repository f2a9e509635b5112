----------------------------- MODULE TaskDispatch -----------------------------
(***************************************************************************)
(* What the thread pool of src/src/xcom promises (xthread_pool.h:41-47):   *)
(* every dispatched task is initialised once, in a thread of the pool, the *)
(* tasks are dealt to the threads in turn, and each thread initialises its *)
(* tasks in the order of their dispatch.  Nothing is said here of locks,   *)
(* queues or wake-up bytes: XThreadPool is shown to implement this module. *)
(*                                                                         *)
(* A task is named by its place in the order of dispatch, from 1.          *)
(***************************************************************************)
EXTENDS Integers, Sequences

CONSTANTS ThreadCount, MaxTasks

VARIABLES dispatched,  \* number of tasks dispatched so far
          inited       \* per thread, the tasks it initialised, in order

vars == <<dispatched, inited>>

Threads == 0 .. ThreadCount - 1

\* The k-th task dealt to thread t, counting from 1.
Dealt(t, k) == (k - 1) * ThreadCount + t + 1

Init == /\ dispatched = 0
        /\ inited = [t \in Threads |-> <<>>]

Dispatch == /\ dispatched < MaxTasks
            /\ dispatched' = dispatched + 1
            /\ UNCHANGED inited

RunNext(t) == LET next == Dealt(t, Len(inited[t]) + 1) IN
              /\ next <= dispatched
              /\ inited' = [inited EXCEPT ![t] = Append(@, next)]
              /\ UNCHANGED dispatched

Next == Dispatch \/ \E t \in Threads : RunNext(t)

Spec == Init /\ [][Next]_vars /\ \A t \in Threads : WF_vars(RunNext(t))
===============================================================================
