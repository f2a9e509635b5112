--------------------------- MODULE XDiskServerProofs ---------------------------
(***************************************************************************)
(* What was proved of the pool alone holds in the server, where its        *)
(* dispatcher is first the main thread and then the listener's, the tasks  *)
(* are the connections, and clients, callbacks and a second pool run       *)
(* beside it: the server uses the pool as it is meant to be used.  On that *)
(* rests that each socket is in one hand from accept to Close.             *)
(***************************************************************************)
EXTENDS XDiskServer, XThreadPoolProofs, FiniteSetTheorems

\* A step of the server is a step of the pool, or leaves the pool alone.
LEMMA ServerStep == [ServerNext]_allVars => [Next]_vars
<1> SUFFICES ASSUME [ServerNext]_allVars PROVE [Next]_vars
    OBVIOUS
<1>1. CASE UNCHANGED allVars
    BY <1>1 DEF allVars
<1>2. CASE MainStartThread
    BY <1>2 DEF MainStartThread, Next, DispatcherStep
<1>3. CASE MainListen
    BY <1>3 DEF MainListen
<1>4. CASE ListenInit
    BY <1>4 DEF ListenInit
<1>5. CASE ListenCB
    BY <1>5 DEF ListenCB, Next
<1>6. CASE ListenCBStep
    BY <1>6 DEF ListenCBStep, Next, DispatcherStep
<1>7. ASSUME NEW t \in Threads, ThreadLoop(t) PROVE Next
    BY <1>7 DEF ThreadLoop, ServerNotify, TaskInit, Next, ThreadStep
<1>8. CASE Connect
    BY <1>8 DEF Connect
<1>9. ASSUME NEW c \in Conns, Eof(c) \/ Timeout(c) \/ Leave(c) PROVE UNCHANGED vars
    BY <1>9 DEF Eof, Timeout, Close, Leave
<1> QED
    BY <1>1, <1>2, <1>3, <1>4, <1>5, <1>6, <1>7, <1>8, <1>9 DEF ServerNext

\* The server never does with the pool what the pool's specification does not allow:
\* one dispatcher at a time, and no Dispatch before every thread was started.
THEOREM ServerUsesPool == ServerSpec => Init /\ [][Next]_vars
<1>1. ServerInit => Init
    BY DEF ServerInit
<1> QED
    BY <1>1, ServerStep, PTL DEF ServerSpec

\* So the pool's inductive invariants hold in the server ...
THEOREM ServerPoolInvariant == ServerSpec => [](PoolInv /\ TurnInv)
<1>1. PoolInv /\ TurnInv /\ [Next]_vars => (PoolInv /\ TurnInv)'
    BY PoolInvStep, DispatchStep, PushStep, OtherStep
<1> QED
    BY <1>1, PoolInvInit, TurnInvInit, ServerUsesPool, PTL

\* ... and with them: the listener and a thread never work on one queue at once,
THEOREM ServerExclusive == ServerSpec => []ListExclusive
<1>1. PoolInv => ListExclusive
    BY DEF PoolInv, MutexHeld, ListExclusive, TypeOK
<1> QED
    BY <1>1, ServerPoolInvariant, PTL

\* a thread finds a connection for every wake-up byte, whatever fails,
THEOREM ServerFindsTask == ServerSpec => []NotifyFindsTask
    BY PopFinds, ServerPoolInvariant, PTL

\* and the connections are dealt to the threads in the order they were accepted.
THEOREM ServerInTurn == ServerSpec => []DealtInTurn
<1>1. TurnInv => DealtInTurn
    BY DEF TurnInv, TurnsTaken, DealtInTurn, AllTasks, Held
<1> QED
    BY <1>1, ServerPoolInvariant, PTL
--------------------------------------------------------------------------------
\* The place of connection c among the tasks of its thread, counting from 1.
Turn(c) == (c - 1) \div ThreadCount + 1

\* A task number names one place of one thread only.
LEMMA DivideOnce ==
  ASSUME NEW a \in Int, NEW b \in Int, NEW s \in Threads, NEW t \in Threads,
         a * ThreadCount + s = b * ThreadCount + t
  PROVE  a = b /\ s = t
<1>1. /\ ThreadCount \in Nat \ {0} /\ s \in Int /\ t \in Int
      /\ 0 <= s /\ s < ThreadCount /\ 0 <= t /\ t < ThreadCount
    BY PoolAssumption DEF Threads
<1>2. (a - b) * ThreadCount = t - s
    BY <1>1
<1>3. a - b >= 1 => (a - b) * ThreadCount >= ThreadCount
    BY <1>1
<1>4. b - a >= 1 => (b - a) * ThreadCount >= ThreadCount
    BY <1>1
<1>5. (b - a) * ThreadCount = -((a - b) * ThreadCount)
    BY <1>1
<1>6. a = b
    BY <1>1, <1>2, <1>3, <1>4, <1>5
<1> QED
    BY <1>1, <1>2, <1>6

\* Connection c is the Turn(c)-th task of its thread.
LEMMA TurnOf ==
  ASSUME NEW c \in Conns
  PROVE  /\ ThreadOf(c) \in Threads /\ Turn(c) \in Nat \ {0}
         /\ c = TD!Dealt(ThreadOf(c), Turn(c))
<1>1. ThreadCount \in Nat \ {0} /\ c - 1 \in Nat
    BY PoolAssumption DEF Conns
<1>2. PICK n \in Nat \ {0} : n = ThreadCount
    BY <1>1
<1>3. PICK x \in Nat : x = c - 1
    BY <1>1
<1>4. x % n \in 0 .. n - 1 /\ x \div n \in Nat /\ x = (x \div n) * n + (x % n)
    BY <1>2, <1>3
<1> QED
    BY <1>1, <1>2, <1>3, <1>4 DEF ThreadOf, Turn, Threads, TD!Dealt, Conns

LEMMA OnlyTurn ==
  ASSUME NEW c \in Conns, NEW u \in Threads, NEW k \in Int, TD!Dealt(u, k) = c
  PROVE  u = ThreadOf(c) /\ k = Turn(c)
<1>1. ThreadOf(c) \in Threads /\ Turn(c) \in Int /\ c = TD!Dealt(ThreadOf(c), Turn(c))
    BY TurnOf
<1>2. (k - 1) * ThreadCount + u = (Turn(c) - 1) * ThreadCount + ThreadOf(c)
  <2>1. PICK p \in Int : p = (k - 1) * ThreadCount
      BY PoolAssumption
  <2>2. PICK q \in Int : q = (Turn(c) - 1) * ThreadCount
      BY <1>1, PoolAssumption
  <2>3. p + u + 1 = q + ThreadOf(c) + 1
      BY <1>1, <2>1, <2>2 DEF TD!Dealt
  <2> QED
      BY <1>1, <2>1, <2>2, <2>3 DEF Threads
<1>3. k - 1 = Turn(c) - 1 /\ u = ThreadOf(c)
    BY <1>1, <1>2, DivideOnce
<1> QED
    BY <1>1, <1>3

\* Whether c was dispatched.
LEMMA RoundOf ==
  ASSUME NEW c \in Conns, NEW r \in Int, NEW l \in Int, -1 <= l, l < ThreadCount
  PROVE  c <= r * ThreadCount + l + 1
           <=> Turn(c) <= IF ThreadOf(c) <= l THEN r + 1 ELSE r
<1>1. PICK n \in Nat \ {0} : n = ThreadCount
    BY PoolAssumption
<1>2. PICK t \in Int : t = ThreadOf(c) /\ 0 <= t /\ t < n
    BY <1>1, TurnOf DEF Threads
<1>3. PICK q \in Int : q = Turn(c) - 1
    BY TurnOf
<1>4. c = q * n + t + 1 /\ Turn(c) = q + 1
    BY <1>1, <1>2, <1>3, TurnOf DEF TD!Dealt
<1>5. (q - r) * n = q * n - r * n
    BY <1>1
<1>6. /\ q - r >= 1 => (q - r) * n >= n
      /\ q - r = 0 => (q - r) * n = 0
      /\ q - r <= -1 => (q - r) * n <= -n
    BY <1>1
<1> QED
    BY <1>1, <1>2, <1>4, <1>5, <1>6

\* Where the entries of three joined sequences are.
LEMMA Joined ==
  ASSUME NEW S, NEW a \in Seq(S), NEW h \in Seq(S), NEW q \in Seq(S)
  PROVE  /\ Len((a \o h) \o q) = Len(a) + Len(h) + Len(q)
         /\ \A i \in 1 .. Len(a) : ((a \o h) \o q)[i] = a[i]
         /\ \A i \in 1 .. Len(h) : ((a \o h) \o q)[Len(a) + i] = h[i]
         /\ \A i \in 1 .. Len(q) : ((a \o h) \o q)[Len(a) + Len(h) + i] = q[i]
<1>1. Len(a) \in Nat /\ Len(h) \in Nat /\ Len(q) \in Nat
    BY LenProperties
<1>2. /\ a \o h \in Seq(S) /\ Len(a \o h) = Len(a) + Len(h)
      /\ \A i \in 1 .. Len(a) + Len(h) :
           (a \o h)[i] = IF i <= Len(a) THEN a[i] ELSE h[i - Len(a)]
    BY ConcatProperties
<1>3. /\ Len((a \o h) \o q) = Len(a) + Len(h) + Len(q)
      /\ \A i \in 1 .. Len(a) + Len(h) + Len(q) :
           ((a \o h) \o q)[i] = IF i <= Len(a) + Len(h) THEN (a \o h)[i]
                                ELSE q[i - (Len(a) + Len(h))]
    BY <1>2, ConcatProperties
<1>4. \A i \in 1 .. Len(a) : ((a \o h) \o q)[i] = a[i]
    BY <1>1, <1>2, <1>3
<1>5. ASSUME NEW i \in 1 .. Len(h) PROVE ((a \o h) \o q)[Len(a) + i] = h[i]
  <2>1. /\ Len(a) + i \in 1 .. Len(a) + Len(h) + Len(q)
        /\ Len(a) + i \in 1 .. Len(a) + Len(h)
        /\ Len(a) + i <= Len(a) + Len(h) /\ ~(Len(a) + i <= Len(a))
        /\ (Len(a) + i) - Len(a) = i
      BY <1>1
  <2> QED
      BY <1>2, <1>3, <2>1
<1>6. ASSUME NEW i \in 1 .. Len(q)
      PROVE  ((a \o h) \o q)[Len(a) + Len(h) + i] = q[i]
  <2>1. /\ Len(a) + Len(h) + i \in 1 .. Len(a) + Len(h) + Len(q)
        /\ ~(Len(a) + Len(h) + i <= Len(a) + Len(h))
        /\ (Len(a) + Len(h) + i) - (Len(a) + Len(h)) = i
      BY <1>1
  <2> QED
      BY <1>3, <2>1
<1> QED
    BY <1>3, <1>4, <1>5, <1>6

\* The tasks of a thread by their places: initialised, in its hands, in its queue.
LEMMA PlacesOfTasks ==
  ASSUME PoolInv, TurnInv, NEW t \in Threads
  PROVE  /\ Len(inited[t]) \in Nat /\ Len(Held(t)) \in Nat /\ Len(tasks_[t]) \in Nat
         /\ Len(AllTasks(t)) = Len(inited[t]) + Len(Held(t)) + Len(tasks_[t])
         /\ \A i \in 1 .. Len(inited[t]) : inited[t][i] = TD!Dealt(t, i)
         /\ \A i \in 1 .. Len(Held(t)) : Held(t)[i] = TD!Dealt(t, Len(inited[t]) + i)
         /\ \A i \in 1 .. Len(tasks_[t]) :
              tasks_[t][i] = TD!Dealt(t, Len(inited[t]) + Len(Held(t)) + i)
<1>1. /\ inited[t] \in Seq(1 .. MaxTasks) /\ Held(t) \in Seq(1 .. MaxTasks)
      /\ tasks_[t] \in Seq(1 .. MaxTasks)
    BY AllTasksOK DEF PoolInv, TypeOK
<1>2. PICK a, h, q : a = inited[t] /\ h = Held(t) /\ q = tasks_[t]
    OBVIOUS
<1>3. PICK S : a \in Seq(S) /\ h \in Seq(S) /\ q \in Seq(S)
    BY <1>1, <1>2
<1>4. /\ Len((a \o h) \o q) = Len(a) + Len(h) + Len(q)
      /\ \A i \in 1 .. Len(a) : ((a \o h) \o q)[i] = a[i]
      /\ \A i \in 1 .. Len(h) : ((a \o h) \o q)[Len(a) + i] = h[i]
      /\ \A i \in 1 .. Len(q) : ((a \o h) \o q)[Len(a) + Len(h) + i] = q[i]
    BY <1>3, Joined
<1>5. Len(a) \in Nat /\ Len(h) \in Nat /\ Len(q) \in Nat
    BY <1>3, LenProperties
<1>6. AllTasks(t) = (a \o h) \o q
    BY <1>2 DEF AllTasks
<1>7. \A k \in 1 .. Len((a \o h) \o q) : ((a \o h) \o q)[k] = TD!Dealt(t, k)
    BY <1>6 DEF TurnInv, TurnsTaken
<1>8. \A i \in 1 .. Len(a) : a[i] = TD!Dealt(t, i)
    BY <1>4, <1>5, <1>7
<1>9. ASSUME NEW i \in 1 .. Len(h) PROVE h[i] = TD!Dealt(t, Len(a) + i)
  <2>1. Len(a) + i \in 1 .. Len((a \o h) \o q)
      BY <1>4, <1>5
  <2> QED
      BY <1>4, <1>7, <2>1
<1>10. ASSUME NEW i \in 1 .. Len(q) PROVE q[i] = TD!Dealt(t, Len(a) + Len(h) + i)
  <2>1. Len(a) + Len(h) + i \in 1 .. Len((a \o h) \o q)
      BY <1>4, <1>5
  <2> QED
      BY <1>4, <1>7, <2>1
<1> QED
    BY <1>2, <1>4, <1>5, <1>6, <1>8, <1>9, <1>10

\* A connection is in a run of its thread's tasks when its turn is.
LEMMA InRun ==
  ASSUME NEW S, NEW s \in Seq(S), NEW n \in Nat, NEW c \in Conns,
         \A i \in 1 .. Len(s) : s[i] = TD!Dealt(ThreadOf(c), n + i)
  PROVE  c \in Range(s) <=> Turn(c) \in n + 1 .. n + Len(s)
<1>1. Len(s) \in Nat /\ DOMAIN s = 1 .. Len(s)
    BY LenProperties
<1>2. /\ ThreadOf(c) \in Threads /\ Turn(c) \in Nat
      /\ c = TD!Dealt(ThreadOf(c), Turn(c))
    BY TurnOf
<1>3. ASSUME NEW i \in 1 .. Len(s), s[i] = c PROVE Turn(c) = n + i
  <2>1. n + i \in Int
      BY <1>1
  <2> QED
      BY <1>2, <1>3, <2>1, OnlyTurn
<1>4. ASSUME Turn(c) \in n + 1 .. n + Len(s)
      PROVE  Turn(c) - n \in 1 .. Len(s) /\ s[Turn(c) - n] = c
  <2>1. Turn(c) - n \in 1 .. Len(s) /\ n + (Turn(c) - n) = Turn(c)
      BY <1>1, <1>2, <1>4
  <2> QED
      BY <1>2, <2>1
<1>5. c \in Range(s) <=> \E i \in 1 .. Len(s) : s[i] = c
    BY <1>1 DEF Range
<1>6. ASSUME NEW i \in 1 .. Len(s), s[i] = c PROVE Turn(c) \in n + 1 .. n + Len(s)
    BY <1>1, <1>3, <1>6
<1> QED
    BY <1>4, <1>5, <1>6

\* Where connection c is follows from its turn k and from what its thread t was
\* dealt: a tasks it initialised, h in its hands, q in its queue and d to be pushed.
Located(c, t, k, a, h, q, d) ==
  /\ k >= 1 /\ d <= 1
  /\ c \in Range(inited[t]) <=> k <= a
  /\ (wpc[t] = "init" /\ wtask[t] = c) <=> k \in a + 1 .. a + h
  /\ c \in Range(tasks_[t]) <=> k \in a + h + 1 .. a + h + q
  /\ (c = dispatched /\ dpc \in {"add", "push"}) <=> (d = 1 /\ k = a + h + q + 1)
  /\ c <= dispatched <=> k <= a + h + q + d

LEMMA Whereabouts ==
  ASSUME PoolInv, TurnInv, NEW c \in Conns, NEW t \in Threads, t = ThreadOf(c)
  PROVE  \E k, a, h, q, d \in Nat : Located(c, t, k, a, h, q, d)
<1>1. PICK a \in Nat : a = Len(inited[t])
    BY PlacesOfTasks
<1>2. PICK h \in Nat : h = Len(Held(t))
    BY PlacesOfTasks
<1>3. PICK q \in Nat : q = Len(tasks_[t])
    BY PlacesOfTasks
<1>4. PICK d \in Nat : d = Due(t) /\ d \in {0, 1}
    BY DEF Due
<1>5. PICK k \in Nat : k = Turn(c) /\ k >= 1
    BY TurnOf
<1>6. /\ Len(AllTasks(t)) = a + h + q
      /\ \A i \in 1 .. a : inited[t][i] = TD!Dealt(t, i)
      /\ \A i \in 1 .. h : Held(t)[i] = TD!Dealt(t, a + i)
      /\ \A i \in 1 .. q : tasks_[t][i] = TD!Dealt(t, a + h + i)
    BY <1>1, <1>2, <1>3, PlacesOfTasks
<1>7. /\ inited[t] \in Seq(1 .. MaxTasks) /\ Held(t) \in Seq(1 .. MaxTasks)
      /\ tasks_[t] \in Seq(1 .. MaxTasks)
    BY AllTasksOK DEF PoolInv, TypeOK
<1>8. c \in Range(inited[t]) <=> k <= a
  <2>1. \A i \in 1 .. a : inited[t][i] = TD!Dealt(t, 0 + i)
      BY <1>6
  <2>2. c \in Range(inited[t]) <=> k \in 0 + 1 .. 0 + a
      BY <1>1, <1>5, <1>7, <2>1, InRun
  <2> QED
      BY <1>5, <2>2
<1>9. wpc[t] = "init" /\ wtask[t] = c <=> k \in a + 1 .. a + h
  <2>1. c \in Range(Held(t)) <=> k \in a + 1 .. a + h
      BY <1>2, <1>5, <1>6, <1>7, InRun
  <2>2. c \in Range(Held(t)) <=> wpc[t] = "init" /\ wtask[t] = c
      BY DEF Range, Held
  <2> QED
      BY <2>1, <2>2
<1>10. c \in Range(tasks_[t]) <=> k \in a + h + 1 .. a + h + q
  <2>1. a + h \in Nat
      OBVIOUS
  <2> QED
      BY <1>3, <1>5, <1>6, <1>7, <2>1, InRun
<1>11. PICK r \in Nat : Rounds(r)
    BY DEF TurnInv
<1>12. PICK l \in Int : l = last_thread_ /\ -1 <= l /\ l < ThreadCount
    BY PoolAssumption DEF PoolInv, TypeOK
<1>13. dispatched = r * ThreadCount + l + 1
    BY <1>11, <1>12 DEF Rounds
<1>14. /\ a + h + q + d = IF t <= l THEN r + 1 ELSE r
       /\ t = l => a + h + q + d = r + 1
  <2>1. a + h + q + d = IF t <= l THEN r + 1 ELSE r
      BY <1>4, <1>6, <1>11, <1>12 DEF Rounds
  <2>2. t = l => t <= l
      BY <1>12
  <2> QED
      BY <2>1, <2>2
<1>15. c <= dispatched <=> k <= a + h + q + d
  <2>1. c <= r * ThreadCount + l + 1 <=> k <= IF t <= l THEN r + 1 ELSE r
      BY <1>5, <1>12, RoundOf
  <2> QED
      BY <1>13, <1>14, <2>1
<1>16. ASSUME c = dispatched, dpc \in {"add", "push"}
       PROVE  d = 1 /\ k = a + h + q + 1
  <2>1. dtid = l /\ l \in Threads
      BY <1>12, <1>16 DEF TurnInv, DealsToLast, PoolInv, TypeOK
  <2>2. TD!Dealt(l, r + 1) = c
      BY <1>12, <1>13, <1>16 DEF TD!Dealt
  <2>3. l = t /\ r + 1 = k
      BY <1>5, <2>1, <2>2, OnlyTurn
  <2>4. d = 1
      BY <1>4, <1>16, <2>1, <2>3 DEF Due
  <2>5. a + h + q + d = r + 1
      BY <1>14, <2>3
  <2> QED
      BY <2>3, <2>4, <2>5
<1>17. ASSUME d = 1, k = a + h + q + 1 PROVE c = dispatched /\ dpc \in {"add", "push"}
  <2>1. dpc \in {"add", "push"} /\ dtid = t /\ t = l
      BY <1>4, <1>12, <1>17 DEF Due, TurnInv, DealsToLast
  <2>2. k = r + 1
    <3>1. a + h + q + d = r + 1
        BY <1>14, <2>1
    <3> QED
        BY <1>17, <3>1
  <2>3. c = (k - 1) * ThreadCount + l + 1
      BY <1>5, <2>1, TurnOf DEF TD!Dealt
  <2> QED
      BY <1>13, <2>1, <2>2, <2>3
<1> WITNESS k \in Nat, a \in Nat, h \in Nat, q \in Nat, d \in Nat
<1> QED
    BY <1>4, <1>5, <1>8, <1>9, <1>10, <1>15, <1>16, <1>17 DEF Located

\* A connection has a socket once it was dispatched, which is only accepted until
\* its task is initialised.
HandedOver ==
  \A c \in Conns :
    /\ sock[c] = "none" <=> c > dispatched
    /\ sock[c] = "accepted" <=> c <= dispatched /\ c \notin Range(inited[ThreadOf(c)])

\* The inductive invariant of the server.
ServerInv == PoolInv /\ TurnInv /\ ServerTypeOK /\ HandedOver
--------------------------------------------------------------------------------
\* A thread initialises only connections of its own, which were dispatched.
LEMMA InitsOwn ==
  ASSUME PoolInv, TurnInv, NEW t \in Threads, wpc[t] = "init"
  PROVE  wtask[t] \in Conns /\ wtask[t] <= dispatched /\ ThreadOf(wtask[t]) = t
<1>1. PICK c \in Conns : c = wtask[t]
    BY PoolAssumption DEF PoolInv, TypeOK, TaskInHand, NoTask, Conns
<1>2. PICK n \in Nat : n = Len(inited[t])
    BY PlacesOfTasks
<1>3. Held(t) = <<c>> /\ 1 \in 1 .. Len(Held(t))
    BY <1>1 DEF Held
<1>4. c = TD!Dealt(t, n + 1)
  <2>1. Held(t)[1] = TD!Dealt(t, n + 1)
      BY <1>2, <1>3, PlacesOfTasks
  <2> QED
      BY <1>3, <2>1
<1>5. ThreadOf(c) = t
    BY <1>4, OnlyTurn
<1>6. c <= dispatched
  <2>1. PICK k, a, h, q, d \in Nat : Located(c, t, k, a, h, q, d)
      BY <1>5, Whereabouts
  <2>2. k \in a + 1 .. a + h
      BY <1>1, <2>1 DEF Located
  <2>3. k <= a + h + q + d
      BY <2>2
  <2> QED
      BY <2>1, <2>3 DEF Located
<1> QED
    BY <1>1, <1>5, <1>6

\* What was initialised was dispatched.
LEMMA InitedDispatched ==
  ASSUME PoolInv, TurnInv, NEW c \in Conns, c \in Range(inited[ThreadOf(c)])
  PROVE  c <= dispatched
<1>1. PICK t \in Threads : t = ThreadOf(c)
    BY TurnOf
<1>2. PICK k, a, h, q, d \in Nat : Located(c, t, k, a, h, q, d)
    BY <1>1, Whereabouts
<1> QED
    BY <1>1, <1>2 DEF Located

\* The server starts in its invariant.
LEMMA ServerInvInit == ServerInit => ServerInv
<1> SUFFICES ASSUME ServerInit PROVE ServerInv
    OBVIOUS
<1>1. PoolInv /\ TurnInv
    BY PoolInvInit, TurnInvInit DEF ServerInit
<1>2. ServerTypeOK
    BY <1>1, PoolAssumption, ServerAssumption
    DEF ServerInit, Init, ServerTypeOK, PoolInv, ServerPool!Init, ServerPool!Threads, Conns
<1>3. HandedOver
  <2> SUFFICES ASSUME NEW c \in Conns
               PROVE  c > 0 /\ ~(c <= 0)
      BY DEF HandedOver, ServerInit, Init
  <2> QED
      BY DEF Conns
<1> QED
    BY <1>1, <1>2, <1>3 DEF ServerInv

\* The listener's pool of one thread initialises its one task once.
LEMMA ListenerPoolStep ==
  ASSUME ldispatched \in 0 .. 1, linited \in [{0} -> {<<>>, << 1 >>}]
  PROVE  /\ ServerPool!Dispatch => ldispatched' \in 0 .. 1 /\ linited' = linited
         /\ ServerPool!RunNext(0) =>
              /\ ldispatched' = ldispatched /\ linited' \in [{0} -> {<<>>, << 1 >>}]
<1>1. ServerPool!Dispatch => ldispatched' \in 0 .. 1 /\ linited' = linited
    BY DEF ServerPool!Dispatch
<1>2. ASSUME ServerPool!RunNext(0)
      PROVE  ldispatched' = ldispatched /\ linited' \in [{0} -> {<<>>, << 1 >>}]
  <2>1. linited[0] = <<>>
    <3>1. ASSUME linited[0] = << 1 >> PROVE FALSE
      <4>1. Len(linited[0]) = 1
          BY <3>1
      <4> QED
          BY <1>2, <4>1 DEF ServerPool!RunNext, ServerPool!Dealt
    <3> QED
        BY <3>1
  <2>2. ServerPool!Dealt(0, Len(linited[0]) + 1) = 1
      BY <2>1 DEF ServerPool!Dealt
  <2>3. linited' = [linited EXCEPT ![0] = Append(linited[0], 1)] /\ ldispatched' = ldispatched
      BY <1>2, <2>2 DEF ServerPool!RunNext
  <2>4. Append(linited[0], 1) = << 1 >>
      BY <2>1
  <2> QED
      BY <2>3, <2>4
<1> QED
    BY <1>1, <1>2

\* Places of a dispatched connection: exactly one.
LEMMA OnePlace ==
  ASSUME PoolInv, TurnInv, NEW c \in Conns, c <= dispatched
  PROVE  /\ \E p : Places(c) = {p}
         /\ Places(c) = {"inited"} <=> c \in Range(inited[ThreadOf(c)])
<1>1. PICK t \in Threads : t = ThreadOf(c)
    BY TurnOf
<1>2. PICK k, a, h, q, d \in Nat : Located(c, t, k, a, h, q, d)
    BY <1>1, Whereabouts
<1>3. k <= a + h + q + d
    BY <1>2 DEF Located
<1>4. Places(c) = {p \in {"dispatcher", "queue", "thread", "inited"} :
                     \/ p = "dispatcher" /\ c = dispatched /\ dpc \in {"add", "push"}
                     \/ p = "queue" /\ c \in Range(tasks_[t])
                     \/ p = "thread" /\ wpc[t] = "init" /\ wtask[t] = c
                     \/ p = "inited" /\ c \in Range(inited[t])}
    BY <1>1 DEF Places, ThreadOf
<1>5. CASE k <= a
  <2>1. /\ c \in Range(inited[t]) /\ ~(wpc[t] = "init" /\ wtask[t] = c)
        /\ c \notin Range(tasks_[t]) /\ ~(c = dispatched /\ dpc \in {"add", "push"})
      BY <1>2, <1>5 DEF Located
  <2>2. Places(c) = {"inited"}
      BY <1>4, <2>1
  <2> QED
      BY <1>1, <2>1, <2>2
<1>6. CASE k \in a + 1 .. a + h
  <2>1. /\ c \notin Range(inited[t]) /\ wpc[t] = "init" /\ wtask[t] = c
        /\ c \notin Range(tasks_[t]) /\ ~(c = dispatched /\ dpc \in {"add", "push"})
      BY <1>2, <1>6 DEF Located
  <2>2. Places(c) = {"thread"}
      BY <1>4, <2>1
  <2> QED
      BY <1>1, <2>1, <2>2
<1>7. CASE k \in a + h + 1 .. a + h + q
  <2>1. /\ c \notin Range(inited[t]) /\ ~(wpc[t] = "init" /\ wtask[t] = c)
        /\ c \in Range(tasks_[t]) /\ ~(c = dispatched /\ dpc \in {"add", "push"})
      BY <1>2, <1>7 DEF Located
  <2>2. Places(c) = {"queue"}
      BY <1>4, <2>1
  <2> QED
      BY <1>1, <2>1, <2>2
<1>8. CASE d = 1 /\ k = a + h + q + 1
  <2>1. /\ c \notin Range(inited[t]) /\ ~(wpc[t] = "init" /\ wtask[t] = c)
        /\ c \notin Range(tasks_[t]) /\ c = dispatched /\ dpc \in {"add", "push"}
      BY <1>2, <1>8 DEF Located
  <2>2. Places(c) = {"dispatcher"}
      BY <1>4, <2>1
  <2> QED
      BY <1>1, <2>1, <2>2
<1>9. \/ k <= a \/ k \in a + 1 .. a + h \/ k \in a + h + 1 .. a + h + q
      \/ d = 1 /\ k = a + h + q + 1
    BY <1>2, <1>3 DEF Located
<1> QED
    BY <1>5, <1>6, <1>7, <1>8, <1>9
\* The invariant says who owns each socket.
LEMMA InvOwns == ServerInv => SocketsOwned
<1> SUFFICES ASSUME ServerInv, NEW c \in Conns
             PROVE  /\ sock[c] = "none" <=> c > dispatched
                    /\ c <= dispatched => Cardinality(Places(c)) = 1
                    /\ sock[c] = "accepted" <=> c <= dispatched /\ Places(c) # {"inited"}
    BY DEF SocketsOwned
<1>1. c <= dispatched => Cardinality(Places(c)) = 1
    BY OnePlace, FS_Singleton DEF ServerInv
<1>2. c <= dispatched => (Places(c) = {"inited"} <=> c \in Range(inited[ThreadOf(c)]))
    BY OnePlace DEF ServerInv
<1> QED
    BY <1>1, <1>2 DEF ServerInv, HandedOver

\* Initialising a task adds it to what was initialised.
LEMMA InitedNow ==
  ASSUME PoolInv, TurnInv, NEW t \in Threads, InitTask(t), NEW c \in Conns
  PROVE  c \in Range(inited[ThreadOf(c)])'
           <=> c \in Range(inited[ThreadOf(c)]) \/ c = wtask[t]
<1>1. PICK u \in Threads : u = ThreadOf(c)
    BY TurnOf
<1>2. inited' = [inited EXCEPT ![t] = Append(@, wtask[t])] /\ wpc[t] = "init"
    BY DEF InitTask
<1>3. inited \in [Threads -> Seq(1 .. MaxTasks)]
    BY DEF PoolInv, TypeOK
<1>4. wtask[t] \in Conns /\ ThreadOf(wtask[t]) = t
    BY <1>2, InitsOwn
<1>5. CASE u # t
    BY <1>1, <1>2, <1>3, <1>4, <1>5 DEF ThreadOf
<1>6. CASE u = t
  <2>1. PICK s : s = inited[t] /\ s \in Seq(1 .. MaxTasks)
      BY <1>3
  <2>2. inited'[t] = Append(s, wtask[t])
      BY <1>2, <1>3, <2>1
  <2>3. Range(Append(s, wtask[t])) = Range(s) \cup {wtask[t]}
    <3>1. /\ Len(s) \in Nat /\ DOMAIN s = 1 .. Len(s)
          /\ DOMAIN Append(s, wtask[t]) = 1 .. Len(s) + 1
          /\ \A i \in 1 .. Len(s) : Append(s, wtask[t])[i] = s[i]
          /\ Append(s, wtask[t])[Len(s) + 1] = wtask[t]
        BY <2>1
    <3>2. 1 .. Len(s) + 1 = 1 .. Len(s) \cup {Len(s) + 1}
        BY <3>1
    <3> QED
        BY <3>1, <3>2 DEF Range
  <2> QED
      BY <1>1, <1>6, <2>1, <2>2, <2>3 DEF ThreadOf
<1> QED
    BY <1>5, <1>6

\* Closing an open socket, or leaving all as it is, keeps that.
LEMMA HandedOverKept ==
  ASSUME HandedOver, UNCHANGED <<dispatched, inited>>,
         \A c \in Conns : \/ sock'[c] = sock[c]
                          \/ sock[c] = "open" /\ sock'[c] = "closed"
  PROVE  HandedOver'
BY DEF HandedOver, ThreadOf

\* Every step keeps the types.
LEMMA ServerTypeStep == ServerInv /\ [ServerNext]_allVars => ServerTypeOK'
<1> SUFFICES ASSUME ServerInv, [ServerNext]_allVars PROVE ServerTypeOK'
    OBVIOUS
<1>1. TypeOK'
  <2>1. PoolInv /\ [Next]_vars
      BY ServerStep DEF ServerInv
  <2>2. PoolInv'
      BY <2>1, PoolInvStep
  <2> QED
      BY <2>2 DEF PoolInv
<1>2. PICK m \in Nat, b \in Nat : m = MaxTasks /\ b = Backlog
    BY PoolAssumption, ServerAssumption
<1>3. /\ ldispatched \in 0 .. 1 /\ linited \in [{0} -> {<<>>, << 1 >>}]
      /\ listener \in {"none", "starting", "dead", "listening"}
      /\ dispatched \in Nat /\ made \in Nat /\ dispatched <= made /\ made <= m
      /\ made - dispatched <= b
      /\ sock \in [Conns -> {"none", "accepted", "open", "closed"}]
      /\ peer \in [Conns -> {"none", "open", "closed"}]
    BY <1>2 DEF ServerInv, ServerTypeOK, TypeOK
<1> DEFINE Count == /\ made' \in Nat /\ dispatched' <= made' /\ made' <= m
                    /\ made' - dispatched' <= b
<1>4. ASSUME UNCHANGED <<lVars, peer>>, Count,
             sock' \in [Conns -> {"none", "accepted", "open", "closed"}]
      PROVE  ServerTypeOK'
  <2>1. dispatched' \in Nat
      BY <1>1 DEF TypeOK
  <2>2. made' \in dispatched' .. m /\ made' - dispatched' <= b
    <3>1. PICK x \in Nat, y \in Nat : x = made' /\ y = dispatched'
        BY <1>4, <2>1
    <3>2. y <= x /\ x <= m /\ x - y <= b
        BY <1>4, <3>1
    <3>3. x \in y .. m
        BY <3>2
    <3> QED
        BY <3>1, <3>2, <3>3
  <2> QED
      BY <1>1, <1>2, <1>3, <1>4, <2>2 DEF ServerTypeOK, lVars
<1>5. ASSUME UNCHANGED <<dispatched, made>> PROVE Count
    BY <1>3, <1>5
<1>6. CASE MainStartThread \/ ListenCBStep
  <2>1. UNCHANGED <<dispatched, lVars, connVars>>
      BY <1>6 DEF MainStartThread, ListenCBStep, StartThread, AddTaskLock, AddTaskPush, Activate
  <2> QED
      BY <1>3, <1>4, <1>5, <2>1 DEF connVars
<1>7. CASE MainListen
  <2>1. UNCHANGED <<dispatched, connVars>>
      BY <1>7 DEF MainListen, vars
  <2>2. listener' \in {"starting", "dead"} /\ ldispatched' \in 0 .. 1 /\ linited' = linited
      BY <1>3, <1>7, ListenerPoolStep DEF MainListen
  <2> QED
      BY <1>1, <1>2, <1>3, <2>1, <2>2 DEF ServerTypeOK, connVars
<1>8. CASE ListenInit
  <2>1. UNCHANGED <<dispatched, connVars>>
      BY <1>8 DEF ListenInit, vars
  <2>2. /\ listener' \in {"listening", "dead"} /\ ldispatched' \in 0 .. 1
        /\ linited' \in [{0} -> {<<>>, << 1 >>}]
      BY <1>3, <1>8, ListenerPoolStep DEF ListenInit
  <2> QED
      BY <1>1, <1>2, <1>3, <2>1, <2>2 DEF ServerTypeOK, connVars
<1>9. CASE ListenCB
  <2>1. /\ dispatched' = dispatched + 1 /\ made' = made /\ dispatched < made
        /\ sock' = [sock EXCEPT ![dispatched'] = "accepted"]
        /\ UNCHANGED <<lVars, peer>>
      BY <1>9 DEF ListenCB, Dispatch
  <2>2. Count
      BY <1>3, <2>1
  <2>3. sock' \in [Conns -> {"none", "accepted", "open", "closed"}]
      BY <1>3, <2>1
  <2> QED
      BY <1>4, <2>1, <2>2, <2>3
<1>10. ASSUME NEW t \in Threads, ThreadLoop(t) PROVE ServerTypeOK'
  <2>1. UNCHANGED <<dispatched, made, lVars, peer>>
      BY <1>10
      DEF ThreadLoop, ServerNotify, TaskInit, Main, Notify, NotifyLock, NotifyPop, InitTask,
          dispatcherVars, connVars
  <2>2. sock' = sock \/ sock' = [sock EXCEPT ![wtask[t]] = "open"]
      BY <1>10 DEF ThreadLoop, ServerNotify, TaskInit, connVars
  <2>3. sock' \in [Conns -> {"none", "accepted", "open", "closed"}]
      BY <1>3, <2>2
  <2> QED
      BY <1>4, <1>5, <2>1, <2>3
<1>11. CASE Connect
  <2>1. /\ made' = made + 1 /\ made < m /\ made - dispatched < b
        /\ peer' = [peer EXCEPT ![made'] = "open"]
        /\ UNCHANGED <<dispatched, lVars, sock>>
      BY <1>2, <1>11 DEF Connect, vars
  <2>2. peer' \in [Conns -> {"none", "open", "closed"}]
      BY <1>3, <2>1
  <2>3. made' \in dispatched' .. m /\ made' - dispatched' <= b
    <3>1. PICK x \in Nat, y \in Nat : x = made /\ y = dispatched
        BY <1>3
    <3>2. x + 1 \in y .. m /\ x + 1 - y <= b
        BY <1>3, <2>1, <3>1
    <3> QED
        BY <2>1, <3>1, <3>2
  <2> QED
      BY <1>1, <1>2, <1>3, <2>1, <2>2, <2>3 DEF ServerTypeOK, lVars
<1>12. ASSUME NEW c \in Conns, Eof(c) \/ Timeout(c) PROVE ServerTypeOK'
  <2>1. /\ UNCHANGED <<dispatched, made, lVars, peer>>
        /\ sock' = [sock EXCEPT ![c] = "closed"]
      BY <1>12 DEF Eof, Timeout, Close, vars
  <2> QED
      BY <1>3, <1>4, <1>5, <2>1
<1>13. ASSUME NEW c \in Conns, Leave(c) PROVE ServerTypeOK'
  <2>1. /\ UNCHANGED <<dispatched, made, lVars, sock>>
        /\ peer' = [peer EXCEPT ![c] = "closed"]
      BY <1>13 DEF Leave, vars
  <2> QED
      BY <1>1, <1>2, <1>3, <2>1 DEF ServerTypeOK, lVars
<1>14. CASE UNCHANGED allVars
    BY <1>1, <1>2, <1>3, <1>14 DEF ServerTypeOK, allVars, vars, lVars, connVars
<1> QED
    BY <1>6, <1>7, <1>8, <1>9, <1>10, <1>11, <1>12, <1>13, <1>14 DEF ServerNext

\* Every step hands sockets over properly.
LEMMA HandOverStep == ServerInv /\ [ServerNext]_allVars => HandedOver'
<1> SUFFICES ASSUME ServerInv, [ServerNext]_allVars PROVE HandedOver'
    OBVIOUS
<1> USE DEF ServerInv
<1>1. sock \in [Conns -> {"none", "accepted", "open", "closed"}]
    BY DEF ServerTypeOK
<1>2. CASE MainStartThread \/ MainListen \/ ListenInit \/ ListenCBStep
  <2>1. UNCHANGED <<dispatched, inited, sock>>
      BY <1>2 DEF MainStartThread, MainListen, ListenInit, ListenCBStep, StartThread,
         AddTaskLock, AddTaskPush, Activate, vars, connVars, threadVars
  <2> QED
      BY <2>1, HandedOverKept
<1>3. CASE ListenCB
  <2>1. PICK n \in Nat : n = dispatched
      BY DEF PoolInv, TypeOK
  <2>2. /\ dispatched' = n + 1 /\ inited' = inited
        /\ sock' = [sock EXCEPT ![n + 1] = "accepted"]
      BY <1>3, <2>1 DEF ListenCB, Dispatch, threadVars
  <2> SUFFICES ASSUME NEW c \in Conns
               PROVE  /\ sock'[c] = "none" <=> c > n + 1
                      /\ sock'[c] = "accepted"
                           <=> c <= n + 1 /\ c \notin Range(inited[ThreadOf(c)])
      BY <2>2 DEF HandedOver, ThreadOf
  <2>3. /\ sock[c] = "none" <=> c > n
        /\ sock[c] = "accepted" <=> c <= n /\ c \notin Range(inited[ThreadOf(c)])
        /\ c \in Range(inited[ThreadOf(c)]) => c <= n
      BY <2>1, InitedDispatched DEF HandedOver
  <2>4. c \in Int
      BY DEF Conns
  <2>5. CASE c = n + 1
    <3>1. sock'[c] = "accepted" /\ ~(c <= n)
        BY <1>1, <2>2, <2>5
    <3> QED
        BY <2>3, <2>5, <3>1
  <2>6. CASE c # n + 1
    <3>1. sock'[c] = sock[c] /\ (c <= n + 1 <=> c <= n) /\ (c > n + 1 <=> c > n)
        BY <1>1, <2>2, <2>4, <2>6
    <3> QED
        BY <2>3, <3>1
  <2> QED
      BY <2>5, <2>6
<1>4. ASSUME NEW t \in Threads, ServerNotify(t) PROVE HandedOver'
  <2>1. UNCHANGED <<dispatched, inited, sock>>
      BY <1>4 DEF ServerNotify, Main, Notify, NotifyLock, NotifyPop, dispatcherVars, connVars
  <2> QED
      BY <2>1, HandedOverKept
<1>5. ASSUME NEW t \in Threads, TaskInit(t) PROVE HandedOver'
  <2>1. /\ InitTask(t) /\ wpc[t] = "init" /\ dispatched' = dispatched
        /\ sock' = [sock EXCEPT ![wtask[t]] = "open"]
      BY <1>5 DEF TaskInit, InitTask, dispatcherVars
  <2>2. wtask[t] \in Conns /\ wtask[t] <= dispatched
      BY <2>1, InitsOwn
  <2> SUFFICES ASSUME NEW c \in Conns
               PROVE  /\ sock'[c] = "none" <=> c > dispatched
                      /\ sock'[c] = "accepted"
                           <=> c <= dispatched /\ ~(c \in Range(inited[ThreadOf(c)]))'
      BY <2>1 DEF HandedOver, ThreadOf
  <2>3. c \in Range(inited[ThreadOf(c)])'
           <=> c \in Range(inited[ThreadOf(c)]) \/ c = wtask[t]
      BY <2>1, InitedNow
  <2>4. /\ sock[c] = "none" <=> c > dispatched
        /\ sock[c] = "accepted" <=> c <= dispatched /\ c \notin Range(inited[ThreadOf(c)])
      BY DEF HandedOver
  <2>5. CASE c = wtask[t]
    <3>1. sock'[c] = "open" /\ ~(c > dispatched)
      <4>1. c \in Int /\ dispatched \in Int /\ c <= dispatched
          BY <2>2, <2>5 DEF PoolInv, TypeOK, Conns
      <4> QED
          BY <1>1, <2>1, <2>5, <4>1
    <3> QED
        BY <2>3, <2>5, <3>1
  <2>6. CASE c # wtask[t]
    <3>1. sock'[c] = sock[c]
        BY <1>1, <2>1, <2>6
    <3> QED
        BY <2>3, <2>4, <2>6, <3>1
  <2> QED
      BY <2>5, <2>6
<1>6. CASE Connect
  <2>1. UNCHANGED <<dispatched, inited, sock>>
      BY <1>6 DEF Connect, vars
  <2> QED
      BY <2>1, HandedOverKept
<1>7. ASSUME NEW c \in Conns, Eof(c) \/ Timeout(c) \/ Leave(c) PROVE HandedOver'
  <2>1. /\ UNCHANGED <<dispatched, inited>>
        /\ \/ sock' = sock
           \/ sock[c] = "open" /\ sock' = [sock EXCEPT ![c] = "closed"]
      BY <1>7 DEF Eof, Timeout, Leave, Close, vars
  <2> QED
      BY <1>1, <2>1, HandedOverKept
<1>8. CASE UNCHANGED allVars
    BY <1>8, HandedOverKept DEF allVars, vars, connVars
<1> QED
    BY <1>2, <1>3, <1>4, <1>5, <1>6, <1>7, <1>8 DEF ServerNext, ThreadLoop

\* The invariant of the server holds in every reachable state.
THEOREM ServerInvariant == ServerSpec => []ServerInv
<1>1. ServerInv /\ [ServerNext]_allVars => ServerInv'
  <2> SUFFICES ASSUME ServerInv, [ServerNext]_allVars PROVE ServerInv'
      OBVIOUS
  <2>1. PoolInv' /\ TurnInv'
      BY ServerStep, PoolInvStep, DispatchStep, PushStep, OtherStep DEF ServerInv
  <2> QED
      BY <2>1, ServerTypeStep, HandOverStep DEF ServerInv
<1> QED
    BY <1>1, ServerInvInit, PTL DEF ServerSpec

\* Types and limits: the backlog is never longer than it may be, nor are more
\* connections dispatched than were made, for any number of threads and clients.
THEOREM ServerTypes == ServerSpec => []ServerTypeOK
<1>1. ServerInv => ServerTypeOK
    BY DEF ServerInv
<1> QED
    BY <1>1, ServerInvariant, PTL

\* Every socket that was accepted is in exactly one hand, and is served by the
\* thread it was dealt to, once: xdisk_server.cpp:15-21, xthread.cpp:38-48.
THEOREM ServerOwnsSockets == ServerSpec => []SocketsOwned
    BY InvOwns, ServerInvariant, PTL
===============================================================================
