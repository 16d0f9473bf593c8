---------------------------- MODULE ThreadPoolProofs ----------------------------
(***************************************************************************)
(* Theorems about ThreadPool, for any workers, clients and tasks.          *)
(***************************************************************************)
EXTENDS ThreadPool, FiniteSetTheorems, TLAPS

-----------------------------------------------------------------------------
(***************************************************************************)
(* The queue.                                                              *)
(***************************************************************************)

\* What Append adds to the elements of a sequence without duplicates.
LEMMA AppendElements ==
  ASSUME NEW S, NEW s \in Seq(S), NEW x \in S
  PROVE  LET r == Append(s, x)
         IN  /\ r \in Seq(S)
             /\ Len(r) = Len(s) + 1
             /\ {r[k] : k \in DOMAIN r} = {s[k] : k \in DOMAIN s} \cup {x}
             /\ (\A k, l \in DOMAIN s : s[k] = s[l] => k = l)
                  /\ x \notin {s[k] : k \in DOMAIN s}
                => \A k, l \in DOMAIN r : r[k] = r[l] => k = l
<1> DEFINE r == Append(s, x)
<1>1. r \in Seq(S) /\ Len(r) = Len(s) + 1 /\ r[Len(s) + 1] = x
  OBVIOUS
<1>2. \A k \in 1 .. Len(s) : r[k] = s[k]
  OBVIOUS
<1>3. DOMAIN r = 1 .. (Len(s) + 1) /\ DOMAIN s = 1 .. Len(s) /\ Len(s) \in Nat
  BY <1>1
<1>4. {r[k] : k \in DOMAIN r} = {s[k] : k \in DOMAIN s} \cup {x}
  <2>1. ASSUME NEW k \in DOMAIN r PROVE r[k] \in {s[i] : i \in DOMAIN s} \cup {x}
    <3>1. k = Len(s) + 1 \/ k \in DOMAIN s BY <1>3
    <3> QED BY <3>1, <1>1, <1>2, <1>3
  <2>2. ASSUME NEW k \in DOMAIN s PROVE s[k] \in {r[i] : i \in DOMAIN r}
    <3>1. k \in DOMAIN r /\ s[k] = r[k] BY <1>2, <1>3
    <3> QED BY <3>1
  <2>3. x \in {r[i] : i \in DOMAIN r}
    <3>1. Len(s) + 1 \in DOMAIN r BY <1>3
    <3> QED BY <3>1, <1>1
  <2> QED BY <2>1, <2>2, <2>3
<1>5. ASSUME \A k, l \in DOMAIN s : s[k] = s[l] => k = l,
             x \notin {s[k] : k \in DOMAIN s},
             NEW k \in DOMAIN r, NEW l \in DOMAIN r, r[k] = r[l]
      PROVE  k = l
  <2>1. k = Len(s) + 1 \/ k \in DOMAIN s BY <1>3
  <2>2. l = Len(s) + 1 \/ l \in DOMAIN s BY <1>3
  <2> QED BY <2>1, <2>2, <1>1, <1>2, <1>3, <1>5
<1> HIDE DEF r
<1> QED BY <1>1, <1>4, <1>5 DEF r

\* What Tail takes away from the elements of a sequence without duplicates.
LEMMA TailElements ==
  ASSUME NEW S, NEW s \in Seq(S), s # <<>>
  PROVE  LET r == Tail(s)
         IN  /\ r \in Seq(S) /\ Head(s) \in S
             /\ Len(s) = Len(r) + 1
             /\ {s[k] : k \in DOMAIN s} = {r[k] : k \in DOMAIN r} \cup {Head(s)}
             /\ (\A k, l \in DOMAIN s : s[k] = s[l] => k = l) =>
                  /\ Head(s) \notin {r[k] : k \in DOMAIN r}
                  /\ \A k, l \in DOMAIN r : r[k] = r[l] => k = l
<1> DEFINE r == Tail(s)
<1>1. r \in Seq(S) /\ Head(s) \in S /\ Head(s) = s[1] /\ Len(s) = Len(r) + 1
  OBVIOUS
<1>2. \A k \in 1 .. Len(r) : r[k] = s[k + 1]
  OBVIOUS
<1>3. DOMAIN r = 1 .. Len(r) /\ DOMAIN s = 1 .. (Len(r) + 1) /\ Len(r) \in Nat
  BY <1>1
<1>4. {s[k] : k \in DOMAIN s} = {r[k] : k \in DOMAIN r} \cup {Head(s)}
  <2>1. ASSUME NEW k \in DOMAIN s PROVE s[k] \in {r[i] : i \in DOMAIN r} \cup {Head(s)}
    <3>1. CASE k = 1 BY <3>1, <1>1
    <3>2. CASE k # 1
      <4>1. k - 1 \in DOMAIN r /\ s[k] = r[k - 1] BY <3>2, <1>2, <1>3
      <4> QED BY <4>1
    <3> QED BY <3>1, <3>2
  <2>2. ASSUME NEW k \in DOMAIN r PROVE r[k] \in {s[i] : i \in DOMAIN s}
    <3>1. k + 1 \in DOMAIN s /\ r[k] = s[k + 1] BY <1>2, <1>3
    <3> QED BY <3>1
  <2>3. Head(s) \in {s[i] : i \in DOMAIN s}
    <3>1. 1 \in DOMAIN s BY <1>3
    <3> QED BY <3>1, <1>1
  <2> QED BY <2>1, <2>2, <2>3
<1>5. ASSUME \A k, l \in DOMAIN s : s[k] = s[l] => k = l
      PROVE  /\ Head(s) \notin {r[k] : k \in DOMAIN r}
             /\ \A k, l \in DOMAIN r : r[k] = r[l] => k = l
  <2>1. ASSUME NEW k \in DOMAIN r PROVE k + 1 \in DOMAIN s /\ r[k] = s[k + 1] /\ k \in Nat
    BY <1>2, <1>3
  <2>2. ASSUME NEW k \in DOMAIN r PROVE Head(s) # r[k]
    <3>1. 1 \in DOMAIN s /\ k + 1 # 1 BY <1>3
    <3> QED BY <3>1, <2>1, <1>1, <1>5
  <2>3. ASSUME NEW k \in DOMAIN r, NEW l \in DOMAIN r, r[k] = r[l] PROVE k = l
    <3>1. k + 1 = l + 1 BY <2>1, <2>3, <1>5
    <3> QED BY <3>1, <2>1
  <2> QED BY <2>2, <2>3
<1> HIDE DEF r
<1> QED BY <1>1, <1>4, <1>5 DEF r

-----------------------------------------------------------------------------
(***************************************************************************)
(* Types.                                                                  *)
(***************************************************************************)
LEMMA InitTypeOK == Init => TypeOK
<1> SUFFICES ASSUME Init PROVE TypeOK OBVIOUS
<1>1. tasks \in Seq(Tasks)
  BY DEF Init
<1>2. \A w \in Workers : workerPc[w] = "run" <=> task[w] # None
  BY DEF Init
<1>3. /\ workerPc \in [Workers -> {"check", "wait", "run", "exited"}]
      /\ task \in [Workers -> Tasks \cup {None}]
  BY DEF Init
<1> QED BY <1>1, <1>2, <1>3 DEF Init, TypeOK

LEMMA NextTypeOK == TypeOK /\ [Next]_vars => TypeOK'
<1> USE ThreadPoolAssumption
<1> SUFFICES ASSUME TypeOK, [Next]_vars PROVE TypeOK' OBVIOUS
<1> USE DEF TypeOK
<1>1. ASSUME NEW c \in Workers \cup Clients, NEW t \in Tasks, Enqueue(c, t) PROVE TypeOK'
  <2>1. tasks' \in Seq(Tasks) BY <1>1, AppendElements DEF Enqueue
  <2> QED BY <1>1, <2>1 DEF Enqueue
<1>2. ASSUME NEW c \in Workers \cup Clients, NotifyOne(c) PROVE TypeOK'
  BY <1>2 DEF NotifyOne, At
<1>3. ASSUME NEW w \in Workers, SpuriousWakeup(w) \/ TakeNone(w) \/ Exit(w) PROVE TypeOK'
  BY <1>3 DEF SpuriousWakeup, TakeNone, Exit
<1>4. ASSUME NEW w \in Workers, Take(w) PROVE TypeOK'
  <2>1. tasks' \in Seq(Tasks) /\ Head(tasks) \in Tasks BY <1>4, TailElements DEF Take
  <2> QED BY <1>4, <2>1 DEF Take
<1>5. ASSUME NEW w \in Workers, RunTask(w) PROVE TypeOK'
  <2>1. task[w] \in Tasks BY <1>5 DEF RunTask
  <2> QED BY <1>5, <2>1 DEF RunTask
<1>6. CASE Dtor
  BY <1>6 DEF Dtor, DtorStop, DtorNotifyAll, DtorJoin
<1>7. CASE UNCHANGED vars
  BY <1>7 DEF vars
<1> QED
  BY <1>1, <1>2, <1>3, <1>4, <1>5, <1>6, <1>7 DEF Next, Worker, Destroyed

\* Every variable keeps its type; a worker has a task exactly while it runs one.
THEOREM TypeCorrect == Spec => []TypeOK
BY InitTypeOK, NextTypeOK, PTL DEF Spec

-----------------------------------------------------------------------------
(***************************************************************************)
(* Every task is in one place.                                             *)
(***************************************************************************)
LEMMA InitOneExecution == Init => OneExecution
BY DEF Init, OneExecution, Queued, RunningTasks, At

\* What keeps the queue, the running workers and the sets of tasks keeps the
\* property.
LEMMA QuietKeepsOneExecution ==
  ASSUME TypeOK, OneExecution, UNCHANGED <<tasks, task, done, offered>>,
         At("run")' = At("run")
  PROVE  OneExecution'
BY DEF OneExecution, Queued, RunningTasks

LEMMA EnqueueKeepsOneExecution ==
  ASSUME TypeOK, OneExecution,
         NEW c \in Workers \cup Clients, NEW t \in Tasks, Enqueue(c, t)
  PROVE  OneExecution'
<1>1. At("run")' = At("run") /\ RunningTasks' = RunningTasks /\ UNCHANGED <<task, done>>
  BY DEF Enqueue, At, RunningTasks
<1>2. CASE stop
  BY <1>1, <1>2 DEF Enqueue, OneExecution, Queued
<1>3. CASE ~ stop
  <2>1. tasks' = Append(tasks, t) /\ tasks \in Seq(Tasks) /\ offered' = offered \cup {t}
    BY <1>3 DEF Enqueue, TypeOK
  <2>2. t \notin Queued \cup RunningTasks \cup done
    BY DEF Enqueue, OneExecution
  <2>3. /\ Queued' = Queued \cup {t}
        /\ \A k, l \in DOMAIN tasks' : tasks'[k] = tasks'[l] => k = l
    BY <2>1, <2>2, AppendElements DEF OneExecution, Queued
  <2> QED BY <1>1, <2>1, <2>2, <2>3 DEF OneExecution
<1> QED BY <1>2, <1>3

LEMMA TakeKeepsOneExecution ==
  ASSUME TypeOK, OneExecution, NEW w \in Workers, Take(w)
  PROVE  /\ OneExecution'
         /\ RunningTasks' = RunningTasks \cup {Head(tasks)}
<1> DEFINE t == Head(tasks)
<1>1. /\ t \in Tasks
      /\ Queued = Queued' \cup {t}
      /\ t \notin Queued'
      /\ \A k, l \in DOMAIN tasks' : tasks'[k] = tasks'[l] => k = l
  <2>1. tasks \in Seq(Tasks) /\ tasks # <<>> /\ tasks' = Tail(tasks)
    BY DEF Take, TypeOK
  <2>2. \A k, l \in DOMAIN tasks : tasks[k] = tasks[l] => k = l
    BY DEF OneExecution
  <2> QED BY <2>1, <2>2, TailElements DEF Queued
<1>2. At("run")' = At("run") \cup {w} /\ w \notin At("run")
  BY DEF Take, TypeOK, At
<1>3. task'[w] = t /\ \A v \in At("run") : task'[v] = task[v]
  BY <1>2 DEF Take, TypeOK, At
<1> HIDE DEF t
<1>4. RunningTasks' = RunningTasks \cup {t}
  BY <1>2, <1>3 DEF RunningTasks
<1>5. \A v \in At("run") : task[v] # t
  BY <1>1 DEF OneExecution, RunningTasks
<1>6. ASSUME NEW u \in At("run")', NEW v \in At("run")', task'[u] = task'[v]
      PROVE  u = v
  BY <1>2, <1>3, <1>5, <1>6 DEF OneExecution
<1>7. UNCHANGED <<done, offered>>
  BY DEF Take
<1> QED BY <1>1, <1>4, <1>6, <1>7 DEF OneExecution, t

LEMMA RunTaskKeepsOneExecution ==
  ASSUME TypeOK, OneExecution, NEW w \in Workers, RunTask(w)
  PROVE  /\ OneExecution'
         /\ task[w] \in RunningTasks
         /\ RunningTasks' = RunningTasks \ {task[w]}
<1>1. /\ At("run")' = At("run") \ {w} /\ w \in At("run")
      /\ \A v \in At("run")' : task'[v] = task[v]
  BY DEF RunTask, TypeOK, At
<1>2. \A v \in At("run")' : task[v] # task[w]
  BY <1>1 DEF OneExecution
<1>3. task[w] \in RunningTasks /\ RunningTasks' = RunningTasks \ {task[w]}
  BY <1>1, <1>2 DEF RunningTasks
<1>4. UNCHANGED <<tasks, offered>> /\ Queued' = Queued /\ done' = done \cup {task[w]}
  BY DEF RunTask, Queued
<1> QED BY <1>1, <1>3, <1>4 DEF OneExecution

LEMMA NextOneExecution == TypeOK /\ OneExecution /\ [Next]_vars => OneExecution'
<1> SUFFICES ASSUME TypeOK, OneExecution, [Next]_vars PROVE OneExecution' OBVIOUS
<1>1. ASSUME NEW c \in Workers \cup Clients, NotifyOne(c) PROVE OneExecution'
  <2>1. At("run")' = At("run") BY <1>1 DEF NotifyOne, At, TypeOK
  <2> QED BY <1>1, <2>1, QuietKeepsOneExecution DEF NotifyOne
<1>2. ASSUME NEW w \in Workers, SpuriousWakeup(w) \/ TakeNone(w) \/ Exit(w)
      PROVE  OneExecution'
  <2>1. At("run")' = At("run") BY <1>2 DEF SpuriousWakeup, TakeNone, Exit, At, TypeOK
  <2> QED BY <1>2, <2>1, QuietKeepsOneExecution DEF SpuriousWakeup, TakeNone, Exit
<1>3. CASE Dtor
  <2>1. At("run")' = At("run")
    BY <1>3 DEF Dtor, DtorStop, DtorNotifyAll, DtorJoin, At, TypeOK
  <2> QED
    BY <1>3, <2>1, QuietKeepsOneExecution DEF Dtor, DtorStop, DtorNotifyAll, DtorJoin
<1>4. CASE UNCHANGED vars
  BY <1>4, QuietKeepsOneExecution DEF vars, At
<1> QED
  BY <1>1, <1>2, <1>3, <1>4, EnqueueKeepsOneExecution, TakeKeepsOneExecution,
     RunTaskKeepsOneExecution DEF Next, Worker, Destroyed

\* No task is lost from the queue's bookkeeping or run twice, however many workers
\* share it: it is queued once, or run by one worker, or done.
THEOREM EachTaskOnce == Spec => []OneExecution
<1>1. TypeOK /\ OneExecution /\ [Next]_vars => (TypeOK /\ OneExecution)'
  BY NextTypeOK, NextOneExecution
<1> QED BY InitTypeOK, InitOneExecution, <1>1, PTL DEF Spec

-----------------------------------------------------------------------------
(***************************************************************************)
(* No wake-up is lost.                                                     *)
(***************************************************************************)

\* The sets NoLostWakeup counts are finite.
LEMMA Counts ==
  ASSUME TypeOK
  PROVE  /\ IsFiniteSet(At("check")) /\ Cardinality(At("check")) \in Nat
         /\ IsFiniteSet(notifying) /\ Cardinality(notifying) \in Nat
         /\ Len(tasks) \in Nat
<1>1. At("check") \subseteq Workers /\ notifying \subseteq Workers \cup Clients
  BY DEF At, TypeOK
<1>2. IsFiniteSet(Workers \cup Clients)
  BY ThreadPoolAssumption, FS_Union
<1>3. IsFiniteSet(At("check")) /\ IsFiniteSet(notifying)
  BY <1>1, <1>2, ThreadPoolAssumption, FS_Subset
<1>4. Len(tasks) \in Nat
  BY DEF TypeOK
<1> QED BY <1>3, <1>4, FS_CardinalityType

LEMMA NextNoLostWakeup ==
  TypeOK /\ NoLostWakeup /\ [Next]_vars => NoLostWakeup'
<1> SUFFICES ASSUME TypeOK, NoLostWakeup, [Next]_vars PROVE NoLostWakeup' OBVIOUS
<1>t. TypeOK' BY NextTypeOK
<1>c. /\ IsFiniteSet(At("check")) /\ Cardinality(At("check")) \in Nat
      /\ IsFiniteSet(notifying) /\ Cardinality(notifying) \in Nat
      /\ Len(tasks) \in Nat
  BY Counts
<1>1. ASSUME NEW c \in Workers \cup Clients, NEW t \in Tasks, Enqueue(c, t)
      PROVE  NoLostWakeup'
  <2>1. At("wait")' = At("wait") /\ At("check")' = At("check")
    BY <1>1 DEF Enqueue, At
  <2>2. CASE stop
    BY <1>1, <2>1, <2>2 DEF Enqueue, NoLostWakeup
  <2>3. CASE ~ stop
    <3>1. Len(tasks') = Len(tasks) + 1
      BY <1>1, <2>3, AppendElements DEF Enqueue, TypeOK
    <3>2. Cardinality(notifying') = Cardinality(notifying) + 1
      BY <1>1, <2>3, <1>c, FS_AddElement DEF Enqueue, MayEnqueue
    <3> QED BY <2>1, <3>1, <3>2, <1>c DEF NoLostWakeup
  <2> QED BY <2>2, <2>3
<1>2. ASSUME NEW c \in Workers \cup Clients, NotifyOne(c) PROVE NoLostWakeup'
  <2>1. Cardinality(notifying') = Cardinality(notifying) - 1 /\ tasks' = tasks
    BY <1>2, <1>c, FS_RemoveElement DEF NotifyOne
  <2>2. CASE At("wait") = {}
    BY <1>2, <2>2 DEF NotifyOne, At, NoLostWakeup
  <2>3. CASE At("wait") # {}
    <3>1. PICK w \in At("wait") : workerPc' = [workerPc EXCEPT ![w] = "check"]
      BY <1>2, <2>3 DEF NotifyOne
    <3>2. At("check")' = At("check") \cup {w} /\ w \notin At("check")
      BY <3>1 DEF At, TypeOK
    <3>3. Cardinality(At("check")') = Cardinality(At("check")) + 1
      BY <3>2, <1>c, FS_AddElement
    <3> QED BY <2>1, <2>3, <3>3, <1>c DEF NoLostWakeup
  <2> QED BY <2>2, <2>3
<1>3. ASSUME NEW w \in Workers, SpuriousWakeup(w) \/ RunTask(w) PROVE NoLostWakeup'
  <2>1. /\ At("check")' = At("check") \cup {w} /\ w \notin At("check")
        /\ At("wait")' \subseteq At("wait")
        /\ UNCHANGED <<tasks, notifying>>
    BY <1>3 DEF SpuriousWakeup, RunTask, At, TypeOK
  <2>2. Cardinality(At("check")') = Cardinality(At("check")) + 1
    BY <2>1, <1>c, FS_AddElement
  <2> QED BY <2>1, <2>2, <1>c DEF NoLostWakeup
<1>4. ASSUME NEW w \in Workers, TakeNone(w) \/ Exit(w) PROVE NoLostWakeup'
  <2>1. tasks' = <<>>
    BY <1>4 DEF TakeNone, Exit
  <2>2. At("check")' \subseteq At("check") /\ notifying' = notifying
    BY <1>4 DEF TakeNone, Exit, At, TypeOK
  <2>3. Cardinality(At("check")') \in Nat
    BY <2>2, <1>c, FS_Subset, FS_CardinalityType
  <2>4. Len(tasks') = 0
    BY <2>1
  <2> QED BY <2>2, <2>3, <2>4, <1>c DEF NoLostWakeup
<1>5. ASSUME NEW w \in Workers, Take(w) PROVE NoLostWakeup'
  <2>1. At("check")' = At("check") \ {w} /\ w \in At("check") /\ At("wait")' = At("wait")
    BY <1>5 DEF Take, At, TypeOK
  <2>2. Cardinality(At("check")') = Cardinality(At("check")) - 1
    BY <2>1, <1>c, FS_RemoveElement
  <2>3. Len(tasks) = Len(tasks') + 1 /\ notifying' = notifying
    BY <1>5, TailElements DEF Take, TypeOK
  <2>4. Len(tasks') \in Nat
    BY <1>t DEF TypeOK
  <2> QED BY <2>1, <2>2, <2>3, <2>4, <1>c DEF NoLostWakeup
<1>6. CASE DtorStop \/ DtorJoin \/ UNCHANGED vars
  BY <1>6 DEF DtorStop, DtorJoin, vars, At, NoLostWakeup
<1>7. CASE DtorNotifyAll
  <2>1. At("wait")' = {}
    BY <1>7 DEF DtorNotifyAll, At, TypeOK
  <2> QED BY <2>1 DEF NoLostWakeup
<1> QED
  BY <1>1, <1>2, <1>3, <1>4, <1>5, <1>6, <1>7 DEF Next, Worker, Dtor, Destroyed

\* notify_one is called after the mutex was released and may meet no waiting
\* worker, two may wake one, and wake-ups may be spurious: with any number of
\* workers and callers, no task is left in the queue that only sleeping workers
\* could take.
THEOREM WakeupsSuffice == Spec => []NoLostWakeup
<1>1. Init => NoLostWakeup
  BY DEF Init, NoLostWakeup, At
<1>2. TypeOK /\ NoLostWakeup /\ [Next]_vars => (TypeOK /\ NoLostWakeup)'
  BY NextTypeOK, NextNoLostWakeup
<1> QED BY InitTypeOK, <1>1, <1>2, PTL DEF Spec

-----------------------------------------------------------------------------
(***************************************************************************)
(* Draining.  Once a worker has returned, _stop is set and the queue is    *)
(* empty, and it stays so: enqueue drops what comes later.                 *)
(***************************************************************************)
Drained ==
  /\ dtorPc # "alive" => stop
  /\ \A w \in Workers : workerPc[w] = "exited" => stop /\ tasks = <<>>
  /\ dtorPc = "destroyed" => At("exited") = Workers

LEMMA InitDrained == Init => Drained /\ StopReachesAll
BY DEF Init, Drained, StopReachesAll

LEMMA NextDrained ==
  TypeOK /\ Drained /\ StopReachesAll /\ [Next]_vars => (Drained /\ StopReachesAll)'
<1> SUFFICES ASSUME TypeOK, Drained, StopReachesAll, [Next]_vars
             PROVE  (Drained /\ StopReachesAll)'
  OBVIOUS
<1> USE DEF Drained, StopReachesAll, At
<1>1. ASSUME NEW c \in Workers \cup Clients, NEW t \in Tasks, Enqueue(c, t)
      PROVE  (Drained /\ StopReachesAll)'
  BY <1>1 DEF Enqueue
<1>2. ASSUME NEW c \in Workers \cup Clients, NotifyOne(c)
      PROVE  (Drained /\ StopReachesAll)'
  BY <1>2 DEF NotifyOne, TypeOK
<1>3. ASSUME NEW w \in Workers, SpuriousWakeup(w) \/ TakeNone(w)
      PROVE  (Drained /\ StopReachesAll)'
  BY <1>3 DEF SpuriousWakeup, TakeNone, TypeOK
<1>4. ASSUME NEW w \in Workers, Exit(w) PROVE (Drained /\ StopReachesAll)'
  BY <1>4 DEF Exit, TypeOK
<1>5. ASSUME NEW w \in Workers, Take(w) \/ RunTask(w)
      PROVE  (Drained /\ StopReachesAll)'
  BY <1>5 DEF Take, RunTask, TypeOK
<1>6. CASE Dtor
  BY <1>6 DEF Dtor, DtorStop, DtorNotifyAll, DtorJoin, TypeOK
<1>7. CASE UNCHANGED vars
  BY <1>7 DEF vars
<1> QED
  BY <1>1, <1>2, <1>3, <1>4, <1>5, <1>6, <1>7 DEF Next, Worker, Destroyed

\* From notify_all on no worker sleeps any more, and what the destructor leaves
\* behind is an empty queue.
THEOREM StopIsSeen == Spec => [](StopReachesAll /\ Drained)
<1>1. TypeOK /\ (Drained /\ StopReachesAll) /\ [Next]_vars
        => (TypeOK /\ (Drained /\ StopReachesAll))'
  BY NextTypeOK, NextDrained
<1> QED BY InitTypeOK, InitDrained, <1>1, PTL DEF Spec

-----------------------------------------------------------------------------
(***************************************************************************)
(* The refinement of TaskService: enqueue accepts, a worker that takes a   *)
(* task begins it, one whose task returns finishes it, and the last join   *)
(* of the destructor leaves; everything else is a stutter.                 *)
(***************************************************************************)
PoolInv == TypeOK /\ OneExecution /\ Drained

LEMMA InitRefines == Init => Service!Init
BY DEF Init, Service!Init, RunningTasks, At

LEMMA NextRefines ==
  ASSUME Workers # {}, PoolInv, [Next]_vars
  PROVE  [Service!Next]_Service!vars
<1> USE DEF PoolInv
<1>1. ASSUME NEW c \in Workers \cup Clients, NEW t \in Tasks, Enqueue(c, t)
      PROVE  [Service!Next]_Service!vars
  <2>1. RunningTasks' = RunningTasks /\ UNCHANGED <<done, dtorPc>>
    BY <1>1 DEF Enqueue, RunningTasks, At
  <2>2. CASE stop
    BY <1>1, <2>1, <2>2 DEF Enqueue, Service!vars
  <2>3. CASE ~ stop
    <3>1. dtorPc # "destroyed"
      BY <2>3 DEF Drained
    <3>2. t \notin Service!Queued \cup RunningTasks \cup done
      BY <1>1 DEF Enqueue, OneExecution, Queued, Service!Queued
    <3>3. Service!Accept(t)
      BY <1>1, <2>1, <2>3, <3>1, <3>2 DEF Enqueue, Service!Accept
    <3> QED BY <3>3 DEF Service!Next
  <2> QED BY <2>2, <2>3
<1>2. ASSUME NEW w \in Workers, Take(w) PROVE [Service!Next]_Service!vars
  <2>1. Service!Begin
    BY <1>2, TakeKeepsOneExecution DEF Take, Service!Begin
  <2> QED BY <2>1 DEF Service!Next
<1>3. ASSUME NEW w \in Workers, RunTask(w) PROVE [Service!Next]_Service!vars
  <2>1. task[w] \in Tasks
    BY <1>3 DEF RunTask, TypeOK
  <2>2. Service!Finish(task[w])
    BY <1>3, RunTaskKeepsOneExecution DEF RunTask, Service!Finish
  <2> QED BY <2>1, <2>2 DEF Service!Next
<1>4. ASSUME DtorJoin PROVE [Service!Next]_Service!vars
  <2>1. At("exited") = Workers
    BY <1>4 DEF DtorJoin
  <2>2. tasks = <<>> /\ RunningTasks = {}
    BY <2>1 DEF Drained, At, RunningTasks
  <2>3. Service!Leave
    BY <1>4, <2>2 DEF DtorJoin, Service!Leave, RunningTasks, At
  <2> QED BY <2>3 DEF Service!Next
<1>5. ASSUME At("run")' = At("run"), UNCHANGED <<tasks, task, done>>,
             (dtorPc = "destroyed")' = (dtorPc = "destroyed")
      PROVE  [Service!Next]_Service!vars
  BY <1>5 DEF Service!vars, RunningTasks
<1>6. ASSUME NEW c \in Workers \cup Clients, NotifyOne(c)
      PROVE  [Service!Next]_Service!vars
  <2>1. At("run")' = At("run") BY <1>6 DEF NotifyOne, At, TypeOK
  <2> QED BY <1>5, <1>6, <2>1 DEF NotifyOne
<1>7. ASSUME NEW w \in Workers, SpuriousWakeup(w) \/ TakeNone(w) \/ Exit(w)
      PROVE  [Service!Next]_Service!vars
  <2>1. At("run")' = At("run") BY <1>7 DEF SpuriousWakeup, TakeNone, Exit, At, TypeOK
  <2> QED BY <1>5, <1>7, <2>1 DEF SpuriousWakeup, TakeNone, Exit
<1>8. ASSUME DtorStop \/ DtorNotifyAll PROVE [Service!Next]_Service!vars
  <2>1. At("run")' = At("run") BY <1>8 DEF DtorStop, DtorNotifyAll, At, TypeOK
  <2> QED BY <1>5, <1>8, <2>1 DEF DtorStop, DtorNotifyAll
<1>9. CASE UNCHANGED vars
  BY <1>5, <1>9 DEF vars, At
<1> QED
  BY <1>1, <1>2, <1>3, <1>4, <1>6, <1>7, <1>8, <1>9 DEF Next, Worker, Dtor, Destroyed

\* A pool that has a worker keeps the promise of TaskService: accepted tasks are
\* begun in their order, each once, and all of them before the destructor
\* returns.  Without a worker it does not.
THEOREM PoolIsService == Workers # {} => (Spec => RefinesService)
<1> SUFFICES ASSUME Workers # {} PROVE Spec => RefinesService OBVIOUS
<1>1. Init => PoolInv
  BY InitTypeOK, InitOneExecution, InitDrained DEF PoolInv
<1>2. PoolInv /\ StopReachesAll /\ [Next]_vars => (PoolInv /\ StopReachesAll)'
  BY NextTypeOK, NextOneExecution, NextDrained DEF PoolInv
<1>3. PoolInv /\ [Next]_vars => [Service!Next]_Service!vars
  BY NextRefines
<1> QED
  BY <1>1, <1>2, <1>3, InitDrained, InitRefines, PTL
  DEF Spec, RefinesService, Service!Spec
================================================================================
