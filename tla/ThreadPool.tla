------------------------------ MODULE ThreadPool ------------------------------
(***************************************************************************)
(* network/ThreadPool: worker threads that take tasks from a queue         *)
(* guarded by one mutex and one condition variable.                        *)
(*                                                                         *)
(* A critical section is one step: everything it touches is touched only   *)
(* with the mutex held.  A worker is in the wait set of the condition      *)
(* variable, or it is runnable and will next evaluate the predicate with   *)
(* the mutex held.  notify_one and notify_all are called after the mutex   *)
(* was released, so they are steps of their own.                           *)
(***************************************************************************)
EXTENDS Naturals, Sequences, FiniteSets

CONSTANTS
  Workers,  \* the threads of the pool
  Clients,  \* other threads that enqueue tasks; they end before ~ThreadPool
  Tasks,    \* every task is enqueued at most once
  None      \* no task

ASSUME ThreadPoolAssumption ==
  /\ IsFiniteSet(Workers)
  /\ IsFiniteSet(Clients)
  /\ Workers \cap Clients = {}
  /\ None \notin Tasks

VARIABLES
  tasks,     \* _tasks
  stop,      \* _stop
  workerPc,  \* each worker: check the predicate, wait, run a task, exited
  task,      \* the task each worker runs
  notifying, \* threads in enqueue that have pushed and not called notify_one yet
  offered,   \* tasks enqueue was called with
  done,      \* tasks that returned
  dtorPc     \* ~ThreadPool

vars == <<tasks, stop, workerPc, task, notifying, offered, done, dtorPc>>

Queued == {tasks[k] : k \in DOMAIN tasks}

At(pc) == {w \in Workers : workerPc[w] = pc}

RunningTasks == {task[w] : w \in At("run")}

TypeOK ==
  /\ tasks \in Seq(Tasks)
  /\ stop \in BOOLEAN
  /\ workerPc \in [Workers -> {"check", "wait", "run", "exited"}]
  /\ task \in [Workers -> Tasks \cup {None}]
  /\ \A w \in Workers : workerPc[w] = "run" <=> task[w] # None
  /\ notifying \in SUBSET (Workers \cup Clients)
  /\ offered \in SUBSET Tasks
  /\ done \in SUBSET Tasks
  /\ dtorPc \in {"alive", "notify_all", "join", "destroyed"}

Init ==
  /\ tasks = <<>>
  /\ stop = FALSE
  /\ workerPc = [w \in Workers |-> "check"]
  /\ task = [w \in Workers |-> None]
  /\ notifying = {}
  /\ offered = {}
  /\ done = {}
  /\ dtorPc = "alive"

-----------------------------------------------------------------------------
\* A client enqueues while the pool is alive, a task while it runs.
MayEnqueue(c) ==
  /\ c \notin notifying
  /\ IF c \in Clients THEN dtorPc = "alive" ELSE workerPc[c] = "run"

\* Mutant of Enqueue: nobody is notified.
EnqueueSilently(c, t) ==
  /\ MayEnqueue(c)
  /\ t \notin offered
  /\ offered' = offered \cup {t}
  /\ tasks' = IF stop THEN tasks ELSE Append(tasks, t)
  /\ UNCHANGED <<stop, workerPc, task, notifying, done, dtorPc>>

\* The critical section of enqueue: a task offered after stop is dropped.
Enqueue(c, t) ==
  /\ MayEnqueue(c)
  /\ t \notin offered
  /\ offered' = offered \cup {t}
  /\ IF stop
     THEN UNCHANGED <<tasks, notifying>>
     ELSE /\ tasks' = Append(tasks, t)
          /\ notifying' = notifying \cup {c}
  /\ UNCHANGED <<stop, workerPc, task, done, dtorPc>>

\* _cv.notify_one() wakes one waiting worker, if there is one.
NotifyOne(c) ==
  /\ c \in notifying
  /\ notifying' = notifying \ {c}
  /\ IF At("wait") = {}
     THEN UNCHANGED workerPc
     ELSE \E w \in At("wait") : workerPc' = [workerPc EXCEPT ![w] = "check"]
  /\ UNCHANGED <<tasks, stop, task, offered, done, dtorPc>>

\* A condition variable may wake a thread for no reason.
SpuriousWakeup(w) ==
  /\ workerPc[w] = "wait"
  /\ workerPc' = [workerPc EXCEPT ![w] = "check"]
  /\ UNCHANGED <<tasks, stop, task, notifying, offered, done, dtorPc>>

\* The critical section of worker_loop, entered anew or woken up: wait,
TakeNone(w) ==
  /\ workerPc[w] = "check"
  /\ ~ stop /\ tasks = <<>>
  /\ workerPc' = [workerPc EXCEPT ![w] = "wait"]
  /\ UNCHANGED <<tasks, stop, task, notifying, offered, done, dtorPc>>

\* Mutant of Exit: a worker returns as soon as the pool is being stopped.
ExitAtOnce(w) ==
  /\ workerPc[w] = "check"
  /\ stop
  /\ workerPc' = [workerPc EXCEPT ![w] = "exited"]
  /\ UNCHANGED <<tasks, stop, task, notifying, offered, done, dtorPc>>

\* ... return,
Exit(w) ==
  /\ workerPc[w] = "check"
  /\ stop /\ tasks = <<>>
  /\ workerPc' = [workerPc EXCEPT ![w] = "exited"]
  /\ UNCHANGED <<tasks, stop, task, notifying, offered, done, dtorPc>>

\* Mutant of Take: the predicate is not evaluated again after a wake-up.
TakeUnchecked(w) ==
  /\ workerPc[w] = "check"
  /\ tasks' = IF tasks = <<>> THEN <<>> ELSE Tail(tasks)
  /\ task' = [task EXCEPT ![w] = IF tasks = <<>> THEN None ELSE Head(tasks)]
  /\ workerPc' = [workerPc EXCEPT ![w] = "run"]
  /\ UNCHANGED <<stop, notifying, offered, done, dtorPc>>

\* ... or take the oldest task, whether the pool is being stopped or not.
Take(w) ==
  /\ workerPc[w] = "check"
  /\ tasks # <<>>
  /\ tasks' = Tail(tasks)
  /\ task' = [task EXCEPT ![w] = Head(tasks)]
  /\ workerPc' = [workerPc EXCEPT ![w] = "run"]
  /\ UNCHANGED <<stop, notifying, offered, done, dtorPc>>

\* The task returns; what it enqueued itself it has enqueued completely.
RunTask(w) ==
  /\ workerPc[w] = "run"
  /\ w \notin notifying
  /\ done' = done \cup {task[w]}
  /\ task' = [task EXCEPT ![w] = None]
  /\ workerPc' = [workerPc EXCEPT ![w] = "check"]
  /\ UNCHANGED <<tasks, stop, notifying, offered, dtorPc>>

\* ~ThreadPool: set _stop with the mutex held, ...
DtorStop ==
  /\ dtorPc = "alive"
  /\ notifying \cap Clients = {}
  /\ stop' = TRUE
  /\ dtorPc' = "notify_all"
  /\ UNCHANGED <<tasks, workerPc, task, notifying, offered, done>>

\* Mutant of DtorNotifyAll: notify_one.
DtorNotifyOne ==
  /\ dtorPc = "notify_all"
  /\ IF At("wait") = {}
     THEN UNCHANGED workerPc
     ELSE \E w \in At("wait") : workerPc' = [workerPc EXCEPT ![w] = "check"]
  /\ dtorPc' = "join"
  /\ UNCHANGED <<tasks, stop, task, notifying, offered, done>>

\* ... wake every waiting worker, ...
DtorNotifyAll ==
  /\ dtorPc = "notify_all"
  /\ workerPc' = [w \in Workers |-> IF workerPc[w] = "wait" THEN "check" ELSE workerPc[w]]
  /\ dtorPc' = "join"
  /\ UNCHANGED <<tasks, stop, task, notifying, offered, done>>

\* ... and join them all.
DtorJoin ==
  /\ dtorPc = "join"
  /\ At("exited") = Workers
  /\ dtorPc' = "destroyed"
  /\ UNCHANGED <<tasks, stop, workerPc, task, notifying, offered, done>>

Worker(w) == TakeNone(w) \/ Exit(w) \/ Take(w) \/ RunTask(w)

Dtor == DtorStop \/ DtorNotifyAll \/ DtorJoin

\* The pool has been destroyed: nothing is left to happen.
Destroyed == dtorPc = "destroyed" /\ UNCHANGED vars

Next ==
  \/ \E c \in Workers \cup Clients : NotifyOne(c) \/ \E t \in Tasks : Enqueue(c, t)
  \/ \E w \in Workers : SpuriousWakeup(w) \/ Worker(w)
  \/ Dtor
  \/ Destroyed

Spec == Init /\ [][Next]_vars

\* Threads go on and tasks return.  Nobody has to enqueue or to destroy the
\* pool, but a destructor that was called goes on, too.
FairSpec ==
  /\ Spec
  /\ \A c \in Workers \cup Clients : WF_vars(NotifyOne(c))
  /\ \A w \in Workers : WF_vars(Worker(w))
  /\ WF_vars(DtorNotifyAll \/ DtorJoin)

-----------------------------------------------------------------------------
\* No wake-up is lost: as long as a worker sleeps, there are at least as many
\* runnable workers and pending notifications as tasks in the queue, although
\* notify_one is called without the mutex and may meet no waiting worker.
NoLostWakeup ==
  At("wait") # {} =>
    Len(tasks) <= Cardinality(At("check")) + Cardinality(notifying)

\* The destructor's wake-up reaches every worker, and none of them goes to
\* sleep after it.
StopReachesAll ==
  dtorPc \in {"join", "destroyed"} => At("wait") = {}

\* A task is in one place: queued once, or run by one worker, or done.
OneExecution ==
  /\ \A k, l \in DOMAIN tasks : tasks[k] = tasks[l] => k = l
  /\ \A v, w \in At("run") : task[v] = task[w] => v = w
  /\ Queued \cap (RunningTasks \cup done) = {}
  /\ RunningTasks \cap done = {}
  /\ Queued \cup RunningTasks \cup done \subseteq offered

\* The destructor does not wait for ever, whatever is queued and whatever the
\* tasks enqueue while the pool is drained.
DestructorReturns == dtorPc # "alive" ~> dtorPc = "destroyed"

-----------------------------------------------------------------------------
Service == INSTANCE TaskService WITH
  queue   <- tasks,
  running <- RunningTasks,
  done    <- done,
  gone    <- dtorPc = "destroyed"

\* The mutex, the condition variable and the workers implement the promise:
\* accepted tasks begin in order, each once, all before the pool is gone
RefinesService == Service!Spec

\* ("Stops all threads and waits for them to finish", ThreadPool.hpp:44), and
\* every accepted task is executed, as long as there is a worker.
RefinesFairService == Service!FairSpec
================================================================================
