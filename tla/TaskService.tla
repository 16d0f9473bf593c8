------------------------------ MODULE TaskService ------------------------------
(***************************************************************************)
(* What a thread pool promises about the tasks it accepts: they are begun  *)
(* in the order they were accepted, each is executed once, and the pool is *)
(* gone only when all of them have been executed.                          *)
(***************************************************************************)
EXTENDS Sequences

CONSTANT Tasks

VARIABLES
  queue,    \* accepted tasks that have not begun, oldest first
  running,  \* tasks being executed
  done,     \* tasks that have been executed
  gone      \* the destructor has returned

vars == <<queue, running, done, gone>>

Queued == {queue[k] : k \in DOMAIN queue}

Init ==
  /\ queue = <<>>
  /\ running = {}
  /\ done = {}
  /\ gone = FALSE

Accept(t) ==
  /\ ~ gone
  /\ t \notin Queued \cup running \cup done
  /\ queue' = Append(queue, t)
  /\ UNCHANGED <<running, done, gone>>

Begin ==
  /\ queue # <<>>
  /\ queue' = Tail(queue)
  /\ running' = running \cup {Head(queue)}
  /\ UNCHANGED <<done, gone>>

Finish(t) ==
  /\ t \in running
  /\ running' = running \ {t}
  /\ done' = done \cup {t}
  /\ UNCHANGED <<queue, gone>>

Leave ==
  /\ queue = <<>> /\ running = {}
  /\ gone' = TRUE
  /\ UNCHANGED <<queue, running, done>>

Next ==
  \/ \E t \in Tasks : Accept(t) \/ Finish(t)
  \/ Begin
  \/ Leave

Spec == Init /\ [][Next]_vars

\* What is accepted is begun, and what is begun ends.
FairSpec ==
  /\ Spec
  /\ WF_vars(Begin)
  /\ \A t \in Tasks : WF_vars(Finish(t))
================================================================================
