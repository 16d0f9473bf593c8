--------------------------------- MODULE Logger ---------------------------------
(***************************************************************************)
(* logging/Logger.cpp: one logger for the whole process, which the threads *)
(* of all Applications share.  init, shutdown and set_level lock a mutex;  *)
(* log reads the level without it and leaves the rest to syslog, which has *)
(* a mask and a lock of its own and keeps a pointer to the ident.          *)
(*                                                                         *)
(* A thread that calls Application::run owns that Application; a signal    *)
(* handler calls Application::stop on top of what its thread is doing.     *)
(* Levels are their numbers: the less, the more urgent.                    *)
(*                                                                         *)
(* Not modelled: facility, options and text, numbers that are cast to      *)
(* LogLevel and are no level.                                              *)
(***************************************************************************)
EXTENDS Naturals

CONSTANTS
  Threads,       \* the threads of the process
  Levels,        \* the levels in use
  Interrupted,   \* the threads that signals are delivered to
  SignalsInside, \* may the signal handler interrupt a call of the Logger?
  None           \* no thread, no ident

Debug == 7

ASSUME LoggerAssumption ==
  /\ Levels \subseteq 0 .. Debug
  /\ Interrupted \subseteq Threads
  /\ SignalsInside \in BOOLEAN
  /\ None \notin Threads

VARIABLES
  mutex,       \* the owner of g_logger_mutex
  initialized, \* g_initialized
  level,       \* g_current_level
  mask,        \* syslog's mask, as the set of priorities it lets through
  ident,       \* whose string syslog's ident points into, or None
  temporary,   \* the threads whose argument of init still exists
  syslogLock,  \* the owner of the lock inside syslog
  pc,          \* where in the Logger each thread is
  arg,         \* the level it has been called with
  handler,     \* what each thread's signal handler does
  apps         \* the threads whose Application has been run and not stopped

syslogVars == <<mask, ident, syslogLock>>
vars == <<mutex, initialized, level, syslogVars, temporary, pc, arg, handler, apps>>

\* Everything that is as urgent as the level or more.
ToMask(l) == 0 .. l

\* The enumerators of LogLevel have the numbers of syslog's priorities.
ToPriority(l) == l

Init ==
  /\ mutex = None
  /\ initialized = FALSE
  /\ level = Debug
  /\ mask = ToMask(Debug)
  /\ ident = None
  /\ temporary = {}
  /\ syslogLock = None
  /\ pc = [t \in Threads |-> "idle"]
  /\ arg = [t \in Threads |-> Debug]
  /\ handler = [t \in Threads |-> "idle"]
  /\ apps = {}

\* A signal handler suspends its thread.
At(t, label) == pc[t] = label /\ handler[t] # "stop"
GoTo(t, label) == pc' = [pc EXCEPT ![t] = label]

-----------------------------------------------------------------------------
\* Application::run calls init with a temporary string.
RunInit(t) ==
  /\ At(t, "idle")
  /\ t \notin apps
  /\ mutex = None
  /\ temporary' = temporary \cup {t}
  /\ IF initialized
     THEN GoTo(t, "started") /\ UNCHANGED mutex
     ELSE GoTo(t, "openlog") /\ mutex' = t
  /\ UNCHANGED <<initialized, level, syslogVars, arg, handler, apps>>

OpenLog(t) ==
  /\ At(t, "openlog")
  /\ syslogLock = None
  /\ ident' = t
  /\ GoTo(t, "setlogmask")
  /\ UNCHANGED <<mutex, initialized, level, mask, syslogLock, temporary, arg, handler, apps>>

\* Mutant of InitMask: a new log lets everything through.
InitAllowsAll(t) ==
  /\ At(t, "setlogmask")
  /\ mask' = ToMask(Debug)
  /\ initialized' = TRUE
  /\ mutex' = None
  /\ GoTo(t, "started")
  /\ UNCHANGED <<level, ident, temporary, syslogLock, arg, handler, apps>>

InitMask(t) ==
  /\ At(t, "setlogmask")
  /\ mask' = ToMask(level)
  /\ initialized' = TRUE
  /\ mutex' = None
  /\ GoTo(t, "started")
  /\ UNCHANGED <<level, ident, temporary, syslogLock, arg, handler, apps>>

\* init has returned, and the temporary is destroyed.
Started(t) ==
  /\ At(t, "started")
  /\ temporary' = temporary \ {t}
  /\ apps' = apps \cup {t}
  /\ GoTo(t, "idle")
  /\ UNCHANGED <<mutex, initialized, level, syslogVars, arg, handler>>

\* closelog forgets the ident; the mask and the options stay.
Shutdown ==
  /\ mutex = None
  /\ initialized => syslogLock = None
  /\ ident' = IF initialized THEN None ELSE ident
  /\ initialized' = FALSE
  /\ UNCHANGED <<mutex, level, mask, syslogLock, temporary, pc, arg>>

\* The end of Application::stop.
StopShutdown(t) ==
  /\ At(t, "idle")
  /\ Shutdown
  /\ apps' = apps \ {t}
  /\ UNCHANGED handler

\* A signal arrives; its handler calls Application::stop.
Signal(t) ==
  /\ t \in Interrupted
  /\ handler[t] = "idle"
  /\ pc[t] = "idle" \/ SignalsInside
  /\ handler' = [handler EXCEPT ![t] = "stop"]
  /\ UNCHANGED <<mutex, initialized, level, syslogVars, temporary, pc, arg, apps>>

HandlerShutdown(t) ==
  /\ handler[t] = "stop"
  /\ Shutdown
  /\ handler' = [handler EXCEPT ![t] = "returned"]
  /\ apps' = apps \ {t}

\* Mutant of SetLevel: the mutex is forgotten.
SetLevelUnlocked(t) ==
  /\ At(t, "idle")
  /\ \E l \in Levels : level' = l /\ arg' = [arg EXCEPT ![t] = l]
  /\ GoTo(t, "setMask")
  /\ UNCHANGED <<mutex, initialized, syslogVars, temporary, handler, apps>>

\* set_level writes the level ...
SetLevel(t) ==
  /\ At(t, "idle")
  /\ mutex = None
  /\ mutex' = t
  /\ \E l \in Levels : level' = l /\ arg' = [arg EXCEPT ![t] = l]
  /\ GoTo(t, "setMask")
  /\ UNCHANGED <<initialized, syslogVars, temporary, handler, apps>>

\* ... and then the mask.
SetMask(t) ==
  /\ At(t, "setMask")
  /\ mask' = ToMask(arg[t])
  /\ mutex' = None
  /\ GoTo(t, "idle")
  /\ UNCHANGED <<initialized, level, ident, syslogLock, temporary, arg, handler, apps>>

\* log looks at the level, without the mutex ...
Log(t) ==
  /\ At(t, "idle")
  /\ \E l \in Levels : l <= level /\ arg' = [arg EXCEPT ![t] = l]
  /\ GoTo(t, "syslog")
  /\ UNCHANGED <<mutex, initialized, level, syslogVars, temporary, handler, apps>>

\* ... and calls syslog, which looks at its mask before it takes its lock.
Syslog(t) ==
  /\ At(t, "syslog")
  /\ GoTo(t, IF ToPriority(arg[t]) \in mask THEN "lock" ELSE "idle")
  /\ UNCHANGED <<mutex, initialized, level, syslogVars, temporary, arg, handler, apps>>

Write(t) ==
  /\ At(t, "lock")
  /\ syslogLock = None
  /\ syslogLock' = t
  /\ GoTo(t, "write")
  /\ UNCHANGED <<mutex, initialized, level, mask, ident, temporary, arg, handler, apps>>

Written(t) ==
  /\ At(t, "write")
  /\ syslogLock' = None
  /\ GoTo(t, "idle")
  /\ UNCHANGED <<mutex, initialized, level, mask, ident, temporary, arg, handler, apps>>

Next ==
  \E t \in Threads :
    \/ RunInit(t) \/ OpenLog(t) \/ InitMask(t) \/ Started(t)
    \/ StopShutdown(t) \/ Signal(t) \/ HandlerShutdown(t)
    \/ SetLevel(t) \/ SetMask(t)
    \/ Log(t) \/ Syslog(t) \/ Write(t) \/ Written(t)

Spec == Init /\ [][Next]_vars

-----------------------------------------------------------------------------
(***************************************************************************)
(* Properties.                                                             *)
(***************************************************************************)

\* g_current_level and syslog's mask never drift apart, however init, shutdown
\* and set_level of several threads are interleaved: when none of them holds the
\* mutex, the mask lets exactly the current level through.
MaskFollowsLevel == mutex = None => mask = ToMask(level)

\* A message that log has let through by its unlocked look at the level is
\* stopped at syslog's mask if a set_level that has returned by then forbids it,
\* and only then: level and mask may disagree about it only while a set_level is
\* between its two writes.
SyslogFollowsLevel ==
  [][\A t \in Threads :
       /\ pc[t] = "syslog" /\ pc'[t] # "syslog"
       /\ \A s \in Threads : pc[s] # "setMask"
       => (pc'[t] = "lock" <=> arg[t] <= level)]_vars

\* syslog is initialized "with ident and facility" (Logger.hpp:25): when it
\* writes, the string its ident points to still exists.
IdentExists ==
  \A t \in Threads : pc[t] = "write" /\ ident # None => ident \in temporary

\* The log stays open while an Application runs: init comes before everything
\* that is logged on its behalf (Application.cpp:42).
OpenWhileRunning == apps # {} => initialized

\* Application::stop may be called by a signal handler "for graceful shutdown"
\* (main.cpp:13): it does not wait for a lock its own thread holds.
HandlerGoesOn ==
  \A t \in Threads : handler[t] = "stop" => t \notin {mutex, syslogLock}
================================================================================
