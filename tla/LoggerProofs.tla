------------------------------ MODULE LoggerProofs ------------------------------
(***************************************************************************)
(* The level and syslog's mask agree, for any number of threads and any    *)
(* levels, with and without signals.                                       *)
(***************************************************************************)
EXTENDS Logger, TLAPS

\* The places of init and set_level where g_logger_mutex is held.
Locked == {"openlog", "setlogmask", "setMask"}

TypeInv ==
  /\ level \in 0 .. Debug
  /\ arg \in [Threads -> 0 .. Debug]
  /\ pc \in [Threads -> Locked \cup {"idle", "started", "syslog", "lock", "write"}]
  /\ mutex \in Threads \cup {None}

\* Who is in a critical section holds the mutex, so there is one at most.
Exclusion == \A t \in Threads : pc[t] \in Locked => mutex = t

\* The mask is behind the level only between the two writes of set_level, and
\* then it is going to be the level's.
Agreement ==
  /\ (\A t \in Threads : pc[t] # "setMask") => mask = ToMask(level)
  /\ \A t \in Threads : pc[t] = "setMask" => arg[t] = level

\* The inductive invariant.
LevelInv == TypeInv /\ Exclusion /\ Agreement

LEMMA InitLevelInv == Init => LevelInv
<1> USE LoggerAssumption
<1> SUFFICES ASSUME Init PROVE LevelInv OBVIOUS
<1>1. TypeInv
  BY DEF Init, TypeInv, Debug
<1>2. Exclusion /\ Agreement
  BY DEF Init, Exclusion, Agreement, Locked
<1> QED BY <1>1, <1>2 DEF LevelInv

LEMMA NextLevelInv == LevelInv /\ [Next]_vars => LevelInv'
<1> USE LoggerAssumption
<1> SUFFICES ASSUME LevelInv, [Next]_vars PROVE LevelInv' OBVIOUS
<1> USE DEF LevelInv, TypeInv, Exclusion, Agreement, Locked, Debug
<1>1. CASE UNCHANGED vars
  BY <1>1 DEF vars, syslogVars
<1>2. ASSUME NEW t \in Threads, RunInit(t) PROVE LevelInv'
  BY <1>2 DEF RunInit, At, GoTo, syslogVars
<1>3. ASSUME NEW t \in Threads, OpenLog(t) PROVE LevelInv'
  BY <1>3 DEF OpenLog, At, GoTo
<1>4. ASSUME NEW t \in Threads, InitMask(t) PROVE LevelInv'
  BY <1>4 DEF InitMask, At, GoTo
<1>5. ASSUME NEW t \in Threads, Started(t) PROVE LevelInv'
  BY <1>5 DEF Started, At, GoTo, syslogVars
<1>6. ASSUME NEW t \in Threads, StopShutdown(t) \/ HandlerShutdown(t) PROVE LevelInv'
  BY <1>6 DEF StopShutdown, HandlerShutdown, Shutdown
<1>7. ASSUME NEW t \in Threads, Signal(t) PROVE LevelInv'
  BY <1>7 DEF Signal, syslogVars
<1>8. ASSUME NEW t \in Threads, SetLevel(t) PROVE LevelInv'
  BY <1>8 DEF SetLevel, At, GoTo, syslogVars
<1>9. ASSUME NEW t \in Threads, SetMask(t) PROVE LevelInv'
  BY <1>9 DEF SetMask, At, GoTo
<1>10. ASSUME NEW t \in Threads, Log(t) PROVE LevelInv'
  BY <1>10 DEF Log, At, GoTo, syslogVars
<1>11. ASSUME NEW t \in Threads, Syslog(t) PROVE LevelInv'
  BY <1>11 DEF Syslog, At, GoTo, syslogVars
<1>12. ASSUME NEW t \in Threads, Write(t) \/ Written(t) PROVE LevelInv'
  BY <1>12 DEF Write, Written, At, GoTo
<1> QED
  BY <1>1, <1>2, <1>3, <1>4, <1>5, <1>6, <1>7, <1>8, <1>9, <1>10, <1>11, <1>12
  DEF Next

LEMMA LevelInvHolds == Spec => []LevelInv
BY InitLevelInv, NextLevelInv, PTL DEF Spec

\* g_current_level and syslog's mask agree whenever nobody holds the mutex,
\* however many threads call init, shutdown and set_level.
THEOREM MaskAgrees == Spec => []MaskFollowsLevel
<1>1. LevelInv => MaskFollowsLevel
  BY LoggerAssumption DEF LevelInv, TypeInv, Exclusion, Agreement, Locked, MaskFollowsLevel
<1> QED BY <1>1, LevelInvHolds, PTL

\* A message that races with set_level is decided by the mask: syslog writes it
\* exactly if the level of the last set_level that has returned allows it.
THEOREM SyslogAgrees == Spec => SyslogFollowsLevel
<1> DEFINE Decides ==
      \A t \in Threads :
        /\ pc[t] = "syslog" /\ pc'[t] # "syslog"
        /\ \A s \in Threads : pc[s] # "setMask"
        => (pc'[t] = "lock" <=> arg[t] <= level)
<1>1. ASSUME LevelInv, [Next]_vars PROVE [Decides]_vars
  <2> SUFFICES ASSUME Next,
                      NEW t \in Threads, pc[t] = "syslog", pc'[t] # "syslog",
                      \A s \in Threads : pc[s] # "setMask"
               PROVE pc'[t] = "lock" <=> arg[t] <= level
    BY <1>1
  <2>1. Syslog(t)
    BY <1>1 DEF LevelInv, TypeInv, Next, RunInit, OpenLog, InitMask, Started,
                StopShutdown, Shutdown, Signal, HandlerShutdown, SetLevel, SetMask,
                Log, Syslog, Write, Written, At, GoTo, syslogVars
  <2>2. ToPriority(arg[t]) \in mask <=> arg[t] <= level
    BY <1>1 DEF LevelInv, TypeInv, Agreement, ToMask, ToPriority, Debug
  <2> QED BY <1>1, <2>1, <2>2 DEF Syslog, GoTo, LevelInv, TypeInv
<1> QED BY <1>1, LevelInvHolds, PTL DEF Spec, SyslogFollowsLevel
================================================================================
