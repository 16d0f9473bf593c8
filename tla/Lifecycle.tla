------------------------------- MODULE Lifecycle -------------------------------
(***************************************************************************)
(* Starting, stopping and destroying a server.                             *)
(*                                                                         *)
(* The main thread calls Application::run, which starts the listener, the  *)
(* pools and the accept thread (Server::start) and then looks once a       *)
(* second whether the server still runs; after that the Application is     *)
(* destroyed.  Server::stop may be called by main itself (the example      *)
(* program calls it in a signal handler, which interrupts main), by other  *)
(* threads, or by a request handler on a pool's own thread.                *)
(*                                                                         *)
(* Threads, atomic flags, the PoolManager's mutex, std::thread handles and *)
(* Listener's plain members are modelled one access at a time;             *)
(* Listener::bind is one step.  What connections do is in module           *)
(* Connections; logging is left out.                                       *)
(***************************************************************************)
EXTENDS Naturals

CONSTANTS
  NumThreads,   \* numThreads of Application::run
  MaxRuns,      \* how often main calls Application::run
  Callers,      \* threads that call Application::stop from outside, maybe Main
  Main,         \* the main thread
  HandlerStops, \* may a request handler call Application::stop?
  BindMayFail,  \* may Listener::bind or Listener::listen fail?
  StopWhen,     \* how early stop is called from outside: see MayStop
  None          \* no owner

ASSUME LifecycleAssumption ==
  /\ NumThreads \in Nat
  /\ MaxRuns \in Nat
  /\ HandlerStops \in BOOLEAN
  /\ BindMayFail \in BOOLEAN
  /\ StopWhen \in {"anytime", "started", "looping"}
  /\ Main \notin Nat
  /\ Callers \cap Nat = {}
  /\ None \notin Nat \cup Callers \cup {Main}

\* Pools are never removed from the PoolManager: each run adds NumThreads.
PoolIds == 1 .. (NumThreads * MaxRuns)

\* Whoever may be executing Server::stop: a pool's number stands for its thread.
Contexts == Callers \cup {Main} \cup PoolIds

VARIABLES
  running,      \* Server::_running
  listenFD,     \* Listener::_listenFD: none, open, or closed but still stored
  listening,    \* Listener::_is_listening
  pools,        \* PoolManager::_pools.size()
  mutex,        \* the owner of PoolManager::_mutex
  loopRunning,  \* EventLoop::_running of each pool
  loopPc,       \* each pool's thread
  poolJoinable, \* Pool::_thread.joinable()
  accPc,        \* the accept thread
  accJoinable,  \* Server::_accept_thread.joinable()
  mainPc,       \* the main thread
  runs,         \* Application::run calls so far
  i,            \* the loop variable of Server::start and PoolManager::start_all
  stopPc,       \* each context's place in Server::stop and PoolManager::stop_all
  j             \* ... and its loop variable

serverVars == <<running, listenFD, listening>>
poolVars   == <<pools, mutex, loopRunning, loopPc, poolJoinable>>
accVars    == <<accPc, accJoinable>>
mainVars   == <<mainPc, runs, i>>
stopVars   == <<stopPc, j>>
vars == <<serverVars, poolVars, accVars, mainVars, stopVars>>

MainPcs == {"ready", "start", "bind", "listen", "::listen", "listening", "add_pool",
            "start_all", "spawn", "spawnAccept", "assignAccept", "wait",
            "stop", "~accept_thread", "~poolManager", "gone", "terminated"}
StopPcs == {"idle", "exchange", "close", "forget", "unlisten", "joinable", "join",
            "stop_all", "store", "joinPool"}
LoopPcs == {"none", "enter", "loop", "exited"}
AccPcs  == {"none", "check", "acceptClient", "accept", "distribute", "exited"}

TypeOK ==
  /\ running \in BOOLEAN
  /\ listenFD \in {"none", "open", "stale"}
  /\ listening \in BOOLEAN
  /\ pools \in 0 .. (NumThreads * MaxRuns)
  /\ mutex \in Contexts \cup {None}
  /\ loopRunning \in [PoolIds -> BOOLEAN]
  /\ loopPc \in [PoolIds -> LoopPcs]
  /\ poolJoinable \in [PoolIds -> BOOLEAN]
  /\ accPc \in AccPcs
  /\ accJoinable \in BOOLEAN
  /\ mainPc \in MainPcs
  /\ runs \in 0 .. MaxRuns
  /\ i \in 0 .. (NumThreads * MaxRuns + 1)
  /\ stopPc \in [Contexts -> StopPcs]
  /\ j \in [Contexts -> 0 .. (NumThreads * MaxRuns + 1)]

Init ==
  /\ running = FALSE
  /\ listenFD = "none"
  /\ listening = FALSE
  /\ pools = 0
  /\ mutex = None
  /\ loopRunning = [p \in PoolIds |-> FALSE]
  /\ loopPc = [p \in PoolIds |-> "none"]
  /\ poolJoinable = [p \in PoolIds |-> FALSE]
  /\ accPc = "none"
  /\ accJoinable = FALSE
  /\ mainPc = "ready"
  /\ runs = 0
  /\ i = 0
  /\ stopPc = [c \in Contexts |-> "idle"]
  /\ j = [c \in Contexts |-> 0]

-----------------------------------------------------------------------------
(***************************************************************************)
(* The main thread.  A signal handler that runs on main suspends it until  *)
(* stop returns.                                                           *)
(***************************************************************************)
MainAt(pc) == mainPc = pc /\ stopPc[Main] = "idle"

\* Application::run.
Run ==
  /\ MainAt("ready")
  /\ runs < MaxRuns
  /\ runs' = runs + 1
  /\ mainPc' = "start"
  /\ UNCHANGED <<serverVars, poolVars, accVars, i, stopVars>>

\* Server::start returns at once if the server is running already.
Start ==
  /\ MainAt("start")
  /\ running' = TRUE
  /\ mainPc' = IF running THEN "wait" ELSE "bind"
  /\ UNCHANGED <<listenFD, listening, poolVars, accVars, runs, i, stopVars>>

Bind ==
  /\ MainAt("bind")
  /\ listenFD' = "open"
  /\ mainPc' = "listen"
  /\ UNCHANGED <<running, listening, poolVars, accVars, runs, i, stopVars>>

\* A failing Listener::bind has no socket, or closes it and keeps its number in
\* _listenFD, and throws; nothing in Server::start or Application::run catches.
BindThrows ==
  /\ MainAt("bind")
  /\ BindMayFail
  /\ listenFD' \in {"none", "stale"}
  /\ mainPc' = "ready"
  /\ UNCHANGED <<running, listening, poolVars, accVars, runs, i, stopVars>>

\* Listener::listen looks whether it has a descriptor ...
ListenChecks ==
  /\ MainAt("listen")
  /\ listenFD # "none"
  /\ mainPc' = "::listen"
  /\ UNCHANGED <<serverVars, poolVars, accVars, runs, i, stopVars>>

\* ... calls ::listen on the number it reads then ...
Listen ==
  /\ MainAt("::listen")
  /\ listenFD = "open"
  /\ mainPc' = "listening"
  /\ UNCHANGED <<serverVars, poolVars, accVars, runs, i, stopVars>>

\* ... and notes its success, whatever stop has closed and noted meanwhile.
SetListening ==
  /\ MainAt("listening")
  /\ listening' = TRUE
  /\ i' = 1
  /\ mainPc' = "add_pool"
  /\ UNCHANGED <<running, listenFD, poolVars, accVars, runs, stopVars>>

\* Listener::listen throws without a descriptor, if ::listen fails, or if stop has
\* closed the listener in the meantime; the socket stays as it is.
ListenThrows ==
  /\ \/ MainAt("listen") /\ listenFD = "none"
     \/ MainAt("::listen") /\ (BindMayFail \/ listenFD # "open")
  /\ mainPc' = "ready"
  /\ UNCHANGED <<serverVars, poolVars, accVars, runs, i, stopVars>>

\* PoolManager::add_pool, NumThreads times.
AddPool ==
  /\ MainAt("add_pool")
  /\ IF i <= NumThreads
     THEN /\ mutex = None
          /\ pools' = pools + 1
          /\ i' = i + 1
          /\ UNCHANGED mainPc
     ELSE /\ mainPc' = "start_all"
          /\ UNCHANGED <<pools, i>>
  /\ UNCHANGED <<serverVars, mutex, loopRunning, loopPc, poolJoinable, accVars,
                 runs, stopVars>>

\* PoolManager::start_all locks the mutex ...
StartAll ==
  /\ MainAt("start_all")
  /\ mutex = None
  /\ mutex' = Main
  /\ i' = 1
  /\ mainPc' = "spawn"
  /\ UNCHANGED <<serverVars, pools, loopRunning, loopPc, poolJoinable, accVars,
                 runs, stopVars>>

\* ... and calls Pool::run on every pool, old and new.  Assigning to the handle
\* of a thread nobody joined ends the process.
Spawn ==
  /\ MainAt("spawn")
  /\ IF i <= pools
     THEN /\ IF poolJoinable[i]
             THEN /\ mainPc' = "terminated"
                  /\ UNCHANGED <<loopPc, poolJoinable>>
             ELSE /\ loopPc' = [loopPc EXCEPT ![i] = "enter"]
                  /\ poolJoinable' = [poolJoinable EXCEPT ![i] = TRUE]
                  /\ UNCHANGED mainPc
          /\ i' = i + 1
          /\ UNCHANGED mutex
     ELSE /\ mutex' = None
          /\ mainPc' = "spawnAccept"
          /\ UNCHANGED <<loopPc, poolJoinable, i>>
  /\ UNCHANGED <<serverVars, pools, loopRunning, accVars, runs, stopVars>>

\* std::thread(...) has started the accept thread ...
SpawnAccept ==
  /\ MainAt("spawnAccept")
  /\ accPc' = "check"
  /\ mainPc' = "assignAccept"
  /\ UNCHANGED <<serverVars, poolVars, accJoinable, runs, i, stopVars>>

\* ... before its handle is assigned to Server::_accept_thread.
AssignAccept ==
  /\ MainAt("assignAccept")
  /\ mainPc' = IF accJoinable THEN "terminated" ELSE "wait"
  /\ accJoinable' = TRUE
  /\ UNCHANGED <<serverVars, poolVars, accPc, runs, i, stopVars>>

\* The loop of Application::run ends when is_running() is false.
RunReturns ==
  /\ MainAt("wait")
  /\ ~ running
  /\ mainPc' = "ready"
  /\ UNCHANGED <<serverVars, poolVars, accVars, runs, i, stopVars>>

\* ~Application and then ~Server call Server::stop; the second call is one
\* that finds _running false.
Destroy ==
  /\ MainAt("ready")
  /\ runs > 0
  /\ mainPc' = "stop"
  /\ stopPc' = [stopPc EXCEPT ![Main] = "exchange"]
  /\ UNCHANGED <<serverVars, poolVars, accVars, runs, i, j>>

Stopped ==
  /\ MainAt("stop")
  /\ mainPc' = "~accept_thread"
  /\ UNCHANGED <<serverVars, poolVars, accVars, runs, i, stopVars>>

\* Mutant of DestroyAcceptThread: ~PoolManager does not stop the pools.
DestroyWithoutStopAll ==
  /\ MainAt("~accept_thread")
  /\ mainPc' = IF accJoinable THEN "terminated" ELSE "~poolManager"
  /\ UNCHANGED <<serverVars, poolVars, accVars, runs, i, stopVars>>

\* The members of Server, in reverse order: destroying a joinable thread
\* handle ends the process; ~PoolManager calls stop_all.
DestroyAcceptThread ==
  /\ MainAt("~accept_thread")
  /\ IF accJoinable
     THEN /\ mainPc' = "terminated"
          /\ UNCHANGED stopPc
     ELSE /\ mainPc' = "~poolManager"
          /\ stopPc' = [stopPc EXCEPT ![Main] = "stop_all"]
  /\ UNCHANGED <<serverVars, poolVars, accVars, runs, i, j>>

\* ~Pool finds its thread joined already; ~Listener closes what is left.
DestroyPools ==
  /\ MainAt("~poolManager")
  /\ listenFD' = "none"
  /\ listening' = FALSE
  /\ mainPc' = "gone"
  /\ UNCHANGED <<running, poolVars, accVars, runs, i, stopVars>>

MainThread ==
  \/ Run
  \/ Start
  \/ Bind
  \/ BindThrows
  \/ ListenChecks
  \/ Listen
  \/ SetListening
  \/ ListenThrows
  \/ AddPool
  \/ StartAll
  \/ Spawn
  \/ SpawnAccept
  \/ AssignAccept
  \/ RunReturns
  \/ Destroy
  \/ Stopped
  \/ DestroyAcceptThread
  \/ DestroyPools

-----------------------------------------------------------------------------
(***************************************************************************)
(* Server::stop, executed by context c.                                    *)
(***************************************************************************)
StopGoTo(c, pc) == stopPc' = [stopPc EXCEPT ![c] = pc]

\* Application::run is executing, on main.
Serving == mainPc \notin {"ready", "stop", "~accept_thread", "~poolManager", "gone"}

MayStop ==
  CASE StopWhen = "anytime" -> Serving
    [] StopWhen = "started" -> mainPc = "wait"
    [] StopWhen = "looping" -> /\ mainPc = "wait"
                               /\ \A p \in 1 .. pools : loopPc[p] # "enter"

CallStop(c) ==
  /\ c \in Callers
  /\ MayStop
  /\ stopPc[c] = "idle"
  /\ StopGoTo(c, "exchange")
  /\ UNCHANGED <<serverVars, poolVars, accVars, mainVars, j>>

\* A handler runs on the thread of pool p, inside the event loop.
HandlerCallsStop(p) ==
  /\ HandlerStops
  /\ loopPc[p] = "loop"
  /\ stopPc[p] = "idle"
  /\ StopGoTo(p, "exchange")
  /\ UNCHANGED <<serverVars, poolVars, accVars, mainVars, j>>

\* Mutant of StopExchange: a store that does not look at the old value.
StopStoresOnly(c) ==
  /\ stopPc[c] = "exchange"
  /\ running' = FALSE
  /\ StopGoTo(c, "close")
  /\ UNCHANGED <<listenFD, listening, poolVars, accVars, mainVars, j>>

\* Only the call that changes _running goes on.
StopExchange(c) ==
  /\ stopPc[c] = "exchange"
  /\ running' = FALSE
  /\ StopGoTo(c, IF running THEN "close" ELSE "idle")
  /\ UNCHANGED <<listenFD, listening, poolVars, accVars, mainVars, j>>

\* Listener::close closes the number it reads, a second time if it is stale ...
StopClose(c) ==
  /\ stopPc[c] = "close"
  /\ IF listenFD = "none"
     THEN StopGoTo(c, "joinable") /\ UNCHANGED listenFD
     ELSE StopGoTo(c, "forget") /\ listenFD' = "stale"
  /\ UNCHANGED <<running, listening, poolVars, accVars, mainVars, j>>

\* ... and then writes two plain members, which others read meanwhile.
StopForget(c) ==
  /\ stopPc[c] = "forget"
  /\ listenFD' = "none"
  /\ StopGoTo(c, "unlisten")
  /\ UNCHANGED <<running, listening, poolVars, accVars, mainVars, j>>

StopUnlisten(c) ==
  /\ stopPc[c] = "unlisten"
  /\ listening' = FALSE
  /\ StopGoTo(c, "joinable")
  /\ UNCHANGED <<running, listenFD, poolVars, accVars, mainVars, j>>

\* Mutant of StopJoinable: the accept thread is not joined.
StopSkipsJoin(c) ==
  /\ stopPc[c] = "joinable"
  /\ StopGoTo(c, "stop_all")
  /\ UNCHANGED <<serverVars, poolVars, accVars, mainVars, j>>

StopJoinable(c) ==
  /\ stopPc[c] = "joinable"
  /\ StopGoTo(c, IF accJoinable THEN "join" ELSE "stop_all")
  /\ UNCHANGED <<serverVars, poolVars, accVars, mainVars, j>>

\* Mutant of StopJoin: the accept thread is detached.
StopDetaches(c) ==
  /\ stopPc[c] = "join"
  /\ accJoinable' = FALSE
  /\ StopGoTo(c, "stop_all")
  /\ UNCHANGED <<serverVars, poolVars, accPc, mainVars, j>>

StopJoin(c) ==
  /\ stopPc[c] = "join"
  /\ accPc = "exited"
  /\ accJoinable' = FALSE
  /\ StopGoTo(c, "stop_all")
  /\ UNCHANGED <<serverVars, poolVars, accPc, mainVars, j>>

\* Mutant of StopAll: the first pool is left out.
StopAllButFirst(c) ==
  /\ stopPc[c] = "stop_all"
  /\ mutex = None
  /\ mutex' = c
  /\ j' = [j EXCEPT ![c] = 2]
  /\ StopGoTo(c, "store")
  /\ UNCHANGED <<serverVars, pools, loopRunning, loopPc, poolJoinable, accVars, mainVars>>

\* PoolManager::stop_all.
StopAll(c) ==
  /\ stopPc[c] = "stop_all"
  /\ mutex = None
  /\ mutex' = c
  /\ j' = [j EXCEPT ![c] = 1]
  /\ StopGoTo(c, "store")
  /\ UNCHANGED <<serverVars, pools, loopRunning, loopPc, poolJoinable, accVars, mainVars>>

\* Mutant of StopStore: the flag of the loop is not cleared.
StopStoresNothing(c) ==
  /\ stopPc[c] = "store"
  /\ IF j[c] <= pools
     THEN StopGoTo(c, "joinPool") /\ UNCHANGED mutex
     ELSE StopGoTo(c, "idle") /\ mutex' = None
  /\ UNCHANGED <<serverVars, pools, loopRunning, loopPc, poolJoinable, accVars,
                 mainVars, j>>

\* Mutant of StopStore: the mutex stays locked.
StopKeepsMutex(c) ==
  /\ stopPc[c] = "store"
  /\ IF j[c] <= pools
     THEN /\ loopRunning' = [loopRunning EXCEPT ![j[c]] = FALSE]
          /\ StopGoTo(c, "joinPool")
     ELSE StopGoTo(c, "idle") /\ UNCHANGED loopRunning
  /\ UNCHANGED <<serverVars, pools, mutex, loopPc, poolJoinable, accVars, mainVars, j>>

\* EventLoop::stop of the next pool; after the last one stop returns.
StopStore(c) ==
  /\ stopPc[c] = "store"
  /\ IF j[c] <= pools
     THEN /\ loopRunning' = [loopRunning EXCEPT ![j[c]] = FALSE]
          /\ StopGoTo(c, "joinPool")
          /\ UNCHANGED mutex
     ELSE /\ mutex' = None
          /\ StopGoTo(c, "idle")
          /\ UNCHANGED loopRunning
  /\ UNCHANGED <<serverVars, pools, loopPc, poolJoinable, accVars, mainVars, j>>

\* The rest of Pool::stop.  A pool's thread that would join itself gets an
\* exception instead: the mutex is released, EventLoop::run catches.
StopJoinPool(c) ==
  /\ stopPc[c] = "joinPool"
  /\ IF poolJoinable[j[c]] /\ c = j[c]
     THEN /\ mutex' = None
          /\ StopGoTo(c, "idle")
          /\ UNCHANGED <<poolJoinable, j>>
     ELSE /\ poolJoinable[j[c]] => loopPc[j[c]] = "exited"
          /\ poolJoinable' = [poolJoinable EXCEPT ![j[c]] = FALSE]
          /\ j' = [j EXCEPT ![c] = @ + 1]
          /\ StopGoTo(c, "store")
          /\ UNCHANGED mutex
  /\ UNCHANGED <<serverVars, pools, loopRunning, loopPc, accVars, mainVars>>

Stop(c) ==
  \/ StopExchange(c)
  \/ StopClose(c)
  \/ StopForget(c)
  \/ StopUnlisten(c)
  \/ StopJoinable(c)
  \/ StopJoin(c)
  \/ StopAll(c)
  \/ StopStore(c)
  \/ StopJoinPool(c)

-----------------------------------------------------------------------------
(***************************************************************************)
(* The accept thread and the pools' threads.                               *)
(***************************************************************************)
AcceptCheck ==
  /\ accPc = "check"
  /\ accPc' = IF running THEN "acceptClient" ELSE "exited"
  /\ UNCHANGED <<serverVars, poolVars, accJoinable, mainVars, stopVars>>

\* Listener::acceptClient looks at _is_listening ...
AcceptListening ==
  /\ accPc = "acceptClient"
  /\ accPc' = IF listening THEN "accept" ELSE "check"
  /\ UNCHANGED <<serverVars, poolVars, accJoinable, mainVars, stopVars>>

\* ... and then at _listenFD; an open one may have a client.
AcceptClient ==
  /\ accPc = "accept"
  /\ listenFD = "open"
  /\ accPc' = "distribute"
  /\ UNCHANGED <<serverVars, poolVars, accJoinable, mainVars, stopVars>>

NoClient ==
  /\ accPc = "accept"
  /\ accPc' = "check"
  /\ UNCHANGED <<serverVars, poolVars, accJoinable, mainVars, stopVars>>

\* PoolManager::distribute_client; get_pool takes the mutex.
Distribute ==
  /\ accPc = "distribute"
  /\ mutex = None
  /\ accPc' = "check"
  /\ UNCHANGED <<serverVars, poolVars, accJoinable, mainVars, stopVars>>

AcceptThread ==
  AcceptCheck \/ AcceptListening \/ AcceptClient \/ NoClient \/ Distribute

\* EventLoop::run sets _running itself, whatever stop has stored before; if it
\* was set already, run returns.
LoopEnter(p) ==
  /\ loopPc[p] = "enter"
  /\ loopPc' = [loopPc EXCEPT ![p] = IF loopRunning[p] THEN "exited" ELSE "loop"]
  /\ loopRunning' = [loopRunning EXCEPT ![p] = TRUE]
  /\ UNCHANGED <<serverVars, pools, mutex, poolJoinable, accVars, mainVars, stopVars>>

\* The while condition, once the handlers of the batch have returned.
LoopExit(p) ==
  /\ loopPc[p] = "loop"
  /\ stopPc[p] = "idle"
  /\ ~ loopRunning[p]
  /\ loopPc' = [loopPc EXCEPT ![p] = "exited"]
  /\ UNCHANGED <<serverVars, pools, mutex, loopRunning, poolJoinable, accVars,
                 mainVars, stopVars>>

\* The Application is gone, or std::terminate has ended the process.
Ended == mainPc \in {"gone", "terminated"} /\ UNCHANGED vars

Next ==
  \/ Ended
  \/ /\ mainPc # "terminated"
     /\ \/ MainThread
        \/ AcceptThread
        \/ \E c \in Contexts : CallStop(c) \/ Stop(c)
        \/ \E p \in PoolIds : HandlerCallsStop(p) \/ LoopEnter(p) \/ LoopExit(p)

Spec == Init /\ [][Next]_vars

\* Every thread that can go on does; nobody has to call stop, run or to
\* connect, and main may keep the Application after run has returned.  Signals
\* that interrupt main's waiting loop again and again let it look in between.
MainGoesOn == mainPc # "terminated" /\ MainThread /\ mainPc # "ready"

FairSpec ==
  /\ Spec
  /\ WF_vars(MainGoesOn)
  /\ SF_vars(RunReturns)
  /\ WF_vars(mainPc # "terminated" /\
             (AcceptCheck \/ AcceptListening \/ NoClient \/ Distribute))
  /\ \A c \in Contexts : WF_vars(mainPc # "terminated" /\ Stop(c))
  /\ \A p \in PoolIds :
       WF_vars(mainPc # "terminated" /\ (LoopEnter(p) \/ LoopExit(p)))

-----------------------------------------------------------------------------
(***************************************************************************)
(* Properties.                                                             *)
(***************************************************************************)
Stopping(c) == stopPc[c] \notin {"idle", "exchange"}

\* c executes Server::stop, as opposed to ~PoolManager.
InStop(c) == Stopping(c) /\ (c = Main => mainPc # "~poolManager")

PoolAlive(p) == loopPc[p] \in {"enter", "loop"}

AcceptAlive == accPc \notin {"none", "exited"}

\* No thread of the server is left.
Quiet == ~ AcceptAlive /\ \A p \in PoolIds : ~ PoolAlive(p)

\* While Server::start is running, on main.
Starting == mainPc \in {"start", "bind", "listen", "::listen", "listening", "add_pool",
                        "start_all", "spawn", "spawnAccept", "assignAccept"}

\* Server::stop "shuts down all I/O pools" (Server.hpp:67): when no start and
\* no stop is in progress and the server does not run, no thread is left.
StopShutsDown ==
  ~ running /\ ~ Starting /\ (\A c \in Contexts : ~ Stopping(c)) => Quiet

\* However many threads, signals and handlers call stop during a run, one of them
\* closes the listener and joins the threads; ~PoolManager waits its turn.  (run
\* returns when a stop begins, so a second run may begin a second one meanwhile.)
OneStop ==
  \A c, d \in Contexts :
    /\ InStop(c) /\ InStop(d) => c = d
    /\ stopPc[c] \in {"store", "joinPool"} => mutex = c

\* No joinable std::thread is destroyed or overwritten.
NoTerminate == mainPc # "terminated"

\* After the destructors nothing of the server runs any more.
GoneIsQuiet == mainPc = "gone" => Quiet

\* A connection that was accepted goes to pools whose threads are there: stop
\* waits for the accept thread before it stops the first of them.
PoolsOutliveAccept == accPc = "distribute" => \A p \in 1 .. pools : PoolAlive(p)

\* stop "stops accepting new connections" (Server.hpp:67) before anything else:
\* the accept thread never calls accept on a number that was closed and may be
\* another descriptor's by now.
NoAcceptOnClosed == accPc = "accept" => listenFD # "stale"

\* Application::run blocks "until server is stopped" (Application.cpp:50).
RunBlocksUntilStopped ==
  mainPc = "stop" /\ stopPc[Main] = "idle" => Quiet

\* is_running() is "true if the server is running" (Server.hpp:74): between
\* two calls of run, or in its waiting loop, there is an accept thread then.
IsRunningIsTrue ==
  running /\ mainPc \in {"ready", "wait"} => AcceptAlive

\* numThreads is "the number of I/O threads (pools) to create" (Server.hpp:58).
ThreadsAsAsked == pools <= NumThreads

\* Server::stop returns: the flag and the join of every pool's thread, the
\* accept thread's and the mutex do not block each other for ever.
StopReturns == \A c \in Contexts : Stopping(c) ~> ~ Stopping(c)

\* Once main destroys the Application, the destructors end.
DestroyEnds == mainPc = "stop" ~> mainPc = "gone"
================================================================================
