---------------------------- MODULE LifecycleProofs ----------------------------
(***************************************************************************)
(* What holds of starting, stopping and destroying a server for any number *)
(* of threads, runs and callers of stop, at whatever moment they call it.  *)
(***************************************************************************)
EXTENDS Lifecycle, TLAPS

\* The places of PoolManager::stop_all where the mutex is held.
InStopAll(c) == stopPc[c] \in {"store", "joinPool"}

\* Each run adds NumThreads pools at most, one for every turn of the loop.
PoolsCounted ==
  /\ mainPc # "ready" => runs >= 1
  /\ mainPc \in {"start", "bind", "listen", "::listen", "listening"} =>
       pools <= NumThreads * (runs - 1)
  /\ mainPc = "add_pool" =>
       i \in 1 .. NumThreads + 1 /\ pools < NumThreads * (runs - 1) + i
  /\ pools <= NumThreads * runs

\* The mutex has one owner, and the loops over the pools end with the last one:
\* nobody adds a pool meanwhile.
MutexOwned ==
  /\ \A c \in Contexts : InStopAll(c) => mutex = c /\ j[c] \in 1 .. pools + 1
  /\ \A c \in Contexts : stopPc[c] = "joinPool" => j[c] <= pools
  /\ mainPc = "spawn" => mutex = Main /\ i \in 1 .. pools + 1 /\ ~ InStopAll(Main)

\* A thread whose handle is not joinable was never started or has ended; the
\* accept thread runs before its handle is assigned.
HandlesTrue ==
  /\ \A p \in PoolIds : PoolAlive(p) => poolJoinable[p]
  /\ \A p \in PoolIds : poolJoinable[p] => p <= pools
  /\ AcceptAlive => accJoinable \/ mainPc = "assignAccept"

\* ~PoolManager goes through all pools, once the accept thread's handle is gone.
DestructorsJoin ==
  /\ mainPc \in {"~poolManager", "gone"} => ~ accJoinable
  /\ mainPc = "~poolManager" =>
       /\ stopPc[Main] \in {"idle", "stop_all", "store", "joinPool"}
       /\ \A p \in PoolIds :
            stopPc[Main] = "idle" \/ (InStopAll(Main) /\ p < j[Main]) => ~ poolJoinable[p]
  /\ mainPc = "gone" => \A p \in PoolIds : ~ poolJoinable[p]

\* The inductive invariant.
LifeInv == TypeOK /\ PoolsCounted /\ MutexOwned /\ HandlesTrue /\ DestructorsJoin

\* The first run is in progress or has not begun: the server does not run yet.
NotStarted == mainPc = "start" \/ (mainPc = "ready" /\ runs = 0)

\* Of the calls of stop in one run, the one that found _running set goes on.
OneWinner ==
  /\ \A c, d \in Contexts : InStop(c) /\ InStop(d) => c = d
  /\ running \/ NotStarted => \A c \in Contexts : ~ InStop(c)
  /\ NotStarted => ~ running

-----------------------------------------------------------------------------
\* What the inequalities of PoolsCounted need to know of products.
LEMMA Products ==
  /\ NumThreads * MaxRuns \in Nat
  /\ \A r \in Nat : /\ NumThreads * r \in Nat
                    /\ NumThreads * (r + 1) = NumThreads * r + NumThreads
  /\ \A r \in 0 .. MaxRuns : NumThreads * r <= NumThreads * MaxRuns
BY LifecycleAssumption

\* What the loops over the pools need.
LEMMA Turns ==
  /\ 1 \in 0 .. NumThreads * MaxRuns + 1
  /\ \A q \in 0 .. NumThreads * MaxRuns : \A k \in 1 .. q :
       k \in PoolIds /\ k + 1 \in 0 .. NumThreads * MaxRuns + 1
<1>1. \A all \in Nat :
        /\ 1 \in 0 .. all + 1
        /\ \A q \in 0 .. all : \A k \in 1 .. q : k \in 1 .. all /\ k + 1 \in 0 .. all + 1
  OBVIOUS
<1> QED BY <1>1, Products, Zenon DEF PoolIds

LEMMA ContextsDistinct ==
  /\ Main \in Contexts /\ Main \notin PoolIds /\ None \notin Contexts
  /\ PoolIds \subseteq Contexts
BY LifecycleAssumption, Products DEF Contexts, PoolIds

LEMMA InitLifeInv == Init => LifeInv
<1> SUFFICES ASSUME Init PROVE LifeInv OBVIOUS
<1> USE DEF Init
<1>1. TypeOK
  <2>1. 0 \in 0 .. NumThreads * MaxRuns /\ 0 \in 0 .. NumThreads * MaxRuns + 1
    BY Products
  <2>2. runs \in 0 .. MaxRuns
    BY LifecycleAssumption
  <2> QED BY <2>1, <2>2 DEF TypeOK, MainPcs, StopPcs, LoopPcs, AccPcs
<1>2. PoolsCounted
  BY Products DEF PoolsCounted
<1>3. MutexOwned
  BY DEF MutexOwned, InStopAll
<1>4. HandlesTrue
  BY DEF HandlesTrue, PoolAlive, AcceptAlive
<1>5. DestructorsJoin
  BY DEF DestructorsJoin
<1> QED BY <1>1, <1>2, <1>3, <1>4, <1>5 DEF LifeInv

-----------------------------------------------------------------------------
(***************************************************************************)
(* Each part of the invariant is preserved.                                *)
(***************************************************************************)

\* The numbers of pools and turns stay below what MaxRuns runs can make.
LEMMA MainPreservesType == ASSUME LifeInv, MainThread PROVE TypeOK'
<1> USE DEF LifeInv, TypeOK, MainPcs, StopPcs, MainAt,
            serverVars, poolVars, accVars, mainVars, stopVars
<1>1. CASE AddPool
  <2>1. runs - 1 \in Nat /\ runs \in 0 .. MaxRuns
    BY <1>1, LifecycleAssumption DEF AddPool, PoolsCounted
  <2>2. NumThreads * (runs - 1) + NumThreads <= NumThreads * MaxRuns
    <3>1. NumThreads * ((runs - 1) + 1) = NumThreads * (runs - 1) + NumThreads
      BY <2>1, Products
    <3>2. (runs - 1) + 1 = runs
      BY <2>1
    <3> QED BY <2>1, <3>1, <3>2, Products
  <2>3. NumThreads * (runs - 1) \in Nat /\ NumThreads \in Nat
    BY <2>1, Products, LifecycleAssumption
  <2>4. i \in 1 .. NumThreads + 1 /\ pools < NumThreads * (runs - 1) + i
    BY <1>1 DEF AddPool, PoolsCounted
  <2>5. ASSUME i <= NumThreads
        PROVE  /\ pools + 1 \in 0 .. NumThreads * MaxRuns
               /\ i + 1 \in 0 .. NumThreads * MaxRuns + 1
    <3>1. \A before, all \in Nat :
            pools < before + i /\ before + NumThreads <= all
              => pools + 1 \in 0 .. all /\ i + 1 \in 0 .. all + 1
      <4> HIDE DEF LifeInv, TypeOK
      <4>1. i \in Nat /\ i <= NumThreads /\ NumThreads \in Nat /\ pools \in Nat
        BY <2>3, <2>4, <2>5, Products DEF LifeInv, TypeOK
      <4> QED BY <4>1
    <3>2. NumThreads * MaxRuns \in Nat
      BY Products
    <3> QED
      <4> HIDE DEF LifeInv, TypeOK
      <4> QED BY <2>2, <2>3, <2>4, <3>1, <3>2, Zenon
  <2>6. i <= NumThreads \/ i > NumThreads
    BY <2>3, <2>4
  <2> QED BY <1>1, <2>5 DEF AddPool
<1>2. CASE Spawn
  <2>1. i \in 1 .. pools + 1
    BY <1>2 DEF Spawn, MutexOwned
  <2>2. i <= pools => i \in 1 .. pools
    BY <2>1, Products
  <2>3. i <= pools => i \in PoolIds /\ i + 1 \in 0 .. NumThreads * MaxRuns + 1
    BY <2>2, Turns, Zenon
  <2> QED BY <1>2, <2>3 DEF Spawn, LoopPcs
<1>3. CASE Run \/ SetListening \/ StartAll
  <2>1. CASE Run
    <3>1. runs + 1 \in 0 .. MaxRuns
      BY <2>1, LifecycleAssumption DEF Run
    <3> QED BY <2>1, <3>1 DEF Run
  <2>2. CASE SetListening \/ StartAll
    BY <2>2, Turns, ContextsDistinct DEF SetListening, StartAll
  <2> QED BY <1>3, <2>1, <2>2
<1>4. CASE Start \/ Bind \/ BindThrows \/ ListenChecks \/ Listen \/ ListenThrows
  BY <1>4 DEF Start, Bind, BindThrows, ListenChecks, Listen, ListenThrows
<1>5. CASE SpawnAccept \/ AssignAccept \/ RunReturns \/ Stopped \/ DestroyPools
  BY <1>5, ZenonT(40) DEF SpawnAccept, AssignAccept, RunReturns, Stopped, DestroyPools, AccPcs
<1>6. CASE Destroy \/ DestroyAcceptThread
  BY <1>6 DEF Destroy, DestroyAcceptThread
<1> QED BY <1>1, <1>2, <1>3, <1>4, <1>5, <1>6 DEF MainThread

LEMMA StopPreservesType ==
  ASSUME LifeInv, NEW c \in Contexts, CallStop(c) \/ Stop(c)
  PROVE  TypeOK'
<1> USE DEF LifeInv, TypeOK, StopPcs, StopGoTo,
            serverVars, poolVars, accVars, mainVars
<1>1. CASE \/ CallStop(c) \/ StopExchange(c)
           \/ StopClose(c) \/ StopForget(c) \/ StopUnlisten(c)
  BY <1>1 DEF CallStop, StopExchange, StopClose, StopForget, StopUnlisten
<1>2. CASE StopJoinable(c) \/ StopJoin(c)
  BY <1>2 DEF StopJoinable, StopJoin
<1>3. CASE StopAll(c)
  BY <1>3, Products DEF StopAll
<1>4. CASE StopStore(c)
  BY <1>4 DEF StopStore
<1>5. CASE StopJoinPool(c)
  <2>1. j[c] \in 1 .. pools
    BY <1>5 DEF StopJoinPool, MutexOwned, InStopAll
  <2>2. j[c] + 1 \in 0 .. NumThreads * MaxRuns + 1
    BY <2>1, Products
  <2> QED BY <1>5, <2>2 DEF StopJoinPool
<1> QED BY <1>1, <1>2, <1>3, <1>4, <1>5 DEF Stop

LEMMA ThreadsPreserveType ==
  ASSUME LifeInv,
         \/ AcceptThread
         \/ \E p \in PoolIds : HandlerCallsStop(p) \/ LoopEnter(p) \/ LoopExit(p)
  PROVE  TypeOK'
<1> USE DEF LifeInv, TypeOK, serverVars, poolVars, accVars, mainVars, stopVars
<1>1. CASE AcceptThread
  BY <1>1 DEF AcceptThread, AcceptCheck, AcceptListening, AcceptClient, NoClient,
              Distribute, AccPcs
<1>2. ASSUME NEW p \in PoolIds, HandlerCallsStop(p) PROVE TypeOK'
  BY <1>2, ContextsDistinct DEF HandlerCallsStop, StopGoTo, StopPcs
<1>3. ASSUME NEW p \in PoolIds, LoopEnter(p) \/ LoopExit(p) PROVE TypeOK'
  BY <1>3 DEF LoopEnter, LoopExit, LoopPcs
<1> QED BY <1>1, <1>2, <1>3

\* Only the main thread's own steps touch what PoolsCounted speaks of.
LEMMA NextPreservesCount == ASSUME LifeInv, Next PROVE PoolsCounted'
<1> USE DEF LifeInv, PoolsCounted, serverVars, poolVars, accVars, mainVars, stopVars, MainAt
<1>0. runs \in Nat /\ pools \in Nat /\ NumThreads \in Nat /\ NumThreads * runs \in Nat
  BY Products, LifecycleAssumption DEF TypeOK
<1>1. CASE Run
  <2>1. NumThreads * runs' \in Nat /\ NumThreads * runs' = NumThreads * runs + NumThreads
    BY <1>0, <1>1, Products DEF Run
  <2>2. NumThreads * (runs' - 1) = NumThreads * runs
    BY <1>0, <1>1 DEF Run
  <2> QED BY <1>0, <1>1, <2>1, <2>2 DEF Run
<1>2. CASE AddPool
  <2>1. runs - 1 \in Nat /\ (runs - 1) + 1 = runs
    BY <1>0, <1>2 DEF AddPool
  <2>2. NumThreads * runs = NumThreads * (runs - 1) + NumThreads
    BY <2>1, Products
  <2>3. NumThreads * (runs - 1) \in Nat
    BY <2>1, Products
  <2> QED BY <1>0, <1>2, <2>2, <2>3 DEF AddPool
<1>3. CASE SetListening
  <2>1. NumThreads * (runs - 1) \in Nat
    BY <1>0, <1>3, Products DEF SetListening
  <2> QED BY <1>0, <1>3, <2>1 DEF SetListening
<1>4. CASE \/ Start \/ Bind \/ BindThrows \/ ListenChecks \/ Listen \/ ListenThrows
           \/ StartAll \/ Spawn
  BY <1>4 DEF Start, Bind, BindThrows, ListenChecks, Listen, ListenThrows, StartAll, Spawn
<1>5. CASE SpawnAccept \/ AssignAccept \/ RunReturns \/ Destroy \/ Stopped
             \/ DestroyAcceptThread \/ DestroyPools
  BY <1>5, <1>0 DEF SpawnAccept, AssignAccept, RunReturns, Destroy, Stopped,
              DestroyAcceptThread, DestroyPools
<1>6. CASE UNCHANGED <<mainPc, runs, i, pools>>
  BY <1>6
<1>7. ASSUME NEW c \in Contexts, CallStop(c) \/ Stop(c)
      PROVE  UNCHANGED <<mainPc, runs, i, pools>>
  BY <1>7 DEF CallStop, Stop, StopExchange, StopClose, StopForget, StopUnlisten,
              StopJoinable, StopJoin, StopAll, StopStore, StopJoinPool
<1>8. ASSUME \/ AcceptThread
             \/ \E p \in PoolIds : HandlerCallsStop(p) \/ LoopEnter(p) \/ LoopExit(p)
             \/ Ended
      PROVE  UNCHANGED <<mainPc, runs, i, pools>>
  BY <1>8 DEF AcceptThread, AcceptCheck, AcceptListening, AcceptClient, NoClient, Distribute,
         Ended, HandlerCallsStop, LoopEnter, LoopExit, vars
<1> QED BY <1>1, <1>2, <1>3, <1>4, <1>5, <1>6, <1>7, <1>8 DEF Next, MainThread

\* The mutex: who takes it found it free, so the pools are one thread's.
LEMMA MainPreservesMutex == ASSUME LifeInv, MainThread PROVE MutexOwned'
<1> USE ContextsDistinct
    DEF LifeInv, TypeOK, MutexOwned, InStopAll, MainAt,
        serverVars, poolVars, accVars, mainVars, stopVars
<1>0. pools \in Nat
  BY Products
<1>1. CASE AddPool
  BY <1>0, <1>1 DEF AddPool
<1>2. CASE StartAll
  BY <1>0, <1>2 DEF StartAll
<1>3. CASE Spawn
  BY <1>0, <1>3 DEF Spawn
<1>4. CASE \/ Run \/ Start \/ Bind \/ BindThrows
           \/ ListenChecks \/ Listen \/ SetListening \/ ListenThrows
  BY <1>4 DEF Run, Start, Bind, BindThrows, ListenChecks, Listen, SetListening, ListenThrows
<1>5. CASE SpawnAccept \/ AssignAccept \/ RunReturns \/ Stopped \/ DestroyPools
  BY <1>5 DEF SpawnAccept, AssignAccept, RunReturns, Stopped, DestroyPools
<1>6. CASE Destroy \/ DestroyAcceptThread
  BY <1>6 DEF Destroy, DestroyAcceptThread
<1> QED BY <1>1, <1>2, <1>3, <1>4, <1>5, <1>6 DEF MainThread

LEMMA StopPreservesMutex ==
  ASSUME LifeInv, NEW c \in Contexts, CallStop(c) \/ Stop(c)
  PROVE  MutexOwned'
<1> USE ContextsDistinct
    DEF LifeInv, TypeOK, MutexOwned, InStopAll, StopGoTo,
        serverVars, poolVars, accVars, mainVars
<1>0. pools \in Nat
  BY Products
<1>1. CASE \/ CallStop(c) \/ StopExchange(c)
           \/ StopClose(c) \/ StopForget(c) \/ StopUnlisten(c)
  BY <1>1 DEF CallStop, StopExchange, StopClose, StopForget, StopUnlisten
<1>2. CASE StopJoinable(c) \/ StopJoin(c)
  BY <1>2 DEF StopJoinable, StopJoin
<1>3. CASE StopAll(c)
  BY <1>0, <1>3 DEF StopAll
<1>4. CASE StopStore(c)
  BY <1>0, <1>4 DEF StopStore
<1>5. CASE StopJoinPool(c)
  BY <1>0, <1>5 DEF StopJoinPool
<1> QED BY <1>1, <1>2, <1>3, <1>4, <1>5 DEF Stop

LEMMA ThreadsPreserveMutex ==
  ASSUME LifeInv,
         \/ AcceptThread
         \/ \E p \in PoolIds : HandlerCallsStop(p) \/ LoopEnter(p) \/ LoopExit(p)
  PROVE  MutexOwned'
<1> USE ContextsDistinct
    DEF LifeInv, TypeOK, MutexOwned, InStopAll,
        serverVars, poolVars, accVars, mainVars, stopVars
<1>1. CASE AcceptThread
  BY <1>1 DEF AcceptThread, AcceptCheck, AcceptListening, AcceptClient, NoClient, Distribute
<1>2. ASSUME NEW p \in PoolIds, HandlerCallsStop(p) PROVE MutexOwned'
  BY <1>2 DEF HandlerCallsStop, StopGoTo
<1>3. ASSUME NEW p \in PoolIds, LoopEnter(p) \/ LoopExit(p) PROVE MutexOwned'
  BY <1>3 DEF LoopEnter, LoopExit
<1> QED BY <1>1, <1>2, <1>3

\* The handles: a thread that runs can still be joined.
LEMMA MainPreservesHandles == ASSUME LifeInv, MainThread PROVE HandlesTrue'
<1> USE DEF LifeInv, TypeOK, HandlesTrue, PoolAlive, AcceptAlive, MainAt,
            serverVars, poolVars, accVars, mainVars, stopVars
<1>1. CASE AddPool
  <2>1. pools \in Nat /\ \A p \in PoolIds : p \in Nat
    BY Products DEF PoolIds
  <2>2. pools' \in Nat /\ pools <= pools'
    BY <1>1, <2>1 DEF AddPool
  <2>3. \A p \in PoolIds : p <= pools => p <= pools'
    BY <2>1, <2>2
  <2> QED BY <1>1, <2>3 DEF AddPool
<1>2. CASE Spawn
  BY <1>2 DEF Spawn
<1>3. CASE SpawnAccept \/ AssignAccept
  BY <1>3 DEF SpawnAccept, AssignAccept
<1>4. CASE \/ Run \/ Start \/ Bind \/ BindThrows
           \/ ListenChecks \/ Listen \/ SetListening \/ ListenThrows \/ StartAll
  BY <1>4 DEF Run, Start, Bind, BindThrows, ListenChecks, Listen, SetListening, ListenThrows,
              StartAll
<1>5. CASE RunReturns \/ Destroy \/ Stopped \/ DestroyAcceptThread \/ DestroyPools
  BY <1>5 DEF RunReturns, Destroy, Stopped, DestroyAcceptThread, DestroyPools
<1> QED BY <1>1, <1>2, <1>3, <1>4, <1>5 DEF MainThread

LEMMA StopPreservesHandles ==
  ASSUME LifeInv, NEW c \in Contexts, CallStop(c) \/ Stop(c)
  PROVE  HandlesTrue'
<1> USE DEF LifeInv, TypeOK, HandlesTrue, PoolAlive, AcceptAlive,
            serverVars, poolVars, accVars, mainVars
<1>1. CASE \/ CallStop(c) \/ StopExchange(c)
           \/ StopClose(c) \/ StopForget(c) \/ StopUnlisten(c)
  BY <1>1 DEF CallStop, StopExchange, StopClose, StopForget, StopUnlisten
<1>2. CASE StopJoinable(c) \/ StopJoin(c) \/ StopAll(c) \/ StopStore(c)
  BY <1>2 DEF StopJoinable, StopJoin, StopAll, StopStore
<1>3. CASE StopJoinPool(c)
  BY <1>3 DEF StopJoinPool
<1> QED BY <1>1, <1>2, <1>3 DEF Stop

LEMMA ThreadsPreserveHandles ==
  ASSUME LifeInv,
         \/ AcceptThread
         \/ \E p \in PoolIds : HandlerCallsStop(p) \/ LoopEnter(p) \/ LoopExit(p)
  PROVE  HandlesTrue'
<1> USE DEF LifeInv, TypeOK, HandlesTrue, PoolAlive, AcceptAlive,
            serverVars, poolVars, accVars, mainVars, stopVars
<1>1. CASE AcceptThread
  BY <1>1 DEF AcceptThread, AcceptCheck, AcceptListening, AcceptClient, NoClient, Distribute
<1>2. ASSUME NEW p \in PoolIds, HandlerCallsStop(p) \/ LoopEnter(p) \/ LoopExit(p)
      PROVE  HandlesTrue'
  BY <1>2 DEF HandlerCallsStop, LoopEnter, LoopExit
<1> QED BY <1>1, <1>2

\* The destructors: Main joins one pool after the other, and nobody starts any.
LEMMA MainPreservesDestructors == ASSUME LifeInv, MainThread PROVE DestructorsJoin'
<1> USE ContextsDistinct
    DEF LifeInv, TypeOK, DestructorsJoin, InStopAll, MainAt,
        serverVars, poolVars, accVars, mainVars, stopVars
<1>1. CASE DestroyAcceptThread \/ DestroyPools
  BY <1>1 DEF DestroyAcceptThread, DestroyPools
<1>2. CASE \/ Run \/ Start \/ Bind \/ BindThrows
           \/ ListenChecks \/ Listen \/ SetListening \/ ListenThrows \/ AddPool \/ StartAll
  BY <1>2 DEF Run, Start, Bind, BindThrows, ListenChecks, Listen, SetListening, ListenThrows,
              AddPool, StartAll
<1>3. CASE Spawn \/ SpawnAccept \/ AssignAccept \/ RunReturns \/ Destroy \/ Stopped
  BY <1>3 DEF Spawn, SpawnAccept, AssignAccept, RunReturns, Destroy, Stopped
<1> QED BY <1>1, <1>2, <1>3 DEF MainThread

LEMMA StopPreservesDestructors ==
  ASSUME LifeInv, NEW c \in Contexts, CallStop(c) \/ Stop(c)
  PROVE  DestructorsJoin'
<1> USE ContextsDistinct
    DEF LifeInv, TypeOK, DestructorsJoin, InStopAll, StopGoTo,
        serverVars, poolVars, accVars, mainVars
<1>0. pools \in Nat /\ \A p \in PoolIds : p \in Nat \ {0}
  BY Products DEF PoolIds
<1>1. CASE CallStop(c)
  BY <1>1, LifecycleAssumption DEF CallStop, MayStop, Serving
<1>2. CASE StopExchange(c) \/ StopClose(c) \/ StopForget(c) \/ StopUnlisten(c)
  BY <1>2 DEF StopExchange, StopClose, StopForget, StopUnlisten
<1>3. CASE StopJoinable(c) \/ StopJoin(c)
  BY <1>3 DEF StopJoinable, StopJoin
<1>4. CASE StopAll(c)
  BY <1>0, <1>4 DEF StopAll
<1>5. CASE StopStore(c)
  BY <1>0, <1>5 DEF StopStore, HandlesTrue, MutexOwned
<1>6. CASE StopJoinPool(c)
  <2>1. j[c] \in 1 .. pools
    BY <1>6 DEF StopJoinPool, MutexOwned
  <2>2. j[c] \in PoolIds
    BY <2>1, Turns, Zenon
  <2>3. \A p \in PoolIds : p < j[c] + 1 <=> p < j[c] \/ p = j[c]
    BY <1>0, <2>1
  <2> QED BY <1>6, <2>2, <2>3 DEF StopJoinPool
<1> QED BY <1>1, <1>2, <1>3, <1>4, <1>5, <1>6 DEF Stop

LEMMA ThreadsPreserveDestructors ==
  ASSUME LifeInv,
         \/ AcceptThread
         \/ \E p \in PoolIds : HandlerCallsStop(p) \/ LoopEnter(p) \/ LoopExit(p)
  PROVE  DestructorsJoin'
<1> USE ContextsDistinct
    DEF LifeInv, TypeOK, DestructorsJoin, InStopAll,
        serverVars, poolVars, accVars, mainVars, stopVars
<1>1. CASE AcceptThread
  BY <1>1 DEF AcceptThread, AcceptCheck, AcceptListening, AcceptClient, NoClient, Distribute
<1>2. ASSUME NEW p \in PoolIds, HandlerCallsStop(p) PROVE DestructorsJoin'
  BY <1>2 DEF HandlerCallsStop, StopGoTo
<1>3. ASSUME NEW p \in PoolIds, LoopEnter(p) \/ LoopExit(p) PROVE DestructorsJoin'
  BY <1>3 DEF LoopEnter, LoopExit
<1> QED BY <1>1, <1>2, <1>3

LEMMA NextLifeInv == LifeInv /\ [Next]_vars => LifeInv'
<1> SUFFICES ASSUME LifeInv, [Next]_vars PROVE LifeInv' OBVIOUS
<1>1. CASE UNCHANGED vars
  BY <1>1 DEF LifeInv, TypeOK, PoolsCounted, MutexOwned, HandlesTrue, DestructorsJoin,
              InStopAll, PoolAlive, AcceptAlive,
              vars, serverVars, poolVars, accVars, mainVars, stopVars
<1>2. CASE Next /\ MainThread
  BY <1>2, MainPreservesType, NextPreservesCount, MainPreservesMutex, MainPreservesHandles,
     MainPreservesDestructors DEF LifeInv
<1>3. ASSUME Next, NEW c \in Contexts, CallStop(c) \/ Stop(c) PROVE LifeInv'
  BY <1>3, StopPreservesType, NextPreservesCount, StopPreservesMutex, StopPreservesHandles,
     StopPreservesDestructors DEF LifeInv
<1>4. ASSUME Next,
             \/ AcceptThread
             \/ \E p \in PoolIds : HandlerCallsStop(p) \/ LoopEnter(p) \/ LoopExit(p)
      PROVE  LifeInv'
  BY <1>4, ThreadsPreserveType, NextPreservesCount, ThreadsPreserveMutex,
     ThreadsPreserveHandles, ThreadsPreserveDestructors DEF LifeInv
<1> QED BY <1>1, <1>2, <1>3, <1>4 DEF Next, Ended

LEMMA LifeInvHolds == Spec => []LifeInv
BY InitLifeInv, NextLifeInv, PTL DEF Spec

-----------------------------------------------------------------------------
\* The types, and with them that pools, i and j never leave the vector of pools.
THEOREM TypeCorrect == Spec => []TypeOK
<1>1. LifeInv => TypeOK
  BY DEF LifeInv
<1> QED BY <1>1, LifeInvHolds, PTL

\* After the destructors nothing of the server runs any more, whenever and by
\* whomever stop was called and however many runs there were.
THEOREM DestroyedIsQuiet == Spec => []GoneIsQuiet
<1>1. LifeInv => GoneIsQuiet
  BY DEF LifeInv, HandlesTrue, DestructorsJoin, GoneIsQuiet, Quiet
<1> QED BY <1>1, LifeInvHolds, PTL

-----------------------------------------------------------------------------
LEMMA InitOneWinner == Init => OneWinner
BY DEF Init, OneWinner, InStop, Stopping, NotStarted

\* _running is exchanged, so it tells one caller of stop from all others; with
\* one run nobody sets it again.
LEMMA NextOneWinner ==
  ASSUME MaxRuns <= 1
  PROVE  LifeInv /\ OneWinner /\ [Next]_vars => OneWinner'
<1> SUFFICES ASSUME LifeInv, OneWinner, [Next]_vars PROVE OneWinner' OBVIOUS
<1> USE ContextsDistinct, LifecycleAssumption
    DEF LifeInv, TypeOK, OneWinner, InStop, Stopping, NotStarted,
        serverVars, poolVars, accVars, mainVars, stopVars
<1>1. CASE UNCHANGED vars
  BY <1>1 DEF vars
<1>2. CASE \/ Run \/ Start \/ Bind \/ BindThrows
           \/ ListenChecks \/ Listen \/ SetListening \/ ListenThrows \/ AddPool \/ StartAll
  BY <1>2 DEF Run, Start, Bind, BindThrows, ListenChecks, Listen, SetListening, ListenThrows,
              AddPool, StartAll, MainAt,
              PoolsCounted
<1>3. CASE Spawn \/ SpawnAccept \/ AssignAccept \/ RunReturns
  BY <1>3 DEF Spawn, SpawnAccept, AssignAccept, RunReturns, MainAt, PoolsCounted
<1>4. CASE Destroy \/ Stopped \/ DestroyAcceptThread \/ DestroyPools
  BY <1>4 DEF Destroy, Stopped, DestroyAcceptThread, DestroyPools, MainAt, StopPcs,
              PoolsCounted
<1>5. ASSUME NEW c \in Contexts, CallStop(c) PROVE OneWinner'
  BY <1>5 DEF CallStop, StopGoTo, StopPcs
<1>6. ASSUME NEW c \in Contexts, StopExchange(c) PROVE OneWinner'
  BY <1>6 DEF StopExchange, StopGoTo, StopPcs, DestructorsJoin
<1>7. ASSUME NEW c \in Contexts,
             \/ StopClose(c) \/ StopForget(c) \/ StopUnlisten(c)
             \/ StopJoinable(c) \/ StopJoin(c)
      PROVE  OneWinner'
  BY <1>7 DEF StopClose, StopForget, StopUnlisten, StopJoinable, StopJoin, StopGoTo, StopPcs
<1>8. ASSUME NEW c \in Contexts, StopAll(c) \/ StopStore(c) \/ StopJoinPool(c)
      PROVE  OneWinner'
  BY <1>8 DEF StopAll, StopStore, StopJoinPool, StopGoTo, StopPcs
<1>9. ASSUME NEW p \in PoolIds, HandlerCallsStop(p) PROVE OneWinner'
  BY <1>9 DEF HandlerCallsStop, StopGoTo, StopPcs
<1>10. CASE AcceptThread \/ \E p \in PoolIds : LoopEnter(p) \/ LoopExit(p)
  BY <1>10 DEF AcceptThread, AcceptCheck, AcceptListening, AcceptClient, NoClient,
               Distribute, LoopEnter, LoopExit
<1> QED BY <1>1, <1>2, <1>3, <1>4, <1>5, <1>6, <1>7, <1>8, <1>9, <1>10
        DEF Next, Ended, MainThread, Stop

\* In a program that runs its server once, however many threads, signals and
\* handlers call stop: one of them shuts the server down, and whoever goes
\* through the pools owns the mutex.
THEOREM OneStopAtATime == ASSUME MaxRuns <= 1 PROVE Spec => []OneStop
<1>1. LifeInv /\ OneWinner => OneStop
  BY DEF LifeInv, MutexOwned, InStopAll, OneWinner, OneStop
<1>2. LifeInv /\ OneWinner /\ [Next]_vars => OneWinner'
  BY NextOneWinner
<1> QED BY <1>1, <1>2, InitOneWinner, LifeInvHolds, PTL DEF Spec

-----------------------------------------------------------------------------
(***************************************************************************)
(* The program of the example: only a signal on the main thread stops the  *)
(* server, and it comes once the pools' loops run.  Then runs, failing     *)
(* starts and stops follow each other, and nothing is left behind.         *)
(***************************************************************************)
SignalStops ==
  /\ Callers \subseteq {Main}
  /\ ~ HandlerStops
  /\ StopWhen = "looping"

\* What becomes of a pool.
Down(p)    == ~ poolJoinable[p] /\ ~ loopRunning[p] /\ loopPc[p] \in {"none", "exited"}
Fresh(p)   == poolJoinable[p] /\ ~ loopRunning[p] /\ loopPc[p] = "enter"
Up(p)      == poolJoinable[p] /\ loopRunning[p] /\ loopPc[p] = "loop"
Halting(p) == poolJoinable[p] /\ ~ loopRunning[p] /\ loopPc[p] \in {"loop", "exited"}

PoolsUp    == \A p \in 1 .. pools : Up(p) \/ Fresh(p)
AllDown    == ~ accJoinable /\ \A p \in PoolIds : Down(p)
AllUp      == accJoinable /\ PoolsUp

\* Nobody but main ever stops the server, and only while it waits or destroys;
\* a pool changes from Up to Down while it is being joined.
OneAtATime ==
  /\ \A c \in Contexts : c # Main => stopPc[c] = "idle"
  /\ stopPc[Main] # "idle" => mainPc \in {"wait", "stop", "~poolManager"}
  /\ \A p \in PoolIds : Down(p) \/ Fresh(p) \/ Up(p) \/ Halting(p)
  /\ \A p \in PoolIds : Fresh(p) =>
       stopPc[Main] = "idle" /\ mainPc \in {"spawn", "spawnAccept", "assignAccept", "wait"}
  /\ \A p \in PoolIds : Halting(p) => stopPc[Main] = "joinPool" /\ j[Main] = p
  /\ accJoinable \/ AcceptAlive => PoolsUp

\* main starts from nothing ...
StartsFromNothing ==
  /\ mainPc \in {"ready", "start", "bind", "listen", "::listen", "listening", "add_pool",
                 "start_all", "stop", "~accept_thread", "~poolManager", "gone"} => AllDown
  /\ mainPc = "spawn" =>
       /\ ~ accJoinable
       /\ \A p \in PoolIds : IF p < i THEN Up(p) \/ Fresh(p) ELSE Down(p)
  /\ mainPc \in {"spawnAccept", "assignAccept"} => ~ accJoinable /\ PoolsUp
  /\ mainPc \in {"bind", "listen", "::listen", "listening", "add_pool", "start_all",
                 "spawn", "spawnAccept", "assignAccept"} => running
  /\ mainPc # "terminated"

\* ... and while it waits, stop takes everything down again.
StopTakesDown ==
  mainPc = "wait" =>
    /\ stopPc[Main] \in {"idle", "exchange"} => AllDown \/ (running /\ AllUp)
    /\ stopPc[Main] \in {"close", "forget", "unlisten", "joinable"} => AllDown \/ AllUp
    /\ stopPc[Main] = "join" => AllUp
    /\ stopPc[Main] \in {"stop_all", "store", "joinPool"} => ~ accJoinable
    /\ InStopAll(Main) => \A p \in PoolIds : p < j[Main] => Down(p)
    /\ stopPc[Main] = "joinPool" => ~ loopRunning[j[Main]]

SequenceInv == OneAtATime /\ StartsFromNothing /\ StopTakesDown

LEMMA PoolsAreIds ==
  ASSUME TypeOK
  PROVE  /\ pools \in Nat /\ 1 .. pools \subseteq PoolIds
         /\ \A p \in PoolIds : p \in Nat \ {0}
<1>1. \A all \in Nat : \A q \in 0 .. all :
        q \in Nat /\ (\A p \in 1 .. all : p \in Nat \ {0}) /\ 1 .. q \subseteq 1 .. all
  OBVIOUS
<1>2. pools \in 0 .. NumThreads * MaxRuns
  BY DEF TypeOK
<1> QED BY <1>1, <1>2, Products, Zenon DEF PoolIds

LEMMA InitSequence == Init => SequenceInv
BY ContextsDistinct DEF Init, SequenceInv, OneAtATime, StartsFromNothing,
       StopTakesDown, Down, Fresh, Halting, AllDown, AcceptAlive, InStopAll

LEMMA MainPreservesSequence ==
  ASSUME SignalStops, LifeInv, SequenceInv, MainThread
  PROVE  SequenceInv'
<1> USE ContextsDistinct
    DEF SignalStops, LifeInv, TypeOK, HandlesTrue, SequenceInv, OneAtATime,
        StartsFromNothing, StopTakesDown, Down, Fresh, Up, Halting, PoolsUp, AllDown,
        AllUp, AcceptAlive, InStopAll, MainAt, serverVars, poolVars, accVars, mainVars, stopVars
<1>0. /\ pools \in Nat /\ 1 .. pools \subseteq PoolIds
      /\ \A p \in PoolIds : p \in Nat \ {0}
  BY PoolsAreIds DEF LifeInv
<1>1. CASE \/ Run \/ Start \/ Bind \/ BindThrows
           \/ ListenChecks \/ Listen \/ SetListening \/ ListenThrows
  BY <1>1 DEF Run, Start, Bind, BindThrows, ListenChecks, Listen, SetListening, ListenThrows
<1>2. CASE AddPool
  BY <1>2 DEF AddPool
<1>3. CASE StartAll
  BY <1>0, <1>3 DEF StartAll
<1>4. CASE Spawn
  BY <1>0, <1>4 DEF Spawn, MutexOwned
<1>5. CASE SpawnAccept \/ AssignAccept
  BY <1>5 DEF SpawnAccept, AssignAccept
<1>6. CASE RunReturns \/ Stopped \/ DestroyPools
  BY <1>6 DEF RunReturns, Stopped, DestroyPools
<1>7. CASE Destroy \/ DestroyAcceptThread
  BY <1>7 DEF Destroy, DestroyAcceptThread
<1> QED BY <1>1, <1>2, <1>3, <1>4, <1>5, <1>6, <1>7 DEF MainThread

LEMMA StopPreservesSequence ==
  ASSUME SignalStops, LifeInv, SequenceInv, NEW c \in Contexts, CallStop(c) \/ Stop(c)
  PROVE  SequenceInv'
<1> USE ContextsDistinct
    DEF SignalStops, LifeInv, TypeOK, HandlesTrue, SequenceInv, OneAtATime,
        StartsFromNothing, StopTakesDown, Down, Fresh, Up, Halting, PoolsUp, AllDown,
        AllUp, AcceptAlive, InStopAll, StopGoTo, serverVars, poolVars, accVars, mainVars, stopVars
<1>0. /\ pools \in Nat /\ 1 .. pools \subseteq PoolIds
      /\ \A p \in PoolIds : p \in Nat \ {0}
  BY PoolsAreIds DEF LifeInv
<1>1. CASE CallStop(c)
  BY <1>0, <1>1 DEF CallStop, MayStop
<1>2. CASE StopExchange(c)
  BY <1>2 DEF StopExchange
<1>3. CASE StopClose(c) \/ StopForget(c) \/ StopUnlisten(c)
  BY <1>3 DEF StopClose, StopForget, StopUnlisten
<1>4. CASE StopJoinable(c)
  BY <1>4 DEF StopJoinable
<1>5. CASE StopJoin(c)
  BY <1>5 DEF StopJoin
<1>6. CASE StopAll(c)
  BY <1>0, <1>6 DEF StopAll
<1>7. CASE StopStore(c)
  BY <1>0, <1>7 DEF StopStore, MutexOwned
<1>8. CASE StopJoinPool(c)
  BY <1>0, <1>8 DEF StopJoinPool, MutexOwned
<1> QED BY <1>1, <1>2, <1>3, <1>4, <1>5, <1>6, <1>7, <1>8 DEF Stop

LEMMA ThreadsPreserveSequence ==
  ASSUME SignalStops, LifeInv, SequenceInv,
         \/ AcceptThread
         \/ \E p \in PoolIds : HandlerCallsStop(p) \/ LoopEnter(p) \/ LoopExit(p)
  PROVE  SequenceInv'
<1> USE ContextsDistinct
    DEF SignalStops, LifeInv, TypeOK, HandlesTrue, SequenceInv, OneAtATime,
        StartsFromNothing, StopTakesDown, Down, Fresh, Up, Halting, PoolsUp, AllDown,
        AllUp, AcceptAlive, InStopAll, serverVars, poolVars, accVars, mainVars, stopVars
<1>0. /\ pools \in Nat /\ 1 .. pools \subseteq PoolIds
      /\ \A p \in PoolIds : p \in Nat \ {0}
  BY PoolsAreIds DEF LifeInv
<1>1. CASE AcceptThread
  BY <1>1 DEF AcceptThread, AcceptCheck, AcceptListening, AcceptClient, NoClient, Distribute
<1>2. ASSUME NEW p \in PoolIds, HandlerCallsStop(p) PROVE FALSE
  BY <1>2 DEF HandlerCallsStop
<1>3. ASSUME NEW p \in PoolIds, LoopEnter(p) PROVE SequenceInv'
  BY <1>0, <1>3 DEF LoopEnter
<1>4. ASSUME NEW p \in PoolIds, LoopExit(p) PROVE SequenceInv'
  BY <1>0, <1>4 DEF LoopExit
<1> QED BY <1>1, <1>2, <1>3, <1>4

LEMMA SequenceInvHolds == ASSUME SignalStops PROVE Spec => [](LifeInv /\ SequenceInv)
<1>1. LifeInv /\ SequenceInv /\ [Next]_vars => SequenceInv'
  <2> SUFFICES ASSUME LifeInv, SequenceInv, [Next]_vars PROVE SequenceInv' OBVIOUS
  <2>1. CASE UNCHANGED vars
    BY <2>1 DEF SequenceInv, OneAtATime, StartsFromNothing,
        StopTakesDown, Down, Fresh, Up, Halting, PoolsUp, AllDown, AllUp, AcceptAlive,
        InStopAll, vars, serverVars, poolVars, accVars, mainVars, stopVars
  <2> QED BY <2>1, MainPreservesSequence, StopPreservesSequence, ThreadsPreserveSequence
          DEF Next, Ended
<1> QED BY <1>1, InitSequence, LifeInvHolds, PTL DEF Spec

\* Through any number of runs, with starts that fail in between, no joinable
\* std::thread is destroyed or overwritten.
THEOREM NothingTerminates == ASSUME SignalStops PROVE Spec => []NoTerminate
<1>1. SequenceInv => NoTerminate
  BY DEF SequenceInv, StartsFromNothing, NoTerminate
<1> QED BY <1>1, SequenceInvHolds, PTL

\* Server::stop leaves no thread behind.
THEOREM StopIsComplete == ASSUME SignalStops PROVE Spec => []StopShutsDown
<1>1. LifeInv /\ SequenceInv => StopShutsDown
  <2>1. LifeInv => pools \in Nat /\ 1 .. pools \subseteq PoolIds
    BY PoolsAreIds DEF LifeInv
  <2> QED
    BY <2>1, ContextsDistinct
    DEF LifeInv, TypeOK, MainPcs, HandlesTrue, SequenceInv, OneAtATime,
        StartsFromNothing, StopTakesDown, AllDown, Down, StopShutsDown, Starting,
        Stopping, Quiet, AcceptAlive, PoolAlive
<1> QED BY <1>1, SequenceInvHolds, PTL

\* A connection that was accepted is never given to a pool whose thread has ended.
THEOREM AcceptedIsServed == ASSUME SignalStops PROVE Spec => []PoolsOutliveAccept
<1>1. SequenceInv => PoolsOutliveAccept
  BY DEF SequenceInv, OneAtATime, PoolsUp, Up, Fresh, PoolsOutliveAccept, PoolAlive,
         AcceptAlive
<1> QED BY <1>1, SequenceInvHolds, PTL
================================================================================
