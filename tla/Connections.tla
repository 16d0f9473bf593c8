------------------------------ MODULE Connections ------------------------------
(***************************************************************************)
(* Who owns a client descriptor, from ::accept to ::close.                 *)
(*                                                                         *)
(* The accept thread (Server::accept_loop) takes a connection from the     *)
(* listener, chooses a pool round-robin and hands the descriptor over: it  *)
(* stores a Client in the pool's ConnectionPool and registers the          *)
(* descriptor with the pool's epoll instance.  Each pool's thread          *)
(* (EventLoop::run) fetches a batch of events and runs                     *)
(* Pool::handle_client_event for each of them, which reads, answers,       *)
(* deregisters and destroys the Client; ~Client closes the descriptor, and *)
(* from then on the kernel may give the same number to the next            *)
(* connection, or to any other part of the process.                        *)
(*                                                                         *)
(* Abstracted: the bytes of requests and responses (an event's outcome is  *)
(* chosen freely, module RequestStream has the bytes), the start and the   *)
(* end of the threads (module Lifecycle), and empty polls.                 *)
(***************************************************************************)
EXTENDS Naturals, FiniteSets

CONSTANTS
  Fds,          \* descriptor numbers the kernel may hand out
  Conns,        \* the TCP connections made by peers; each is accepted at most once
  NumPools,     \* numThreads of Server::start: one Pool per I/O thread
  MaxEvents,    \* size of the event array of Poller::poll
  AddFdMayFail, \* may epoll_ctl(EPOLL_CTL_ADD) fail for lack of resources?
  None,         \* no connection, no Client, no descriptor
  Other         \* a descriptor owned by the rest of the process (syslog, handlers)

ASSUME ConstantsAssumption ==
  /\ NumPools \in Nat
  /\ MaxEvents \in Nat \ {0}
  /\ AddFdMayFail \in BOOLEAN
  /\ None \notin Fds \cup Conns
  /\ Other \notin Conns \cup {None}

Pools == 0 .. (NumPools - 1)

Kinds == {"READ", "HANGUP"}

VARIABLES
  sock,      \* kernel: what each descriptor number denotes
  interest,  \* kernel: the descriptors each pool's epoll instance monitors
  fresh,     \* connections no ::accept has returned yet
  clients,   \* ConnectionPool::_clients of each pool, as descriptor -> its Client;
             \*   a Client is named by the connection it was made for
  locked,    \* ConnectionPool::_mutex of each pool is held by the pool's thread
  nextPool,  \* PoolManager::_nextPoolIndex
  accPc, accFd, accConn, accPool,       \* the accept thread
  loopPc, batch, evFd, evConn, client   \* each pool's thread

kernelVars == <<sock, interest>>
acceptVars == <<fresh, nextPool, accPc, accFd, accConn, accPool>>
loopVars   == <<loopPc, batch, evFd, evConn, client>>
vars == <<kernelVars, acceptVars, clients, locked, loopVars>>

AcceptPcs == {"accept", "get_pool", "addClient", "addFD", "catch"}
LoopPcs   == {"poll", "dispatch", "read", "respond", "removeFD", "erase", "close"}

TypeOK ==
  /\ sock \in [Fds -> Conns \cup {None, Other}]
  /\ interest \in [Pools -> SUBSET Fds]
  /\ fresh \in SUBSET Conns
  /\ clients \in [Pools -> [Fds -> Conns \cup {None}]]
  /\ locked \in [Pools -> BOOLEAN]
  /\ nextPool \in Nat
  /\ NumPools > 0 => nextPool \in Pools
  /\ accPc \in AcceptPcs
  /\ accFd \in Fds \cup {None}
  /\ accConn \in Conns \cup {None}
  /\ accPool \in Pools \cup {None}
  /\ accPc # "accept" => accFd \in Fds /\ accConn \in Conns
  /\ accPc \in {"addClient", "addFD"} => accPool \in Pools
  /\ loopPc \in [Pools -> LoopPcs]
  /\ batch \in [Pools -> SUBSET (Fds \X Kinds \X (Conns \cup {None, Other}))]
  /\ evFd \in [Pools -> Fds \cup {None}]
  /\ evConn \in [Pools -> Conns \cup {None, Other}]
  /\ client \in [Pools -> Conns \cup {None}]

Init ==
  /\ sock = [fd \in Fds |-> None]
  /\ interest = [p \in Pools |-> {}]
  /\ fresh = Conns
  /\ clients = [p \in Pools |-> [fd \in Fds |-> None]]
  /\ locked = [p \in Pools |-> FALSE]
  /\ nextPool = 0
  /\ accPc = "accept"
  /\ accFd = None
  /\ accConn = None
  /\ accPool = None
  /\ loopPc = [p \in Pools |-> "poll"]
  /\ batch = [p \in Pools |-> {}]
  /\ evFd = [p \in Pools |-> None]
  /\ evConn = [p \in Pools |-> None]
  /\ client = [p \in Pools |-> None]

(***************************************************************************)
(* The kernel's side of ::close: the number is free again and every epoll  *)
(* instance forgets it.  Closing a number that is not open is EBADF and    *)
(* changes nothing, which the same two equations say.                      *)
(***************************************************************************)
CloseFd(fd) ==
  /\ sock' = [sock EXCEPT ![fd] = None]
  /\ interest' = [p \in Pools |-> interest[p] \ {fd}]

-----------------------------------------------------------------------------
(***************************************************************************)
(* The accept thread.                                                      *)
(***************************************************************************)

\* Listener::acceptClient succeeds; a failed or empty accept only sleeps.
Accept ==
  /\ accPc = "accept"
  /\ \E c \in fresh, fd \in Fds :
       /\ sock[fd] = None
       /\ sock' = [sock EXCEPT ![fd] = c]
       /\ fresh' = fresh \ {c}
       /\ accFd' = fd
       /\ accConn' = c
  /\ accPc' = "get_pool"
  /\ UNCHANGED <<interest, nextPool, accPool, clients, locked, loopVars>>

\* Mutant of GetPool: the index is not wrapped.
GetPoolNoWrap ==
  /\ accPc = "get_pool"
  /\ accPc' = "addClient"
  /\ accPool' = nextPool
  /\ nextPool' = nextPool + 1
  /\ UNCHANGED <<kernelVars, fresh, accFd, accConn, clients, locked, loopVars>>

\* PoolManager::get_pool: round-robin under the manager's mutex.  Without a
\* pool distribute_client throws, and accept_loop catches.
GetPool ==
  /\ accPc = "get_pool"
  /\ IF NumPools = 0
     THEN /\ accPc' = "catch"
          /\ UNCHANGED <<accPool, nextPool>>
     ELSE /\ accPc' = "addClient"
          /\ accPool' = nextPool
          /\ nextPool' = (nextPool + 1) % NumPools
  /\ UNCHANGED <<kernelVars, fresh, accFd, accConn, clients, locked, loopVars>>

\* Mutant of AddClient: a slot that holds a Client keeps it (emplace).
AddClientKeepsOld ==
  /\ accPc = "addClient"
  /\ ~ locked[accPool]
  /\ clients' = [clients EXCEPT ![accPool][accFd] = IF @ = None THEN accConn ELSE @]
  /\ accPc' = "addFD"
  /\ UNCHANGED <<kernelVars, fresh, nextPool, accFd, accConn, accPool, locked, loopVars>>

\* ConnectionPool::addClient.  Assigning to a slot that holds a Client
\* destroys that Client, whose destructor closes the descriptor of the slot.
AddClient ==
  /\ accPc = "addClient"
  /\ ~ locked[accPool]
  /\ clients' = [clients EXCEPT ![accPool][accFd] = accConn]
  /\ IF clients[accPool][accFd] = None
     THEN UNCHANGED kernelVars
     ELSE CloseFd(accFd)
  /\ accPc' = "addFD"
  /\ UNCHANGED <<fresh, nextPool, accFd, accConn, accPool, locked, loopVars>>

Registrable(p, fd) == sock[fd] # None /\ fd \notin interest[p]

\* Mutant of AddFD: the result of epoll_ctl is tested the wrong way round.
AddFDCatches ==
  /\ accPc = "addFD"
  /\ Registrable(accPool, accFd)
  /\ interest' = [interest EXCEPT ![accPool] = @ \cup {accFd}]
  /\ accPc' = "catch"
  /\ UNCHANGED <<sock, fresh, nextPool, accFd, accConn, accPool,
                 clients, locked, loopVars>>

\* Poller::addFD succeeds: the descriptor has been handed over.
AddFD ==
  /\ accPc = "addFD"
  /\ Registrable(accPool, accFd)
  /\ interest' = [interest EXCEPT ![accPool] = @ \cup {accFd}]
  /\ accPc' = "accept"
  /\ accFd' = None
  /\ accConn' = None
  /\ accPool' = None
  /\ UNCHANGED <<sock, fresh, nextPool, clients, locked, loopVars>>

\* Poller::addFD throws: EBADF, EEXIST or, if AddFdMayFail, ENOMEM or ENOSPC.
AddFDThrows ==
  /\ accPc = "addFD"
  /\ AddFdMayFail \/ ~ Registrable(accPool, accFd)
  /\ accPc' = "catch"
  /\ UNCHANGED <<kernelVars, fresh, nextPool, accFd, accConn, accPool,
                 clients, locked, loopVars>>

\* The catch block of accept_loop closes the descriptor it was distributing.
CatchClose ==
  /\ accPc = "catch"
  /\ CloseFd(accFd)
  /\ accPc' = "accept"
  /\ accFd' = None
  /\ accConn' = None
  /\ accPool' = None
  /\ UNCHANGED <<fresh, nextPool, clients, locked, loopVars>>

AcceptThread ==
  Accept \/ GetPool \/ AddClient \/ AddFD \/ AddFDThrows \/ CatchClose

-----------------------------------------------------------------------------
(***************************************************************************)
(* A pool's thread.                                                        *)
(***************************************************************************)

\* Mutant of EventDone: one event, then poll again.
EventDonePolls(p) ==
  /\ loopPc' = [loopPc EXCEPT ![p] = "poll"]
  /\ evFd' = [evFd EXCEPT ![p] = None]
  /\ evConn' = [evConn EXCEPT ![p] = None]
  /\ client' = [client EXCEPT ![p] = None]

\* The thread leaves handle_client_event: next event of the batch, or poll.
EventDone(p) ==
  /\ loopPc' = [loopPc EXCEPT ![p] = IF batch[p] = {} THEN "poll" ELSE "dispatch"]
  /\ evFd' = [evFd EXCEPT ![p] = None]
  /\ evConn' = [evConn EXCEPT ![p] = None]
  /\ client' = [client EXCEPT ![p] = None]

GoTo(p, pc) ==
  /\ loopPc' = [loopPc EXCEPT ![p] = pc]
  /\ UNCHANGED <<evFd, evConn, client>>

\* Poller::poll returns at most MaxEvents events, one per ready descriptor.
\* The third component records which connection the event is about.
Poll(p) ==
  /\ loopPc[p] = "poll"
  /\ \E ready \in SUBSET interest[p] : \E kind \in [ready -> Kinds] :
       /\ ready # {}
       /\ Cardinality(ready) <= MaxEvents
       /\ batch' = [batch EXCEPT ![p] = {<<fd, kind[fd], sock[fd]>> : fd \in ready}]
  /\ loopPc' = [loopPc EXCEPT ![p] = "dispatch"]
  /\ UNCHANGED <<kernelVars, acceptVars, clients, locked, evFd, evConn, client>>

\* Mutant of Dispatch: an event stays in the batch when it has been taken.
DispatchKeepsEvent(p) ==
  /\ loopPc[p] = "dispatch"
  /\ \E e \in batch[p] :
       /\ clients[p][e[1]] # None
       /\ loopPc' = [loopPc EXCEPT ![p] = IF e[2] = "HANGUP" THEN "removeFD" ELSE "read"]
       /\ evFd' = [evFd EXCEPT ![p] = e[1]]
       /\ evConn' = [evConn EXCEPT ![p] = e[3]]
       /\ client' = [client EXCEPT ![p] = clients[p][e[1]]]
  /\ UNCHANGED <<kernelVars, acceptVars, clients, locked, batch>>

\* handle_client_event looks the Client up; an event without one is dropped,
\* ERROR or HANGUP goes straight to the removal.
Dispatch(p) ==
  /\ loopPc[p] = "dispatch"
  /\ \E e \in batch[p] :
       /\ batch' = [batch EXCEPT ![p] = @ \ {e}]
       /\ IF clients[p][e[1]] = None
          THEN /\ loopPc' = [loopPc EXCEPT ![p] =
                               IF batch[p] = {e} THEN "poll" ELSE "dispatch"]
               /\ UNCHANGED <<evFd, evConn, client>>
          ELSE /\ loopPc' = [loopPc EXCEPT ![p] =
                               IF e[2] = "HANGUP" THEN "removeFD" ELSE "read"]
               /\ evFd' = [evFd EXCEPT ![p] = e[1]]
               /\ evConn' = [evConn EXCEPT ![p] = e[3]]
               /\ client' = [client EXCEPT ![p] = clients[p][e[1]]]
  /\ UNCHANGED <<kernelVars, acceptVars, clients, locked>>

\* Client::readRequest returned <= 0: the connection is removed.
ReadEnds(p) ==
  /\ loopPc[p] = "read"
  /\ GoTo(p, "removeFD")
  /\ UNCHANGED <<kernelVars, acceptVars, clients, locked, batch>>

\* Data, but is_request_ready is false: wait for another event.
ReadIncomplete(p) ==
  /\ loopPc[p] = "read"
  /\ EventDone(p)
  /\ UNCHANGED <<kernelVars, acceptVars, clients, locked, batch>>

\* The request is complete.
ReadComplete(p) ==
  /\ loopPc[p] = "read"
  /\ GoTo(p, "respond")
  /\ UNCHANGED <<kernelVars, acceptVars, clients, locked, batch>>

\* process_request and writeResponse; whether the write failed or not, the
\* connection is removed next.
Respond(p) ==
  /\ loopPc[p] = "respond"
  /\ GoTo(p, "removeFD")
  /\ UNCHANGED <<kernelVars, acceptVars, clients, locked, batch>>

\* Mutant of RemoveFD: the descriptor stays registered.
RemoveFDSkipped(p) ==
  /\ loopPc[p] = "removeFD"
  /\ GoTo(p, "erase")
  /\ UNCHANGED <<kernelVars, acceptVars, clients, locked, batch>>

\* Mutant of RemoveFD: the rest of the batch is dropped when a connection ends.
RemoveFDDropsBatch(p) ==
  /\ loopPc[p] = "removeFD"
  /\ interest' = [interest EXCEPT ![p] = @ \ {evFd[p]}]
  /\ GoTo(p, "erase")
  /\ batch' = [batch EXCEPT ![p] = {}]
  /\ UNCHANGED <<sock, acceptVars, clients, locked>>

\* Poller::removeFD.  Where epoll_ctl fails it throws, EventLoop::run catches,
\* and what is left of the batch is lost.
RemoveFD(p) ==
  /\ loopPc[p] = "removeFD"
  /\ IF evFd[p] \in interest[p]
     THEN /\ interest' = [interest EXCEPT ![p] = @ \ {evFd[p]}]
          /\ GoTo(p, "erase")
          /\ UNCHANGED batch
     ELSE /\ batch' = [batch EXCEPT ![p] = {}]
          /\ loopPc' = [loopPc EXCEPT ![p] = "poll"]
          /\ evFd' = [evFd EXCEPT ![p] = None]
          /\ evConn' = [evConn EXCEPT ![p] = None]
          /\ client' = [client EXCEPT ![p] = None]
          /\ UNCHANGED interest
  /\ UNCHANGED <<sock, acceptVars, clients, locked>>

\* Mutant of EraseClient: the descriptor is closed before ~Client closes it.
EraseClosesToo(p) ==
  /\ loopPc[p] = "erase"
  /\ locked' = [locked EXCEPT ![p] = TRUE]
  /\ clients' = [clients EXCEPT ![p][evFd[p]] = None]
  /\ CloseFd(evFd[p])
  /\ GoTo(p, "close")
  /\ UNCHANGED <<acceptVars, batch>>

\* Mutant of EraseClient: the node stays in the map while the descriptor is closed.
EraseKeepsClient(p) ==
  /\ loopPc[p] = "erase"
  /\ locked' = [locked EXCEPT ![p] = TRUE]
  /\ GoTo(p, "close")
  /\ UNCHANGED <<kernelVars, acceptVars, clients, batch>>

\* ConnectionPool::removeClient, first half: lock, unlink the map's node.
EraseClient(p) ==
  /\ loopPc[p] = "erase"
  /\ locked' = [locked EXCEPT ![p] = TRUE]
  /\ clients' = [clients EXCEPT ![p][evFd[p]] = None]
  /\ GoTo(p, "close")
  /\ UNCHANGED <<kernelVars, acceptVars, batch>>

\* Mutant of CloseClient: ~Client leaves the descriptor open.
CloseLeaks(p) ==
  /\ loopPc[p] = "close"
  /\ locked' = [locked EXCEPT ![p] = FALSE]
  /\ EventDone(p)
  /\ UNCHANGED <<kernelVars, acceptVars, clients, batch>>

\* Mutant of CloseClient: the mutex is not released.
CloseKeepsLock(p) ==
  /\ loopPc[p] = "close"
  /\ CloseFd(evFd[p])
  /\ EventDone(p)
  /\ UNCHANGED <<acceptVars, clients, locked, batch>>

\* Second half: ~Client closes the descriptor, then the mutex is released.
CloseClient(p) ==
  /\ loopPc[p] = "close"
  /\ CloseFd(evFd[p])
  /\ locked' = [locked EXCEPT ![p] = FALSE]
  /\ EventDone(p)
  /\ UNCHANGED <<acceptVars, clients, batch>>

PoolThread(p) ==
  \/ Poll(p)
  \/ Dispatch(p)
  \/ ReadEnds(p)
  \/ ReadIncomplete(p)
  \/ ReadComplete(p)
  \/ Respond(p)
  \/ RemoveFD(p)
  \/ EraseClient(p)
  \/ CloseClient(p)

-----------------------------------------------------------------------------
(***************************************************************************)
(* The rest of the process opens and closes descriptors of its own:        *)
(* ::syslog keeps a socket, handlers may open files.                       *)
(***************************************************************************)
OpenOther(fd) ==
  /\ sock[fd] = None
  /\ sock' = [sock EXCEPT ![fd] = Other]
  /\ UNCHANGED <<interest, acceptVars, clients, locked, loopVars>>

CloseOther(fd) ==
  /\ sock[fd] = Other
  /\ CloseFd(fd)
  /\ UNCHANGED <<acceptVars, clients, locked, loopVars>>

Next ==
  \/ AcceptThread
  \/ \E p \in Pools : PoolThread(p)
  \/ \E fd \in Fds : OpenOther(fd) \/ CloseOther(fd)

Spec == Init /\ [][Next]_vars

\* What the scheduler owes: a thread that is not waiting for a peer goes on.
\* A connection need not arrive (Accept) and an event need not occur (Poll).
Distribute == GetPool \/ AddClient \/ AddFD \/ AddFDThrows \/ CatchClose

HandleEvent(p) ==
  \/ Dispatch(p)
  \/ ReadEnds(p)
  \/ ReadIncomplete(p)
  \/ ReadComplete(p)
  \/ Respond(p)
  \/ RemoveFD(p)
  \/ EraseClient(p)
  \/ CloseClient(p)

FairSpec ==
  /\ Spec
  /\ WF_vars(Distribute)
  /\ \A p \in Pools : WF_vars(HandleEvent(p))

-----------------------------------------------------------------------------
(***************************************************************************)
(* Properties.                                                             *)
(***************************************************************************)

\* A thread's raw Client* stays valid: the pointer handle_client_event took
\* from getClient, which releases the map's mutex before returning it, is not
\* destroyed by the accept thread's addClient while it is still in use.
ClientPointerValid ==
  \A p \in Pools :
    loopPc[p] \in {"read", "respond", "removeFD", "erase"} =>
      clients[p][evFd[p]] = client[p]

\* recv and send on a descriptor number reach the connection the Client was
\* made for and the event was about, never a later owner of the number.
OwnSocketIO ==
  \A p \in Pools :
    loopPc[p] \in {"read", "respond"} =>
      sock[evFd[p]] = client[p] /\ evConn[p] = client[p]

\* Some thread is still about to close, or to register, this connection.
BeingHandled(c) ==
  \/ accConn = c
  \/ \E p \in Pools : client[p] = c /\ loopPc[p] \in {"erase", "close"}

\* No open connection is forgotten: either a thread is on its way to it, or a
\* pool holds its Client and monitors its descriptor.
NoOrphan ==
  \A fd \in Fds : sock[fd] \in Conns =>
    \/ BeingHandled(sock[fd])
    \/ \E p \in Pools : clients[p][fd] = sock[fd] /\ fd \in interest[p]

\* A pool's collection holds active connections only (ConnectionPool.hpp:12):
\* whatever is in it and not in a thread's hands has an open descriptor.
OnlyActiveClients ==
  \A p \in Pools, fd \in Fds :
    clients[p][fd] # None =>
      sock[fd] = clients[p][fd] \/ BeingHandled(clients[p][fd])

\* ::close is never called on a descriptor the rest of the process owns: when
\* one is closed, no thread of the server has moved.
NoForeignClose ==
  [][\A fd \in Fds : sock[fd] = Other /\ sock'[fd] # Other =>
       UNCHANGED <<accPc, loopPc>>]_vars

\* A connection is not closed while a pool monitors it: its own thread first
\* deregisters it, so no event of the old connection meets the next owner of
\* the number, and the accept thread never closes a connection it handed over.
MonitoredStaysOpen ==
  [][\A p \in Pools : \A fd \in interest[p] :
       sock[fd] \in Conns => sock'[fd] = sock[fd]]_vars

-----------------------------------------------------------------------------
(***************************************************************************)
(* The inductive invariant behind the safety properties, for epoll_ctl     *)
(* that does not fail for lack of resources: every open connection is, at  *)
(* every moment, in exactly one pair of hands.                             *)
(***************************************************************************)
InAccept(fd) == accPc # "accept" /\ accFd = fd

\* What the accept thread is distributing is open and nobody else knows it.
AcceptOwns ==
  /\ accPc = "accept" => accConn = None /\ accFd = None
  /\ accPc # "accept" =>
       /\ sock[accFd] = accConn
       /\ \A p \in Pools : accFd \notin interest[p]
  /\ accPc \in {"get_pool", "addClient", "catch"} =>
       \A p \in Pools : clients[p][accFd] = None
  /\ accPc = "addFD" =>
       \A p \in Pools : clients[p][accFd] = IF p = accPool THEN accConn ELSE None
  /\ accPc = "catch" => NumPools = 0

\* A Client in a map has the open descriptor it was made for, it is the only
\* one, and the descriptor is monitored except on its way in and out.
SlotOwns ==
  \A p \in Pools, fd \in Fds : clients[p][fd] # None =>
    /\ sock[fd] = clients[p][fd]
    /\ \A q \in Pools : clients[q][fd] # None => q = p
    /\ \/ fd \in interest[p]
       \/ accPc = "addFD" /\ accFd = fd
       \/ loopPc[p] = "erase" /\ evFd[p] = fd

\* A monitored descriptor has a Client in the same pool.
MonitoredHasClient ==
  \A p \in Pools : \A fd \in interest[p] : clients[p][fd] # None

\* The Client a pool's thread works on.
LoopOwns ==
  \A p \in Pools : loopPc[p] \notin {"poll", "dispatch"} =>
    /\ evFd[p] \in Fds
    /\ client[p] \in Conns
    /\ evConn[p] = client[p]
    /\ ~ InAccept(evFd[p])
    /\ IF loopPc[p] # "close"
       THEN /\ clients[p][evFd[p]] = client[p]
            /\ (evFd[p] \in interest[p]) <=> (loopPc[p] # "erase")
       ELSE /\ sock[evFd[p]] = client[p]
            /\ \A q \in Pools :
                 /\ clients[q][evFd[p]] = None
                 /\ evFd[p] \notin interest[q]
                 /\ loopPc[q] = "close" /\ evFd[q] = evFd[p] => q = p

\* The events not yet handled are about monitored descriptors, each at most
\* once, none of them the one being handled.
BatchFresh ==
  \A p \in Pools :
    /\ loopPc[p] = "poll" => batch[p] = {}
    /\ \A e \in batch[p] :
         /\ e[1] \in interest[p]
         /\ e[3] = sock[e[1]]
         /\ loopPc[p] \notin {"poll", "dispatch"} => e[1] # evFd[p]
         /\ \A f \in batch[p] : f[1] = e[1] => f = e

\* An open connection is monitored or in the hands of a thread.
NothingLost ==
  \A fd \in Fds : sock[fd] \in Conns =>
    \/ InAccept(fd)
    \/ \E p \in Pools : loopPc[p] \in {"erase", "close"} /\ evFd[p] = fd
    \/ \E p \in Pools : fd \in interest[p]

\* Ownership: the hand-over from the accept thread to a pool's map and epoll
\* instance, and from there to the pool's thread and to ::close, never leaves
\* a descriptor with two owners, with a stale one or without any.
Ownership ==
  /\ AcceptOwns
  /\ SlotOwns
  /\ MonitoredHasClient
  /\ LoopOwns
  /\ BatchFresh
  /\ NothingLost

-----------------------------------------------------------------------------
(***************************************************************************)
(* The refinement of ConnectionService.  A connection's phase is read off  *)
(* the descriptor table and the accept thread; its home is the pool that   *)
(* holds its Client, or whose thread is about to close it.                 *)
(***************************************************************************)
IsOpen(c) == \E fd \in Fds : sock[fd] = c

PhaseOf(c) ==
  IF c \in fresh THEN "waiting"
  ELSE IF ~ IsOpen(c) THEN "closed"
  ELSE IF accConn = c THEN "accepted" ELSE "active"

Holders(c) ==
  {p \in Pools : \/ \E fd \in Fds : clients[p][fd] = c
                 \/ loopPc[p] = "close" /\ client[p] = c}

OneOf(S) == CHOOSE x \in S : TRUE

HomeOf(c) ==
  IF PhaseOf(c) = "active" /\ Holders(c) # {} THEN OneOf(Holders(c)) ELSE None

Service == INSTANCE ConnectionService WITH
  phase <- [c \in Conns |-> PhaseOf(c)],
  home  <- [c \in Conns |-> HomeOf(c)]

\* The threads, the descriptor table and the epoll instances together give
\* every connection the life ConnectionService describes.
RefinesService == Service!Spec

\* ... and the accept thread settles every connection it takes.
RefinesFairService == Service!FairSpec
================================================================================
