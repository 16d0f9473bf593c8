---------------------------- MODULE DeliveryProofs -----------------------------
(***************************************************************************)
(* Theorems about Connections and Delivery, for every number of            *)
(* descriptors, connections, pools and pieces: Ownership, for an epoll_ctl *)
(* that does not run out of resources, and the properties it gives;        *)
(* Custody, which needs no such assumption, and with it the refinement of  *)
(* ConnectionService; then what Delivery promises to the peers, also when  *)
(* epoll_ctl fails for lack of resources: the bytes and edges that follow  *)
(* the descriptors.                                                        *)
(***************************************************************************)
EXTENDS Delivery, TLAPS

-----------------------------------------------------------------------------
(***************************************************************************)
(* Connections.                                                            *)
(***************************************************************************)
\* The round-robin index of PoolManager::get_pool always names a pool.
LEMMA RoundRobinWraps ==
  ASSUME NumPools # 0, nextPool \in Nat
  PROVE  (nextPool + 1) % NumPools \in Pools
BY ConstantsAssumption DEF Pools

\* Type correctness of every reachable state.
THEOREM TypeCorrect == Spec => []TypeOK
<1>1. Init => TypeOK
  BY ConstantsAssumption DEF Init, TypeOK, Pools, AcceptPcs, LoopPcs
<1>2. TypeOK /\ [Next]_vars => TypeOK'
  <2> SUFFICES ASSUME TypeOK, [Next]_vars PROVE TypeOK'
    OBVIOUS
  <2> USE DEF TypeOK
  <2>1. CASE Accept
    BY <2>1 DEF Accept, loopVars, AcceptPcs
  <2>2. CASE GetPool
    BY <2>2, RoundRobinWraps, ConstantsAssumption
    DEF GetPool, kernelVars, loopVars, AcceptPcs, Pools
  <2>3. CASE AddClient
    <3>1. clients' \in [Pools -> [Fds -> Conns \cup {None}]]
      BY <2>3 DEF AddClient
    <3>2. sock' \in [Fds -> Conns \cup {None, Other}] /\ interest' \in [Pools -> SUBSET Fds]
      BY <2>3 DEF AddClient, CloseFd, kernelVars
    <3> QED
      BY <2>3, <3>1, <3>2 DEF AddClient, loopVars, AcceptPcs
  <2>4. CASE AddFD
    <3>1. interest' \in [Pools -> SUBSET Fds]
      BY <2>4 DEF AddFD
    <3> QED
      BY <2>4, <3>1 DEF AddFD, loopVars, AcceptPcs
  <2>5. CASE AddFDThrows
    BY <2>5 DEF AddFDThrows, kernelVars, loopVars, AcceptPcs
  <2>6. CASE CatchClose
    BY <2>6 DEF CatchClose, CloseFd, loopVars, AcceptPcs
  <2>7. ASSUME NEW p \in Pools, PoolThread(p) PROVE TypeOK'
    <3>1. CASE Poll(p)
      BY <3>1 DEF Poll, kernelVars, acceptVars, LoopPcs, Kinds
    <3>2. CASE Dispatch(p)
      <4>1. PICK e \in batch[p] : 
              /\ batch' = [batch EXCEPT ![p] = @ \ {e}]
              /\ \/ /\ loopPc' = [loopPc EXCEPT ![p] =
                                    IF batch[p] = {e} THEN "poll" ELSE "dispatch"]
                    /\ UNCHANGED <<evFd, evConn, client>>
                 \/ /\ loopPc' = [loopPc EXCEPT ![p] =
                                    IF e[2] = "HANGUP" THEN "removeFD" ELSE "read"]
                    /\ evFd' = [evFd EXCEPT ![p] = e[1]]
                    /\ evConn' = [evConn EXCEPT ![p] = e[3]]
                    /\ client' = [client EXCEPT ![p] = clients[p][e[1]]]
        BY <3>2 DEF Dispatch
      <4>2. e[1] \in Fds /\ e[3] \in Conns \cup {None, Other}
        BY <4>1
      <4>3. batch' \in [Pools -> SUBSET (Fds \X Kinds \X (Conns \cup {None, Other}))]
        BY <4>1
      <4>4. loopPc' \in [Pools -> LoopPcs]
        BY <4>1 DEF LoopPcs
      <4>5. /\ evFd' \in [Pools -> Fds \cup {None}]
            /\ evConn' \in [Pools -> Conns \cup {None, Other}]
        BY <4>1, <4>2
      <4>6. clients[p][e[1]] \in Conns \cup {None}
        BY <4>2
      <4>7. client' \in [Pools -> Conns \cup {None}]
        BY <4>1, <4>6
      <4> QED
        BY <3>2, <4>3, <4>4, <4>5, <4>7 DEF Dispatch, kernelVars, acceptVars
    <3>3. CASE ReadEnds(p)
      BY <3>3 DEF ReadEnds, GoTo, kernelVars, acceptVars, LoopPcs
    <3>4. CASE ReadIncomplete(p)
      BY <3>4 DEF ReadIncomplete, EventDone, kernelVars, acceptVars, LoopPcs
    <3>5. CASE ReadComplete(p)
      BY <3>5 DEF ReadComplete, GoTo, kernelVars, acceptVars, LoopPcs
    <3>6. CASE Respond(p)
      BY <3>6 DEF Respond, GoTo, kernelVars, acceptVars, LoopPcs
    <3>7. CASE RemoveFD(p)
      <4>1. interest' \in [Pools -> SUBSET Fds]
        BY <3>7 DEF RemoveFD
      <4>2. batch' \in [Pools -> SUBSET (Fds \X Kinds \X (Conns \cup {None, Other}))]
        BY <3>7 DEF RemoveFD
      <4>3. loopPc' \in [Pools -> LoopPcs]
        BY <3>7 DEF RemoveFD, GoTo, LoopPcs
      <4>4. /\ evFd' \in [Pools -> Fds \cup {None}]
            /\ evConn' \in [Pools -> Conns \cup {None, Other}]
            /\ client' \in [Pools -> Conns \cup {None}]
        BY <3>7 DEF RemoveFD, GoTo
      <4> QED
        BY <3>7, <4>1, <4>2, <4>3, <4>4 DEF RemoveFD, acceptVars
    <3>8. CASE EraseClient(p)
      BY <3>8 DEF EraseClient, GoTo, kernelVars, acceptVars, LoopPcs
    <3>9. CASE CloseClient(p)
      BY <3>9 DEF CloseClient, CloseFd, EventDone, acceptVars, LoopPcs
    <3> QED
      BY <2>7, <3>1, <3>2, <3>3, <3>4, <3>5, <3>6, <3>7, <3>8, <3>9 DEF PoolThread
  <2>8. ASSUME NEW fd \in Fds, OpenOther(fd) PROVE TypeOK'
    BY <2>8 DEF OpenOther, acceptVars, loopVars
  <2>9. ASSUME NEW fd \in Fds, CloseOther(fd) PROVE TypeOK'
    BY <2>9 DEF CloseOther, CloseFd, acceptVars, loopVars
  <2>10. CASE UNCHANGED vars
    BY <2>10 DEF vars, kernelVars, acceptVars, loopVars
  <2> QED
    BY <2>1, <2>2, <2>3, <2>4, <2>5, <2>6, <2>7, <2>8, <2>9, <2>10
    DEF Next, AcceptThread
<1> QED
  BY <1>1, <1>2, PTL DEF Spec
-----------------------------------------------------------------------------
(***************************************************************************)
(* Ownership is inductive relative to TypeOK.  One lemma per action, with  *)
(* one step per conjunct of Ownership.  epoll_ctl running out of resources *)
(* (AddFdMayFail) is excluded: accept_loop then closes a descriptor whose  *)
(* Client stays in the pool's map, and the invariant is lost.              *)
(***************************************************************************)

\* A step that leaves descriptors, epoll instances and the accept thread alone,
\* and moves no thread that is about to close a connection, forgets none.
LEMMA QuietKeepsNothingLost ==
  ASSUME NothingLost,
         UNCHANGED <<sock, interest, accPc, accFd>>,
         \A p \in Pools : loopPc[p] \in {"erase", "close"} =>
           loopPc'[p] = loopPc[p] /\ evFd'[p] = evFd[p]
  PROVE  NothingLost'
BY DEF NothingLost, InAccept

\* Listener::acceptClient: the kernel returns a number nobody has, so no map and
\* no epoll instance knows it.
LEMMA AcceptKeepsOwnership ==
  ASSUME TypeOK, TypeOK', Ownership, ~ AddFdMayFail, Accept
  PROVE  Ownership'
<1>1. AcceptOwns'
  BY DEF Ownership, AcceptOwns, SlotOwns, MonitoredHasClient, TypeOK, Accept
<1>2. SlotOwns'
  BY DEF Ownership, SlotOwns, Accept, loopVars
<1>3. MonitoredHasClient'
  BY DEF Ownership, MonitoredHasClient, Accept
<1>4. LoopOwns'
  BY ConstantsAssumption DEF Ownership, SlotOwns, LoopOwns, InAccept, Accept, loopVars
<1>5. BatchFresh'
  BY DEF Ownership, SlotOwns, MonitoredHasClient, BatchFresh, Accept, loopVars
<1>6. NothingLost'
  BY DEF Ownership, NothingLost, InAccept, Accept, loopVars
<1> QED
  BY <1>1, <1>2, <1>3, <1>4, <1>5, <1>6 DEF Ownership

\* PoolManager::get_pool: only the accept thread learns the pool.
LEMMA GetPoolKeepsOwnership ==
  ASSUME TypeOK, TypeOK', Ownership, ~ AddFdMayFail, GetPool
  PROVE  Ownership'
<1>1. AcceptOwns'
  BY DEF Ownership, AcceptOwns, GetPool, kernelVars
<1>2. SlotOwns'
  BY DEF Ownership, SlotOwns, GetPool, kernelVars, loopVars
<1>3. MonitoredHasClient'
  BY DEF Ownership, MonitoredHasClient, GetPool, kernelVars
<1>4. LoopOwns'
  BY DEF Ownership, LoopOwns, InAccept, GetPool, kernelVars, loopVars
<1>5. BatchFresh'
  BY DEF Ownership, BatchFresh, GetPool, kernelVars, loopVars
<1>6. NothingLost'
  BY DEF Ownership, NothingLost, InAccept, GetPool, kernelVars, loopVars
<1> QED
  BY <1>1, <1>2, <1>3, <1>4, <1>5, <1>6 DEF Ownership

\* ConnectionPool::addClient: the slot is free, so no other Client is destroyed.
LEMMA AddClientKeepsOwnership ==
  ASSUME TypeOK, TypeOK', Ownership, ~ AddFdMayFail, AddClient
  PROVE  Ownership'
<1>1. AcceptOwns'
  BY DEF Ownership, AcceptOwns, TypeOK, AddClient, kernelVars
<1>2. SlotOwns'
  BY DEF Ownership, AcceptOwns, SlotOwns, TypeOK, AddClient, kernelVars, loopVars
<1>3. MonitoredHasClient'
  BY DEF Ownership, MonitoredHasClient, AddClient, CloseFd, kernelVars
<1>4. LoopOwns'
  BY DEF Ownership, LoopOwns, InAccept, TypeOK, AddClient, CloseFd, kernelVars, loopVars
<1>5. BatchFresh'
  BY DEF Ownership, AcceptOwns, BatchFresh, TypeOK, AddClient, kernelVars, loopVars
<1>6. NothingLost'
  BY DEF Ownership, MonitoredHasClient, LoopOwns, BatchFresh, NothingLost,
         InAccept, TypeOK, Pools, AddClient, CloseFd, kernelVars, loopVars
<1> QED
  BY <1>1, <1>2, <1>3, <1>4, <1>5, <1>6 DEF Ownership

\* Poller::addFD: ownership of the descriptor passes from the accept thread to
\* the pool's map and epoll instance.
LEMMA AddFDKeepsOwnership ==
  ASSUME TypeOK, TypeOK', Ownership, ~ AddFdMayFail, AddFD
  PROVE  Ownership'
<1>1. AcceptOwns'
  BY DEF AcceptOwns, AddFD
<1>2. SlotOwns'
  BY DEF Ownership, AcceptOwns, SlotOwns, TypeOK, AddFD, loopVars
<1>3. MonitoredHasClient'
  BY ConstantsAssumption DEF Ownership, AcceptOwns, MonitoredHasClient, TypeOK, AddFD
<1>4. LoopOwns'
  BY DEF Ownership, LoopOwns, InAccept, AddFD, loopVars
<1>5. BatchFresh'
  BY DEF Ownership, BatchFresh, AddFD, loopVars
<1>6. NothingLost'
  <2>1. /\ accPool \in Pools
        /\ interest' = [interest EXCEPT ![accPool] = @ \cup {accFd}]
        /\ UNCHANGED <<sock, loopPc, evFd>>
    BY DEF AddFD, loopVars, TypeOK
  <2>2. accFd \in interest'[accPool]
    BY <2>1 DEF TypeOK
  <2>3. \A p \in Pools, fd \in Fds : fd \in interest[p] => fd \in interest'[p]
    BY <2>1 DEF TypeOK
  <2> QED
    BY <2>1, <2>2, <2>3 DEF Ownership, NothingLost, InAccept
<1> QED
  BY <1>1, <1>2, <1>3, <1>4, <1>5, <1>6 DEF Ownership

\* Poller::addFD throws: the descriptor is open and not yet monitored, so without
\* resource exhaustion this never happens.
LEMMA AddFDThrowsKeepsOwnership ==
  ASSUME TypeOK, TypeOK', Ownership, ~ AddFdMayFail, AddFDThrows
  PROVE  Ownership'
<1>1. AcceptOwns'
  BY ConstantsAssumption DEF Ownership, AcceptOwns, TypeOK, AddFDThrows, Registrable
<1>2. SlotOwns'
  BY DEF Ownership, SlotOwns, MonitoredHasClient, TypeOK, AddFDThrows,
         Registrable, kernelVars, loopVars
<1>3. MonitoredHasClient'
  BY DEF Ownership, MonitoredHasClient, AddFDThrows, kernelVars
<1>4. LoopOwns'
  BY DEF Ownership, LoopOwns, InAccept, AddFDThrows, kernelVars, loopVars
<1>5. BatchFresh'
  BY DEF Ownership, BatchFresh, AddFDThrows, kernelVars, loopVars
<1>6. NothingLost'
  BY DEF Ownership, NothingLost, InAccept, AddFDThrows, kernelVars, loopVars
<1> QED
  BY <1>1, <1>2, <1>3, <1>4, <1>5, <1>6 DEF Ownership

\* The catch block of accept_loop: it is reached without a pool only, and closes
\* a descriptor nobody else knows.
LEMMA CatchCloseKeepsOwnership ==
  ASSUME TypeOK, TypeOK', Ownership, ~ AddFdMayFail, CatchClose
  PROVE  Ownership'
<1>1. AcceptOwns'
  BY DEF AcceptOwns, CatchClose
<1>2. SlotOwns'
  BY DEF Ownership, AcceptOwns, SlotOwns, CatchClose, CloseFd, loopVars
<1>3. MonitoredHasClient'
  BY DEF Ownership, MonitoredHasClient, CatchClose, CloseFd
<1>4. LoopOwns'
  BY DEF Ownership, LoopOwns, InAccept, CatchClose, CloseFd, loopVars
<1>5. BatchFresh'
  BY DEF Ownership, AcceptOwns, BatchFresh, CatchClose, CloseFd, loopVars
<1>6. NothingLost'
  BY ConstantsAssumption
  DEF Ownership, NothingLost, InAccept, TypeOK, CatchClose, CloseFd, loopVars
<1> QED
  BY <1>1, <1>2, <1>3, <1>4, <1>5, <1>6 DEF Ownership

\* Poller::poll: each event of the batch is about a monitored descriptor and the
\* connection it denotes now, at most one event per descriptor.
LEMMA PollKeepsOwnership ==
  ASSUME TypeOK, TypeOK', Ownership, NEW p \in Pools, Poll(p)
  PROVE  Ownership'
<1>1. AcceptOwns'
  BY DEF Ownership, AcceptOwns, Poll, kernelVars, acceptVars
<1>2. SlotOwns'
  BY DEF Ownership, SlotOwns, Poll, kernelVars, acceptVars
<1>3. MonitoredHasClient'
  BY DEF Ownership, MonitoredHasClient, Poll, kernelVars
<1>4. LoopOwns'
  BY DEF Ownership, LoopOwns, InAccept, Poll, kernelVars, acceptVars
<1>5. BatchFresh'
  <2>1. PICK ready \in SUBSET interest[p] : \E kind \in [ready -> Kinds] :
          batch' = [batch EXCEPT ![p] = {<<fd, kind[fd], sock[fd]>> : fd \in ready}]
    BY Zenon DEF Poll
  <2>2. PICK kind \in [ready -> Kinds] :
          batch' = [batch EXCEPT ![p] = {<<fd, kind[fd], sock[fd]>> : fd \in ready}]
    BY <2>1, Zenon
  <2>3. batch'[p] = {<<fd, kind[fd], sock[fd]>> : fd \in ready}
    BY <2>2 DEF TypeOK
  <2>4. ASSUME NEW e \in batch'[p]
        PROVE  /\ e[1] \in interest[p]
               /\ e[3] = sock[e[1]]
               /\ \A f \in batch'[p] : f[1] = e[1] => f = e
    <3>1. PICK fd \in ready : e = <<fd, kind[fd], sock[fd]>>
      BY <2>3, <2>4
    <3>2. ASSUME NEW f \in batch'[p], f[1] = e[1] PROVE f = e
      BY <2>3, <3>1, <3>2
    <3> QED
      BY <3>1, <3>2
  <2> QED
    BY <2>2, <2>4 DEF Ownership, BatchFresh, Poll, kernelVars, TypeOK
<1>6. NothingLost'
  <2>1. UNCHANGED <<sock, interest, accPc, accFd>>
    BY DEF Poll, kernelVars, acceptVars
  <2>2. \A q \in Pools : loopPc[q] \in {"erase", "close"} =>
          loopPc'[q] = loopPc[q] /\ evFd'[q] = evFd[q]
    BY DEF Poll, TypeOK
  <2> QED
    BY <2>1, <2>2, QuietKeepsNothingLost DEF Ownership
<1> QED
  BY <1>1, <1>2, <1>3, <1>4, <1>5, <1>6 DEF Ownership

\* handle_client_event looks the Client up: it finds the one the event is about,
\* and no other event of the batch is about the same descriptor.
LEMMA DispatchKeepsOwnership ==
  ASSUME TypeOK, TypeOK', Ownership, NEW p \in Pools, Dispatch(p)
  PROVE  Ownership'
<1>1. AcceptOwns'
  BY DEF Ownership, AcceptOwns, Dispatch, kernelVars, acceptVars
<1>2. SlotOwns'
  BY DEF Ownership, SlotOwns, TypeOK, Dispatch, kernelVars, acceptVars
<1>3. MonitoredHasClient'
  BY DEF Ownership, MonitoredHasClient, Dispatch, kernelVars
<1>4. LoopOwns'
  <2>1. PICK e \in batch[p] :
          IF clients[p][e[1]] = None
          THEN TRUE
          ELSE /\ loopPc' = [loopPc EXCEPT ![p] =
                               IF e[2] = "HANGUP" THEN "removeFD" ELSE "read"]
               /\ evFd' = [evFd EXCEPT ![p] = e[1]]
               /\ evConn' = [evConn EXCEPT ![p] = e[3]]
               /\ client' = [client EXCEPT ![p] = clients[p][e[1]]]
    BY Zenon DEF Dispatch
  <2>2. e[1] \in interest[p] /\ e[3] = sock[e[1]] /\ e[1] \in Fds
    BY <2>1 DEF Ownership, BatchFresh, TypeOK
  <2>3. clients[p][e[1]] # None /\ sock[e[1]] = clients[p][e[1]] /\ ~ InAccept(e[1])
    BY <2>2 DEF Ownership, MonitoredHasClient, SlotOwns, AcceptOwns, InAccept
  <2>4. clients[p][e[1]] \in Conns
    BY <2>2, <2>3 DEF TypeOK
  <2>5. /\ loopPc[p] = "dispatch"
        /\ UNCHANGED <<sock, interest, accPc, accFd, clients>>
    BY DEF Dispatch, kernelVars, acceptVars
  <2>6. ASSUME NEW q \in Pools, q # p PROVE
          /\ loopPc'[q] = loopPc[q]
          /\ evFd'[q] = evFd[q]
          /\ evConn'[q] = evConn[q]
          /\ client'[q] = client[q]
    BY <2>1, <2>3, <2>6 DEF TypeOK
  <2>7. /\ loopPc'[p] \in {"read", "removeFD"}
        /\ evFd'[p] = e[1]
        /\ evConn'[p] = e[3]
        /\ client'[p] = clients[p][e[1]]
    BY <2>1, <2>3 DEF TypeOK
  <2> QED
    BY <2>2, <2>3, <2>4, <2>5, <2>6, <2>7 DEF Ownership, LoopOwns, InAccept
<1>5. BatchFresh'
  BY DEF Ownership, BatchFresh, TypeOK, Dispatch, kernelVars
<1>6. NothingLost'
  <2>1. UNCHANGED <<sock, interest, accPc, accFd>>
    BY DEF Dispatch, kernelVars, acceptVars
  <2>2. \A q \in Pools : loopPc[q] \in {"erase", "close"} =>
          loopPc'[q] = loopPc[q] /\ evFd'[q] = evFd[q]
    BY DEF Dispatch, TypeOK
  <2> QED
    BY <2>1, <2>2, QuietKeepsNothingLost DEF Ownership
<1> QED
  BY <1>1, <1>2, <1>3, <1>4, <1>5, <1>6 DEF Ownership

\* Client::readRequest fails or sees the end of the stream.
LEMMA ReadEndsKeepsOwnership ==
  ASSUME TypeOK, TypeOK', Ownership, NEW p \in Pools, ReadEnds(p)
  PROVE  Ownership'
<1>1. AcceptOwns'
  BY DEF Ownership, AcceptOwns, ReadEnds, kernelVars, acceptVars
<1>2. SlotOwns'
  BY DEF Ownership, SlotOwns, ReadEnds, GoTo, kernelVars, acceptVars
<1>3. MonitoredHasClient'
  BY DEF Ownership, MonitoredHasClient, ReadEnds, kernelVars
<1>4. LoopOwns'
  BY DEF Ownership, LoopOwns, InAccept, ReadEnds, GoTo, kernelVars, acceptVars
<1>5. BatchFresh'
  BY DEF Ownership, BatchFresh, ReadEnds, GoTo, kernelVars
<1>6. NothingLost'
  <2>1. UNCHANGED <<sock, interest, accPc, accFd>>
    BY DEF ReadEnds, kernelVars, acceptVars
  <2>2. \A q \in Pools : loopPc[q] \in {"erase", "close"} =>
          loopPc'[q] = loopPc[q] /\ evFd'[q] = evFd[q]
    BY DEF ReadEnds, GoTo, TypeOK
  <2> QED
    BY <2>1, <2>2, QuietKeepsNothingLost DEF Ownership
<1> QED
  BY <1>1, <1>2, <1>3, <1>4, <1>5, <1>6 DEF Ownership

\* Client::readRequest got a part of a request: the connection stays with its pool.
LEMMA ReadIncompleteKeepsOwnership ==
  ASSUME TypeOK, TypeOK', Ownership, NEW p \in Pools, ReadIncomplete(p)
  PROVE  Ownership'
<1>1. AcceptOwns'
  BY DEF Ownership, AcceptOwns, ReadIncomplete, kernelVars, acceptVars
<1>2. SlotOwns'
  BY DEF Ownership, SlotOwns, ReadIncomplete, EventDone, kernelVars, acceptVars
<1>3. MonitoredHasClient'
  BY DEF Ownership, MonitoredHasClient, ReadIncomplete, kernelVars
<1>4. LoopOwns'
  BY DEF Ownership, LoopOwns, InAccept, TypeOK, ReadIncomplete, EventDone,
         kernelVars, acceptVars
<1>5. BatchFresh'
  BY DEF Ownership, BatchFresh, TypeOK, ReadIncomplete, EventDone, kernelVars
<1>6. NothingLost'
  <2>1. UNCHANGED <<sock, interest, accPc, accFd>>
    BY DEF ReadIncomplete, kernelVars, acceptVars
  <2>2. \A q \in Pools : loopPc[q] \in {"erase", "close"} =>
          loopPc'[q] = loopPc[q] /\ evFd'[q] = evFd[q]
    BY DEF ReadIncomplete, EventDone, TypeOK
  <2> QED
    BY <2>1, <2>2, QuietKeepsNothingLost DEF Ownership
<1> QED
  BY <1>1, <1>2, <1>3, <1>4, <1>5, <1>6 DEF Ownership

\* The request is complete: the thread keeps its Client and goes on to answer.
LEMMA ReadCompleteKeepsOwnership ==
  ASSUME TypeOK, TypeOK', Ownership, NEW p \in Pools, ReadComplete(p)
  PROVE  Ownership'
<1>1. AcceptOwns'
  BY DEF Ownership, AcceptOwns, ReadComplete, kernelVars, acceptVars
<1>2. SlotOwns'
  BY DEF Ownership, SlotOwns, ReadComplete, GoTo, kernelVars, acceptVars
<1>3. MonitoredHasClient'
  BY DEF Ownership, MonitoredHasClient, ReadComplete, kernelVars
<1>4. LoopOwns'
  BY DEF Ownership, LoopOwns, InAccept, ReadComplete, GoTo, kernelVars, acceptVars
<1>5. BatchFresh'
  BY DEF Ownership, BatchFresh, ReadComplete, GoTo, kernelVars
<1>6. NothingLost'
  <2>1. UNCHANGED <<sock, interest, accPc, accFd>>
    BY DEF ReadComplete, kernelVars, acceptVars
  <2>2. \A q \in Pools : loopPc[q] \in {"erase", "close"} =>
          loopPc'[q] = loopPc[q] /\ evFd'[q] = evFd[q]
    BY DEF ReadComplete, GoTo, TypeOK
  <2> QED
    BY <2>1, <2>2, QuietKeepsNothingLost DEF Ownership
<1> QED
  BY <1>1, <1>2, <1>3, <1>4, <1>5, <1>6 DEF Ownership

\* process_request and writeResponse: the connection is still the thread's.
LEMMA RespondKeepsOwnership ==
  ASSUME TypeOK, TypeOK', Ownership, NEW p \in Pools, Respond(p)
  PROVE  Ownership'
<1>1. AcceptOwns'
  BY DEF Ownership, AcceptOwns, Respond, kernelVars, acceptVars
<1>2. SlotOwns'
  BY DEF Ownership, SlotOwns, Respond, GoTo, kernelVars, acceptVars
<1>3. MonitoredHasClient'
  BY DEF Ownership, MonitoredHasClient, Respond, kernelVars
<1>4. LoopOwns'
  BY DEF Ownership, LoopOwns, InAccept, Respond, GoTo, kernelVars, acceptVars
<1>5. BatchFresh'
  BY DEF Ownership, BatchFresh, Respond, GoTo, kernelVars
<1>6. NothingLost'
  <2>1. UNCHANGED <<sock, interest, accPc, accFd>>
    BY DEF Respond, kernelVars, acceptVars
  <2>2. \A q \in Pools : loopPc[q] \in {"erase", "close"} =>
          loopPc'[q] = loopPc[q] /\ evFd'[q] = evFd[q]
    BY DEF Respond, GoTo, TypeOK
  <2> QED
    BY <2>1, <2>2, QuietKeepsNothingLost DEF Ownership
<1> QED
  BY <1>1, <1>2, <1>3, <1>4, <1>5, <1>6 DEF Ownership

\* Poller::removeFD: the descriptor is monitored, so it succeeds, and from here on
\* only this thread knows the connection.
LEMMA RemoveFDKeepsOwnership ==
  ASSUME TypeOK, TypeOK', Ownership, NEW p \in Pools, RemoveFD(p)
  PROVE  Ownership'
<1>0. /\ loopPc[p] = "removeFD"
      /\ evFd[p] \in interest[p]
      /\ evFd[p] \in Fds
      /\ interest' = [interest EXCEPT ![p] = @ \ {evFd[p]}]
      /\ loopPc' = [loopPc EXCEPT ![p] = "erase"]
      /\ UNCHANGED <<sock, accPc, accFd, clients, batch, evFd, evConn, client>>
  BY DEF RemoveFD, GoTo, acceptVars, Ownership, LoopOwns
<1>1. AcceptOwns'
  BY <1>0 DEF Ownership, AcceptOwns, RemoveFD, acceptVars
<1>2. SlotOwns'
  BY <1>0 DEF Ownership, SlotOwns, TypeOK
<1>3. MonitoredHasClient'
  BY <1>0 DEF Ownership, MonitoredHasClient, TypeOK
<1>4. LoopOwns'
  <2>1. ASSUME NEW q \in Pools, NEW fd, fd \in interest'[q]
        PROVE  fd \in interest[q]
    BY <1>0, <2>1 DEF TypeOK
  <2>2. evFd[p] \notin interest'[p] /\ loopPc'[p] = "erase"
    BY <1>0 DEF TypeOK
  <2>3. \A q \in Pools : q # p => interest'[q] = interest[q] /\ loopPc'[q] = loopPc[q]
    BY <1>0 DEF TypeOK
  <2> QED
    BY <1>0, <2>1, <2>2, <2>3 DEF Ownership, LoopOwns, InAccept
<1>5. BatchFresh'
  BY <1>0 DEF Ownership, BatchFresh
<1>6. NothingLost'
  <2>1. /\ loopPc'[p] = "erase"
        /\ \A q \in Pools : q # p => interest'[q] = interest[q] /\ loopPc'[q] = loopPc[q]
        /\ \A fd \in interest[p] : fd # evFd[p] => fd \in interest'[p]
    BY <1>0 DEF TypeOK
  <2> QED
    BY <1>0, <2>1 DEF Ownership, NothingLost, InAccept
<1> QED
  BY <1>1, <1>2, <1>3, <1>4, <1>5, <1>6 DEF Ownership

\* ConnectionPool::removeClient unlinks the Client: no map and no epoll instance
\* names the descriptor any more, but it is still open.
LEMMA EraseClientKeepsOwnership ==
  ASSUME TypeOK, TypeOK', Ownership, NEW p \in Pools, EraseClient(p)
  PROVE  Ownership'
<1>0. /\ loopPc[p] = "erase"
      /\ evFd[p] \in Fds
      /\ clients[p][evFd[p]] = client[p]
      /\ client[p] \in Conns
      /\ client[p] # None
      /\ clients' = [clients EXCEPT ![p][evFd[p]] = None]
      /\ loopPc' = [loopPc EXCEPT ![p] = "close"]
      /\ UNCHANGED <<sock, interest, accPc, accFd, accPool, accConn, batch,
                     evFd, evConn, client>>
  BY ConstantsAssumption
  DEF EraseClient, GoTo, kernelVars, acceptVars, Ownership, LoopOwns, TypeOK
<1>1. AcceptOwns'
  BY <1>0 DEF Ownership, AcceptOwns, LoopOwns, BatchFresh, InAccept
<1>2. SlotOwns'
  BY <1>0 DEF Ownership, SlotOwns, TypeOK
<1>3. MonitoredHasClient'
  <2>1. evFd[p] \notin interest[p]
    BY <1>0 DEF Ownership, LoopOwns
  <2>2. \A q \in Pools, fd \in Fds :
          clients[q][fd] # None /\ clients'[q][fd] = None => q = p /\ fd = evFd[p]
    BY <1>0 DEF TypeOK
  <2> QED
    BY <1>0, <2>1, <2>2 DEF Ownership, MonitoredHasClient, TypeOK
<1>4. LoopOwns'
  <2>1. \A q \in Pools : q # p => loopPc'[q] = loopPc[q] /\ clients'[q] = clients[q]
    BY <1>0 DEF TypeOK
  <2>2. /\ loopPc'[p] = "close"
        /\ \A fd \in Fds : clients'[p][fd] = IF fd = evFd[p] THEN None ELSE clients[p][fd]
    BY <1>0 DEF TypeOK
  <2>3. /\ sock[evFd[p]] = client[p]
        /\ \A q \in Pools : clients'[q][evFd[p]] = None
    BY <1>0, <2>1, <2>2 DEF Ownership, SlotOwns
  <2>4. \A q \in Pools : evFd[p] \notin interest[q]
    BY <1>0, <2>1, <2>3 DEF Ownership, MonitoredHasClient, LoopOwns
  <2>5. \A q \in Pools : loopPc[q] = "close" => evFd[q] # evFd[p]
    BY <1>0 DEF Ownership, LoopOwns
  <2>6. ASSUME NEW q \in Pools, q # p, loopPc[q] \notin {"poll", "dispatch"}
        PROVE  /\ evFd[q] \in Fds
               /\ clients'[q][evFd[q]] = clients[q][evFd[q]]
               /\ \A r \in Pools : clients[r][evFd[q]] = None => clients'[r][evFd[q]] = None
    BY <2>1, <2>2, <2>6 DEF Ownership, LoopOwns
  <2> QED
    BY <1>0, <2>1, <2>2, <2>3, <2>4, <2>5, <2>6 DEF Ownership, LoopOwns, InAccept
<1>5. BatchFresh'
  BY <1>0 DEF Ownership, BatchFresh
<1>6. NothingLost'
  <2>1. /\ loopPc'[p] = "close"
        /\ \A q \in Pools : q # p => loopPc'[q] = loopPc[q]
    BY <1>0 DEF TypeOK
  <2> QED
    BY <1>0, <2>1 DEF Ownership, NothingLost, InAccept
<1> QED
  BY <1>1, <1>2, <1>3, <1>4, <1>5, <1>6 DEF Ownership

\* ~Client: the descriptor it closes is in no map, no epoll instance and no other
\* thread's hands.
LEMMA CloseClientKeepsOwnership ==
  ASSUME TypeOK, TypeOK', Ownership, NEW p \in Pools, CloseClient(p)
  PROVE  Ownership'
<1>0. /\ loopPc[p] = "close"
      /\ evFd[p] \in Fds
      /\ \A q \in Pools : clients[q][evFd[p]] = None /\ evFd[p] \notin interest[q]
      /\ sock' = [sock EXCEPT ![evFd[p]] = None]
      /\ interest' = interest
      /\ loopPc' = [loopPc EXCEPT ![p] = IF batch[p] = {} THEN "poll" ELSE "dispatch"]
      /\ UNCHANGED <<accPc, accFd, accPool, accConn, batch, clients>>
  <2>1. \A q \in Pools : evFd[p] \notin interest[q]
    BY DEF CloseClient, Ownership, LoopOwns
  <2>2. interest' = [q \in Pools |-> interest[q] \ {evFd[p]}]
    BY DEF CloseClient, CloseFd
  <2>3. \A q \in Pools : interest[q] \ {evFd[p]} = interest[q]
    BY <2>1
  <2>4. interest' = interest
    BY <2>2, <2>3 DEF TypeOK
  <2> QED
    BY <2>4 DEF CloseClient, CloseFd, EventDone, acceptVars, Ownership, LoopOwns
<1>00. \A q \in Pools : q # p => loopPc'[q] = loopPc[q] /\ evFd'[q] = evFd[q]
  BY DEF CloseClient, EventDone, TypeOK
<1>1. AcceptOwns'
  BY <1>0
  DEF Ownership, AcceptOwns, MonitoredHasClient, LoopOwns, BatchFresh,
      NothingLost, InAccept
<1>2. SlotOwns'
  <2>1. \A fd \in Fds : fd # evFd[p] => sock'[fd] = sock[fd]
    BY <1>0 DEF TypeOK
  <2> QED
    BY <1>0, <1>00, <2>1 DEF Ownership, SlotOwns
<1>3. MonitoredHasClient'
  BY <1>0 DEF Ownership, MonitoredHasClient
<1>4. LoopOwns'
  BY <1>0 DEF Ownership, LoopOwns, InAccept, TypeOK, CloseClient, EventDone
<1>5. BatchFresh'
  BY <1>0, <1>00 DEF Ownership, BatchFresh, TypeOK
<1>6. NothingLost'
  <2>1. \A fd \in Fds : sock'[fd] \in Conns => sock'[fd] = sock[fd] /\ fd # evFd[p]
    BY <1>0, ConstantsAssumption DEF TypeOK
  <2> QED
    BY <1>0, <1>00, <2>1 DEF Ownership, NothingLost, InAccept
<1> QED
  BY <1>1, <1>2, <1>3, <1>4, <1>5, <1>6 DEF Ownership

\* The rest of the process gets a number nobody has.
LEMMA OpenOtherKeepsOwnership ==
  ASSUME TypeOK, TypeOK', Ownership, NEW fd \in Fds, OpenOther(fd)
  PROVE  Ownership'
<1>1. AcceptOwns'
  BY ConstantsAssumption DEF Ownership, AcceptOwns, TypeOK, OpenOther, acceptVars
<1>2. SlotOwns'
  BY DEF Ownership, SlotOwns, OpenOther, acceptVars, loopVars
<1>3. MonitoredHasClient'
  BY DEF Ownership, MonitoredHasClient, OpenOther
<1>4. LoopOwns'
  BY ConstantsAssumption
  DEF Ownership, LoopOwns, InAccept, OpenOther, acceptVars, loopVars
<1>5. BatchFresh'
  BY DEF Ownership, SlotOwns, MonitoredHasClient, BatchFresh, OpenOther, loopVars
<1>6. NothingLost'
  <2>1. \A f \in Fds : sock'[f] \in Conns => sock'[f] = sock[f] /\ f # fd
    BY ConstantsAssumption DEF OpenOther, CloseFd, TypeOK
  <2>2. \A p \in Pools, f \in Fds : f # fd /\ f \in interest[p] => f \in interest'[p]
    BY DEF OpenOther, CloseFd
  <2> QED
    BY <2>1, <2>2 DEF Ownership, NothingLost, InAccept, OpenOther, acceptVars, loopVars
<1> QED
  BY <1>1, <1>2, <1>3, <1>4, <1>5, <1>6 DEF Ownership

\* The rest of the process closes a descriptor of its own, which is no client's.
LEMMA CloseOtherKeepsOwnership ==
  ASSUME TypeOK, TypeOK', Ownership, NEW fd \in Fds, CloseOther(fd)
  PROVE  Ownership'
<1>1. AcceptOwns'
  BY ConstantsAssumption
  DEF Ownership, AcceptOwns, TypeOK, CloseOther, CloseFd, acceptVars
<1>2. SlotOwns'
  BY ConstantsAssumption
  DEF Ownership, SlotOwns, TypeOK, CloseOther, CloseFd, acceptVars, loopVars
<1>3. MonitoredHasClient'
  BY DEF Ownership, MonitoredHasClient, CloseOther, CloseFd
<1>4. LoopOwns'
  BY ConstantsAssumption
  DEF Ownership, SlotOwns, LoopOwns, InAccept, CloseOther, CloseFd, acceptVars,
      loopVars
<1>5. BatchFresh'
  BY ConstantsAssumption
  DEF Ownership, SlotOwns, MonitoredHasClient, BatchFresh, TypeOK, CloseOther,
      CloseFd, loopVars
<1>6. NothingLost'
  <2>1. \A f \in Fds : sock'[f] \in Conns => sock'[f] = sock[f] /\ f # fd
    BY ConstantsAssumption DEF CloseOther, CloseFd, TypeOK
  <2>2. \A p \in Pools, f \in Fds : f # fd /\ f \in interest[p] => f \in interest'[p]
    BY DEF CloseOther, CloseFd
  <2> QED
    BY <2>1, <2>2 DEF Ownership, NothingLost, InAccept, CloseOther, acceptVars, loopVars
<1> QED
  BY <1>1, <1>2, <1>3, <1>4, <1>5, <1>6 DEF Ownership

(***************************************************************************)
(* The invariant itself, and what it gives.                                *)
(***************************************************************************)

\* Ownership holds in every reachable state, for any number of descriptors,
\* connections and pools: accept_loop, the maps and epoll instances of the
\* pools and the pool threads together keep every descriptor in one pair of
\* hands, as long as epoll_ctl does not run out of resources.
THEOREM OwnershipHolds ==
  ASSUME ~ AddFdMayFail
  PROVE  Spec => []Ownership
<1>1. Init => Ownership
  BY ConstantsAssumption
  DEF Init, Ownership, AcceptOwns, SlotOwns, MonitoredHasClient, LoopOwns,
      BatchFresh, NothingLost
<1>2. TypeOK /\ TypeOK' /\ Ownership /\ [Next]_vars => Ownership'
  <2> SUFFICES ASSUME TypeOK, TypeOK', Ownership, [Next]_vars PROVE Ownership'
    OBVIOUS
  <2>1. CASE AcceptThread
    BY <2>1, AcceptKeepsOwnership, GetPoolKeepsOwnership, AddClientKeepsOwnership,
       AddFDKeepsOwnership, AddFDThrowsKeepsOwnership, CatchCloseKeepsOwnership
    DEF AcceptThread
  <2>2. ASSUME NEW p \in Pools, PoolThread(p) PROVE Ownership'
    BY <2>2, PollKeepsOwnership, DispatchKeepsOwnership, ReadEndsKeepsOwnership,
       ReadIncompleteKeepsOwnership, ReadCompleteKeepsOwnership,
       RespondKeepsOwnership, RemoveFDKeepsOwnership, EraseClientKeepsOwnership,
       CloseClientKeepsOwnership
    DEF PoolThread
  <2>3. ASSUME NEW fd \in Fds, OpenOther(fd) \/ CloseOther(fd) PROVE Ownership'
    BY <2>3, OpenOtherKeepsOwnership, CloseOtherKeepsOwnership
  <2>4. CASE UNCHANGED vars
    BY <2>4
    DEF vars, kernelVars, acceptVars, loopVars, Ownership, AcceptOwns, SlotOwns,
        MonitoredHasClient, LoopOwns, BatchFresh, NothingLost, InAccept
  <2> QED
    BY <2>1, <2>2, <2>3, <2>4 DEF Next
<1> QED
  BY <1>1, <1>2, TypeCorrect, PTL DEF Spec

\* What Ownership gives at a single state: the thread's Client* is the map's, its
\* descriptor is the connection the event was about, and every open connection has
\* a thread or a pool that will close it.
LEMMA OwnershipProtects ==
  ASSUME TypeOK, Ownership
  PROVE  /\ ClientPointerValid
         /\ OwnSocketIO
         /\ NoOrphan
         /\ OnlyActiveClients
<1>1. ClientPointerValid
  BY DEF Ownership, LoopOwns, ClientPointerValid
<1>2. OwnSocketIO
  BY ConstantsAssumption DEF Ownership, LoopOwns, SlotOwns, OwnSocketIO
<1>3. NoOrphan
  <2> SUFFICES ASSUME NEW fd \in Fds, sock[fd] \in Conns
               PROVE  \/ BeingHandled(sock[fd])
                      \/ \E p \in Pools : clients[p][fd] = sock[fd] /\ fd \in interest[p]
    BY DEF NoOrphan
  <2>1. CASE InAccept(fd)
    BY <2>1 DEF Ownership, AcceptOwns, InAccept, BeingHandled
  <2>2. ASSUME NEW p \in Pools, loopPc[p] \in {"erase", "close"}, evFd[p] = fd
        PROVE  BeingHandled(sock[fd])
    <3>1. client[p] = sock[fd]
      BY <2>2, ConstantsAssumption DEF Ownership, LoopOwns, SlotOwns
    <3> QED
      BY <2>2, <3>1 DEF BeingHandled
  <2>3. ASSUME NEW p \in Pools, fd \in interest[p]
        PROVE  clients[p][fd] = sock[fd]
    BY <2>3 DEF Ownership, MonitoredHasClient, SlotOwns
  <2> QED
    BY <2>1, <2>2, <2>3 DEF Ownership, NothingLost
<1>4. OnlyActiveClients
  BY DEF Ownership, SlotOwns, OnlyActiveClients
<1> QED
  BY <1>1, <1>2, <1>3, <1>4

\* The raw Client* of handle_client_event stays valid while it is used, recv
\* and send reach the connection the event was about, no open connection is
\* forgotten and no pool keeps a dead one: for every number of pools, threads
\* racing in any order.
THEOREM HandOverIsSafe ==
  ASSUME ~ AddFdMayFail
  PROVE  Spec => []( /\ ClientPointerValid
                     /\ OwnSocketIO
                     /\ NoOrphan
                     /\ OnlyActiveClients )
BY OwnershipHolds, TypeCorrect, OwnershipProtects, PTL

\* The server closes no descriptor of the rest of the process: neither the
\* catch block of accept_loop nor ~Client closes a number that was given away.
THEOREM ForeignDescriptorsSafe ==
  ASSUME ~ AddFdMayFail
  PROVE  Spec => NoForeignClose
<1>1. TypeOK /\ Ownership /\ [Next]_vars =>
        [\A fd \in Fds : sock[fd] = Other /\ sock'[fd] # Other =>
           UNCHANGED <<accPc, loopPc>>]_vars
  <2> SUFFICES ASSUME TypeOK, Ownership, Next, NEW fd \in Fds,
                      sock[fd] = Other, sock'[fd] # Other
               PROVE  UNCHANGED <<accPc, loopPc>>
    BY DEF NoForeignClose
  <2>1. CASE AcceptThread
    <3>1. ~ Accept /\ ~ GetPool /\ ~ AddFD /\ ~ AddFDThrows
      BY ConstantsAssumption DEF Accept, GetPool, AddFD, AddFDThrows, kernelVars, TypeOK
    <3>2. ~ AddClient
      BY DEF AddClient, kernelVars, Ownership, AcceptOwns, TypeOK
    <3>3. ~ CatchClose
      BY ConstantsAssumption DEF CatchClose, CloseFd, Ownership, AcceptOwns, TypeOK
    <3> QED
      BY <2>1, <3>1, <3>2, <3>3 DEF AcceptThread
  <2>2. ASSUME NEW p \in Pools, PoolThread(p) PROVE FALSE
    <3>1. /\ ~ Poll(p) /\ ~ Dispatch(p) /\ ~ ReadEnds(p) /\ ~ ReadIncomplete(p)
          /\ ~ ReadComplete(p) /\ ~ Respond(p) /\ ~ RemoveFD(p) /\ ~ EraseClient(p)
      BY DEF Poll, Dispatch, ReadEnds, ReadIncomplete, ReadComplete, Respond,
             RemoveFD, EraseClient, kernelVars
    <3>2. ~ CloseClient(p)
      BY ConstantsAssumption, SMTT(40) DEF CloseClient, CloseFd, Ownership, LoopOwns, TypeOK
    <3> QED
      BY <2>2, <3>1, <3>2 DEF PoolThread
  <2>3. ASSUME NEW f \in Fds, OpenOther(f) \/ CloseOther(f)
        PROVE  UNCHANGED <<accPc, loopPc>>
    BY <2>3 DEF OpenOther, CloseOther, acceptVars, loopVars
  <2> QED
    BY <2>1, <2>2, <2>3 DEF Next
<1> QED
  BY <1>1, OwnershipHolds, TypeCorrect, PTL DEF Spec, NoForeignClose

\* A connection is deregistered by its own thread before it is closed, so the
\* number is free of its epoll registration when the kernel hands it out again.
THEOREM DeregisteredBeforeClose ==
  ASSUME ~ AddFdMayFail
  PROVE  Spec => MonitoredStaysOpen
<1>1. TypeOK /\ Ownership /\ [Next]_vars =>
        [\A p \in Pools : \A fd \in interest[p] :
           sock[fd] \in Conns => sock'[fd] = sock[fd]]_vars
  <2> SUFFICES ASSUME TypeOK, Ownership, Next, NEW p \in Pools,
                      NEW fd \in interest[p], sock[fd] \in Conns
               PROVE  sock'[fd] = sock[fd]
    OBVIOUS
  <2>1. CASE AcceptThread
    <3>1. CASE Accept
      BY <3>1, ConstantsAssumption DEF Accept, TypeOK
    <3>2. CASE AddClient
      BY <3>2 DEF AddClient, kernelVars, Ownership, AcceptOwns, TypeOK
    <3>3. CASE CatchClose
      BY <3>3 DEF CatchClose, CloseFd, Ownership, AcceptOwns, TypeOK
    <3>4. CASE GetPool \/ AddFD \/ AddFDThrows
      BY <3>4 DEF GetPool, AddFD, AddFDThrows, kernelVars
    <3> QED
      BY <2>1, <3>1, <3>2, <3>3, <3>4 DEF AcceptThread
  <2>2. ASSUME NEW q \in Pools, PoolThread(q) PROVE sock'[fd] = sock[fd]
    <3>1. CASE CloseClient(q)
      BY <3>1 DEF CloseClient, CloseFd, Ownership, LoopOwns, TypeOK
    <3>2. CASE ~ CloseClient(q)
      BY <2>2, <3>2
      DEF PoolThread, Poll, Dispatch, ReadEnds, ReadIncomplete, ReadComplete,
          Respond, RemoveFD, EraseClient, kernelVars
    <3> QED
      BY <3>1, <3>2
  <2>3. ASSUME NEW f \in Fds, OpenOther(f) \/ CloseOther(f)
        PROVE  sock'[fd] = sock[fd]
    BY <2>3, ConstantsAssumption DEF OpenOther, CloseOther, CloseFd, TypeOK
  <2> QED
    BY <2>1, <2>2, <2>3 DEF Next
<1> QED
  BY <1>1, OwnershipHolds, TypeCorrect, PTL DEF Spec, MonitoredStaysOpen

-----------------------------------------------------------------------------
(***************************************************************************)
(* Custody: what is left of Ownership when epoll_ctl may run out of        *)
(* resources.  A descriptor may then be closed under a Client that stays   *)
(* in its map, and its number given to another connection; but no          *)
(* connection is ever open under a second number, or in a second pool.     *)
(***************************************************************************)

\* A connection is open under one number, and not before it was accepted.
Unique ==
  /\ \A fd, gd \in Fds : sock[fd] \in Conns /\ sock[gd] = sock[fd] => gd = fd
  /\ \A fd \in Fds : sock[fd] \notin fresh

\* The connection is open under this number or not at all.
OpenOnlyAt(c, fd) == \A gd \in Fds : sock[gd] = c => gd = fd

\* The thread is handling an event.
Busy(p) == loopPc[p] \notin {"poll", "dispatch"}

\* No pool but the given ones knows the connection the accept thread has.
UnknownBut(S) ==
  \A p \in Pools \ S :
    /\ \A fd \in Fds : clients[p][fd] # accConn
    /\ Busy(p) => client[p] # accConn

\* The accept thread's connection is new to the pools until it is handed over,
\* and nobody monitors its descriptor while it is open.
AcceptHas ==
  /\ accPc = "accept" => accConn = None
  /\ accPc # "accept" =>
       /\ accConn \notin fresh
       /\ OpenOnlyAt(accConn, accFd)
       /\ sock[accFd] \notin Conns \ {accConn}
       /\ sock[accFd] = accConn => \A p \in Pools : accFd \notin interest[p]
  /\ accPc \in {"get_pool", "addClient"} => UnknownBut({})
  /\ accPc = "addFD" => UnknownBut({accPool})
  /\ accPc = "addFD" /\ sock[accFd] = accConn =>
       /\ clients[accPool][accFd] = accConn
       /\ loopPc[accPool] = "erase" => evFd[accPool] # accFd

MonitoredIsOpen == \A p \in Pools : \A fd \in interest[p] : sock[fd] # None

\* A Client in a map was made for a connection that was accepted under the
\* number of its slot.
SlotHas ==
  \A p \in Pools, fd \in Fds : clients[p][fd] # None =>
    clients[p][fd] \notin fresh /\ OpenOnlyAt(clients[p][fd], fd)

\* So was the Client a thread works on.  If the accept thread has put another
\* one in its slot, the connections of both are closed.
LoopHas ==
  \A p \in Pools : Busy(p) =>
    /\ evFd[p] \in Fds
    /\ client[p] \in Conns \ fresh
    /\ OpenOnlyAt(client[p], evFd[p])
    /\ loopPc[p] # "close" =>
         /\ clients[p][evFd[p]] # None
         /\ clients[p][evFd[p]] # client[p] =>
              ~ IsOpen(clients[p][evFd[p]]) /\ ~ IsOpen(client[p])

Custody ==
  /\ Unique
  /\ AcceptHas
  /\ MonitoredIsOpen
  /\ SlotHas
  /\ LoopHas

\* A step that opens no connection.
OpensNone ==
  /\ UNCHANGED fresh
  /\ \A fd \in Fds : sock'[fd] = sock[fd] \/ sock'[fd] \notin Conns

LEMMA OpensNoneKeeps ==
  ASSUME TypeOK, OpensNone
  PROVE  /\ Unique => Unique'
         /\ \A c \in Conns : ~ IsOpen(c) => ~ IsOpen(c)'
         /\ \A c \in Conns, fd \in Fds : OpenOnlyAt(c, fd) => OpenOnlyAt(c, fd)'
BY DEF OpensNone, Unique, IsOpen, OpenOnlyAt, TypeOK

LEMMA AcceptedKept ==
  ASSUME TypeOK, OpensNone, UNCHANGED acceptVars, OpenOnlyAt(accConn, accFd), accPc # "accept"
  PROVE  OpenOnlyAt(accConn, accFd)'
BY DEF OpensNone, OpenOnlyAt, acceptVars, TypeOK

LEMMA SlotsKept ==
  ASSUME TypeOK, SlotHas, OpensNone,
         \A p \in Pools, fd \in Fds : clients'[p][fd] \in {None, clients[p][fd]}
  PROVE  SlotHas'
BY OpensNoneKeeps DEF SlotHas, OpensNone, TypeOK

LEMMA LoopsKept ==
  ASSUME TypeOK, LoopHas, OpensNone, UNCHANGED <<loopPc, evFd, client, clients>>
  PROVE  LoopHas'
BY OpensNoneKeeps DEF LoopHas, OpensNone, Busy, TypeOK

LEMMA AcceptKeepsCustody ==
  ASSUME TypeOK, Custody, Accept
  PROVE  Custody'
<1>1. PICK c \in fresh, fd \in Fds :
        /\ sock[fd] = None
        /\ sock' = [sock EXCEPT ![fd] = c]
        /\ fresh' = fresh \ {c}
        /\ accFd' = fd
        /\ accConn' = c
  BY DEF Accept
<1>2. c \in Conns /\ c # None /\ \A gd \in Fds : sock[gd] # c
  BY ConstantsAssumption DEF TypeOK, Custody, Unique
<1>3. /\ \A gd \in Fds : sock'[gd] = IF gd = fd THEN c ELSE sock[gd]
      /\ accPc' = "get_pool"
      /\ UNCHANGED <<interest, clients, loopPc, evFd, client>>
  BY <1>1 DEF TypeOK, Accept, loopVars
<1>4. \A d \in Conns, gd \in Fds : d # c /\ OpenOnlyAt(d, gd) => OpenOnlyAt(d, gd)'
  BY <1>3, ConstantsAssumption DEF OpenOnlyAt
<1>5. \A d \in Conns : d # c => IsOpen(d)' = IsOpen(d)
  BY <1>1, <1>3, ConstantsAssumption DEF IsOpen
<1>6. Unique'
  BY <1>1, <1>2, <1>3 DEF Custody, Unique, TypeOK
<1>7. AcceptHas'
  <2>1. OpenOnlyAt(c, fd)'
    BY <1>2, <1>3 DEF OpenOnlyAt
  <2>2. \A p \in Pools : fd \notin interest[p]
    BY <1>1 DEF Custody, MonitoredIsOpen
  <2>3. UnknownBut({})'
    BY <1>1, <1>2, <1>3 DEF Custody, SlotHas, LoopHas, UnknownBut, Busy
  <2> QED BY <1>1, <1>2, <1>3, <2>1, <2>2, <2>3 DEF AcceptHas, OpenOnlyAt
<1>8. MonitoredIsOpen'
  BY <1>2, <1>3 DEF Custody, MonitoredIsOpen, TypeOK
<1>9. SlotHas'
  BY <1>1, <1>3, <1>4 DEF Custody, SlotHas, TypeOK
<1>10. LoopHas'
  BY <1>1, <1>3, <1>4, <1>5 DEF Custody, SlotHas, LoopHas, Busy, TypeOK
<1> QED BY <1>6, <1>7, <1>8, <1>9, <1>10 DEF Custody

LEMMA GetPoolKeepsCustody ==
  ASSUME TypeOK, Custody, GetPool
  PROVE  Custody'
<1>1. /\ OpensNone
      /\ UNCHANGED <<sock, interest, fresh, accFd, accConn, clients, loopPc, evFd, client>>
  BY DEF GetPool, OpensNone, kernelVars, loopVars
<1>2. AcceptHas'
  BY <1>1 DEF GetPool, Custody, AcceptHas, OpenOnlyAt, UnknownBut, Busy
<1> QED BY <1>1, <1>2, SlotsKept, LoopsKept, OpensNoneKeeps DEF Custody, MonitoredIsOpen

LEMMA AddClientKeepsCustody ==
  ASSUME TypeOK, TypeOK', Custody, AddClient
  PROVE  Custody'
<1>1. /\ accFd \in Fds /\ accConn \in Conns /\ accPool \in Pools
      /\ accPc = "addClient" /\ accPc' = "addFD"
      /\ UNCHANGED <<fresh, accFd, accConn, accPool, loopPc, evFd, client>>
      /\ \A p \in Pools, fd \in Fds : clients'[p][fd] =
           IF p = accPool /\ fd = accFd THEN accConn ELSE clients[p][fd]
  BY DEF AddClient, TypeOK, loopVars
<1>2. \/ UNCHANGED <<sock, interest>> /\ clients[accPool][accFd] = None
      \/ /\ sock' = [sock EXCEPT ![accFd] = None]
         /\ interest' = [p \in Pools |-> interest[p] \ {accFd}]
         /\ clients[accPool][accFd] # None
  BY DEF AddClient, CloseFd, kernelVars
<1>3. OpensNone
  BY <1>1, <1>2, ConstantsAssumption DEF OpensNone, TypeOK
<1>4. MonitoredIsOpen'
  BY <1>1, <1>2 DEF Custody, MonitoredIsOpen, TypeOK
<1>5. accConn \notin fresh /\ OpenOnlyAt(accConn, accFd) /\ accConn # None
  BY <1>1, ConstantsAssumption DEF Custody, AcceptHas
<1>6. AcceptHas'
  <2>1. OpenOnlyAt(accConn, accFd)'
    BY <1>1, <1>3, <1>5, OpensNoneKeeps DEF OpenOnlyAt
  <2>2. sock'[accFd] \notin Conns \ {accConn}
    BY <1>1, <1>2, ConstantsAssumption DEF Custody, AcceptHas, TypeOK
  <2>3. UnknownBut({accPool})'
    BY <1>1 DEF Custody, AcceptHas, UnknownBut, Busy
  <2>4. ASSUME sock'[accFd] = accConn
        PROVE  /\ \A p \in Pools : accFd \notin interest'[p]
               /\ clients'[accPool][accFd] = accConn
               /\ loopPc[accPool] = "erase" => evFd[accPool] # accFd
    <3>1. UNCHANGED <<sock, interest>> /\ clients[accPool][accFd] = None
      BY <1>1, <1>2, <1>5, <2>4 DEF TypeOK
    <3> QED BY <1>1, <2>4, <3>1 DEF Custody, AcceptHas, LoopHas, Busy
  <2> QED BY <1>1, <1>5, <2>1, <2>2, <2>3, <2>4 DEF AcceptHas, OpenOnlyAt
<1>7. SlotHas'
  <2> SUFFICES ASSUME NEW p \in Pools, NEW fd \in Fds, clients'[p][fd] # None
               PROVE  clients'[p][fd] \notin fresh /\ OpenOnlyAt(clients[p][fd], fd)'
    BY <1>1 DEF SlotHas
  <2> PICK c \in Conns : c = clients'[p][fd]
    BY DEF TypeOK
  <2>1. c \notin fresh /\ OpenOnlyAt(c, fd)
    BY <1>1, <1>5 DEF Custody, SlotHas
  <2> QED BY <1>3, <2>1, OpensNoneKeeps DEF OpenOnlyAt
<1>8. LoopHas'
  <2> SUFFICES ASSUME NEW p \in Pools, Busy(p)
               PROVE /\ OpenOnlyAt(client[p], evFd[p])'
                     /\ loopPc[p] # "close" =>
                         /\ clients'[p][evFd[p]] # None
                         /\ clients'[p][evFd[p]] # client[p] =>
                              ~ IsOpen(clients[p][evFd[p]])' /\ ~ IsOpen(client[p])'
    BY <1>1 DEF Custody, LoopHas, Busy
  <2>1. OpenOnlyAt(client[p], evFd[p])'
    BY <1>1, <1>3, OpensNoneKeeps DEF Custody, LoopHas, OpenOnlyAt
  <2>2. CASE ~ (p = accPool /\ evFd[p] = accFd)
    <3>1. clients'[p][evFd[p]] = clients[p][evFd[p]]
      BY <1>1, <2>2 DEF Custody, LoopHas
    <3>2. ASSUME loopPc[p] # "close", clients[p][evFd[p]] # client[p]
          PROVE  ~ IsOpen(clients[p][evFd[p]])' /\ ~ IsOpen(client[p])'
      <4>1. PICK c \in Conns : c = client[p]
        BY DEF Custody, LoopHas
      <4>2. PICK d \in Conns : d = clients[p][evFd[p]]
        BY <3>2 DEF Custody, LoopHas, TypeOK
      <4>3. ~ IsOpen(c)' /\ ~ IsOpen(d)'
        BY <1>3, <3>2, <4>1, <4>2, OpensNoneKeeps DEF Custody, LoopHas
      <4> QED BY <1>1, <3>1, <4>1, <4>2, <4>3 DEF IsOpen
    <3> QED BY <1>1, <2>1, <3>1, <3>2 DEF Custody, LoopHas
  <2>3. CASE p = accPool /\ evFd[p] = accFd /\ loopPc[p] # "close"
    <3>1. clients[accPool][accFd] # None
      BY <2>3 DEF Custody, LoopHas
    <3>2. sock'[accFd] = None
      BY <1>1, <1>2, <3>1 DEF TypeOK
    <3>3. ~ IsOpen(client[p])' /\ ~ IsOpen(accConn)'
      BY <1>1, <1>3, <1>5, <2>1, <2>3, <3>2, OpensNoneKeeps, ConstantsAssumption
      DEF Custody, LoopHas, IsOpen, OpenOnlyAt
    <3> QED BY <1>1, <1>5, <2>1, <2>3, <3>3 DEF IsOpen
  <2> QED BY <2>1, <2>2, <2>3
<1> QED BY <1>3, <1>4, <1>6, <1>7, <1>8, OpensNoneKeeps DEF Custody

LEMMA AddFDKeepsCustody ==
  ASSUME TypeOK, Custody, AddFD
  PROVE  Custody'
<1>1. /\ OpensNone /\ UNCHANGED <<sock, fresh, clients, loopPc, evFd, client>>
      /\ accPc' = "accept" /\ accConn' = None
  BY DEF AddFD, OpensNone, loopVars
<1>2. MonitoredIsOpen'
  BY DEF AddFD, Registrable, TypeOK, Custody, MonitoredIsOpen
<1>3. AcceptHas'
  BY <1>1 DEF AcceptHas
<1> QED BY <1>1, <1>2, <1>3, SlotsKept, LoopsKept, OpensNoneKeeps DEF Custody

LEMMA AddFDThrowsKeepsCustody ==
  ASSUME TypeOK, Custody, AddFDThrows
  PROVE  Custody'
<1>1. /\ OpensNone
      /\ UNCHANGED <<sock, interest, fresh, accFd, accConn, clients, loopPc, evFd, client>>
      /\ accPc = "addFD" /\ accPc' = "catch"
  BY DEF AddFDThrows, OpensNone, kernelVars, loopVars
<1>2. AcceptHas'
  BY <1>1 DEF Custody, AcceptHas, OpenOnlyAt
<1> QED BY <1>1, <1>2, SlotsKept, LoopsKept, OpensNoneKeeps DEF Custody, MonitoredIsOpen

LEMMA CatchCloseKeepsCustody ==
  ASSUME TypeOK, Custody, CatchClose
  PROVE  Custody'
<1>1. /\ UNCHANGED <<fresh, clients, loopPc, evFd, client>>
      /\ accPc' = "accept" /\ accConn' = None
      /\ accFd \in Fds
      /\ sock' = [sock EXCEPT ![accFd] = None]
      /\ interest' = [p \in Pools |-> interest[p] \ {accFd}]
  BY DEF CatchClose, CloseFd, loopVars, TypeOK
<1>2. OpensNone
  BY <1>1, ConstantsAssumption DEF OpensNone, TypeOK
<1>3. MonitoredIsOpen'
  BY <1>1 DEF TypeOK, Custody, MonitoredIsOpen
<1>4. AcceptHas'
  BY <1>1 DEF AcceptHas
<1> QED BY <1>1, <1>2, <1>3, <1>4, SlotsKept, LoopsKept, OpensNoneKeeps DEF Custody

LEMMA PollKeepsCustody ==
  ASSUME TypeOK, Custody, NEW p \in Pools, Poll(p)
  PROVE  Custody'
<1>1. /\ OpensNone /\ UNCHANGED <<kernelVars, acceptVars, clients, evFd, client>>
      /\ loopPc[p] = "poll" /\ loopPc' = [loopPc EXCEPT ![p] = "dispatch"]
  BY DEF Poll, OpensNone, kernelVars, acceptVars
<1>2. \A q \in Pools : (Busy(q)' = Busy(q)) /\ (Busy(q) => loopPc'[q] = loopPc[q])
  BY <1>1 DEF Busy, TypeOK
<1>3. AcceptHas'
  BY <1>1, <1>2 DEF Custody, AcceptHas, OpenOnlyAt, UnknownBut, Busy, kernelVars, acceptVars, TypeOK
<1>4. LoopHas'
  BY <1>1, <1>2 DEF Custody, LoopHas, OpenOnlyAt, IsOpen, kernelVars, acceptVars
<1> QED BY <1>1, <1>3, <1>4, SlotsKept, OpensNoneKeeps
        DEF Custody, MonitoredIsOpen, kernelVars

\* A thread that goes on with the same event, or has done with it.
LEMMA GoingOnKeepsCustody ==
  ASSUME TypeOK, Custody, NEW p \in Pools, Busy(p), loopPc[p] # "close",
         UNCHANGED <<sock, acceptVars, clients>>,
         \A q \in Pools : interest'[q] \subseteq interest[q],
         \A q \in Pools \ {p} :
           loopPc'[q] = loopPc[q] /\ evFd'[q] = evFd[q] /\ client'[q] = client[q],
         Busy(p)' => evFd'[p] = evFd[p] /\ client'[p] = client[p],
         loopPc'[p] # "close",
         loopPc'[p] = "erase" => evFd[p] \in interest[p]
  PROVE  Custody'
<1>1. OpensNone
  BY DEF OpensNone, acceptVars
<1>2. MonitoredIsOpen'
  BY DEF Custody, MonitoredIsOpen
<1>3. AcceptHas'
  BY SMTT(40) DEF Custody, AcceptHas, OpenOnlyAt, UnknownBut, Busy, acceptVars, TypeOK
<1>4. LoopHas'
  BY DEF Custody, LoopHas, Busy, OpenOnlyAt, IsOpen, acceptVars
<1> QED BY <1>1, <1>2, <1>3, <1>4, SlotsKept, OpensNoneKeeps DEF Custody

LEMMA DispatchKeepsCustody ==
  ASSUME TypeOK, Custody, NEW p \in Pools, Dispatch(p)
  PROVE  Custody'
<1>1. /\ OpensNone /\ UNCHANGED <<kernelVars, acceptVars, clients>>
      /\ loopPc[p] = "dispatch"
  BY DEF Dispatch, OpensNone, kernelVars, acceptVars
<1>2. PICK e \in batch[p] :
        IF clients[p][e[1]] = None
          THEN /\ loopPc' = [loopPc EXCEPT ![p] =
                               IF batch[p] = {e} THEN "poll" ELSE "dispatch"]
               /\ UNCHANGED <<evFd, evConn, client>>
          ELSE /\ loopPc' = [loopPc EXCEPT ![p] =
                               IF e[2] = "HANGUP" THEN "removeFD" ELSE "read"]
               /\ evFd' = [evFd EXCEPT ![p] = e[1]]
               /\ client' = [client EXCEPT ![p] = clients[p][e[1]]]
  BY DEF Dispatch
<1>3. PICK fd \in Fds : fd = e[1]
  BY <1>2 DEF TypeOK
<1>4. \A q \in Pools \ {p} :
        loopPc'[q] = loopPc[q] /\ evFd'[q] = evFd[q] /\ client'[q] = client[q]
  BY <1>2 DEF TypeOK
<1>5. \/ ~ Busy(p)' /\ loopPc'[p] # "erase"
      \/ /\ loopPc'[p] \in {"read", "removeFD"}
         /\ evFd'[p] = fd /\ clients[p][fd] # None /\ client'[p] = clients[p][fd]
  BY <1>2, <1>3 DEF TypeOK, Busy
<1>6. AcceptHas'
  <2>1. \A S : UnknownBut(S) => UnknownBut(S)'
    BY <1>1, <1>4, <1>5 DEF UnknownBut, Busy, acceptVars
  <2>2. \A q \in Pools : loopPc'[q] = "erase" => loopPc[q] = "erase" /\ evFd'[q] = evFd[q]
    BY <1>4, <1>5
  <2> QED BY <1>1, <2>1, <2>2 DEF Custody, AcceptHas, OpenOnlyAt, kernelVars, acceptVars, TypeOK
<1>7. LoopHas'
  <2> SUFFICES ASSUME NEW q \in Pools, Busy(q)'
               PROVE /\ evFd'[q] \in Fds
                     /\ client'[q] \in Conns \ fresh
                     /\ OpenOnlyAt(client[q], evFd[q])'
                     /\ loopPc'[q] # "close" =>
                         /\ clients[q][evFd'[q]] # None
                         /\ clients[q][evFd'[q]] # client'[q] =>
                              ~ IsOpen(clients[q][evFd[q]])' /\ ~ IsOpen(client[q])'
    BY <1>1 DEF LoopHas, acceptVars
  <2>1. CASE q # p
    BY <1>1, <1>4, <2>1 DEF Custody, LoopHas, Busy, OpenOnlyAt, IsOpen, kernelVars, acceptVars
  <2>2. CASE q = p
    BY <1>1, <1>5, <2>2 DEF Custody, SlotHas, Busy, OpenOnlyAt, kernelVars, acceptVars, TypeOK
  <2> QED BY <2>1, <2>2
<1> QED BY <1>1, <1>6, <1>7, SlotsKept, OpensNoneKeeps
        DEF Custody, MonitoredIsOpen, kernelVars

LEMMA EraseClientKeepsCustody ==
  ASSUME TypeOK, TypeOK', Custody, NEW p \in Pools, EraseClient(p)
  PROVE  Custody'
<1>1. /\ OpensNone /\ UNCHANGED <<kernelVars, acceptVars, evFd, client>>
      /\ loopPc[p] = "erase" /\ loopPc' = [loopPc EXCEPT ![p] = "close"]
      /\ clients' = [clients EXCEPT ![p][evFd[p]] = None]
  BY DEF EraseClient, GoTo, OpensNone, kernelVars, acceptVars
<1>2. /\ \A q \in Pools : Busy(q)' = Busy(q) /\ (q # p => loopPc'[q] = loopPc[q])
      /\ loopPc'[p] = "close"
      /\ evFd[p] \in Fds
      /\ \A q \in Pools, fd \in Fds :
           clients'[q][fd] = IF q = p /\ fd = evFd[p] THEN None ELSE clients[q][fd]
  BY <1>1 DEF Busy, TypeOK, Custody, LoopHas
<1>3. AcceptHas'
  BY <1>1, <1>2, ConstantsAssumption
  DEF Custody, AcceptHas, OpenOnlyAt, UnknownBut, kernelVars, acceptVars, TypeOK
<1>4. LoopHas'
  BY <1>1, <1>2 DEF Custody, LoopHas, OpenOnlyAt, IsOpen, kernelVars, acceptVars
<1> QED BY <1>1, <1>2, <1>3, <1>4, SlotsKept, OpensNoneKeeps
        DEF Custody, MonitoredIsOpen, kernelVars

LEMMA CloseClientKeepsCustody ==
  ASSUME TypeOK, Custody, NEW p \in Pools, CloseClient(p)
  PROVE  Custody'
<1>1. /\ loopPc[p] = "close" /\ evFd[p] \in Fds
      /\ sock' = [sock EXCEPT ![evFd[p]] = None]
      /\ interest' = [q \in Pools |-> interest[q] \ {evFd[p]}]
      /\ UNCHANGED <<acceptVars, clients>>
      /\ loopPc'[p] \in {"poll", "dispatch"}
      /\ \A q \in Pools \ {p} :
           loopPc'[q] = loopPc[q] /\ evFd'[q] = evFd[q] /\ client'[q] = client[q]
  BY DEF CloseClient, CloseFd, EventDone, TypeOK, Custody, LoopHas, Busy
<1>2. OpensNone
  BY <1>1, ConstantsAssumption DEF OpensNone, acceptVars, TypeOK
<1>3. MonitoredIsOpen'
  BY <1>1 DEF Custody, MonitoredIsOpen, TypeOK
<1>4. AcceptHas'
  <2>1. accPc # "accept" => OpenOnlyAt(accConn, accFd)'
    BY <1>1, <1>2, AcceptedKept DEF Custody, AcceptHas
  <2>2. \A fd \in Fds : sock'[fd] = sock[fd] \/ sock'[fd] = None
    BY <1>1 DEF TypeOK
  <2>3. \A S : UnknownBut(S) => UnknownBut(S)'
    BY <1>1 DEF UnknownBut, Busy, acceptVars
  <2>4. \A q \in Pools : loopPc'[q] = "erase" => loopPc[q] = "erase" /\ evFd'[q] = evFd[q]
    BY <1>1
  <2> QED BY <1>1, <2>1, <2>2, <2>3, <2>4, ConstantsAssumption
          DEF Custody, AcceptHas, acceptVars, TypeOK
<1>5. LoopHas'
  <2> SUFFICES ASSUME NEW q \in Pools \ {p}, Busy(q)
               PROVE /\ OpenOnlyAt(client[q], evFd[q])'
                     /\ loopPc[q] # "close" /\ clients[q][evFd[q]] # client[q] =>
                          ~ IsOpen(clients[q][evFd[q]])' /\ ~ IsOpen(client[q])'
    BY <1>1 DEF Custody, LoopHas, Busy, acceptVars
  <2>1. PICK c \in Conns : c = client[q]
    BY DEF Custody, LoopHas
  <2>2. OpenOnlyAt(c, evFd[q])'
    BY <1>1, <1>2, <2>1, OpensNoneKeeps DEF Custody, LoopHas, OpenOnlyAt
  <2>3. ASSUME loopPc[q] # "close", clients[q][evFd[q]] # c
        PROVE  ~ IsOpen(clients[q][evFd[q]])' /\ ~ IsOpen(c)'
    <3>1. PICK d \in Conns : d = clients[q][evFd[q]]
      BY <2>3 DEF Custody, LoopHas, TypeOK
    <3>2. ~ IsOpen(c)' /\ ~ IsOpen(d)'
      BY <1>2, <2>1, <2>3, <3>1, OpensNoneKeeps DEF Custody, LoopHas
    <3> QED BY <1>1, <3>1, <3>2 DEF IsOpen
  <2> QED BY <1>1, <2>1, <2>2, <2>3 DEF IsOpen, OpenOnlyAt
<1> QED BY <1>1, <1>2, <1>3, <1>4, <1>5, SlotsKept, OpensNoneKeeps DEF Custody

LEMMA PoolThreadKeepsCustody ==
  ASSUME TypeOK, TypeOK', Custody, NEW p \in Pools, PoolThread(p)
  PROVE  Custody'
<1>1. CASE ReadEnds(p) \/ ReadComplete(p) \/ Respond(p) \/ ReadIncomplete(p) \/ RemoveFD(p)
  <2>1. Busy(p) /\ loopPc[p] # "close" /\ UNCHANGED <<sock, acceptVars, clients>>
    BY <1>1 DEF ReadEnds, ReadComplete, Respond, ReadIncomplete, RemoveFD, Busy, kernelVars
  <2>2. \A q \in Pools : interest'[q] \subseteq interest[q]
    <3>1. CASE RemoveFD(p)
      <4>1. interest' = interest \/ interest' = [interest EXCEPT ![p] = @ \ {evFd[p]}]
        BY <3>1 DEF RemoveFD
      <4> QED BY <4>1, ZenonT(40) DEF TypeOK
    <3>2. CASE ~ RemoveFD(p)
      <4>1. interest' = interest
        BY <1>1, <3>2 DEF ReadEnds, ReadComplete, Respond, ReadIncomplete, kernelVars
      <4> QED BY <4>1
    <3> QED BY <3>1, <3>2
  <2>3. /\ \A q \in Pools \ {p} :
           loopPc'[q] = loopPc[q] /\ evFd'[q] = evFd[q] /\ client'[q] = client[q]
        /\ Busy(p)' => evFd'[p] = evFd[p] /\ client'[p] = client[p]
        /\ loopPc'[p] # "close"
        /\ loopPc'[p] = "erase" => evFd[p] \in interest[p]
    BY <1>1 DEF ReadEnds, ReadComplete, Respond, ReadIncomplete, RemoveFD, GoTo, EventDone,
                Busy, TypeOK
  <2> QED BY <2>1, <2>2, <2>3, GoingOnKeepsCustody
<1> QED BY <1>1, PollKeepsCustody, DispatchKeepsCustody, EraseClientKeepsCustody,
           CloseClientKeepsCustody DEF PoolThread

LEMMA OthersKeepCustody ==
  ASSUME TypeOK, Custody, NEW fd \in Fds, OpenOther(fd) \/ CloseOther(fd)
  PROVE  Custody'
<1>1. /\ UNCHANGED <<acceptVars, clients, loopPc, evFd, client>>
      /\ \A q \in Pools : interest'[q] \subseteq interest[q]
      /\ \/ /\ sock[fd] = None /\ sock' = [sock EXCEPT ![fd] = Other]
         \/ /\ sock[fd] = Other /\ sock' = [sock EXCEPT ![fd] = None]
            /\ \A q \in Pools : fd \notin interest'[q]
  BY DEF OpenOther, CloseOther, CloseFd, loopVars
<1>2. OpensNone
  BY <1>1, ConstantsAssumption DEF OpensNone, acceptVars, TypeOK
<1>3. MonitoredIsOpen'
  BY <1>1, ConstantsAssumption DEF Custody, MonitoredIsOpen, TypeOK
<1>4. AcceptHas'
  <2>1. accPc # "accept" => OpenOnlyAt(accConn, accFd)'
    BY <1>1, <1>2, AcceptedKept DEF Custody, AcceptHas
  <2>2. \A gd \in Fds : sock'[gd] = sock[gd] \/ sock'[gd] \in {None, Other}
    BY <1>1 DEF TypeOK
  <2>3. \A S : UnknownBut(S) => UnknownBut(S)'
    BY <1>1 DEF UnknownBut, Busy, acceptVars
  <2> QED BY <1>1, <2>1, <2>2, <2>3, ConstantsAssumption
          DEF Custody, AcceptHas, acceptVars, TypeOK
<1> QED BY <1>1, <1>2, <1>3, <1>4, SlotsKept, LoopsKept, OpensNoneKeeps DEF Custody

LEMMA CustodyHolds == Spec => []Custody
<1>1. Init => Custody
  BY ConstantsAssumption
  DEF Init, Custody, Unique, AcceptHas, MonitoredIsOpen, SlotHas, LoopHas, Busy
<1>2. TypeOK /\ TypeOK' /\ Custody /\ [Next]_vars => Custody'
  <2> SUFFICES ASSUME TypeOK, TypeOK', Custody, [Next]_vars PROVE Custody'
    OBVIOUS
  <2>1. CASE AcceptThread
    BY <2>1, AcceptKeepsCustody, GetPoolKeepsCustody, AddClientKeepsCustody,
       AddFDKeepsCustody, AddFDThrowsKeepsCustody, CatchCloseKeepsCustody
    DEF AcceptThread
  <2>2. CASE UNCHANGED vars
    BY <2>2 DEF vars, kernelVars, acceptVars, loopVars, Custody, Unique, AcceptHas,
                MonitoredIsOpen, SlotHas, LoopHas, Busy, OpenOnlyAt, UnknownBut, IsOpen
  <2> QED BY <2>1, <2>2, PoolThreadKeepsCustody, OthersKeepCustody DEF Next
<1> QED BY <1>1, <1>2, TypeCorrect, PTL DEF Spec

-----------------------------------------------------------------------------
(***************************************************************************)
(* Connections implements ConnectionService.  A step of the program is a   *)
(* step of the service, or leaves every phase and every home as it was.    *)
(***************************************************************************)
Held == TypeOK /\ Custody

\* The step changes nothing of the service.
Same == \A c \in Conns : PhaseOf(c)' = PhaseOf(c) /\ HomeOf(c)' = HomeOf(c)

LEMMA SameStutters ==
  ASSUME Same
  PROVE  UNCHANGED <<[c \in Conns |-> PhaseOf(c)], [c \in Conns |-> HomeOf(c)]>>
BY DEF Same

\* The home follows from the phase and the holders.
LEMMA HomeFollows ==
  ASSUME NEW c \in Conns, PhaseOf(c)' = PhaseOf(c),
         PhaseOf(c) = "active" => Holders(c)' = Holders(c)
  PROVE  HomeOf(c)' = HomeOf(c)
BY DEF HomeOf

\* An open connection the accept thread does not hold is active.
LEMMA Phases ==
  ASSUME Held, NEW c \in Conns
  PROVE  /\ PhaseOf(c) = "waiting" <=> c \in fresh
         /\ PhaseOf(c) = "accepted" <=> IsOpen(c) /\ accConn = c
         /\ PhaseOf(c) = "active" <=> IsOpen(c) /\ accConn # c
         /\ PhaseOf(c) = "closed" <=> c \notin fresh /\ ~ IsOpen(c)
<1>1. c \in fresh => ~ IsOpen(c)
  BY DEF Held, Custody, Unique, IsOpen
<1> QED BY <1>1 DEF PhaseOf

\* ::close of a number ends the connection that is open under it, if there is one.
LEMMA ClosingEnds ==
  ASSUME Held, NEW fd \in Fds, sock' = [sock EXCEPT ![fd] = None], NEW d \in Conns
  PROVE  IsOpen(d)' <=> IsOpen(d) /\ d # sock[fd]
<1>1. \A gd \in Fds : sock'[gd] = IF gd = fd THEN None ELSE sock[gd]
  BY DEF Held, TypeOK
<1> QED BY <1>1, ConstantsAssumption DEF IsOpen, Held, Custody, Unique

\* The three ways in which a step that accepts nothing is a step of the service.
Keeps(d) == PhaseOf(d) = "active" => Holders(d)' = Holders(d)

LEMMA Stutters ==
  ASSUME UNCHANGED fresh,
         \A d \in Conns : (IsOpen(d)' <=> IsOpen(d)),
         \A d \in Conns : IsOpen(d) => (accConn' = d <=> accConn = d),
         \A d \in Conns : Keeps(d)
  PROVE  Same
<1>1. \A d \in Conns : PhaseOf(d)' = PhaseOf(d)
  BY DEF PhaseOf
<1> QED BY <1>1, HomeFollows DEF Same, Keeps

LEMMA Refuses ==
  ASSUME Held, UNCHANGED fresh, NEW c \in Conns, IsOpen(c),
         accConn = c, accConn' \in {c, None},
         \A d \in Conns : IsOpen(d)' <=> IsOpen(d) /\ d # c,
         \A d \in Conns : Keeps(d)
  PROVE  Service!Refuse(c)
<1>1. PhaseOf(c) = "accepted" /\ PhaseOf(c)' = "closed"
  BY Phases DEF PhaseOf
<1>2. \A d \in Conns : d # c => PhaseOf(d)' = PhaseOf(d)
  BY ConstantsAssumption DEF PhaseOf
<1>3. \A d \in Conns : HomeOf(d)' = HomeOf(d)
  <2>1. HomeOf(c)' = HomeOf(c)
    BY <1>1 DEF HomeOf
  <2> QED BY <1>2, <2>1, HomeFollows DEF Keeps
<1> QED BY <1>1, <1>2, <1>3 DEF Service!Refuse

LEMMA Finishes ==
  ASSUME Held, UNCHANGED <<fresh, accConn>>, NEW c \in Conns, IsOpen(c), accConn # c,
         \A d \in Conns : IsOpen(d)' <=> IsOpen(d) /\ d # c,
         \A d \in Conns : d # c => Keeps(d)
  PROVE  Service!Finish(c)
<1>1. PhaseOf(c) = "active" /\ PhaseOf(c)' = "closed"
  BY Phases DEF PhaseOf
<1>2. \A d \in Conns : d # c => PhaseOf(d)' = PhaseOf(d)
  BY DEF PhaseOf
<1>3. \A d \in Conns : d # c => HomeOf(d)' = HomeOf(d)
  BY <1>2, HomeFollows DEF Keeps
<1>4. HomeOf(c)' = None
  BY <1>1 DEF HomeOf
<1> QED BY <1>1, <1>2, <1>3, <1>4 DEF Service!Finish

-----------------------------------------------------------------------------
(***************************************************************************)
(* The accept thread.                                                      *)
(***************************************************************************)

\* ::accept takes a connection while no other is being distributed.
LEMMA AcceptTakes ==
  ASSUME Held, Accept
  PROVE  \E c \in Conns : Service!Take(c)
<1>1. PICK c \in fresh, fd \in Fds :
        /\ sock[fd] = None
        /\ sock' = [sock EXCEPT ![fd] = c]
        /\ fresh' = fresh \ {c}
        /\ accConn' = c
  BY DEF Accept
<1>2. c \in Conns /\ accConn = None
  BY DEF Held, TypeOK, Custody, AcceptHas, Accept
<1>3. \A d \in Conns : IsOpen(d)' <=> IsOpen(d) \/ d = c
  BY <1>1, <1>2, ConstantsAssumption DEF IsOpen, Held, TypeOK
<1>4. \A d \in Conns : PhaseOf(d) # "accepted"
  BY <1>2, Phases, ConstantsAssumption
<1>5. \A d \in Conns : d # c => PhaseOf(d)' = PhaseOf(d)
  BY <1>1, <1>2, <1>3, ConstantsAssumption DEF PhaseOf
<1>6. PhaseOf(c) = "waiting" /\ PhaseOf(c)' = "accepted"
  BY <1>1, <1>2, <1>3 DEF PhaseOf
<1>7. \A d \in Conns : Holders(d)' = Holders(d)
  BY DEF Accept, Holders, loopVars
<1>8. \A d \in Conns : HomeOf(d)' = HomeOf(d)
  <2>1. HomeOf(c)' = HomeOf(c)
    BY <1>6 DEF HomeOf
  <2> QED BY <1>5, <1>7, <2>1, HomeFollows
<1> QED
  BY <1>2, <1>4, <1>5, <1>6, <1>8 DEF Service!Take

\* PoolManager::get_pool, and a failed Poller::addFD.
LEMMA DistributingStutters ==
  ASSUME Held, GetPool \/ AddFDThrows
  PROVE  Same
<1>1. UNCHANGED <<sock, fresh, accConn, clients, loopPc, client>>
  BY DEF GetPool, AddFDThrows, kernelVars, loopVars
<1> QED BY <1>1, Stutters DEF IsOpen, Keeps, Holders

\* ConnectionPool::addClient closes the number it stores the Client under if the
\* slot holds another one: the new connection is refused, if it is still open.
LEMMA AddClientRefines ==
  ASSUME Held, AddClient
  PROVE  Same \/ \E c \in Conns : Service!Refuse(c)
<1>0. PICK c \in Conns, fd \in Fds, p \in Pools : c = accConn /\ fd = accFd /\ p = accPool
  BY DEF Held, TypeOK, AddClient
<1>1. /\ UNCHANGED <<fresh, accConn, loopPc, client>>
      /\ \A q \in Pools, gd \in Fds : clients'[q][gd] =
           IF q = p /\ gd = fd THEN c ELSE clients[q][gd]
      /\ \/ clients[p][fd] = None /\ UNCHANGED sock
         \/ clients[p][fd] # None /\ sock' = [sock EXCEPT ![fd] = None]
  BY <1>0 DEF AddClient, CloseFd, kernelVars, loopVars, Held, TypeOK
<1>2. /\ OpenOnlyAt(c, fd)
      /\ sock[fd] \notin Conns \ {c}
  BY <1>0 DEF AddClient, Held, Custody, AcceptHas
<1>3. ASSUME NEW d \in Conns, PhaseOf(d) = "active" PROVE Holders(d)' = Holders(d)
  <2>1. d # c /\ IsOpen(d)
    BY <1>0, <1>3, Phases
  <2>2. clients[p][fd] # d
    BY <1>2, <2>1, ConstantsAssumption DEF Held, Custody, SlotHas, OpenOnlyAt, IsOpen
  <2>3. \A q \in Pools, gd \in Fds : clients'[q][gd] = d <=> clients[q][gd] = d
    BY <1>1, <2>1, <2>2
  <2> QED BY <1>1, <2>3 DEF Holders
<1>4. CASE UNCHANGED sock
  BY <1>1, <1>3, <1>4, Stutters DEF IsOpen, Keeps
<1>5. CASE sock' = [sock EXCEPT ![fd] = None]
  <2>1. \A d \in Conns : IsOpen(d)' <=> IsOpen(d) /\ d # sock[fd]
    BY <1>5, ClosingEnds
  <2>2. CASE sock[fd] = c
    <3>1. IsOpen(c)
      BY <2>2 DEF IsOpen
    <3> QED BY <1>0, <1>1, <1>3, <2>1, <2>2, <3>1, Refuses DEF Keeps
  <2>3. CASE sock[fd] # c
    <3>1. \A d \in Conns : (IsOpen(d)' <=> IsOpen(d))
      BY <1>2, <2>1, <2>3
    <3> QED BY <1>1, <1>3, <3>1, Stutters DEF Keeps
  <2> QED BY <2>2, <2>3
<1> QED BY <1>1, <1>4, <1>5

\* Poller::addFD gives the connection to the pool that has its Client, unless
\* the connection has been closed by then.
LEMMA AddFDRefines ==
  ASSUME Held, AddFD
  PROVE  Same \/ \E c \in Conns : \E p \in Pools : Service!Assign(c, p)
<1>0. PICK c \in Conns, p \in Pools, fd \in Fds : c = accConn /\ p = accPool /\ fd = accFd
  BY DEF Held, TypeOK, AddFD
<1>1. accConn' = None /\ UNCHANGED <<sock, fresh, clients, loopPc, client>>
  BY DEF AddFD, loopVars
<1>2. \A d \in Conns : (IsOpen(d)' <=> IsOpen(d)) /\ Holders(d)' = Holders(d)
  BY <1>1 DEF IsOpen, Holders
<1>3. CASE ~ IsOpen(c)
  BY <1>0, <1>1, <1>2, <1>3, ConstantsAssumption, Stutters DEF Keeps
<1>4. CASE IsOpen(c)
  <2>1. sock[fd] = c
    BY <1>0, <1>4 DEF IsOpen, Held, Custody, AcceptHas, OpenOnlyAt, AddFD
  <2>2. \A d \in Conns : d # c => PhaseOf(d)' = PhaseOf(d)
    BY <1>0, <1>1, <1>2, ConstantsAssumption DEF PhaseOf
  <2>3. PhaseOf(c) = "accepted" /\ PhaseOf(c)' = "active"
    <3>1. PhaseOf(c) = "accepted" /\ c \notin fresh
      BY <1>0, <1>4, Phases DEF Held, Custody, Unique, IsOpen
    <3> QED BY <1>1, <1>2, <1>4, <3>1, ConstantsAssumption DEF PhaseOf
  <2>4. \A d \in Conns : d # c => HomeOf(d)' = HomeOf(d)
    BY <1>2, <2>2, HomeFollows
  <2>5. Holders(c) = {p}
    <3>1. clients[p][fd] = c
      BY <1>0, <2>1 DEF AddFD, Held, Custody, AcceptHas
    <3>2. \A q \in Pools : q # p =>
            /\ \A gd \in Fds : clients[q][gd] # c
            /\ loopPc[q] = "close" => client[q] # c
      BY <1>0 DEF AddFD, Held, Custody, AcceptHas, UnknownBut, Busy
    <3> QED BY <3>1, <3>2 DEF Holders
  <2>6. HomeOf(c)' = p
    <3>1. OneOf({p}) = p
      BY DEF OneOf
    <3> QED BY <1>2, <2>3, <2>5, <3>1 DEF HomeOf
  <2> QED BY <2>2, <2>3, <2>4, <2>6 DEF Service!Assign
<1> QED BY <1>3, <1>4

\* The catch block closes the connection the accept thread could not distribute.
LEMMA CatchCloseRefines ==
  ASSUME Held, CatchClose
  PROVE  Same \/ \E c \in Conns : Service!Refuse(c)
<1>0. PICK c \in Conns, fd \in Fds : c = accConn /\ fd = accFd
  BY DEF Held, TypeOK, CatchClose
<1>1. /\ accConn' = None /\ UNCHANGED <<fresh, clients, loopPc, client>>
      /\ sock' = [sock EXCEPT ![fd] = None]
  BY <1>0 DEF CatchClose, CloseFd, loopVars
<1>2. \A d \in Conns : Keeps(d)
  BY <1>1 DEF Keeps, Holders
<1>3. \A d \in Conns : IsOpen(d)' <=> IsOpen(d) /\ d # sock[fd]
  BY <1>1, ClosingEnds
<1>4. OpenOnlyAt(c, fd) /\ sock[fd] \notin Conns \ {c}
  BY <1>0 DEF CatchClose, Held, Custody, AcceptHas
<1>5. CASE sock[fd] = c
  <2>1. IsOpen(c)
    BY <1>5 DEF IsOpen
  <2> QED BY <1>0, <1>1, <1>2, <1>3, <1>5, <2>1, Refuses
<1>6. CASE sock[fd] # c
  <2>1. ~ IsOpen(c) /\ \A d \in Conns : (IsOpen(d)' <=> IsOpen(d))
    BY <1>3, <1>4, <1>6 DEF IsOpen, OpenOnlyAt
  <2> QED BY <1>0, <1>1, <1>2, <2>1, ConstantsAssumption, Stutters
<1> QED BY <1>5, <1>6

-----------------------------------------------------------------------------
(***************************************************************************)
(* The pools' threads and the rest of the process.                         *)
(***************************************************************************)

\* ~Client ends the connection that is open under its number: the one it was
\* made for, or another one that was given the number after epoll_ctl failed.
LEMMA CloseClientRefines ==
  ASSUME Held, NEW p \in Pools, CloseClient(p)
  PROVE  Same \/ \E c \in Conns : Service!Finish(c) \/ Service!Refuse(c)
<1>0. PICK d \in Conns, fd \in Fds : d = client[p] /\ fd = evFd[p] /\ OpenOnlyAt(d, fd)
  BY DEF CloseClient, Held, Custody, LoopHas, Busy
<1>1. /\ UNCHANGED <<fresh, accConn, clients>>
      /\ sock' = [sock EXCEPT ![fd] = None]
      /\ loopPc'[p] # "close"
      /\ \A q \in Pools : q # p => loopPc'[q] = loopPc[q] /\ client'[q] = client[q]
  BY <1>0 DEF CloseClient, CloseFd, EventDone, acceptVars, Held, TypeOK
<1>2. \A e \in Conns : IsOpen(e)' <=> IsOpen(e) /\ e # sock[fd]
  BY <1>1, ClosingEnds
<1>3. \A e \in Conns : e # d => Keeps(e)
  BY <1>0, <1>1 DEF Keeps, Holders
<1>4. d # sock[fd] => ~ IsOpen(d) /\ Keeps(d)
  <2>1. d # sock[fd] => ~ IsOpen(d)
    BY <1>0 DEF IsOpen, OpenOnlyAt
  <2> QED BY <2>1, Phases DEF Keeps
<1>5. CASE sock[fd] \notin Conns
  BY <1>1, <1>2, <1>3, <1>4, <1>5, Stutters
<1>6. ASSUME NEW c \in Conns, c = sock[fd]
      PROVE  Service!Finish(c) \/ Service!Refuse(c)
  <2>1. IsOpen(c) /\ \A e \in Conns : e # c => Keeps(e)
    BY <1>3, <1>4, <1>6 DEF IsOpen
  <2>2. CASE accConn = c
    <3>1. Keeps(c)
      BY <2>2, Phases DEF Keeps
    <3> QED BY <1>1, <1>2, <1>6, <2>1, <2>2, <3>1, Refuses
  <2>3. CASE accConn # c
    BY <1>1, <1>2, <1>6, <2>1, <2>3, Finishes
  <2> QED BY <2>2, <2>3
<1> QED BY <1>5, <1>6

\* ConnectionPool::removeClient takes the Client out of the map, and the pool's
\* thread still holds it.
LEMMA EraseClientStutters ==
  ASSUME Held, NEW p \in Pools, EraseClient(p)
  PROVE  Same
<1>0. PICK d \in Conns, fd \in Fds :
        /\ d = client[p] /\ fd = evFd[p]
        /\ clients[p][fd] # d => ~ IsOpen(clients[p][fd]) /\ ~ IsOpen(d)
  BY DEF EraseClient, Held, Custody, LoopHas, Busy
<1>1. /\ UNCHANGED <<sock, fresh, accConn, client>>
      /\ loopPc[p] = "erase" /\ loopPc'[p] = "close"
      /\ \A q \in Pools : q # p => loopPc'[q] = loopPc[q]
      /\ \A q \in Pools, gd \in Fds : clients'[q][gd] =
           IF q = p /\ gd = fd THEN None ELSE clients[q][gd]
  BY <1>0 DEF EraseClient, GoTo, kernelVars, acceptVars, Held, TypeOK
<1>2. ASSUME NEW c \in Conns, PhaseOf(c) = "active" PROVE Holders(c)' = Holders(c)
  <2>1. IsOpen(c)
    BY <1>2, Phases
  <2>2. \A q \in Pools : q # p => (q \in Holders(c)' <=> q \in Holders(c))
    BY <1>1 DEF Holders
  <2>3. p \in Holders(c)' <=> p \in Holders(c)
    <3>1. CASE c = d
      <4>1. clients[p][fd] = c
        BY <1>0, <2>1, <3>1
      <4> QED BY <1>0, <1>1, <3>1, <4>1 DEF Holders
    <3>2. CASE c # d
      <4>1. clients[p][fd] # c
        BY <1>0, <2>1, <3>2
      <4> QED BY <1>0, <1>1, <3>2, <4>1, ConstantsAssumption DEF Holders
    <3> QED BY <3>1, <3>2
  <2> QED BY <2>2, <2>3 DEF Holders
<1> QED BY <1>1, <1>2, Stutters DEF IsOpen, Keeps

\* Before that, a pool's thread changes neither descriptors nor the map.
LEMMA HandlingStutters ==
  ASSUME Held, NEW p \in Pools, PoolThread(p), ~ EraseClient(p), ~ CloseClient(p)
  PROVE  Same
<1>1. UNCHANGED <<sock, fresh, accConn, clients>>
  BY DEF PoolThread, Poll, Dispatch, ReadEnds, ReadIncomplete, ReadComplete, Respond,
         RemoveFD, kernelVars, acceptVars
<1>2. /\ loopPc[p] # "close" /\ loopPc'[p] # "close"
      /\ \A q \in Pools : q # p => loopPc'[q] = loopPc[q] /\ client'[q] = client[q]
  BY DEF PoolThread, Poll, Dispatch, ReadEnds, ReadIncomplete, ReadComplete,
         Respond, RemoveFD, GoTo, EventDone, Held, TypeOK
<1>3. \A d \in Conns : Holders(d)' = Holders(d)
  BY <1>1, <1>2 DEF Holders
<1> QED BY <1>1, <1>3, Stutters DEF IsOpen, Keeps

LEMMA OtherStutters ==
  ASSUME Held, NEW fd \in Fds, OpenOther(fd) \/ CloseOther(fd)
  PROVE  Same
<1>1. \A d \in Conns : (IsOpen(d)' <=> IsOpen(d))
  <2>1. \E x \in {None, Other} :
          sock[fd] \in {None, Other} /\ sock' = [sock EXCEPT ![fd] = x]
    BY DEF OpenOther, CloseOther, CloseFd
  <2> QED BY <2>1, ConstantsAssumption DEF IsOpen, Held, TypeOK
<1>2. UNCHANGED <<fresh, accConn, clients, loopPc, client>>
  BY DEF OpenOther, CloseOther, acceptVars, loopVars
<1> QED BY <1>1, <1>2, Stutters DEF Keeps, Holders

-----------------------------------------------------------------------------
\* The accept thread, the pools' threads, the descriptor table and the epoll
\* instances give every connection the life ConnectionService describes: taken one
\* at a time, given to one pool or refused, and closed once; also when epoll_ctl
\* fails, after which numbers are closed that have been given away.
THEOREM ConnectionsAreServed == Spec => RefinesService
<1>1. Init => Service!Init
  BY ConstantsAssumption DEF Init, Service!Init, PhaseOf, HomeOf
<1>2. TypeOK /\ Custody /\ [Next]_vars =>
        [Service!Next]_<<[c \in Conns |-> PhaseOf(c)], [c \in Conns |-> HomeOf(c)]>>
  <2> SUFFICES ASSUME Held, [Next]_vars
               PROVE  Service!Next \/ Same
    BY SameStutters DEF Held
  <2>1. CASE UNCHANGED vars
    BY <2>1 DEF Same, PhaseOf, HomeOf, Holders, IsOpen, vars, kernelVars, acceptVars, loopVars
  <2>2. CASE AcceptThread
    BY <2>2, AcceptTakes, DistributingStutters, AddClientRefines, AddFDRefines,
       CatchCloseRefines DEF AcceptThread, Service!Next, Service!Settle
  <2>3. ASSUME NEW p \in Pools, PoolThread(p) PROVE Service!Next \/ Same
    BY <2>3, CloseClientRefines, EraseClientStutters, HandlingStutters
    DEF Service!Next, Service!Settle
  <2>4. ASSUME NEW fd \in Fds, OpenOther(fd) \/ CloseOther(fd) PROVE Same
    BY <2>4, OtherStutters
  <2> QED BY <2>1, <2>2, <2>3, <2>4 DEF Next
<1> QED BY <1>1, <1>2, TypeCorrect, CustodyHolds, PTL DEF Spec, RefinesService, Service!Spec

-----------------------------------------------------------------------------
(***************************************************************************)
(* Delivery.                                                               *)
(***************************************************************************)
\* Bytes are received in the buffer of the connection they arrived on, and only
\* connections that were accepted have any.
BytesCounted ==
  /\ arrived \in [Conns -> 0 .. Pieces]
  /\ consumed \in [Conns -> 0 .. Pieces]
  /\ buffer = consumed
  /\ gone \subseteq Conns
  /\ answers \in [Conns -> SUBSET Conns]
  /\ \A c \in Conns : consumed[c] <= arrived[c]
  /\ \A c \in fresh : arrived[c] = 0

\* There is something to be done about the connection.
Wanted(c) == c \in gone \cup shut \/ arrived[c] > consumed[c]

\* An event that is still to be handled finds something to read, the peer's
\* shutdown or a reset.
EventsWanted ==
  \A p \in Pools :
    /\ \A e \in batch[p] : Wanted(e[3]) /\ (e[2] = "HANGUP" => e[3] \in gone)
    /\ loopPc[p] = "read" => Wanted(client[p])

\* A connection that may be closed.
Served(c) ==
  \/ c \in gone
  \/ c \in answers[c]
  \/ c \in shut /\ arrived[c] < Pieces

\* What a thread answers was received whole, and what it removes may be closed.
Progress ==
  \A p \in Pools :
    /\ loopPc[p] = "respond" => consumed[client[p]] = Pieces
    /\ loopPc[p] \in {"removeFD", "erase", "close"} => Served(client[p])

\* Nothing is read before the hand-over, and once all of a request was read, its
\* thread is on the way to the answer: it does not come back to read.
ReadOnce ==
  /\ accPc # "accept" => consumed[accConn] = 0
  /\ \A p \in Pools : \A fd \in interest[p] :
       consumed[sock[fd]] = Pieces => Busy(p) /\ evFd[p] = fd /\ loopPc[p] # "read"

\* A thread without an event has none.
Idle == \A p \in Pools : loopPc[p] \in {"poll", "dispatch"} => evConn[p] = None

\* A peer gets its own answer, after all it has sent.
AnswersOwn ==
  \A c \in Conns : answers[c] # {} => answers[c] = {c} /\ consumed[c] = Pieces

\* The inductive invariant of the bytes, on top of Possession.
ByteInv ==
  /\ BytesCounted
  /\ EventsWanted
  /\ Progress
  /\ ReadOnce
  /\ AnswersOwn
  /\ Idle
  /\ EveryByteHasAnEvent

\* Where the accept thread is with a connection, and whether it is going to be
\* refused.
CauseKnown ==
  /\ cause \in [Conns -> Conns \cup {None}]
  /\ \A c \in fresh : cause[c] = None
  /\ accPc \in {"get_pool", "addClient"} => sock[accFd] = accConn /\ cause[accConn] = None
  /\ accPc = "addFD" => (sock[accFd] = accConn <=> cause[accConn] = None)
  /\ accPc = "catch" => cause[accConn] # None

\* A Client in a map is that of the open connection, in no other map and not in
\* the hands of a thread that closes it, or that of a refused one.
StaleIsRefused ==
  \A p \in Pools, fd \in Fds : clients[p][fd] # None =>
    IF sock[fd] = clients[p][fd]
    THEN \A q \in Pools :
           /\ clients[q][fd] = sock[fd] => q = p
           /\ ~ (loopPc[q] = "close" /\ evFd[q] = fd)
    ELSE cause[clients[p][fd]] # None

\* The inductive invariant of the refusals, on top of Custody and Possession.
RefusalInv ==
  /\ CauseKnown
  /\ StaleIsRefused
  /\ RefusalsAreCaused

-----------------------------------------------------------------------------
(***************************************************************************)
(* Delivery is a Connections whose threads take only some of their steps,  *)
(* in a process that opens no descriptors of its own.                      *)
(***************************************************************************)
LEMMA StepsAreSteps ==
  [DeliveryNext]_deliveryVars => [AcceptThread \/ \E p \in Pools : PoolThread(p)]_vars
BY DEF DeliveryNext, PeerSends, PeerShutsDown, PeerResets, Arrives, AcceptBytes, DistributeBytes,
       Distribute, PollEdges, HandleBytes, PoolThread, AcceptThread, deliveryVars

\* Whatever is proved of Connections holds of Delivery.
THEOREM DeliveryIsConnections == DeliverySpec => Spec
<1>1. [DeliveryNext]_deliveryVars => [Next]_vars
  BY StepsAreSteps DEF Next
<1> QED BY <1>1, PTL DEF DeliverySpec, DeliveryInit, Spec

(***************************************************************************)
(* Possession: what is left of Ownership when epoll_ctl may run out of     *)
(* resources, and no more is needed to deliver.  A Client may stay in a    *)
(* slot whose descriptor was closed by the accept thread, but never under  *)
(* a descriptor that is monitored or that a thread works on.               *)
(***************************************************************************)

\* What the accept thread distributes is open until its own catch block or the
\* destructor of a Client left in the slot closes it, and nobody else has it.
AcceptHolds ==
  /\ accPc = "accept" => accConn = None /\ accFd = None
  /\ accPc # "accept" =>
       /\ sock[accFd] \in {accConn, None}
       /\ \A p \in Pools : accFd \notin interest[p] /\ (Busy(p) => evFd[p] # accFd)
  /\ accPc = "addFD" /\ sock[accFd] = accConn => clients[accPool][accFd] = accConn

\* A monitored descriptor has its own Client in the pool that monitors it.
MonitoredIsHeld ==
  \A p \in Pools : \A fd \in interest[p] :
    /\ sock[fd] \in Conns
    /\ clients[p][fd] = sock[fd]
    /\ \A q \in Pools : fd \in interest[q] => q = p

\* A thread works on an open descriptor, with the Client made for it, and alone.
LoopHolds ==
  \A p \in Pools : Busy(p) =>
    /\ evFd[p] \in Fds
    /\ client[p] \in Conns
    /\ evConn[p] = client[p]
    /\ sock[evFd[p]] = client[p]
    /\ loopPc[p] # "close" => clients[p][evFd[p]] = client[p]
    /\ \A q \in Pools :
         /\ evFd[p] \in interest[q] <=> q = p /\ loopPc[p] \notin {"erase", "close"}
         /\ Busy(q) /\ evFd[q] = evFd[p] => q = p

Possession ==
  /\ \A fd \in Fds : sock[fd] # Other
  /\ Unique
  /\ AcceptHolds
  /\ MonitoredIsHeld
  /\ LoopHolds
  /\ BatchFresh
  /\ NothingLost

LEMMA AcceptKeepsPossession ==
  ASSUME TypeOK, Possession, Accept
  PROVE  Possession'
<1> USE DEF Possession
<1>1. PICK c \in fresh, fd \in Fds :
        /\ sock[fd] = None
        /\ sock' = [sock EXCEPT ![fd] = c]
        /\ fresh' = fresh \ {c}
        /\ accFd' = fd
        /\ accConn' = c
  BY DEF Accept
<1>2. /\ c \in Conns /\ c # None /\ c # Other /\ \A gd \in Fds : sock[gd] # c
      /\ \A gd \in Fds : sock'[gd] = IF gd = fd THEN c ELSE sock[gd]
      /\ accPc' = "get_pool"
      /\ UNCHANGED <<interest, clients, loopPc, batch, evFd, evConn, client>>
  BY <1>1, ConstantsAssumption DEF Accept, TypeOK, Unique, loopVars
<1>3. (\A gd \in Fds : sock'[gd] # Other) /\ Unique'
  BY <1>1, <1>2 DEF Unique, TypeOK
<1>4. \A p \in Pools : fd \notin interest[p] /\ (Busy(p) => evFd[p] # fd)
  BY <1>1, ConstantsAssumption DEF MonitoredIsHeld, LoopHolds
<1>5. AcceptHolds'
  BY <1>1, <1>2, <1>4 DEF AcceptHolds, Busy
<1>6. MonitoredIsHeld' /\ LoopHolds' /\ BatchFresh'
  BY <1>2, <1>4 DEF MonitoredIsHeld, LoopHolds, BatchFresh, Busy, TypeOK
<1>7. NothingLost'
  BY <1>1, <1>2 DEF NothingLost, InAccept, Accept
<1> QED BY <1>3, <1>5, <1>6, <1>7

LEMMA DistributeKeepsPossession ==
  ASSUME TypeOK, TypeOK', Possession, Distribute
  PROVE  Possession'
<1> USE DEF Possession
<1>1. /\ UNCHANGED <<fresh, loopPc, batch, evFd, evConn, client>>
      /\ accPc # "accept" /\ accFd \in Fds /\ accConn \in Conns
      /\ sock[accFd] \in {accConn, None}
      /\ \A p \in Pools : accFd \notin interest[p] /\ (Busy(p) => evFd[p] # accFd)
  BY DEF Distribute, GetPool, AddClient, AddFD, AddFDThrows, CatchClose, loopVars, TypeOK,
         AcceptHolds
<1>2. CASE GetPool \/ AddFDThrows
  <2>1. /\ UNCHANGED <<sock, interest, clients, accFd, accConn>>
        /\ accPc' \in {"addClient", "catch"}
    BY <1>2 DEF GetPool, AddFDThrows, kernelVars
  <2>2. AcceptHolds'
    BY <1>1, <2>1 DEF AcceptHolds, Busy
  <2>3. NothingLost'
    BY <1>1, <2>1 DEF NothingLost, InAccept
  <2> QED BY <1>1, <2>1, <2>2, <2>3 DEF Unique, MonitoredIsHeld, LoopHolds, BatchFresh, Busy
<1>3. CASE AddFD
  <2>1. /\ UNCHANGED <<sock, clients>> /\ accPc' = "accept" /\ accConn' = None /\ accFd' = None
        /\ accPool \in Pools
        /\ sock[accFd] = accConn /\ clients[accPool][accFd] = accConn
        /\ \A p \in Pools : \A fd :
             fd \in interest'[p] <=> fd \in interest[p] \/ (p = accPool /\ fd = accFd)
    BY <1>1, <1>3 DEF AddFD, Registrable, AcceptHolds, TypeOK
  <2>2. AcceptHolds'
    BY <2>1 DEF AcceptHolds
  <2>3. MonitoredIsHeld'
    <3> SUFFICES ASSUME NEW p \in Pools, NEW fd \in interest'[p]
                 PROVE  /\ sock[fd] \in Conns
                        /\ clients[p][fd] = sock[fd]
                        /\ \A q \in Pools : fd \in interest'[q] => q = p
      BY <2>1 DEF MonitoredIsHeld
    <3>1. CASE fd \in interest[p]
      BY <1>1, <2>1, <3>1 DEF MonitoredIsHeld, Busy
    <3>2. CASE p = accPool /\ fd = accFd
      BY <1>1, <2>1, <3>2 DEF MonitoredIsHeld
    <3> QED BY <2>1, <3>1, <3>2
  <2>4. LoopHolds' /\ BatchFresh' /\ Unique'
    BY <1>1, <2>1 DEF LoopHolds, BatchFresh, Unique, Busy
  <2>5. NothingLost'
    BY <1>1, <2>1 DEF NothingLost, InAccept
  <2> QED BY <2>1, <2>2, <2>3, <2>4, <2>5
<1>4. CASE AddClient \/ CatchClose
  <2>1. /\ \A fd \in Fds : sock'[fd] = sock[fd] \/ (fd = accFd /\ sock'[fd] = None)
        /\ \A p \in Pools : \A fd : fd \in interest'[p] <=> fd \in interest[p]
        /\ \A p \in Pools, fd \in Fds : fd # accFd => clients'[p][fd] = clients[p][fd]
    <3>1. CASE AddClient
      BY <1>1, <3>1 DEF AddClient, CloseFd, kernelVars, TypeOK
    <3>2. CASE CatchClose
      BY <1>1, <3>2 DEF CatchClose, CloseFd, TypeOK
    <3> QED BY <1>4, <3>1, <3>2
  <2>2. AcceptHolds'
    <3>1. CASE AddClient
      BY <1>1, <2>1, <3>1 DEF AddClient, AcceptHolds, Busy, TypeOK
    <3>2. CASE CatchClose
      BY <3>2 DEF CatchClose, AcceptHolds
    <3> QED BY <1>4, <3>1, <3>2
  <2>3. Unique' /\ \A fd \in Fds : sock'[fd] # Other
    <3>1. OpensNone
      BY <1>1, <2>1, ConstantsAssumption DEF OpensNone
    <3> QED BY <2>1, <3>1, OpensNoneKeeps, ConstantsAssumption
  <2>4. MonitoredIsHeld'
    <3>1. \A p \in Pools : \A fd \in interest[p] : fd \in Fds /\ fd # accFd
      BY <1>1 DEF TypeOK
    <3>2. \A p \in Pools : \A fd \in interest[p] :
            sock'[fd] = sock[fd] /\ clients'[p][fd] = clients[p][fd]
      BY <2>1, <3>1
    <3> QED BY <2>1, <3>2 DEF MonitoredIsHeld
  <2>5. LoopHolds'
    BY <1>1, <2>1 DEF LoopHolds, Busy
  <2>6. BatchFresh'
    BY <1>1, <2>1 DEF BatchFresh, TypeOK
  <2>7. NothingLost'
    <3>1. CASE AddClient
      BY <1>1, <2>1, <3>1, ConstantsAssumption DEF AddClient, NothingLost, InAccept
    <3>2. CASE CatchClose
      <4>1. sock'[accFd] = None
        BY <1>1, <3>2 DEF CatchClose, CloseFd, TypeOK
      <4> QED BY <1>1, <2>1, <4>1, ConstantsAssumption DEF NothingLost, InAccept
    <3> QED BY <1>4, <3>1, <3>2
  <2> QED BY <2>2, <2>3, <2>4, <2>5, <2>6, <2>7
<1> QED BY <1>2, <1>3, <1>4 DEF Distribute

LEMMA PollKeepsPossession ==
  ASSUME TypeOK, Possession, NEW p \in Pools, Poll(p)
  PROVE  Possession'
<1> USE DEF Possession
<1> PICK ready \in SUBSET interest[p] : \E kind \in [ready -> Kinds] :
        batch' = [batch EXCEPT ![p] = {<<fd, kind[fd], sock[fd]>> : fd \in ready}]
  BY DEF Poll
<1>1. PICK kind \in [ready -> Kinds] :
        batch' = [batch EXCEPT ![p] = {<<fd, kind[fd], sock[fd]>> : fd \in ready}]
  OBVIOUS
<1>2. /\ UNCHANGED <<sock, interest, fresh, accPc, accFd, accConn, accPool, clients>>
      /\ UNCHANGED <<evFd, evConn, client>>
      /\ \A q \in Pools : loopPc'[q] = IF q = p THEN "dispatch" ELSE loopPc[q]
      /\ \A q \in Pools : Busy(q)' <=> Busy(q)
  BY DEF Poll, TypeOK, kernelVars, acceptVars, Busy
<1>3. BatchFresh'
  <2> SUFFICES ASSUME NEW q \in Pools
               PROVE  /\ loopPc'[q] = "poll" => batch'[q] = {}
                      /\ \A e \in batch'[q] :
                           /\ e[1] \in interest[q]
                           /\ e[3] = sock[e[1]]
                           /\ loopPc'[q] \notin {"poll", "dispatch"} => e[1] # evFd[q]
                           /\ \A f \in batch'[q] : f[1] = e[1] => f = e
    BY <1>2 DEF BatchFresh
  <2>1. CASE q = p
    <3>1. batch'[p] = {<<fd, kind[fd], sock[fd]>> : fd \in ready}
      BY <1>1 DEF TypeOK
    <3> QED BY <1>2, <2>1, <3>1
  <2>2. CASE q # p
    BY <1>1, <1>2, <2>2 DEF BatchFresh, TypeOK
  <2> QED BY <2>1, <2>2
<1>4. Unique' /\ AcceptHolds' /\ MonitoredIsHeld' /\ \A fd \in Fds : sock'[fd] # Other
  BY <1>2 DEF Unique, AcceptHolds, MonitoredIsHeld
<1>5. LoopHolds'
  BY <1>2 DEF LoopHolds, Busy
<1>6. NothingLost'
  BY <1>2 DEF NothingLost, InAccept, Poll
<1> QED BY <1>3, <1>4, <1>5, <1>6

LEMMA DispatchKeepsPossession ==
  ASSUME TypeOK, Possession, NEW p \in Pools, Dispatch(p)
  PROVE  Possession'
<1> USE DEF Possession
<1>1. PICK e \in batch[p] :
        /\ batch' = [batch EXCEPT ![p] = @ \ {e}]
        /\ clients[p][e[1]] # None =>
             /\ loopPc' = [loopPc EXCEPT ![p] = IF e[2] = "HANGUP" THEN "removeFD" ELSE "read"]
             /\ evFd' = [evFd EXCEPT ![p] = e[1]]
             /\ evConn' = [evConn EXCEPT ![p] = e[3]]
             /\ client' = [client EXCEPT ![p] = clients[p][e[1]]]
  BY DEF Dispatch
<1>2. /\ e[1] \in Fds /\ e[1] \in interest[p] /\ e[3] = sock[e[1]]
      /\ e[3] \in Conns /\ clients[p][e[1]] = e[3]
      /\ \A f \in batch[p] : f[1] = e[1] => f = e
      /\ \A q \in Pools : e[1] \in interest[q] => q = p
  BY DEF BatchFresh, MonitoredIsHeld, TypeOK
<1>3. /\ loopPc' = [loopPc EXCEPT ![p] = IF e[2] = "HANGUP" THEN "removeFD" ELSE "read"]
      /\ evFd' = [evFd EXCEPT ![p] = e[1]]
      /\ evConn' = [evConn EXCEPT ![p] = e[3]]
      /\ client' = [client EXCEPT ![p] = e[3]]
      /\ UNCHANGED <<sock, interest, fresh, accPc, accFd, accConn, accPool, clients>>
      /\ loopPc[p] = "dispatch"
  BY <1>1, <1>2, ConstantsAssumption DEF Dispatch, kernelVars, acceptVars
<1>4. /\ \A q \in Pools : /\ evFd'[q] = IF q = p THEN e[1] ELSE evFd[q]
                          /\ evConn'[q] = IF q = p THEN e[3] ELSE evConn[q]
                          /\ client'[q] = IF q = p THEN e[3] ELSE client[q]
                          /\ batch'[q] = IF q = p THEN batch[p] \ {e} ELSE batch[q]
                          /\ q # p => loopPc'[q] = loopPc[q]
      /\ loopPc'[p] \in {"removeFD", "read"}
  BY <1>1, <1>3 DEF TypeOK
<1>5. \A q \in Pools : q # p /\ Busy(q) => evFd[q] # e[1]
  BY <1>2 DEF LoopHolds
<1>6. \A q \in Pools : Busy(q)' <=> Busy(q) \/ q = p
  BY <1>4 DEF Busy
<1>7. Unique' /\ MonitoredIsHeld' /\ (\A fd \in Fds : sock'[fd] # Other)
  BY <1>3 DEF Unique, MonitoredIsHeld
<1>8. AcceptHolds'
  BY <1>2, <1>3, <1>4, <1>6 DEF AcceptHolds
<1>9. LoopHolds'
  BY <1>2, <1>3, <1>4, <1>5, <1>6 DEF LoopHolds
<1>10. BatchFresh'
  BY <1>2, <1>3, <1>4 DEF BatchFresh
<1>11. NothingLost'
  BY <1>3, <1>4 DEF NothingLost, InAccept
<1> QED BY <1>7, <1>8, <1>9, <1>10, <1>11

\* A thread that goes on with the same event.
LEMMA GoingOnKeepsPossession ==
  ASSUME TypeOK, TypeOK', Possession, NEW p \in Pools,
         ReadEnds(p) \/ ReadComplete(p) \/ Respond(p) \/ RemoveFD(p) \/ EraseClient(p)
  PROVE  Possession'
<1> USE DEF Possession
<1>1. Busy(p) /\ evFd[p] \in Fds /\ (loopPc[p] = "removeFD" => evFd[p] \in interest[p])
  BY DEF ReadEnds, ReadComplete, Respond, RemoveFD, EraseClient, LoopHolds, Busy
<1>2. PICK pc \in {"respond", "removeFD", "erase", "close"} :
        /\ \A q \in Pools : loopPc'[q] = IF q = p THEN pc ELSE loopPc[q]
        /\ pc = "erase" <=> RemoveFD(p)
        /\ pc = "close" <=> EraseClient(p)
        /\ UNCHANGED <<sock, fresh, accPc, accFd, accConn, accPool, batch, evFd, evConn, client>>
  BY <1>1 DEF ReadEnds, ReadComplete, Respond, RemoveFD, EraseClient, GoTo, kernelVars, acceptVars,
              TypeOK
<1>3. /\ \A q \in Pools : \A fd :
           fd \in interest'[q] <=> fd \in interest[q] /\ ~ (q = p /\ fd = evFd[p] /\ RemoveFD(p))
      /\ \A q \in Pools, fd \in Fds :
           clients'[q][fd] = IF q = p /\ fd = evFd[p] /\ EraseClient(p) THEN None
                                                                        ELSE clients[q][fd]
  <2>1. CASE RemoveFD(p)
    BY <1>1, <2>1 DEF RemoveFD, EraseClient, TypeOK
  <2>2. CASE EraseClient(p)
    BY <1>1, <2>2 DEF RemoveFD, EraseClient, kernelVars, TypeOK
  <2>3. CASE ReadEnds(p) \/ ReadComplete(p) \/ Respond(p)
    BY <2>3 DEF ReadEnds, ReadComplete, Respond, RemoveFD, EraseClient, kernelVars
  <2> QED BY <2>1, <2>2, <2>3
<1>4. /\ \A q \in Pools : Busy(q)' <=> Busy(q)
      /\ RemoveFD(p) => loopPc[p] = "removeFD"
      /\ EraseClient(p) => loopPc[p] = "erase"
      /\ ~ RemoveFD(p) /\ ~ EraseClient(p) => loopPc[p] \in {"read", "respond"}
  BY <1>1, <1>2 DEF Busy, RemoveFD, EraseClient, ReadEnds, ReadComplete, Respond
<1>5. Unique' /\ (\A fd \in Fds : sock'[fd] # Other)
  BY <1>2 DEF Unique
<1>6. AcceptHolds'
  BY <1>1, <1>2, <1>3, <1>4 DEF AcceptHolds, TypeOK
<1>7. MonitoredIsHeld'
  BY <1>1, <1>2, <1>3, <1>4 DEF MonitoredIsHeld, LoopHolds, TypeOK
<1>8. LoopHolds'
  BY <1>1, <1>2, <1>3, <1>4 DEF LoopHolds
<1>9. BatchFresh'
  BY <1>1, <1>2, <1>3, <1>4 DEF BatchFresh, Busy
<1>10. NothingLost'
  BY <1>1, <1>2, <1>3, <1>4 DEF NothingLost, InAccept
<1> QED BY <1>5, <1>6, <1>7, <1>8, <1>9, <1>10

\* A thread that has done with its event.
LEMMA DoneKeepsPossession ==
  ASSUME TypeOK, Possession, NEW p \in Pools, ReadIncomplete(p) \/ CloseClient(p)
  PROVE  Possession'
<1> USE DEF Possession
<1>1. /\ Busy(p) /\ evFd[p] \in Fds
      /\ loopPc[p] = "close" => \A q \in Pools : evFd[p] \notin interest[q]
  BY DEF ReadIncomplete, CloseClient, LoopHolds, Busy
<1>2. /\ UNCHANGED <<fresh, accPc, accFd, accConn, accPool, clients, batch>>
      /\ \A q \in Pools : q # p => /\ loopPc'[q] = loopPc[q] /\ evFd'[q] = evFd[q]
                                   /\ evConn'[q] = evConn[q] /\ client'[q] = client[q]
      /\ loopPc'[p] = IF batch[p] = {} THEN "poll" ELSE "dispatch"
      /\ \A q \in Pools : \A fd : fd \in interest'[q] <=> fd \in interest[q]
      /\ \A fd \in Fds : \/ sock'[fd] = sock[fd]
                         \/ fd = evFd[p] /\ sock'[fd] = None /\ loopPc[p] = "close"
  <2>1. CASE ReadIncomplete(p)
    BY <2>1 DEF ReadIncomplete, EventDone, kernelVars, acceptVars, TypeOK
  <2>2. CASE CloseClient(p)
    BY <1>1, <2>2 DEF CloseClient, CloseFd, EventDone, acceptVars, TypeOK
  <2> QED BY <2>1, <2>2
<1>3. \A q \in Pools : Busy(q)' <=> Busy(q) /\ q # p
  BY <1>2 DEF Busy
<1>4. \A fd \in Fds : sock'[fd] # sock[fd] =>
        /\ \A q \in Pools : fd \notin interest[q] /\ (Busy(q) => evFd[q] # fd \/ q = p)
        /\ accPc # "accept" => accFd # fd
  BY <1>1, <1>2 DEF LoopHolds, AcceptHolds
<1>5. Unique' /\ (\A fd \in Fds : sock'[fd] # Other)
  <2>1. OpensNone
    BY <1>2, ConstantsAssumption DEF OpensNone
  <2> QED BY <1>2, <2>1, OpensNoneKeeps, ConstantsAssumption
<1>6. AcceptHolds'
  BY <1>2, <1>3, <1>4 DEF AcceptHolds, TypeOK
<1>7. MonitoredIsHeld'
  BY <1>2, <1>4 DEF MonitoredIsHeld, TypeOK
<1>8. LoopHolds'
  BY <1>2, <1>3, <1>4 DEF LoopHolds
<1>9. BatchFresh'
  BY <1>2, <1>3, <1>4 DEF BatchFresh, Busy, TypeOK
<1>10. NothingLost'
  <2>1. loopPc[p] = "close" => sock'[evFd[p]] \notin Conns
    BY <1>1, ConstantsAssumption DEF ReadIncomplete, CloseClient, CloseFd, TypeOK
  <2>2. loopPc[p] \in {"read", "close"}
    BY DEF ReadIncomplete, CloseClient
  <2> QED BY <1>2, <2>1, <2>2, ConstantsAssumption DEF NothingLost, InAccept
<1> QED BY <1>5, <1>6, <1>7, <1>8, <1>9, <1>10

LEMMA PossessionHolds == DeliverySpec => [](TypeOK /\ Possession)
<1>1. DeliveryInit => Possession
  BY ConstantsAssumption
  DEF DeliveryInit, Init, Possession, Unique, AcceptHolds, MonitoredIsHeld, LoopHolds, BatchFresh,
      Busy, NothingLost
<1>2. TypeOK /\ TypeOK' /\ Possession /\ [DeliveryNext]_deliveryVars => Possession'
  <2> SUFFICES ASSUME TypeOK, TypeOK', Possession,
                      [AcceptThread \/ \E p \in Pools : PoolThread(p)]_vars
               PROVE  Possession'
    BY StepsAreSteps
  <2>1. CASE UNCHANGED vars
    BY <2>1 DEF vars, kernelVars, acceptVars, loopVars, Possession, Unique, AcceptHolds,
                MonitoredIsHeld, LoopHolds, BatchFresh, Busy, NothingLost, InAccept
  <2>2. CASE AcceptThread
    BY <2>2, AcceptKeepsPossession, DistributeKeepsPossession DEF AcceptThread, Distribute
  <2>3. ASSUME NEW p \in Pools, PoolThread(p) PROVE Possession'
    BY <2>3, PollKeepsPossession, DispatchKeepsPossession, GoingOnKeepsPossession,
       DoneKeepsPossession DEF PoolThread
  <2> QED BY <2>1, <2>2, <2>3
<1> QED BY <1>1, <1>2, TypeCorrect, DeliveryIsConnections, PTL DEF DeliverySpec

\* A failing epoll_ctl alone does no harm to the hand-over: the raw Client* of
\* handle_client_event stays valid, recv and send reach the connection of the
\* event, no open connection is forgotten.  Only where the rest of the process
\* takes descriptors too can a stale Client close somebody else's.
THEOREM HandOverSurvivesFailures ==
  DeliverySpec => [](ClientPointerValid /\ OwnSocketIO /\ NoOrphan)
<1>1. TypeOK /\ Possession => ClientPointerValid /\ OwnSocketIO /\ NoOrphan
  <2> SUFFICES ASSUME TypeOK, Possession PROVE ClientPointerValid /\ OwnSocketIO /\ NoOrphan
    OBVIOUS
  <2>1. ClientPointerValid /\ OwnSocketIO
    BY DEF Possession, LoopHolds, Busy, ClientPointerValid, OwnSocketIO
  <2>2. NoOrphan
    <3> SUFFICES ASSUME NEW fd \in Fds, sock[fd] \in Conns
                 PROVE  \/ BeingHandled(sock[fd])
                        \/ \E p \in Pools : clients[p][fd] = sock[fd] /\ fd \in interest[p]
      BY DEF NoOrphan
    <3>1. CASE InAccept(fd)
      BY <3>1, ConstantsAssumption DEF Possession, AcceptHolds, InAccept, BeingHandled
    <3>2. ASSUME NEW p \in Pools, loopPc[p] \in {"erase", "close"}, evFd[p] = fd
          PROVE  BeingHandled(sock[fd])
      BY <3>2 DEF Possession, LoopHolds, Busy, BeingHandled
    <3>3. ASSUME NEW p \in Pools, fd \in interest[p]
          PROVE  clients[p][fd] = sock[fd]
      BY <3>3 DEF Possession, MonitoredIsHeld
    <3> QED BY <3>1, <3>2, <3>3 DEF Possession, NothingLost
  <2> QED BY <2>1, <2>2
<1> QED BY <1>1, PossessionHolds, PTL

\* Nor is a connection ever closed while a pool monitors it.
THEOREM DeregisteredAfterFailures == DeliverySpec => MonitoredStaysOpen
<1>1. TypeOK /\ Possession /\ [DeliveryNext]_deliveryVars =>
        [\A p \in Pools : \A fd \in interest[p] :
           sock[fd] \in Conns => sock'[fd] = sock[fd]]_vars
  <2> SUFFICES ASSUME TypeOK, Possession,
                      AcceptThread \/ \E p \in Pools : PoolThread(p),
                      NEW p \in Pools, NEW fd \in interest[p], sock[fd] \in Conns
               PROVE  sock'[fd] = sock[fd]
    BY StepsAreSteps
  <2>1. fd \in Fds
    BY DEF TypeOK
  <2>2. CASE AcceptThread
    <3>1. CASE Accept
      BY <2>1, <3>1, ConstantsAssumption DEF Accept, TypeOK
    <3>2. CASE AddClient
      BY <2>1, <3>2 DEF AddClient, CloseFd, kernelVars, Possession, AcceptHolds, TypeOK
    <3>3. CASE CatchClose
      BY <2>1, <3>3 DEF CatchClose, CloseFd, Possession, AcceptHolds, TypeOK
    <3>4. CASE GetPool \/ AddFD \/ AddFDThrows
      BY <3>4 DEF GetPool, AddFD, AddFDThrows, kernelVars
    <3> QED BY <2>2, <3>1, <3>2, <3>3, <3>4 DEF AcceptThread
  <2>3. ASSUME NEW q \in Pools, PoolThread(q) PROVE sock'[fd] = sock[fd]
    <3>1. CASE CloseClient(q)
      BY <2>1, <3>1, SMTT(40) DEF CloseClient, CloseFd, Possession, LoopHolds, Busy, TypeOK
    <3>2. CASE ~ CloseClient(q)
      BY <2>3, <3>2
      DEF PoolThread, Poll, Dispatch, ReadEnds, ReadIncomplete, ReadComplete, Respond, RemoveFD,
          EraseClient, kernelVars
    <3> QED BY <3>1, <3>2
  <2> QED BY <2>2, <2>3
<1> QED BY <1>1, PossessionHolds, PTL DEF DeliverySpec, MonitoredStaysOpen

-----------------------------------------------------------------------------
(***************************************************************************)
(* Which connection a thread works on, and which its events are about.     *)
(***************************************************************************)
LEMMA HandledIsOpen ==
  ASSUME Possession, NEW p \in Pools, loopPc[p] \notin {"poll", "dispatch"}
  PROVE  /\ client[p] \in Conns /\ evFd[p] \in Fds
         /\ evConn[p] = client[p] /\ sock[evFd[p]] = client[p]
BY DEF Possession, LoopHolds, Busy

LEMMA EventIsOpen ==
  ASSUME TypeOK, Possession, NEW p \in Pools, NEW e \in batch[p]
  PROVE  /\ e[1] \in Fds /\ e[1] \in interest[p] /\ e[3] = sock[e[1]]
         /\ clients[p][e[1]] = e[3] /\ e[3] \in Conns
BY DEF TypeOK, Possession, BatchFresh, MonitoredIsHeld

\* Nobody else has an event of the connection a thread reads from.
LEMMA ReaderIsAlone ==
  ASSUME TypeOK, Possession, NEW p \in Pools, loopPc[p] = "read", NEW q \in Pools
  PROVE  /\ \A e \in batch[q] : e[3] # client[p]
         /\ loopPc[q] \in {"read", "respond"} /\ q # p => client[q] # client[p]
<1>1. client[p] \in Conns /\ evFd[p] \in Fds /\ sock[evFd[p]] = client[p]
  BY HandledIsOpen
<1>2. ASSUME NEW e \in batch[q], e[3] = client[p] PROVE FALSE
  <2>1. e[1] = evFd[p] /\ e[1] \in interest[q]
    BY <1>1, <1>2, EventIsOpen DEF Possession, Unique
  <2>2. q = p
    BY <2>1 DEF Possession, LoopHolds, Busy
  <2> QED BY <1>2, <2>1, <2>2 DEF Possession, BatchFresh
<1>3. ASSUME loopPc[q] \in {"read", "respond"}, client[q] = client[p] PROVE q = p
  <2>1. evFd[q] = evFd[p]
    BY <1>1, <1>3, HandledIsOpen DEF Possession, Unique
  <2> QED BY <1>3, <2>1 DEF Possession, LoopHolds, Busy
<1> QED BY <1>2, <1>3

-----------------------------------------------------------------------------
(***************************************************************************)
(* One lemma for each kind of step.                                        *)
(***************************************************************************)
LEMMA PeerKeepsBytes ==
  ASSUME TypeOK, Possession, ByteInv, NEW c \in Conns,
         PeerSends(c) \/ PeerShutsDown(c) \/ PeerResets(c)
  PROVE  ByteInv'
<1> USE DEF ByteInv
<1>1. /\ UNCHANGED <<vars, consumed, buffer, answers>>
      /\ gone \subseteq gone' /\ gone' \subseteq Conns
      /\ shut \subseteq shut'
      /\ edge' = edge \cup {c}
      /\ arrived' \in [Conns -> 0 .. Pieces]
      /\ \A d \in Conns : arrived[d] <= arrived'[d] /\ (d # c => arrived'[d] = arrived[d])
      /\ \A d \in shut : arrived'[d] = arrived[d]
      /\ IsOpen(c)
  <2>1. CASE PeerSends(c)
    BY <2>1, PiecesAssumption DEF PeerSends, Arrives, BytesCounted
  <2>2. CASE PeerShutsDown(c)
    BY <2>2 DEF PeerShutsDown, Arrives, BytesCounted
  <2>3. CASE PeerResets(c)
    BY <2>3 DEF PeerResets, Arrives, BytesCounted
  <2> QED BY <2>1, <2>2, <2>3
<1>2. /\ c \notin fresh
      /\ sock' = sock /\ fresh' = fresh /\ loopPc' = loopPc /\ batch' = batch
      /\ client' = client /\ evConn' = evConn /\ accConn' = accConn /\ accPc' = accPc
      /\ interest' = interest /\ evFd' = evFd
      /\ \A d \in Conns : IsOpen(d)' <=> IsOpen(d)
  BY <1>1 DEF Possession, Unique, IsOpen, vars, kernelVars, acceptVars, loopVars
<1>3. BytesCounted'
  BY <1>1, <1>2, PiecesAssumption DEF BytesCounted, TypeOK
<1>4. \A d \in Conns : (Wanted(d) => Wanted(d)') /\ (Served(d) => Served(d)')
  BY <1>1, PiecesAssumption DEF Wanted, Served, BytesCounted
<1>5. EventsWanted'
  BY <1>1, <1>2, <1>4, EventIsOpen, HandledIsOpen DEF EventsWanted
<1>6. Progress'
  BY <1>1, <1>2, <1>4, HandledIsOpen DEF Progress
<1>7. AnswersOwn' /\ Idle' /\ ReadOnce'
  BY <1>1, <1>2 DEF Idle, AnswersOwn, ReadOnce, Busy
<1>8. EveryByteHasAnEvent'
  BY <1>1, <1>2 DEF EveryByteHasAnEvent
<1> QED BY <1>3, <1>5, <1>6, <1>7, <1>8

LEMMA AcceptKeepsBytes ==
  ASSUME TypeOK, Possession, ByteInv, AcceptBytes
  PROVE  ByteInv'
<1> USE DEF ByteInv
<1>1. PICK c \in fresh, fd \in Fds :
        /\ sock[fd] = None /\ sock' = [sock EXCEPT ![fd] = c]
        /\ fresh' = fresh \ {c} /\ accConn' = c
        /\ UNCHANGED <<interest, loopVars, byteVars>>
  BY DEF AcceptBytes, Accept
<1>2. c \in Conns /\ accConn = None
  BY DEF TypeOK, Possession, AcceptHolds, AcceptBytes, Accept
<1>3. \A d \in Conns : IsOpen(d)' <=> IsOpen(d) \/ d = c
  BY <1>1, <1>2, ConstantsAssumption DEF IsOpen, TypeOK
<1>4. BytesCounted' /\ EventsWanted' /\ Progress' /\ AnswersOwn' /\ Idle'
  BY <1>1
  DEF BytesCounted, Idle, EventsWanted, Wanted, Progress, Served, AnswersOwn, loopVars, byteVars,
      peerVars
<1>5. EveryByteHasAnEvent'
  BY <1>1, <1>3, PiecesAssumption DEF EveryByteHasAnEvent, BytesCounted, loopVars, byteVars, peerVars
<1>6. ReadOnce'
  <2>1. consumed[c] = 0
    BY <1>1, <1>2, PiecesAssumption DEF BytesCounted
  <2>2. \A p \in Pools : \A gd \in interest[p] : sock'[gd] = sock[gd]
    BY <1>1, ConstantsAssumption DEF Possession, MonitoredIsHeld, TypeOK
  <2> QED BY <1>1, <2>1, <2>2 DEF ReadOnce, Busy, loopVars, byteVars
<1> QED BY <1>4, <1>5, <1>6

LEMMA DistributeKeepsBytes ==
  ASSUME TypeOK, Possession, ByteInv, DistributeBytes
  PROVE  ByteInv'
<1> USE DEF ByteInv
<1>1. /\ UNCHANGED <<fresh, loopVars, peerVars, consumed, buffer, edge, answers>>
      /\ accPc # "accept"
  BY DEF DistributeBytes, Distribute, GetPool, AddClient, AddFD, AddFDThrows, CatchClose
<1>2. PICK c \in Conns, fd \in Fds : c = accConn /\ fd = accFd /\ sock[fd] \in {c, None}
  BY <1>1 DEF TypeOK, Possession, AcceptHolds
<1>3. sock' = sock \/ sock' = [sock EXCEPT ![fd] = None]
  BY <1>2
  DEF DistributeBytes, Distribute, GetPool, AddClient, AddFD, AddFDThrows, CatchClose, CloseFd,
      kernelVars
<1>4. \A d \in Conns : IsOpen(d)' => IsOpen(d)
  BY <1>2, <1>3, ConstantsAssumption DEF IsOpen, TypeOK
<1>5. BytesCounted' /\ EventsWanted' /\ Progress' /\ AnswersOwn' /\ Idle'
  BY <1>1
  DEF BytesCounted, Idle, EventsWanted, Wanted, Progress, Served, AnswersOwn, loopVars, peerVars
<1>6. EveryByteHasAnEvent'
  BY <1>1, <1>4 DEF EveryByteHasAnEvent, loopVars, peerVars
<1>7. ReadOnce'
  <2>1. accPc' # "accept" => accConn' = accConn
    BY DEF DistributeBytes, Distribute, GetPool, AddClient, AddFD, AddFDThrows, CatchClose
  <2>2. ASSUME NEW p \in Pools, NEW gd \in interest'[p], consumed'[sock'[gd]] = Pieces
        PROVE  Busy(p)' /\ evFd'[p] = gd /\ loopPc'[p] # "read"
    <3>1. gd \in interest[p] \/ (AddFD /\ gd = fd /\ sock'[gd] = sock[gd])
      BY <1>2, <2>2
      DEF DistributeBytes, Distribute, GetPool, AddClient, AddFD, AddFDThrows, CatchClose, CloseFd,
          kernelVars, TypeOK
    <3>2. ~ (AddFD /\ gd = fd /\ sock'[gd] = sock[gd])
      BY <1>1, <1>2, <2>2, PiecesAssumption DEF AddFD, Registrable, ReadOnce
    <3>3. gd \in interest[p] /\ gd # fd /\ sock'[gd] = sock[gd]
      BY <1>1, <1>2, <1>3, <3>1, <3>2 DEF Possession, AcceptHolds, TypeOK
    <3> QED BY <1>1, <2>2, <3>3 DEF ReadOnce, Busy, loopVars
  <2> QED BY <1>1, <2>1, <2>2 DEF ReadOnce
<1> QED BY <1>5, <1>6, <1>7

LEMMA PollKeepsBytes ==
  ASSUME TypeOK, Possession, ByteInv, NEW p \in Pools, PollEdges(p)
  PROVE  ByteInv'
<1> USE DEF ByteInv
<1>1. /\ UNCHANGED <<sock, interest, fresh, accPc, accConn, evFd, evConn, client>>
      /\ UNCHANGED <<arrived, shut, gone, consumed, buffer, answers>>
      /\ loopPc[p] = "poll" /\ loopPc' = [loopPc EXCEPT ![p] = "dispatch"]
      /\ batch[p] = {}
      /\ \A q \in Pools : q # p => batch'[q] = batch[q]
  BY DEF PollEdges, Poll, TypeOK, Possession, BatchFresh, kernelVars, acceptVars, peerVars
<1>2. /\ \A e \in batch'[p] : Reportable(e[3]) /\ (e[2] = "HANGUP" <=> e[3] \in gone)
      /\ edge' = edge \ {e[3] : e \in batch'[p]}
  BY DEF PollEdges
<1>3. BytesCounted' /\ AnswersOwn'
  BY <1>1 DEF BytesCounted, AnswersOwn
<1>4. Progress' /\ Idle' /\ ReadOnce'
  BY <1>1 DEF Progress, Served, Idle, ReadOnce, Busy, TypeOK
<1>5. EventsWanted'
  BY <1>1, <1>2 DEF EventsWanted, Wanted, Reportable, TypeOK
<1>6. EveryByteHasAnEvent'
  <2> SUFFICES ASSUME NEW c \in Conns, IsOpen(c)', arrived'[c] > consumed'[c]
               PROVE  \/ c \in edge'
                      \/ \E q \in Pools : evConn'[q] = c \/ \E e \in batch'[q] : e[3] = c
    BY DEF EveryByteHasAnEvent
  <2>1. CASE c \in edge
    BY <1>2, <2>1
  <2>2. CASE \E q \in Pools : evConn[q] = c \/ \E e \in batch[q] : e[3] = c
    BY <1>1, <2>2
  <2> QED BY <1>1, <2>1, <2>2 DEF EveryByteHasAnEvent, IsOpen
<1> QED BY <1>3, <1>4, <1>5, <1>6

\* A thread takes an event from its batch: its Client is there.
LEMMA DispatchKeepsBytes ==
  ASSUME TypeOK, Possession, ByteInv, NEW p \in Pools, Dispatch(p), UNCHANGED byteVars
  PROVE  ByteInv'
<1> USE DEF ByteInv
<1>1. PICK e \in batch[p] :
        /\ batch' = [batch EXCEPT ![p] = @ \ {e}]
        /\ clients[p][e[1]] # None =>
             /\ loopPc' = [loopPc EXCEPT ![p] = IF e[2] = "HANGUP" THEN "removeFD" ELSE "read"]
             /\ evConn' = [evConn EXCEPT ![p] = e[3]]
             /\ client' = [client EXCEPT ![p] = clients[p][e[1]]]
  BY DEF Dispatch
<1>2. e[3] \in Conns /\ clients[p][e[1]] = e[3]
  BY EventIsOpen
<1>3. /\ loopPc' = [loopPc EXCEPT ![p] = IF e[2] = "HANGUP" THEN "removeFD" ELSE "read"]
      /\ evConn' = [evConn EXCEPT ![p] = e[3]]
      /\ client' = [client EXCEPT ![p] = e[3]]
      /\ \A q \in Pools : q # p => evFd'[q] = evFd[q]
      /\ UNCHANGED <<sock, interest, fresh, accPc, accConn>>
      /\ loopPc[p] = "dispatch"
  BY <1>1, <1>2, ConstantsAssumption DEF Dispatch, kernelVars, acceptVars, TypeOK
<1>4. BytesCounted' /\ AnswersOwn'
  BY <1>3 DEF BytesCounted, AnswersOwn, byteVars, peerVars
<1>5. EventsWanted'
  BY <1>1, <1>3 DEF EventsWanted, Wanted, TypeOK, byteVars, peerVars
<1>6. Progress' /\ Idle'
  BY <1>1, <1>3 DEF Progress, Served, Idle, EventsWanted, TypeOK, byteVars, peerVars
<1>8. ReadOnce'
  BY <1>3 DEF ReadOnce, Busy, TypeOK, byteVars
<1>7. EveryByteHasAnEvent'
  <2> SUFFICES ASSUME NEW c \in Conns, IsOpen(c)', arrived'[c] > consumed'[c]
               PROVE  \/ c \in edge'
                      \/ \E q \in Pools : evConn'[q] = c \/ \E f \in batch'[q] : f[3] = c
    BY DEF EveryByteHasAnEvent
  <2>1. CASE c \in edge
    BY <2>1 DEF byteVars, peerVars
  <2>2. ASSUME NEW q \in Pools, evConn[q] = c \/ \E f \in batch[q] : f[3] = c
        PROVE  evConn'[q] = c \/ \E f \in batch'[q] : f[3] = c
    <3>1. CASE q # p
      BY <1>1, <1>3, <2>2, <3>1 DEF TypeOK
    <3>2. CASE q = p
      <4>1. evConn[p] # c
        BY <1>3, ConstantsAssumption DEF Idle
      <4> QED BY <1>1, <1>3, <2>2, <3>2, <4>1 DEF TypeOK
    <3> QED BY <3>1, <3>2
  <2> QED BY <1>3, <2>1, <2>2 DEF EveryByteHasAnEvent, IsOpen, byteVars, peerVars
<1> QED BY <1>4, <1>5, <1>6, <1>7, <1>8

\* recv takes all that has arrived, and nobody else counts on it.
LEMMA ReceiveKeepsBytes ==
  ASSUME TypeOK, Possession, Custody, ByteInv, NEW p \in Pools, Receive(p),
         \/ ReadIncomplete(p) /\ buffer'[client[p]] < Pieces
         \/ ReadComplete(p) /\ buffer'[client[p]] >= Pieces
  PROVE  ByteInv'
<1> USE DEF ByteInv
<1>1. loopPc[p] = "read" /\ UNCHANGED <<sock, interest, fresh, accPc, accConn, batch>>
  BY DEF ReadIncomplete, ReadComplete, kernelVars, acceptVars
<1>2. PICK c \in Conns : c = client[p] /\ evConn[p] = c /\ sock[evFd[p]] = c
  BY <1>1, HandledIsOpen
<1>3. /\ consumed' = [consumed EXCEPT ![c] = arrived[c]]
      /\ buffer' = consumed'
      /\ UNCHANGED <<arrived, shut, gone, edge, answers>>
  <2>1. /\ consumed' = [consumed EXCEPT ![c] = arrived[c]]
        /\ buffer' = [buffer EXCEPT ![c] = @ + arrived[c] - consumed[c]]
        /\ UNCHANGED <<arrived, shut, gone, edge, answers>>
    BY <1>2 DEF Receive, peerVars
  <2>2. buffer[c] + arrived[c] - consumed[c] = arrived[c]
    BY PiecesAssumption DEF BytesCounted
  <2> QED BY <2>1, <2>2 DEF BytesCounted
<1>4. \/ /\ loopPc' = [loopPc EXCEPT ![p] = "respond"]
         /\ client' = client /\ evConn' = evConn /\ evFd' = evFd
         /\ arrived[c] = Pieces
      \/ /\ loopPc'[p] \in {"poll", "dispatch"}
         /\ arrived[c] < Pieces
         /\ \A q \in Pools : q # p => evFd'[q] = evFd[q]
         /\ \A q \in Pools : q # p =>
              loopPc'[q] = loopPc[q] /\ client'[q] = client[q] /\ evConn'[q] = evConn[q]
         /\ evConn'[p] = None
  <2>1. CASE ReadIncomplete(p) /\ buffer'[client[p]] < Pieces
    BY <1>2, <1>3, <2>1 DEF ReadIncomplete, EventDone, TypeOK, BytesCounted
  <2>2. CASE ReadComplete(p) /\ buffer'[client[p]] >= Pieces
    <3>1. consumed'[c] >= Pieces
      BY <1>2, <1>3, <2>2
    <3> QED BY <1>3, <2>2, <3>1, PiecesAssumption DEF ReadComplete, GoTo, BytesCounted
  <2> QED BY <2>1, <2>2
<1>5. BytesCounted'
  BY <1>1, <1>3, PiecesAssumption DEF BytesCounted
<1>6. \A d \in Conns : d # c => (Wanted(d)' <=> Wanted(d))
  BY <1>3 DEF Wanted, BytesCounted
<1>7. EventsWanted'
  <2>1. ASSUME NEW q \in Pools, NEW e \in batch'[q]
        PROVE  Wanted(e[3])' /\ (e[2] = "HANGUP" => e[3] \in gone')
    <3>1. e \in batch[q] /\ e[3] \in Conns /\ e[3] # c
      BY <1>1, <1>2, <2>1, EventIsOpen, ReaderIsAlone
    <3> QED BY <1>3, <1>6, <3>1 DEF EventsWanted
  <2>2. ASSUME NEW q \in Pools, loopPc'[q] = "read"
        PROVE  Wanted(client[q])' /\ client'[q] = client[q]
    <3>1. q # p /\ loopPc[q] = "read" /\ client'[q] = client[q]
      BY <1>4, <2>2 DEF TypeOK
    <3>2. PICK d \in Conns : d = client[q]
      BY <3>1, HandledIsOpen
    <3>3. d # c
      BY <1>1, <1>2, <3>1, <3>2, ReaderIsAlone
    <3>4. Wanted(d)'
      BY <1>6, <3>1, <3>2, <3>3 DEF EventsWanted
    <3> QED BY <3>1, <3>2, <3>4 DEF Wanted
  <2> QED BY <2>1, <2>2 DEF EventsWanted, Wanted
<1>8. Progress'
  <2>1. \A d \in Conns : consumed[d] = Pieces => consumed'[d] = Pieces
    BY <1>3, PiecesAssumption DEF BytesCounted
  <2>2. ASSUME NEW q \in Pools, q # p
        PROVE  /\ loopPc'[q] = "respond" => consumed'[client'[q]] = Pieces
               /\ loopPc'[q] \in {"removeFD", "erase", "close"} => Served(client[q])'
    <3>1. loopPc'[q] = loopPc[q] /\ client'[q] = client[q]
      BY <1>4, <2>2 DEF TypeOK
    <3>2. ASSUME loopPc[q] \in {"respond", "removeFD", "erase", "close"}
          PROVE  client[q] \in Conns
      BY <3>2, HandledIsOpen
    <3>3. \A d \in Conns : Served(d) => Served(d)'
      BY <1>3 DEF Served
    <3> QED BY <2>1, <3>1, <3>2, <3>3 DEF Progress, Served
  <2>3. /\ loopPc'[p] = "respond" => consumed'[client'[p]] = Pieces
        /\ loopPc'[p] \notin {"removeFD", "erase", "close"}
    BY <1>2, <1>3, <1>4 DEF TypeOK, BytesCounted
  <2> QED BY <2>2, <2>3 DEF Progress
<1>9. AnswersOwn'
  BY <1>1, <1>3, PiecesAssumption DEF AnswersOwn, BytesCounted
<1>12. ReadOnce'
  <2>1. accPc # "accept" => accConn # c /\ accConn \in Conns
    BY <1>1, <1>2, HandledIsOpen
    DEF Possession, AcceptHolds, Busy, Custody, AcceptHas, OpenOnlyAt, TypeOK
  <2>2. ASSUME NEW q \in Pools, NEW fd \in interest[q], consumed'[sock[fd]] = Pieces
        PROVE  Busy(q)' /\ evFd'[q] = fd /\ loopPc'[q] # "read"
    <3>1. fd \in Fds /\ sock[fd] \in Conns
      BY DEF Possession, MonitoredIsHeld, TypeOK
    <3>2. CASE sock[fd] = c
      <4>1. fd = evFd[p] /\ q = p
        BY <1>1, <1>2, <3>1, <3>2, HandledIsOpen DEF Possession, Unique, LoopHolds, Busy
      <4> QED BY <1>3, <1>4, <2>2, <3>2, <4>1, PiecesAssumption DEF BytesCounted, Busy, TypeOK
    <3>3. CASE sock[fd] # c
      <4>1. Busy(q) /\ evFd[q] = fd /\ loopPc[q] # "read"
        BY <1>3, <2>2, <3>1, <3>3 DEF ReadOnce, BytesCounted
      <4> QED BY <1>1, <1>4, <4>1 DEF Busy, TypeOK
    <3> QED BY <3>2, <3>3
  <2>3. accPc # "accept" => consumed'[accConn] = 0
    BY <1>3, <2>1 DEF ReadOnce, BytesCounted
  <2> QED BY <1>1, <2>2, <2>3 DEF ReadOnce
<1>10. Idle'
  BY <1>4 DEF Idle, TypeOK
<1>11. EveryByteHasAnEvent'
  <2> SUFFICES ASSUME NEW d \in Conns, IsOpen(d)', arrived'[d] > consumed'[d]
               PROVE  \/ d \in edge'
                      \/ \E q \in Pools : evConn'[q] = d \/ \E e \in batch'[q] : e[3] = d
    BY DEF EveryByteHasAnEvent
  <2>1. d # c
    BY <1>3, PiecesAssumption DEF BytesCounted
  <2>2. \A q \in Pools : evConn[q] = d => evConn'[q] = d
    BY <1>2, <1>4, <2>1
  <2>3. IsOpen(d) /\ arrived[d] > consumed[d]
    BY <1>1, <1>3, <2>1 DEF IsOpen, BytesCounted
  <2> QED BY <1>1, <1>3, <2>2, <2>3 DEF EveryByteHasAnEvent
<1> QED BY <1>5, <1>7, <1>8, <1>9, <1>10, <1>11, <1>12

\* The thread goes on to the next line of handle_client_event, which is not the
\* answer; what it may take away is the Client it has in its hands.
LEMMA GoingOnKeepsBytes ==
  ASSUME TypeOK, Possession, ByteInv, NEW p \in Pools, UNCHANGED byteVars,
         \/ ReadEnds(p) /\ ReceiveFails(p)
         \/ RemoveFD(p)
         \/ EraseClient(p)
  PROVE  ByteInv'
<1> USE DEF ByteInv
<1>1. PICK pc \in {"removeFD", "erase", "close"} :
        /\ loopPc' = [loopPc EXCEPT ![p] = pc]
        /\ UNCHANGED <<sock, fresh, accPc, accConn, batch, client, evFd, evConn>>
        /\ \A q \in Pools : interest'[q] \subseteq interest[q]
  <2>1. CASE ReadEnds(p)
    BY <2>1 DEF ReadEnds, GoTo, kernelVars, acceptVars
  <2>2. CASE RemoveFD(p)
    BY <2>2 DEF RemoveFD, GoTo, acceptVars, Possession, LoopHolds, Busy, TypeOK
  <2>3. CASE EraseClient(p)
    BY <2>3 DEF EraseClient, GoTo, kernelVars, acceptVars
  <2> QED BY <2>1, <2>2, <2>3
<1>2. Served(client[p])
  <2>1. CASE ReadEnds(p) /\ ReceiveFails(p)
    <3>1. PICK c \in Conns : c = client[p] /\ sock[evFd[p]] = c /\ loopPc[p] = "read"
      BY <2>1, HandledIsOpen DEF ReadEnds
    <3>2. consumed[c] # Pieces
      BY <3>1 DEF ReadOnce, Possession, LoopHolds, Busy
    <3> QED BY <2>1, <3>1, <3>2, PiecesAssumption
            DEF ReceiveFails, EventsWanted, Wanted, Served, BytesCounted
  <2>2. CASE RemoveFD(p) \/ EraseClient(p)
    BY <2>2 DEF RemoveFD, EraseClient, Progress
  <2> QED BY <2>1, <2>2
<1>3. BytesCounted' /\ AnswersOwn' /\ EveryByteHasAnEvent'
  BY <1>1 DEF BytesCounted, AnswersOwn, EveryByteHasAnEvent, IsOpen, byteVars, peerVars
<1>4. EventsWanted' /\ Progress' /\ Idle'
  BY <1>1, <1>2 DEF EventsWanted, Wanted, Progress, Served, Idle, TypeOK, byteVars, peerVars
<1>5. ReadOnce'
  BY <1>1 DEF ReadOnce, Busy, TypeOK, byteVars
<1> QED BY <1>3, <1>4, <1>5

\* The response is for the connection whose request it answers.
LEMMA RespondKeepsBytes ==
  ASSUME TypeOK, Possession, ByteInv, NEW p \in Pools, Respond(p), Answer(p)
  PROVE  ByteInv'
<1> USE DEF ByteInv
<1>1. loopPc[p] = "respond" /\ loopPc' = [loopPc EXCEPT ![p] = "removeFD"]
      /\ UNCHANGED <<sock, interest, fresh, accPc, accConn, batch, client, evFd, evConn>>
  BY DEF Respond, GoTo, kernelVars, acceptVars
<1>2. PICK c \in Conns : c = client[p] /\ sock[evFd[p]] = c
  BY <1>1, HandledIsOpen
<1>3. /\ answers' = [answers EXCEPT ![c] = @ \cup {c}]
      /\ UNCHANGED <<arrived, shut, gone, consumed, buffer, edge>>
  BY <1>2 DEF Answer, peerVars
<1>4. BytesCounted' /\ EveryByteHasAnEvent'
  BY <1>1, <1>3 DEF BytesCounted, EveryByteHasAnEvent, IsOpen
<1>5. EventsWanted' /\ Idle' /\ ReadOnce'
  BY <1>1, <1>3 DEF EventsWanted, Wanted, Idle, ReadOnce, Busy, TypeOK
<1>6. AnswersOwn'
  BY <1>1, <1>2, <1>3 DEF AnswersOwn, Progress, BytesCounted
<1>7. Progress'
  <2>1. ASSUME NEW q \in Pools, loopPc'[q] \in {"removeFD", "erase", "close"}
        PROVE  Served(client[q])'
    <3>1. client[q] \in Conns
      BY <1>1, <1>2, <2>1, HandledIsOpen DEF TypeOK
    <3>2. CASE q = p
      BY <1>1, <1>2, <1>3, <3>2 DEF Served, BytesCounted
    <3>3. CASE q # p
      <4>1. Served(client[q])
        BY <1>1, <2>1, <3>3 DEF Progress, TypeOK
      <4> QED BY <1>1, <1>3, <3>1, <4>1 DEF Served, BytesCounted
    <3> QED BY <3>2, <3>3
  <2>2. ASSUME NEW q \in Pools, loopPc'[q] = "respond" PROVE consumed'[client'[q]] = Pieces
    BY <1>1, <1>3, <2>2 DEF Progress, TypeOK
  <2> QED BY <2>1, <2>2 DEF Progress
<1> QED BY <1>4, <1>5, <1>6, <1>7

LEMMA CloseKeepsBytes ==
  ASSUME TypeOK, Possession, ByteInv, NEW p \in Pools, CloseClient(p), UNCHANGED byteVars
  PROVE  ByteInv'
<1> USE DEF ByteInv
<1>1. /\ loopPc[p] = "close" /\ UNCHANGED <<fresh, accPc, accConn, batch>>
      /\ \A q \in Pools : interest'[q] \subseteq interest[q] /\ evFd[p] \notin interest'[q]
      /\ \A q \in Pools : q # p => evFd'[q] = evFd[q]
      /\ loopPc'[p] \in {"poll", "dispatch"} /\ evConn'[p] = None
      /\ \A q \in Pools : q # p =>
           loopPc'[q] = loopPc[q] /\ client'[q] = client[q] /\ evConn'[q] = evConn[q]
      /\ sock' = [sock EXCEPT ![evFd[p]] = None]
  BY DEF CloseClient, CloseFd, EventDone, acceptVars, TypeOK
<1>2. PICK c \in Conns, fd \in Fds : c = client[p] /\ fd = evFd[p] /\ evConn[p] = c /\ sock[fd] = c
  BY <1>1, HandledIsOpen
<1>3. \A d \in Conns : IsOpen(d)' <=> IsOpen(d) /\ d # c
  BY <1>1, <1>2, ConstantsAssumption DEF IsOpen, TypeOK, Possession, Unique
<1>4. BytesCounted' /\ AnswersOwn'
  BY <1>1 DEF BytesCounted, AnswersOwn, byteVars, peerVars
<1>5. EventsWanted' /\ Progress' /\ Idle'
  BY <1>1 DEF EventsWanted, Wanted, Progress, Served, Idle, byteVars, peerVars
<1>6. ReadOnce'
  <2>1. ASSUME NEW q \in Pools, NEW gd \in interest'[q], consumed[sock'[gd]] = Pieces
        PROVE  Busy(q)' /\ evFd'[q] = gd /\ loopPc'[q] # "read"
    <3>1. gd \in interest[q] /\ gd # evFd[p] /\ sock'[gd] = sock[gd]
      BY <1>1, <2>1 DEF TypeOK
    <3>2. Busy(q) /\ evFd[q] = gd /\ loopPc[q] # "read"
      BY <2>1, <3>1 DEF ReadOnce
    <3> QED BY <1>1, <3>1, <3>2 DEF Busy
  <2> QED BY <1>1, <2>1 DEF ReadOnce, byteVars
<1>7. EveryByteHasAnEvent'
  <2>1. \A d \in Conns, q \in Pools : d # c /\ evConn[q] = d => evConn'[q] = d
    BY <1>1, <1>2
  <2> QED BY <1>1, <1>3, <2>1 DEF EveryByteHasAnEvent, byteVars, peerVars
<1> QED BY <1>4, <1>5, <1>6, <1>7

-----------------------------------------------------------------------------
LEMMA ByteInvHolds == DeliverySpec => [](TypeOK /\ Possession /\ Custody /\ ByteInv)
<1>1. DeliveryInit => ByteInv
  BY PiecesAssumption, ConstantsAssumption
  DEF DeliveryInit, Init, ByteInv, BytesCounted, EventsWanted, Progress, ReadOnce, AnswersOwn, Idle,
      EveryByteHasAnEvent
<1>2. TypeOK /\ Possession /\ Custody /\ ByteInv /\ [DeliveryNext]_deliveryVars => ByteInv'
  <2> SUFFICES ASSUME TypeOK, Possession, Custody, ByteInv, [DeliveryNext]_deliveryVars
               PROVE  ByteInv'
    OBVIOUS
  <2>1. CASE UNCHANGED deliveryVars
    BY <2>1
    DEF deliveryVars, byteVars, peerVars, vars, kernelVars, acceptVars, loopVars, ByteInv,
        BytesCounted, EventsWanted, Wanted, Progress, Served, ReadOnce, Busy, AnswersOwn, Idle,
        EveryByteHasAnEvent, IsOpen
  <2>2. ASSUME NEW c \in Conns, PeerSends(c) \/ PeerShutsDown(c) \/ PeerResets(c) PROVE ByteInv'
    BY <2>2, PeerKeepsBytes
  <2>3. CASE AcceptBytes
    BY <2>3, AcceptKeepsBytes
  <2>4. CASE DistributeBytes
    BY <2>4, DistributeKeepsBytes
  <2>5. ASSUME NEW p \in Pools, PollEdges(p) PROVE ByteInv'
    BY <2>5, PollKeepsBytes
  <2>6. ASSUME NEW p \in Pools, HandleBytes(p) PROVE ByteInv'
    <3>1. CASE Dispatch(p) /\ UNCHANGED byteVars
      BY <3>1, DispatchKeepsBytes
    <3>2. CASE ReadEnds(p) /\ ReceiveFails(p)
      BY <3>2, GoingOnKeepsBytes DEF ReceiveFails
    <3>3. CASE \/ ReadIncomplete(p) /\ Receive(p) /\ buffer'[client[p]] < Pieces
               \/ ReadComplete(p) /\ Receive(p) /\ buffer'[client[p]] >= Pieces
      BY <3>3, ReceiveKeepsBytes
    <3>4. CASE Respond(p) /\ Answer(p)
      BY <3>4, RespondKeepsBytes
    <3>5. CASE (RemoveFD(p) \/ EraseClient(p)) /\ UNCHANGED byteVars
      BY <3>5, GoingOnKeepsBytes
    <3>6. CASE CloseClient(p) /\ UNCHANGED byteVars
      BY <3>6, CloseKeepsBytes
    <3> QED BY <2>6, <3>1, <3>2, <3>3, <3>4, <3>5, <3>6 DEF HandleBytes
  <2> QED BY <2>1, <2>2, <2>3, <2>4, <2>5, <2>6 DEF DeliveryNext
<1> QED BY <1>1, <1>2, PossessionHolds, CustodyHolds, DeliveryIsConnections, PTL DEF DeliverySpec

\* No edge that epoll has reported is lost on its way through a batch, whatever
\* happens to the other connections of the batch or to the descriptor numbers.
THEOREM NoEdgeIsLost == DeliverySpec => []EveryByteHasAnEvent
BY ByteInvHolds, PTL DEF ByteInv

\* handle_client_event answers a peer out of its own bytes, all of them.
THEOREM PeersGetTheirOwnAnswer == DeliverySpec => []OwnAnswer
<1>1. ByteInv => OwnAnswer
  BY DEF ByteInv, BytesCounted, AnswersOwn, OwnAnswer
<1> QED BY <1>1, ByteInvHolds, PTL

-----------------------------------------------------------------------------
(***************************************************************************)
(* Refusals: a Client left under a number is that of a refused connection, *)
(* so the connection it takes along is refused because of that one.        *)
(***************************************************************************)

\* Whatever leaves the descriptors, the maps and the accept thread alone.
LEMMA QuietKeepsRefusals ==
  ASSUME TypeOK, RefusalInv, UNCHANGED <<sock, fresh, accPc, accFd, accConn, clients, cause>>,
         \A p \in Pools : interest'[p] \subseteq interest[p],
         \A p \in Pools : loopPc'[p] = "close" => loopPc[p] = "close" /\ evFd'[p] = evFd[p]
  PROVE  RefusalInv'
BY DEF RefusalInv, CauseKnown, StaleIsRefused, RefusalsAreCaused

LEMMA AcceptKeepsRefusals ==
  ASSUME TypeOK, Possession, Custody, RefusalInv, AcceptBytes
  PROVE  RefusalInv'
<1> USE DEF RefusalInv
<1>1. PICK c \in fresh, fd \in Fds :
        /\ sock[fd] = None /\ sock' = [sock EXCEPT ![fd] = c]
        /\ fresh' = fresh \ {c} /\ accConn' = c /\ accFd' = fd /\ accPc' = "get_pool"
        /\ UNCHANGED <<interest, clients, loopVars, cause>>
  BY DEF AcceptBytes, Accept, byteVars
<1>2. c \in Conns /\ cause[c] = None /\ \A gd \in Fds : sock[gd] # c
  BY DEF TypeOK, CauseKnown, Possession, Unique
<1>3. CauseKnown'
  BY <1>1, <1>2 DEF CauseKnown, TypeOK
<1>4. StaleIsRefused'
  <2> SUFFICES ASSUME NEW p \in Pools, NEW gd \in Fds, clients[p][gd] # None
               PROVE  IF sock'[gd] = clients[p][gd]
                      THEN \A q \in Pools :
                             /\ clients[q][gd] = sock'[gd] => q = p
                             /\ ~ (loopPc[q] = "close" /\ evFd[q] = gd)
                      ELSE cause[clients[p][gd]] # None
    BY <1>1 DEF StaleIsRefused, loopVars
  <2>1. CASE gd # fd
    BY <1>1, <2>1 DEF StaleIsRefused, TypeOK
  <2>2. CASE gd = fd
    <3>1. clients[p][gd] # c
      BY <1>1 DEF Custody, SlotHas
    <3> QED BY <1>1, <2>2, <3>1 DEF StaleIsRefused, TypeOK
  <2> QED BY <2>1, <2>2
<1>5. RefusalsAreCaused'
  BY <1>1, <1>2 DEF RefusalsAreCaused, TypeOK
<1> QED BY <1>3, <1>4, <1>5

\* A refusal that gets to be known: the connection is its own cause, or the
\* Client of one that was refused is.
LEMMA RefusedForACause ==
  ASSUME TypeOK, RefusalInv, NEW c \in Conns, cause[c] = None, NEW d \in Conns,
         d = c \/ cause[d] # None,
         cause' = [cause EXCEPT ![c] = d],
         \A p \in Pools : interest'[p] \subseteq interest[p],
         \A p \in Pools : \A fd \in interest'[p] : sock'[fd] # c /\ sock'[fd] = sock[fd]
  PROVE  RefusalsAreCaused' /\ \A e \in Conns : cause[e] # None => cause'[e] # None
<1> USE DEF RefusalInv
<1>1. \A e \in Conns : cause'[e] = IF e = c THEN d ELSE cause[e]
  BY DEF CauseKnown
<1>2. d # None
  BY ConstantsAssumption
<1>3. \A e \in Conns : cause[e] # None => cause'[e] # None
  BY <1>1, <1>2
<1>4. \E e \in Conns : cause'[e] = e
  <2>1. CASE d = c
    BY <1>1, <2>1
  <2>2. CASE d # c
    <3>1. PICK e \in Conns : cause[e] = e
      BY <2>2 DEF RefusalsAreCaused
    <3> QED BY <1>1, <3>1, ConstantsAssumption
  <2> QED BY <2>1, <2>2
<1>5. ASSUME NEW e \in Conns, cause'[e] # None
      PROVE  /\ cause'[e] = e \/ cause'[cause'[e]] # None
             /\ \A p \in Pools : \A fd \in interest'[p] : sock'[fd] # e
  <2>1. CASE e = c
    BY <1>1, <1>2, <1>3, <2>1
  <2>2. CASE e # c
    <3>1. cause'[e] = cause[e] /\ cause[e] \in Conns
      BY <1>1, <1>5, <2>2 DEF CauseKnown
    <3> QED BY <1>3, <1>5, <3>1 DEF RefusalsAreCaused
  <2> QED BY <2>1, <2>2
<1> QED BY <1>3, <1>4, <1>5 DEF RefusalsAreCaused

\* What the accept thread does to a connection.
LEMMA DistributeKeepsRefusals ==
  ASSUME TypeOK, Possession, Custody, RefusalInv, DistributeBytes
  PROVE  RefusalInv' /\ \A c \in Conns : cause[c] # None => cause'[c] # None
<1> USE DEF RefusalInv
<1>1. /\ UNCHANGED <<fresh, loopVars>>
      /\ accFd \in Fds /\ accConn \in Conns /\ accPc # "accept"
      /\ OpenOnlyAt(accConn, accFd) /\ sock[accFd] \in {accConn, None}
      /\ \A p \in Pools : accFd \notin interest[p] /\ (Busy(p) => evFd[p] # accFd)
  BY DEF DistributeBytes, Distribute, GetPool, AddClient, AddFD, AddFDThrows, CatchClose, TypeOK,
         Custody, AcceptHas, Possession, AcceptHolds
<1>2. \A p \in Pools : \A fd \in interest[p] : fd \in Fds /\ fd # accFd /\ sock[fd] # accConn
  BY <1>1 DEF OpenOnlyAt, TypeOK
<1>3. cause \in [Conns -> Conns \cup {None}]
  BY DEF CauseKnown
<1>4. CASE GetPool /\ accPc' = "addClient"
  <2>1. /\ UNCHANGED <<sock, interest, clients, accFd, accConn, cause>>
        /\ accPc = "get_pool"
    BY <1>1, <1>3, <1>4 DEF GetPool, DistributeBytes, kernelVars
  <2> QED BY <1>1, <1>4, <2>1
          DEF CauseKnown, StaleIsRefused, RefusalsAreCaused, loopVars
<1>5. CASE GetPool /\ accPc' # "addClient"
  <2>1. /\ UNCHANGED <<sock, interest, clients, accFd, accConn>>
        /\ accPc = "get_pool" /\ accPc' = "catch" /\ cause[accConn] = None
        /\ cause' = [cause EXCEPT ![accConn] = accConn]
    BY <1>1, <1>3, <1>5 DEF GetPool, DistributeBytes, kernelVars, CauseKnown
  <2>2. RefusalsAreCaused' /\ \A e \in Conns : cause[e] # None => cause'[e] # None
    <3>1. PICK c \in Conns : c = accConn
      BY <1>1
    <3>2. \A q \in Pools : /\ interest'[q] \subseteq interest[q]
                          /\ \A fd \in interest'[q] : sock'[fd] # c /\ sock'[fd] = sock[fd]
      BY <1>2, <2>1, <3>1
    <3> QED BY <2>1, <3>1, <3>2, RefusedForACause
  <2>3. CauseKnown'
    BY <1>1, <1>3, <2>1, ConstantsAssumption DEF CauseKnown, Custody, AcceptHas
  <2>4. StaleIsRefused'
    BY <1>1, <2>1, <2>2 DEF StaleIsRefused, loopVars, TypeOK
  <2> QED BY <2>2, <2>3, <2>4
<1>6. CASE AddFD
  <2>1. /\ UNCHANGED <<sock, clients, cause>> /\ accPc' = "accept"
        /\ sock[accFd] = accConn /\ cause[accConn] = None
        /\ \A p \in Pools : \A fd \in interest'[p] : fd \in interest[p] \/ fd = accFd
    BY <1>1, <1>3, <1>6 DEF AddFD, DistributeBytes, Registrable, CauseKnown, TypeOK
  <2> QED BY <1>1, <1>2, <2>1
          DEF CauseKnown, StaleIsRefused, RefusalsAreCaused, loopVars
<1>7. CASE AddFDThrows
  <2>1. /\ UNCHANGED <<sock, interest, clients, accFd, accConn>>
        /\ accPc = "addFD" /\ accPc' = "catch"
        /\ sock[accFd] = accConn <=> cause[accConn] = None
    BY <1>1, <1>7 DEF AddFDThrows, kernelVars, CauseKnown
  <2>2. CASE sock[accFd] = accConn
    <3>1. cause[accConn] = None /\ cause' = [cause EXCEPT ![accConn] = accConn]
      BY <1>1, <1>7, <2>1, <2>2, ConstantsAssumption DEF DistributeBytes, Registrable, TypeOK
    <3>2. RefusalsAreCaused' /\ \A e \in Conns : cause[e] # None => cause'[e] # None
      <4>1. PICK c \in Conns : c = accConn
        BY <1>1
      <4>2. \A q \in Pools : /\ interest'[q] \subseteq interest[q]
                            /\ \A fd \in interest'[q] : sock'[fd] # c /\ sock'[fd] = sock[fd]
        BY <1>2, <2>1, <4>1
      <4> QED BY <3>1, <4>1, <4>2, RefusedForACause
    <3>3. CauseKnown'
      <4>1. accConn \notin fresh
        BY <1>1 DEF Custody, AcceptHas
      <4> QED BY <1>1, <1>3, <2>1, <3>1, <4>1, ConstantsAssumption DEF CauseKnown
    <3>4. StaleIsRefused'
      <4>1. \A q \in Pools, fd \in Fds : clients[q][fd] # None => clients[q][fd] \in Conns
        BY DEF TypeOK
      <4> QED BY <1>1, <2>1, <3>2, <4>1 DEF StaleIsRefused, loopVars
    <3> QED BY <3>2, <3>3, <3>4
  <2>3. CASE sock[accFd] # accConn
    <3>1. cause' = cause /\ cause[accConn] # None
      BY <1>1, <1>3, <1>7, <2>1, <2>3 DEF DistributeBytes, Registrable
    <3> QED BY <1>1, <2>1, <3>1 DEF CauseKnown, StaleIsRefused, RefusalsAreCaused, loopVars
  <2> QED BY <2>2, <2>3
<1>8. CASE CatchClose
  <2>1. /\ UNCHANGED <<clients, cause>> /\ accPc' = "accept" /\ cause[accConn] # None
        /\ sock' = [sock EXCEPT ![accFd] = None]
        /\ \A p \in Pools : interest'[p] \subseteq interest[p]
    BY <1>1, <1>3, <1>8 DEF CatchClose, CloseFd, DistributeBytes, CauseKnown
  <2>2. CauseKnown' /\ RefusalsAreCaused'
    BY <1>1, <1>2, <2>1 DEF CauseKnown, RefusalsAreCaused, TypeOK
  <2>3. StaleIsRefused'
    BY <1>1, <2>1 DEF StaleIsRefused, loopVars, TypeOK
  <2> QED BY <2>1, <2>2, <2>3
<1>9. CASE AddClient
  <2>1. PICK p \in Pools : p = accPool
    BY <1>9 DEF AddClient, TypeOK
  <2>2. /\ sock[accFd] = accConn /\ cause[accConn] = None
        /\ accPc = "addClient" /\ accPc' = "addFD" /\ UNCHANGED <<accFd, accConn>>
        /\ cause' = [cause EXCEPT ![accConn] = clients[p][accFd]]
        /\ \A q \in Pools, fd \in Fds :
             clients'[q][fd] = IF q = p /\ fd = accFd THEN accConn ELSE clients[q][fd]
        /\ \A q \in Pools : clients[q][accFd] # accConn
    BY <1>1, <1>9, <2>1
    DEF AddClient, DistributeBytes, CauseKnown, TypeOK, Custody, AcceptHas, UnknownBut
  <2>3. \A q \in Pools : clients[q][accFd] # None => cause[clients[q][accFd]] # None
    BY <1>1, <2>2 DEF StaleIsRefused
  <2>4. CASE clients[p][accFd] = None
    <3>1. UNCHANGED <<sock, interest>> /\ cause' = cause
      BY <1>3, <1>9, <2>1, <2>2, <2>4 DEF AddClient, kernelVars
    <3>2. CauseKnown' /\ RefusalsAreCaused'
      BY <1>1, <2>2, <3>1 DEF CauseKnown, RefusalsAreCaused
    <3>3. StaleIsRefused'
      <4>1. ASSUME NEW q \in Pools, clients'[q][accFd] # None
            PROVE  IF sock[accFd] = clients'[q][accFd]
                   THEN \A r \in Pools :
                          /\ clients'[r][accFd] = sock[accFd] => r = q
                          /\ ~ (loopPc[r] = "close" /\ evFd[r] = accFd)
                   ELSE cause[clients'[q][accFd]] # None
        BY <1>1, <2>2, <2>3, <4>1 DEF Busy
      <4> QED BY <1>1, <2>2, <3>1, <4>1 DEF StaleIsRefused, loopVars
    <3> QED BY <3>1, <3>2, <3>3
  <2>5. CASE clients[p][accFd] # None
    <3>1. /\ sock' = [sock EXCEPT ![accFd] = None]
          /\ \A q \in Pools : interest'[q] \subseteq interest[q]
      BY <1>9, <2>1, <2>5 DEF AddClient, CloseFd
    <3>2. PICK d \in Conns : d = clients[p][accFd] /\ cause[d] # None
      BY <1>1, <2>3, <2>5 DEF TypeOK
    <3>3. RefusalsAreCaused' /\ \A e \in Conns : cause[e] # None => cause'[e] # None
      <4>1. \A q \in Pools : \A fd \in interest'[q] : sock'[fd] # accConn /\ sock'[fd] = sock[fd]
        BY <1>1, <1>2, <3>1 DEF TypeOK
      <4> QED BY <1>1, <2>2, <3>1, <3>2, <4>1, RefusedForACause
    <3>4. CauseKnown'
      BY <1>1, <1>3, <2>2, <3>1, <3>2, ConstantsAssumption DEF CauseKnown, Custody, AcceptHas, TypeOK
    <3>5. StaleIsRefused'
      <4>1. ASSUME NEW q \in Pools, clients'[q][accFd] # None
            PROVE  sock'[accFd] = None /\ cause'[clients'[q][accFd]] # None
        BY <1>1, <1>3, <2>2, <2>3, <3>1, <3>2, <3>3, <4>1, ConstantsAssumption DEF TypeOK
      <4>2. ASSUME NEW q \in Pools, NEW fd \in Fds, fd # accFd, clients[q][fd] # None
            PROVE  IF sock'[fd] = clients[q][fd]
                   THEN \A r \in Pools :
                          /\ clients[r][fd] = sock'[fd] => r = q
                          /\ ~ (loopPc[r] = "close" /\ evFd[r] = fd)
                   ELSE cause'[clients[q][fd]] # None
        <5>1. sock'[fd] = sock[fd] /\ clients[q][fd] \in Conns
          BY <3>1, <4>2 DEF TypeOK
        <5>2. cause[clients[q][fd]] # None => cause'[clients[q][fd]] # None
          BY <3>3, <5>1
        <5> QED BY <4>2, <5>1, <5>2 DEF StaleIsRefused
      <4> QED BY <1>1, <2>2, <4>1, <4>2 DEF StaleIsRefused, loopVars
    <3> QED BY <3>3, <3>4, <3>5
  <2> QED BY <2>4, <2>5
<1> QED BY <1>4, <1>5, <1>6, <1>7, <1>8, <1>9 DEF DistributeBytes, Distribute

LEMMA EraseClientKeepsRefusals ==
  ASSUME TypeOK, Possession, RefusalInv, NEW p \in Pools, EraseClient(p), UNCHANGED cause
  PROVE  RefusalInv'
<1> USE DEF RefusalInv
<1>1. /\ evFd[p] \in Fds /\ sock[evFd[p]] = client[p] /\ clients[p][evFd[p]] = client[p]
      /\ client[p] \in Conns
  BY DEF EraseClient, Possession, LoopHolds, Busy
<1>2. /\ UNCHANGED <<sock, interest, fresh, accPc, accFd, accConn, evFd>>
      /\ \A q \in Pools : q # p => loopPc'[q] = loopPc[q]
      /\ \A q \in Pools, fd \in Fds :
           clients'[q][fd] = IF q = p /\ fd = evFd[p] THEN None ELSE clients[q][fd]
  BY <1>1 DEF EraseClient, GoTo, kernelVars, acceptVars, TypeOK
<1>3. CauseKnown' /\ RefusalsAreCaused'
  BY <1>2 DEF CauseKnown, RefusalsAreCaused
<1>4. \A q \in Pools : clients'[q][evFd[p]] # None => clients[q][evFd[p]] # sock[evFd[p]]
  BY <1>1, <1>2, ConstantsAssumption DEF StaleIsRefused
<1>5. StaleIsRefused'
  <2> SUFFICES ASSUME NEW q \in Pools, NEW fd \in Fds, clients'[q][fd] # None
               PROVE  IF sock[fd] = clients'[q][fd]
                      THEN \A r \in Pools :
                             /\ clients'[r][fd] = sock[fd] => r = q
                             /\ ~ (loopPc'[r] = "close" /\ evFd[r] = fd)
                      ELSE cause[clients'[q][fd]] # None
    BY <1>2 DEF StaleIsRefused
  <2>1. CASE fd = evFd[p]
    BY <1>2, <1>4, <2>1 DEF StaleIsRefused
  <2>2. CASE fd # evFd[p]
    BY <1>2, <2>2 DEF StaleIsRefused
  <2> QED BY <2>1, <2>2
<1> QED BY <1>3, <1>5

LEMMA CloseClientKeepsRefusals ==
  ASSUME TypeOK, Possession, RefusalInv, NEW p \in Pools, CloseClient(p), UNCHANGED cause
  PROVE  RefusalInv'
<1> USE DEF RefusalInv
<1>1. /\ evFd[p] \in Fds /\ sock[evFd[p]] \in Conns /\ loopPc[p] = "close"
      /\ accPc # "accept" => accFd # evFd[p]
  BY DEF CloseClient, Possession, LoopHolds, AcceptHolds, Busy
<1>2. /\ UNCHANGED <<fresh, accPc, accFd, accConn, clients>>
      /\ sock' = [sock EXCEPT ![evFd[p]] = None]
      /\ \A q \in Pools : interest'[q] \subseteq interest[q]
      /\ \A q \in Pools : loopPc'[q] = "close" => loopPc[q] = "close" /\ evFd'[q] = evFd[q]
  BY <1>1 DEF CloseClient, CloseFd, EventDone, acceptVars, TypeOK
<1>3. CauseKnown'
  BY <1>1, <1>2 DEF CauseKnown, TypeOK
<1>4. RefusalsAreCaused'
  BY <1>1, <1>2, ConstantsAssumption DEF RefusalsAreCaused, TypeOK
<1>5. StaleIsRefused'
  BY <1>1, <1>2 DEF StaleIsRefused, TypeOK
<1> QED BY <1>3, <1>4, <1>5

\* Only who was served, or refused, is closed.
LEMMA ClosingIsServed ==
  ASSUME TypeOK, Possession, Custody, ByteInv, RefusalInv, OnlyServedCloses,
         [DeliveryNext]_deliveryVars
  PROVE  OnlyServedCloses'
<1> SUFFICES ASSUME NEW c \in Conns, c \notin fresh', ~ IsOpen(c)'
             PROVE  \/ c \in answers'[c]
                    \/ c \in gone'
                    \/ c \in shut' /\ arrived'[c] < Pieces
                    \/ cause'[c] # None
  BY DEF OnlyServedCloses
<1> USE DEF ByteInv
<1>1. CASE UNCHANGED deliveryVars
  BY <1>1 DEF deliveryVars, byteVars, peerVars, vars, kernelVars, acceptVars, OnlyServedCloses, IsOpen
<1>2. ASSUME NEW d \in Conns, PeerSends(d) \/ PeerShutsDown(d) \/ PeerResets(d)
      PROVE  \/ c \in answers'[c]
             \/ c \in gone'
             \/ c \in shut' /\ arrived'[c] < Pieces
             \/ cause'[c] # None
  <2>1. /\ IsOpen(d) /\ UNCHANGED <<sock, fresh, answers, cause>>
        /\ gone \subseteq gone' /\ shut \subseteq shut' /\ (arrived'[c] = arrived[c] \/ c = d)
    BY <1>2 DEF PeerSends, PeerShutsDown, PeerResets, Arrives, BytesCounted, vars, kernelVars,
                acceptVars
  <2>2. c # d /\ c \notin fresh /\ ~ IsOpen(c)
    BY <2>1 DEF IsOpen
  <2> QED BY <2>1, <2>2 DEF OnlyServedCloses
<1>3. CASE AcceptBytes
  <2>1. PICK d \in fresh, fd \in Fds :
          sock[fd] = None /\ sock' = [sock EXCEPT ![fd] = d] /\ fresh' = fresh \ {d}
    BY <1>3 DEF AcceptBytes, Accept
  <2>2. UNCHANGED byteVars
    BY <1>3 DEF AcceptBytes
  <2>3. c # d
    BY <2>1 DEF IsOpen, TypeOK
  <2>4. c \notin fresh /\ ~ IsOpen(c)
    BY <2>1, <2>3, ConstantsAssumption DEF IsOpen, TypeOK
  <2> QED BY <2>2, <2>4 DEF OnlyServedCloses, byteVars, peerVars
<1>4. CASE DistributeBytes
  <2>1. \A d \in Conns : cause[d] # None => cause'[d] # None
    BY <1>4, DistributeKeepsRefusals
  <2>2. UNCHANGED <<fresh, peerVars, answers>>
    BY <1>4
    DEF DistributeBytes, Distribute, GetPool, AddClient, AddFD, AddFDThrows, CatchClose
  <2>3. CASE ~ IsOpen(c)
    BY <2>1, <2>2, <2>3 DEF OnlyServedCloses, peerVars
  <2>4. CASE IsOpen(c)
    <3>1. PICK fd \in Fds : sock[fd] = c /\ sock'[fd] # c
      BY <2>4 DEF IsOpen
    <3>2. fd = accFd /\ (AddClient \/ CatchClose)
      BY <1>4, <3>1
      DEF DistributeBytes, Distribute, GetPool, AddClient, AddFD, AddFDThrows, CatchClose, CloseFd,
          kernelVars, TypeOK
    <3>3. accPc \in {"addClient", "catch"} /\ c = accConn
      BY <3>1, <3>2, ConstantsAssumption DEF AddClient, CatchClose, Possession, AcceptHolds
    <3>4. CASE CatchClose
      BY <2>1, <3>3, <3>4 DEF CatchClose, RefusalInv, CauseKnown
    <3>5. CASE AddClient
      <4>1. PICK p \in Pools : p = accPool
        BY <3>5 DEF AddClient, TypeOK
      <4>2. clients[p][fd] # None
        BY <3>1, <3>2, <3>5, <4>1 DEF AddClient, kernelVars
      <4> QED BY <1>4, <3>2, <3>3, <3>5, <4>1, <4>2
              DEF AddClient, DistributeBytes, RefusalInv, CauseKnown
    <3> QED BY <3>2, <3>4, <3>5
  <2> QED BY <2>3, <2>4
<1>5. ASSUME NEW p \in Pools, PollEdges(p) \/ (HandleBytes(p) /\ ~ CloseClient(p))
      PROVE  \/ c \in answers'[c]
             \/ c \in gone'
             \/ c \in shut' /\ arrived'[c] < Pieces
             \/ cause'[c] # None
  <2>1. /\ UNCHANGED <<sock, fresh, peerVars, cause>>
        /\ answers[c] \subseteq answers'[c]
    <3>1. UNCHANGED <<sock, fresh>>
      BY <1>5
      DEF PollEdges, HandleBytes, Poll, Dispatch, ReadEnds, ReadIncomplete, ReadComplete, Respond,
          RemoveFD, EraseClient, kernelVars, acceptVars
    <3>2. UNCHANGED <<peerVars, cause>> /\ (answers' = answers \/ Answer(p))
      BY <1>5 DEF PollEdges, HandleBytes, ReceiveFails, Receive, Answer, byteVars
    <3>3. Answer(p) => answers[c] \subseteq answers'[c]
      BY DEF Answer, BytesCounted
    <3> QED BY <3>1, <3>2, <3>3
  <2> QED BY <2>1 DEF OnlyServedCloses, IsOpen, peerVars
<1>6. ASSUME NEW p \in Pools, CloseClient(p), UNCHANGED byteVars
      PROVE  \/ c \in answers'[c]
             \/ c \in gone'
             \/ c \in shut' /\ arrived'[c] < Pieces
             \/ cause'[c] # None
  <2>1. fresh' = fresh /\ evFd[p] \in Fds /\ sock[evFd[p]] = client[p]
        /\ sock' = [sock EXCEPT ![evFd[p]] = None] /\ Served(client[p])
    BY <1>6, HandledIsOpen DEF CloseClient, CloseFd, acceptVars, Progress
  <2>2. CASE IsOpen(c)
    <3>1. c = client[p]
      BY <2>1, <2>2 DEF IsOpen, TypeOK
    <3> QED BY <1>6, <2>1, <3>1 DEF Served, byteVars, peerVars
  <2>3. CASE ~ IsOpen(c)
    BY <1>6, <2>1, <2>3 DEF OnlyServedCloses, byteVars, peerVars
  <2> QED BY <2>2, <2>3
<1>7. ASSUME NEW p \in Pools, HandleBytes(p), CloseClient(p) PROVE UNCHANGED byteVars
  BY <1>7
  DEF HandleBytes, CloseClient, Dispatch, ReadEnds, ReadIncomplete, ReadComplete, Respond, RemoveFD,
      EraseClient
<1> QED BY <1>1, <1>2, <1>3, <1>4, <1>5, <1>6, <1>7 DEF DeliveryNext

LEMMA RefusalInvHolds == DeliverySpec => [](RefusalInv /\ OnlyServedCloses)
<1>1. DeliveryInit => RefusalInv /\ OnlyServedCloses
  BY ConstantsAssumption
  DEF DeliveryInit, Init, RefusalInv, CauseKnown, StaleIsRefused, RefusalsAreCaused,
      OnlyServedCloses
<1>2. TypeOK /\ Possession /\ Custody /\ RefusalInv /\ [DeliveryNext]_deliveryVars => RefusalInv'
  <2> SUFFICES ASSUME TypeOK, Possession, Custody, RefusalInv, [DeliveryNext]_deliveryVars
               PROVE  RefusalInv'
    OBVIOUS
  <2>1. CASE UNCHANGED deliveryVars
    BY <2>1, QuietKeepsRefusals DEF deliveryVars, byteVars, vars, kernelVars, acceptVars, loopVars
  <2>2. ASSUME NEW c \in Conns, PeerSends(c) \/ PeerShutsDown(c) \/ PeerResets(c)
        PROVE  RefusalInv'
    BY <2>2, QuietKeepsRefusals
    DEF PeerSends, PeerShutsDown, PeerResets, Arrives, vars, kernelVars, acceptVars, loopVars
  <2>3. CASE AcceptBytes
    BY <2>3, AcceptKeepsRefusals
  <2>4. CASE DistributeBytes
    BY <2>4, DistributeKeepsRefusals
  <2>5. ASSUME NEW p \in Pools, PollEdges(p) \/ HandleBytes(p) PROVE RefusalInv'
    <3>1. UNCHANGED cause
      BY <2>5 DEF PollEdges, HandleBytes, ReceiveFails, Receive, Answer, byteVars
    <3>2. CASE EraseClient(p)
      BY <3>1, <3>2, EraseClientKeepsRefusals
    <3>3. CASE CloseClient(p)
      BY <3>1, <3>3, CloseClientKeepsRefusals
    <3>4. CASE ~ EraseClient(p) /\ ~ CloseClient(p)
      <4>1. /\ UNCHANGED <<sock, fresh, accPc, accFd, accConn, clients>>
            /\ \A q \in Pools : interest'[q] \subseteq interest[q]
        BY <2>5, <3>4
        DEF PollEdges, HandleBytes, Poll, Dispatch, ReadEnds, ReadIncomplete, ReadComplete, Respond,
            RemoveFD, kernelVars, acceptVars, TypeOK
      <4>2. /\ \A q \in Pools : q # p => loopPc'[q] = loopPc[q] /\ evFd'[q] = evFd[q]
            /\ loopPc'[p] # "close"
        BY <2>5, <3>4
        DEF PollEdges, HandleBytes, Poll, Dispatch, ReadEnds, ReadIncomplete, ReadComplete, Respond,
            RemoveFD, GoTo, EventDone, TypeOK
      <4> QED BY <3>1, <4>1, <4>2, QuietKeepsRefusals
    <3> QED BY <3>2, <3>3, <3>4
  <2> QED BY <2>1, <2>2, <2>3, <2>4, <2>5 DEF DeliveryNext
<1>3. TypeOK /\ Possession /\ Custody /\ ByteInv /\ RefusalInv /\ OnlyServedCloses
        /\ [DeliveryNext]_deliveryVars => OnlyServedCloses'
  BY ClosingIsServed
<1> QED BY <1>1, <1>2, <1>3, ByteInvHolds, PTL DEF DeliverySpec

\* What was handed over is closed only after its peer was answered, has reset it
\* or shut down too soon: removeClient meets nobody else.  What the accept thread
\* closes it has refused.
THEOREM NobodyIsDropped == DeliverySpec => []OnlyServedCloses
BY RefusalInvHolds, PTL

\* Nobody is refused but who epoll_ctl failed for, who found no pool, or who got
\* the number under which a refused connection's Client was left.
THEOREM RefusalsHaveACause == DeliverySpec => []RefusalsAreCaused
BY RefusalInvHolds, PTL DEF RefusalInv
================================================================================
