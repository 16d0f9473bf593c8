-------------------------------- MODULE Delivery --------------------------------
(***************************************************************************)
(* Connections and RequestStream put together: many connections whose      *)
(* descriptors change owners, as in Connections, and the bytes and edges   *)
(* on which the outcome of an event depends, as in RequestStream.          *)
(*                                                                         *)
(* An edge that epoll_wait has reported does not come again, so an event   *)
(* that gets lost between threads, or is handled for the wrong connection, *)
(* leaves a peer without an answer.  A request is a number of pieces, and  *)
(* one recv takes all that have arrived; longer ones and the text are in   *)
(* RequestStream, and the descriptors of the rest of the process in        *)
(* Connections.                                                            *)
(***************************************************************************)
EXTENDS Connections

CONSTANTS
  Pieces,  \* the pieces a request is made of
  MaxEnds  \* bound on the shutdowns and resets

ASSUME PiecesAssumption == Pieces \in Nat \ {0} /\ MaxEnds \in Nat

VARIABLES
  arrived,  \* the pieces each peer has sent
  consumed, \* how many of them recv has returned
  buffer,   \* the pieces in the request buffer of the Client made for each connection
  shut,     \* the connections whose peers have shut their side down
  gone,     \* the connections their peers have reset
  edge,     \* the connections with an edge epoll_wait has not reported
  answers,  \* the Clients whose responses were sent on each connection
  cause     \* why the accept thread cannot hand a connection over: the one whose
            \*   Client was left in its slot, or itself; None for the others

peerVars == <<arrived, shut, gone>>
byteVars == <<peerVars, consumed, buffer, edge, answers, cause>>
deliveryVars == <<vars, byteVars>>

DeliveryInit ==
  /\ Init
  /\ arrived = [c \in Conns |-> 0]
  /\ consumed = [c \in Conns |-> 0]
  /\ buffer = [c \in Conns |-> 0]
  /\ shut = {}
  /\ gone = {}
  /\ edge = {}
  /\ answers = [c \in Conns |-> {}]
  /\ cause = [c \in Conns |-> None]

-----------------------------------------------------------------------------
\* What arrives before the connection is accepted is no different from what
\* arrives before its descriptor is registered.  Everything makes an edge.
Arrives(c) ==
  /\ IsOpen(c) /\ c \notin gone
  /\ edge' = edge \cup {c}
  /\ UNCHANGED <<vars, consumed, buffer, answers, cause>>

PeerSends(c) ==
  /\ Arrives(c)
  /\ c \notin shut /\ arrived[c] < Pieces
  /\ arrived' = [arrived EXCEPT ![c] = @ + 1]
  /\ UNCHANGED <<shut, gone>>

MayEnd == Cardinality(shut) + Cardinality(gone) < MaxEnds

PeerShutsDown(c) ==
  /\ Arrives(c)
  /\ c \notin shut /\ MayEnd
  /\ shut' = shut \cup {c}
  /\ UNCHANGED <<arrived, gone>>

PeerResets(c) ==
  /\ Arrives(c)
  /\ MayEnd
  /\ gone' = gone \cup {c}
  /\ UNCHANGED <<arrived, shut>>

-----------------------------------------------------------------------------
\* The accept thread.  A Client left in the slot closes the new descriptor when
\* addClient destroys it; otherwise distribute_client throws for want of a pool,
\* or epoll_ctl fails although the descriptor could be registered.
DistributeBytes ==
  /\ Distribute
  /\ cause' = [cause EXCEPT ![accConn] =
       CASE accPc = "addClient" -> clients[accPool][accFd]
         [] accPc = "get_pool" /\ accPc' = "catch" -> accConn
         [] accPc = "addFD" /\ accPc' = "catch" /\ Registrable(accPool, accFd) -> accConn
         [] OTHER -> @]
  /\ UNCHANGED <<peerVars, consumed, buffer, edge, answers>>

\* Connections wait in the order in which they are taken, so they may be named
\* in that order; and the kernel hands out the first free number.
AcceptBytes ==
  /\ Accept
  /\ accConn' = CHOOSE c \in fresh : TRUE
  /\ accFd' = CHOOSE fd \in Fds : sock[fd] = None
  /\ UNCHANGED byteVars

\* epoll_wait reports an edge once, if there is still something to report.
Reportable(c) == c \in edge /\ (c \in gone \cup shut \/ arrived[c] > consumed[c])

PollEdges(p) ==
  /\ Poll(p)
  /\ \A e \in batch'[p] : Reportable(e[3]) /\ (e[2] = "HANGUP" <=> e[3] \in gone)
  /\ edge' = edge \ {e[3] : e \in batch'[p]}
  /\ UNCHANGED <<peerVars, consumed, buffer, answers, cause>>

\* recv on the descriptor: all that has arrived on the connection it is now
\* goes into the buffer of the Client.
Receive(p) ==
  LET c == sock[evFd[p]]
  IN  /\ arrived[c] > consumed[c]
      /\ consumed' = [consumed EXCEPT ![c] = arrived[c]]
      /\ buffer' = [buffer EXCEPT ![client[p]] = @ + arrived[c] - consumed[c]]
      /\ UNCHANGED <<peerVars, edge, answers, cause>>

\* recv returns 0 because the peer has shut its side down, or fails with EAGAIN or
\* because the peer has reset the connection: all of them end it.
ReceiveFails(p) ==
  LET c == sock[evFd[p]]
  IN  /\ c \in gone \/ arrived[c] = consumed[c]
      /\ UNCHANGED byteVars

\* The response goes to whoever owns the descriptor.
Answer(p) ==
  /\ answers' = [answers EXCEPT ![sock[evFd[p]]] = @ \cup {client[p]}]
  /\ UNCHANGED <<peerVars, consumed, buffer, edge, cause>>

HandleBytes(p) ==
  \/ Dispatch(p) /\ UNCHANGED byteVars
  \/ ReadEnds(p) /\ ReceiveFails(p)
  \/ ReadIncomplete(p) /\ Receive(p) /\ buffer'[client[p]] < Pieces
  \/ ReadComplete(p) /\ Receive(p) /\ buffer'[client[p]] >= Pieces
  \/ Respond(p) /\ Answer(p)
  \/ RemoveFD(p) /\ UNCHANGED byteVars
  \/ EraseClient(p) /\ UNCHANGED byteVars
  \/ CloseClient(p) /\ UNCHANGED byteVars

DeliveryNext ==
  \/ \E c \in Conns : PeerSends(c) \/ PeerShutsDown(c) \/ PeerResets(c)
  \/ AcceptBytes
  \/ DistributeBytes
  \/ \E p \in Pools : PollEdges(p) \/ HandleBytes(p)

DeliverySpec == DeliveryInit /\ [][DeliveryNext]_deliveryVars

\* As in Connections; and epoll_wait returns when there is something to report.
DeliveryFairSpec ==
  /\ DeliverySpec
  /\ WF_deliveryVars(DistributeBytes)
  /\ \A p \in Pools : WF_deliveryVars(PollEdges(p) \/ HandleBytes(p))

-----------------------------------------------------------------------------
(***************************************************************************)
(* Properties.                                                             *)
(***************************************************************************)

\* An edge-triggered event comes once: for data that waits in the kernel it is
\* still to come, or in a thread's batch, or that thread is handling it.  The
\* accept thread has stored the Client by the time the edge can be reported, and
\* an event is never dropped because of what happens to another connection.
EveryByteHasAnEvent ==
  \A c \in Conns : IsOpen(c) /\ arrived[c] > consumed[c] =>
    \/ c \in edge
    \/ \E p \in Pools : evConn[p] = c \/ \E e \in batch[p] : e[3] = c

\* A peer is answered with the response made for its own connection, out of the
\* bytes it sent, although descriptor numbers and map slots are reused and
\* Clients of connections that were refused stay in the map.
OwnAnswer ==
  \A c \in Conns : answers[c] # {} =>
    answers[c] = {c} /\ buffer[c] = Pieces /\ consumed[c] = Pieces

\* A connection that was handed to a pool is closed only after it was answered
\* or reset, or shut down before its request was complete: never by an event that
\* is handled twice and finds nothing to read.
OnlyServedCloses ==
  \A c \in Conns : c \notin fresh /\ ~ IsOpen(c) =>
    \/ c \in answers[c]
    \/ c \in gone
    \/ c \in shut /\ arrived[c] < Pieces
    \/ cause[c] # None

\* A connection is refused because epoll_ctl failed for it (or there is no pool),
\* or because the Client of one that was refused before was left under its number;
\* behind every refusal there is one of the first kind.  A refused connection was
\* not handed over: no pool monitors it.
RefusalsAreCaused ==
  \A c \in Conns : cause[c] # None =>
    /\ cause[c] = c \/ cause[cause[c]] # None
    /\ \E d \in Conns : cause[d] = d
    /\ \A p \in Pools : \A fd \in interest[p] : sock[fd] # c

\* In the end every peer that has sent its request is answered ("waiting for
\* more data", Pool.cpp:101, waits for nothing else), unless it reset the
\* connection or was refused, for which RefusalsAreCaused gives the reason.
SentIsAnswered ==
  <>[](\A c \in Conns :
         arrived[c] = Pieces => c \in answers[c] \/ c \in gone \/ cause[c] # None)
================================================================================
