--------------------------- MODULE ConnectionService ---------------------------
(***************************************************************************)
(* What the server promises about every connection, whoever runs it: one   *)
(* connection at a time is taken from the listener, it is then either      *)
(* given to one pool or refused, the pool it was given to keeps it until   *)
(* it ends, and a connection that has ended never comes back.              *)
(***************************************************************************)
EXTENDS Naturals

CONSTANTS
  Conns,  \* connections
  Pools,  \* pools
  None    \* no pool

VARIABLES
  phase,  \* how far each connection has come
  home    \* the pool that serves each active connection

Phases == {"waiting", "accepted", "active", "closed"}

TypeOK ==
  /\ phase \in [Conns -> Phases]
  /\ home \in [Conns -> Pools \cup {None}]

Init ==
  /\ phase = [c \in Conns |-> "waiting"]
  /\ home = [c \in Conns |-> None]

Take(c) ==
  /\ phase[c] = "waiting"
  /\ \A d \in Conns : phase[d] # "accepted"
  /\ phase' = [phase EXCEPT ![c] = "accepted"]
  /\ UNCHANGED home

Assign(c, p) ==
  /\ phase[c] = "accepted"
  /\ phase' = [phase EXCEPT ![c] = "active"]
  /\ home' = [home EXCEPT ![c] = p]

Refuse(c) ==
  /\ phase[c] = "accepted"
  /\ phase' = [phase EXCEPT ![c] = "closed"]
  /\ UNCHANGED home

Finish(c) ==
  /\ phase[c] = "active"
  /\ phase' = [phase EXCEPT ![c] = "closed"]
  /\ home' = [home EXCEPT ![c] = None]

Settle(c) == Refuse(c) \/ \E p \in Pools : Assign(c, p)

Next == \E c \in Conns : Take(c) \/ Settle(c) \/ Finish(c)

Spec == Init /\ [][Next]_<<phase, home>>

\* A connection that was taken is given to a pool or refused.
FairSpec == Spec /\ \A c \in Conns : WF_<<phase, home>>(Settle(c))
================================================================================
