---------------------------- MODULE MCConnections ----------------------------
(***************************************************************************)
(* Instances of Connections for TLC.                                       *)
(***************************************************************************)
EXTENDS Connections, TLC

\* Descriptor numbers and connections are interchangeable.
Symmetry == Permutations(Fds) \cup Permutations(Conns)
================================================================================
