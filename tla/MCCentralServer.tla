-------------------------- MODULE MCCentralServer --------------------------
(***************************************************************************)
(* CentralServer on a small instance.                                      *)
(***************************************************************************)
EXTENDS CentralServer, TLC

\* Handler threads and descriptors are interchangeable.
Symmetry == Permutations(Takers) \cup Permutations(Fds)
=============================================================================
