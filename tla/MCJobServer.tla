---------------------------- MODULE MCJobServer ----------------------------
(***************************************************************************)
(* JobServer on small instances.                                           *)
(***************************************************************************)
EXTENDS JobServer, TLC

\* Connections are interchangeable.
Symmetry == Permutations(Handlers)
=============================================================================
