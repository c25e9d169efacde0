-------------------------- MODULE MCRoleThreads ---------------------------
(***************************************************************************)
(* Instances of RoleThreads for TLC: the three roles of the engine, the    *)
(* two rounds of the code.                                                 *)
(***************************************************************************)
EXTENDS RoleThreads, TLC

\* The roles that wait are interchangeable.
Symmetry == Permutations(Waiters)
===========================================================================
