-------------------------- MODULE MCRunLifecycle --------------------------
(***************************************************************************)
(* Instances of RunLifecycle for TLC.  One tick is 600 s: the daemon       *)
(* strands after one, the agent phase may take three, as 600 < 1800 in the *)
(* code.                                                                   *)
(***************************************************************************)
EXTENDS RunLifecycle, TLC

\* The runs are interchangeable in every safety property.
Symmetry == Permutations(Runs)
===========================================================================
