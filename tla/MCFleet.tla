------------------------------ MODULE MCFleet ------------------------------
(***************************************************************************)
(* Instances of Fleet for TLC.                                             *)
(***************************************************************************)
EXTENDS Fleet, TLC

CONSTANTS r1, a1, a2

\* The role has its instances in the settings, or its harness beside the
\* console.
MCEnviron == r1 :> <<>>

MCDeployable == r1 :> a1

Symmetry == Permutations(Threads) \cup Permutations(Pickers)
===========================================================================
