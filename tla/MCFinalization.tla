-------------------------- MODULE MCFinalization --------------------------
(***************************************************************************)
(* Instances of Finalization for TLC: two files, so that one may be        *)
(* published and the other not, and the two rounds of the code.            *)
(***************************************************************************)
EXTENDS Finalization
===========================================================================
