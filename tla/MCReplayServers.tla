-------------------------- MODULE MCReplayServers --------------------------
(***************************************************************************)
(* Instances of ReplayServers for TLC: one run more than the pool holds.   *)
(* Nothing is symmetric, as liveness is checked in the same run.           *)
(***************************************************************************)
EXTENDS ReplayServers
===========================================================================
