--------------------------- MODULE MCRuntimeShell ---------------------------
(***************************************************************************)
(* Instances of RuntimeShell for TLC.  The clients are not symmetric, as   *)
(* liveness is checked in the same run.                                    *)
(***************************************************************************)
EXTENDS RuntimeShell
===========================================================================
