--------------------------- MODULE MCComposeRepo ---------------------------
(***************************************************************************)
(* An instance of ComposeRepo for TLC: a server in every deliverable and a *)
(* page in that of one run or of both, so that one may be left over.  No   *)
(* symmetry, as liveness is checked in the same run.                       *)
(***************************************************************************)
EXTENDS ComposeRepo, TLC

CONSTANTS r1, r2, server, ui

MCDeliverables ==
  {r1 :> {server, ui} @@ r2 :> some : some \in {{server}, {server, ui}}}
===========================================================================
