---------------------------- MODULE MCAssistant ----------------------------
(***************************************************************************)
(* Instances of Assistant for TLC.                                         *)
(***************************************************************************)
EXTENDS Assistant

\* Wordings with no intent, with one, and with two on either side of a rung.
MCTasks == {{}, {"convert"}, {"review", "fullstack"}}
===========================================================================
