---------------------------- MODULE MCWorkbench ----------------------------
(***************************************************************************)
(* Instances of Workbench for TLC.                                         *)
(***************************************************************************)
EXTENDS Workbench

MCMain == <<"mcp_server.py">>

\* The server, and a directory with a file.
MCPaths == {MCMain, <<"d">>, <<"d", "f">>}
===========================================================================
