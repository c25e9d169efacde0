----------------------------- MODULE Workbench -----------------------------
(***************************************************************************)
(* The workspace sessions of the console (interactive_api.py, dispatch):   *)
(* each has a folder, a terminal (Terminals) and the preview server of a   *)
(* conversion, and leaves rows in the ledger that the governance view      *)
(* reads (Metrics).  Requests hold one lock from beginning to end, also    *)
(* while a terminal is closed or a server boots; the shells, their readers *)
(* and streams, and the governance view, which may stop a server, do not.  *)
(*                                                                         *)
(* Abstracted: the environment of a shell; what its configuration files    *)
(* say; the limits on the size of a file and on how much a listing or a    *)
(* search tells; the directory of scripted commands within the folder.     *)
(***************************************************************************)
EXTENDS Terminals, Metrics, Workspace

CONSTANTS
  Paths,        \* paths of files and directories
  Main,         \* mcp_server.py
  Keep,         \* _MAX_STAGE1_DIRS
  MaxRequests,  \* bound: the requests, of the views and attachments too
  MaxDeaths     \* bound: the deaths of the host

ASSUME WorkbenchAssumption ==
  /\ Paths \subseteq Seq(STRING) \ {<<>>}
  /\ Main \in Paths /\ Len(Main) = 1
  /\ {Keep, MaxRequests, MaxDeaths} \subseteq Nat

VARIABLES
  sess,       \* _SESSIONS
  disk,       \* the files of each folder
  jails,      \* the folders under .runs/stage1, the latest touched last
  doing,      \* the request that holds _LOCK
  strays,     \* history: servers left behind, by a host that died or a boot that failed
  requests,   \* the requests so far
  deaths      \* the deaths so far

wvars == <<sess, disk, jails, doing, strays, requests, deaths>>

vars == <<tvars, mvars, wvars>>

---------------------------------------------------------------------------
\* Folders.  A session whose folder was closed works on the directory the
\* host runs in, as far as files go, and has no directory for a shell.

Agents == {"claude-code", "opencode", "dev"}

Home == <<"home">>
Mount == <<"mount">>
HostDir == <<"host">>
NoFolder == <<>>
Jail(s) == <<"jail", s>>

Folders == {Home, Mount, HostDir} \cup {Jail(s) : s \in Sessions}

There(f) == f \in {Home, Mount, HostDir} \/ f \in ToSet(jails)

NoServer == 0

NoSession == [status |-> "none", agent |-> "none", folder |-> NoFolder, server |-> NoServer,
              tools |-> FALSE, packed |-> FALSE]

NoRequest == [op |-> "none", session |-> 0, then |-> <<>>, pid |-> 0]

Root(s) == IF sess[s].folder = NoFolder THEN HostDir ELSE sess[s].folder

\* The shell or the server of a session has a directory to start in.
HasDir(s) == sess[s].folder # NoFolder /\ There(sess[s].folder)

\* The tree of the session becomes t; writing may bring its folder back.
Files(s, t) ==
  /\ disk' = [disk EXCEPT ![Root(s)] = t]
  /\ jails' = IF There(Root(s)) \/ t = NoFiles THEN jails ELSE Append(jails, Root(s))

Init ==
  /\ TerminalsInit
  /\ MetricsInit
  /\ sess = [s \in Sessions |-> NoSession]
  /\ disk = [f \in Folders |-> NoFiles]
  /\ jails = <<>>
  /\ doing = NoRequest
  /\ strays = {}
  /\ requests = 0
  /\ deaths = 0

---------------------------------------------------------------------------
\* The lock.

Counted == requests < MaxRequests /\ requests' = requests + 1

\* A request on an open session; others are refused (404, 409).
Locks(s) == doing.op = "none" /\ sess[s].status = "open" /\ Counted

Log(row) == ledger' = Append(ledger, row)

Row(kind, s, pid) == [kind |-> kind, session |-> s, pid |-> pid]

\* _prune_dirs, before a session is added: all but the newest are stale.
Newest(dirs) == SubSeq(dirs, Len(dirs) - Min({Keep, Len(dirs)}) + 1, Len(dirs))

\* A stale folder is removed, or stays with some of its entries where the
\* system refuses (ignore_errors), and is touched if the bundle beside it goes.
Prune(s, agent, stay, touched) ==
  LET stale == ToSet(jails) \ ToSet(Newest(jails))
      there == ToSet(jails) \ (stale \ stay) IN
  /\ stay \subseteq stale
  /\ \A f \in touched : \E r \in Sessions : f = Jail(r) /\ sess[r].packed
  /\ jails' = SelectSeq(jails, LAMBDA f : f \in there \ touched)
                 \o Reverse(SelectSeq(jails, LAMBDA f : f \in touched))
                 \o (IF agent = "dev" THEN <<>> ELSE <<Jail(s)>>)
  /\ \E remains \in [stale -> {NoFiles} \cup UNION {Remains(disk[f]) : f \in stay}] :
       /\ \A f \in stale : remains[f] \in IF f \in stay THEN Remains(disk[f]) ELSE {NoFiles}
       /\ disk' = [f \in Folders |-> IF f \in stale THEN remains[f] ELSE disk[f]]
  /\ sess' = [r \in Sessions |->
       IF r = s THEN [NoSession EXCEPT !.status = "open", !.agent = agent,
                                       !.folder = IF agent = "dev" THEN Home ELSE Jail(s)]
       ELSE [sess[r] EXCEPT !.packed = @ /\ Jail(r) \in there \ touched]]

\* _new_session: a number that was never given; a role gets a folder of its
\* own, Development starts at home.
NewSession(s, agent) ==
  /\ doing.op = "none" /\ Counted
  /\ sess[s].status = "none" /\ \A r \in Sessions : r < s => sess[r].status # "none"
  /\ \E stay \in SUBSET ToSet(jails) : \E touched \in SUBSET stay : Prune(s, agent, stay, touched)
  /\ Log(Row("session", s, 0))
  /\ UNCHANGED <<tvars, procs, cache, reads, stopped, calm, doing, strays, deaths>>

---------------------------------------------------------------------------
\* Terminals.  What has to be done once the old one is closed is in then.

Close(s, then) ==
  /\ doing' = [NoRequest EXCEPT !.op = "close", !.session = s, !.then = then]
  /\ IF pty[s] = NoTerm THEN UNCHANGED tvars ELSE KillShell(s)

\* _pty_open.
AskTerminal(s) ==
  /\ Locks(s)
  /\ Close(s, <<"open">>)
  /\ UNCHANGED <<mvars, sess, disk, jails, strays, deaths>>

\* _open_folder: Development only, and to a directory that is there; the
\* terminal is closed.
OpenFolder(s, f) ==
  /\ Locks(s)
  /\ sess[s].agent = "dev"
  /\ f = NoFolder \/ There(f)
  /\ Close(s, <<"folder", f>>)
  /\ UNCHANGED <<mvars, sess, disk, jails, strays, deaths>>

\* _stop_server: the process is waited for.
Stopped(s) == IF sess[s].server = NoServer THEN procs ELSE Kill(sess[s].server, TRUE)

\* Mutant: the session is closed though its terminal is not.
DeleteShellLeft(s) ==
  /\ Locks(s)
  /\ procs' = Stopped(s)
  /\ sess' = [sess EXCEPT ![s].server = NoServer, ![s].status = "closed"]
  /\ UNCHANGED <<tvars, ledger, cache, reads, stopped, calm, disk, jails, doing, strays, deaths>>

\* DELETE: the server, then the terminal, then the status.
Delete(s) ==
  /\ Locks(s)
  /\ procs' = Stopped(s)
  /\ sess' = [sess EXCEPT ![s].server = NoServer]
  /\ Close(s, <<"closed">>)
  /\ UNCHANGED <<ledger, cache, reads, stopped, calm, disk, jails, strays, deaths>>

\* _pty_close, after the shell has gone.
Closed ==
  /\ doing.op = "close"
  /\ LET s == doing.session IN
     /\ IF pty[s] = NoTerm THEN UNCHANGED tvars ELSE CloseMaster(s)
     /\ sess' = CASE doing.then[1] = "open" -> sess
                  [] doing.then[1] = "folder" -> [sess EXCEPT ![s].folder = doing.then[2]]
                  [] doing.then[1] = "closed" -> [sess EXCEPT ![s].status = "closed"]
     /\ doing' = IF doing.then[1] = "open" THEN [doing EXCEPT !.op = "open"] ELSE NoRequest
  /\ UNCHANGED <<mvars, disk, jails, strays, requests, deaths>>

\* _stage_agent_config: opencode (as kiro) makes the directories it needs and
\* with them the folder; claude-code (as its validator) writes into the folder.
CanStage(s) == sess[s].agent = "claude-code" => HasDir(s)

Stage(s) ==
  CASE sess[s].agent = "dev" \/ ~CanStage(s) -> UNCHANGED <<disk, jails>>
    [] sess[s].agent = "opencode" ->
         Files(s, WriteFile(disk[Root(s)], <<".config", "opencode.json">>, "text"))
    [] OTHER -> Files(s, WriteFile(disk[Root(s)], <<".claude.json">>, "text"))

\* _pty_open, the new one: the configuration is staged first, and the request
\* fails where that or the shell has no directory to go to.
Opened ==
  /\ doing.op = "open"
  /\ LET s == doing.session IN
     /\ Stage(s)
     /\ IF CanStage(s) THEN OpenTerminal(s, sess[s].agent = "opencode" \/ HasDir(s))
        ELSE UNCHANGED tvars
  /\ doing' = NoRequest
  /\ UNCHANGED <<mvars, sess, strays, requests, deaths>>

---------------------------------------------------------------------------
\* Files.

\* _write_file, _delete_file, _make_dir, _rename_file, and the agent's files.
EditFiles(s) ==
  /\ Locks(s)
  /\ LET tree == disk[Root(s)] IN
     \/ \E p \in Paths \cup {<<>>} :
          Files(s, WriteFile(tree, p, "text")) \/ Files(s, DeleteFile(tree, p)) \/ Files(s, MakeDir(tree, p))
     \/ There(Root(s)) /\ \E src, dst \in Paths \cup {<<>>} : Files(s, RenameFile(tree, src, dst))
  /\ UNCHANGED <<tvars, mvars, sess, doing, strays, deaths>>

\* _scaffold_harness: the steering file of an agent.
Scaffold(s, p) ==
  /\ Locks(s)
  /\ Files(s, WriteFile(disk[Root(s)], p, "text"))
  /\ Log(Row("harness", s, 0))
  /\ UNCHANGED <<tvars, procs, cache, reads, stopped, calm, sess, doing, strays, deaths>>

\* _deploy_upload: the bundle is put beside the workspace, which touches the
\* folder of the session the first time.
Upload(s) ==
  /\ Locks(s)
  /\ sess' = [sess EXCEPT ![s].packed = TRUE]
  /\ jails' = IF sess[s].agent = "dev" \/ sess[s].packed \/ ~There(Jail(s)) THEN jails
              ELSE Append(RemoveFirst(jails, Jail(s)), Jail(s))
  /\ Log(Row("deploy", s, 0))
  /\ UNCHANGED <<tvars, procs, cache, reads, stopped, calm, disk, doing, strays, deaths>>

\* An agent in the shell of a session writes the server (mcp_server.py), as
\* does a scripted command (_run_command).
AgentWrites(k) ==
  /\ Counted
  /\ terms[k].shell /\ There(Root(terms[k].session))
  /\ disk' = [disk EXCEPT ![Root(terms[k].session)] = WriteFile(@, Main, "server")]
  /\ UNCHANGED <<tvars, mvars, sess, jails, doing, strays, deaths>>

Command(s) ==
  /\ Locks(s)
  /\ HasDir(s)
  /\ disk' = [disk EXCEPT ![Root(s)] = WriteFile(@, Main, "server")]
  /\ UNCHANGED <<tvars, mvars, sess, jails, doing, strays, deaths>>

---------------------------------------------------------------------------
\* Servers.

\* A server is started; the session knows it once it has answered or not.
Boot(s, why, old) ==
  /\ procs' = Append(old, [state |-> "live", session |-> s, child |-> TRUE])
  /\ doing' = [op |-> "boot", session |-> s, then |-> <<why>>, pid |-> Len(procs')]

\* Mutant: the server of the conversion before is left running.
ConvertOver(s) ==
  /\ Locks(s)
  /\ There(Root(s)) /\ ~IsDir(disk[Root(s)], Main)
  /\ disk' = [disk EXCEPT ![Root(s)] = With(@, {Main}, "server")]
  /\ sess' = [sess EXCEPT ![s].server = NoServer]
  /\ Boot(s, "conversion", procs)
  /\ UNCHANGED <<tvars, ledger, cache, reads, stopped, calm, jails, strays, deaths>>

\* _make_conversion: the file is written, the server before stopped, the new
\* one started.
Convert(s) ==
  /\ Locks(s)
  /\ There(Root(s)) /\ ~IsDir(disk[Root(s)], Main)
  /\ disk' = [disk EXCEPT ![Root(s)] = With(@, {Main}, "server")]
  /\ sess' = [sess EXCEPT ![s].server = NoServer]
  /\ Boot(s, "conversion", Stopped(s))
  /\ UNCHANGED <<tvars, ledger, cache, reads, stopped, calm, jails, strays, deaths>>

\* _verify_run: a server that the session has is checked, dead or alive ...
VerifyServer(s) ==
  /\ Locks(s)
  /\ sess[s].server # NoServer
  /\ Log(Row("verify", s, 0))
  /\ UNCHANGED <<tvars, procs, cache, reads, stopped, calm, sess, disk, jails, doing, strays, deaths>>

\* ... else the file in the workspace is started, if there is one.
VerifyFile(s) ==
  /\ Locks(s)
  /\ sess[s].server = NoServer
  /\ HasDir(s) /\ Main \in DOMAIN disk[Root(s)] /\ ~IsDir(disk[Root(s)], Main)
  /\ Boot(s, "verify", procs)
  /\ UNCHANGED <<tvars, ledger, cache, reads, stopped, calm, sess, disk, jails, strays, deaths>>

\* Both, once the server has answered or 50 attempts are over: a conversion
\* lists the tools if it lives, and only its row has the process.  The row is
\* missing when what follows raises.
Booted ==
  /\ doing.op = "boot"
  /\ LET s == doing.session
         conversion == doing.then[1] = "conversion" IN
     /\ sess' = [sess EXCEPT ![s].server = doing.pid,
                             ![s].tools = IF conversion THEN procs[doing.pid].state = "live" ELSE @]
     /\ \/ Log(Row(doing.then[1], s, IF conversion THEN doing.pid ELSE 0))
        \/ UNCHANGED ledger
  /\ doing' = NoRequest
  /\ UNCHANGED <<tvars, procs, cache, reads, stopped, calm, disk, jails, strays, requests, deaths>>

\* An attempt raises what is no OSError, as for an answer that is not HTTP: the
\* request fails before the session knows the server.
BootFails ==
  /\ doing.op = "boot"
  /\ strays' = strays \cup {doing.pid}
  /\ doing' = NoRequest
  /\ UNCHANGED <<tvars, mvars, sess, disk, jails, requests, deaths>>

---------------------------------------------------------------------------
\* The host.

Live == {p \in DOMAIN procs : procs[p].state = "live"}

Booting == IF doing.op = "boot" THEN {doing.pid} ELSE {}

\* The host dies, and starts again with nothing but the folders and the
\* ledger.  left are the servers that go on, excused those it could not stop.
Die(left, excused) ==
  /\ deaths < MaxDeaths
  /\ deaths' = deaths + 1
  /\ TerminalsDie
  /\ MetricsDie
  /\ sess' = [s \in Sessions |->
                IF sess[s].status = "none" THEN sess[s]
                ELSE [NoSession EXCEPT !.status = "lost", !.packed = sess[s].packed]]
  /\ doing' = NoRequest
  /\ procs' = [p \in DOMAIN procs |->
                 [procs[p] EXCEPT !.state = IF p \in left THEN @ ELSE "gone", !.child = FALSE]]
  /\ strays' = strays \cup excused
  /\ UNCHANGED <<ledger, disk, jails, requests>>

\* A clean exit stops the servers of all sessions (_reap_all_session_servers).
\* The one that boots is not known to a session yet, and one that a host has
\* left before is not known to this one.
Exit == Die(Live \ {sess[s].server : s \in Sessions}, Booting)

\* kill -9.
Crash == Die(Live, Live)

---------------------------------------------------------------------------
\* Requests without the lock.

AttachTerminal(c, s) ==
  /\ Counted
  /\ sess[s].status # "none"
  /\ Attach(c, s)
  /\ UNCHANGED <<mvars, sess, disk, jails, doing, strays, deaths>>

Look(m, stop) ==
  /\ Counted
  /\ Sign(m, stop)
  /\ UNCHANGED <<tvars, sess, disk, jails, doing, strays, deaths>>

\* The engine writes the row of a run.
RecordRun ==
  /\ Counted
  /\ Log(Row("run", 0, 0))
  /\ UNCHANGED <<tvars, procs, cache, reads, stopped, calm, sess, disk, jails, doing, strays, deaths>>

---------------------------------------------------------------------------
Request(s) ==
  \/ \E agent \in Agents : NewSession(s, agent)
  \/ AskTerminal(s) \/ Delete(s)
  \/ \E f \in {NoFolder, Mount} : OpenFolder(s, f)
  \/ EditFiles(s) \/ Command(s) \/ Upload(s) \/ Scaffold(s, <<"AGENTS.md">>)
  \/ Convert(s) \/ VerifyServer(s) \/ VerifyFile(s)

Next ==
  \/ \E s \in Sessions : Request(s)
  \/ Closed \/ Opened \/ Booted \/ BootFails
  \/ Shells /\ UNCHANGED <<mvars, wvars>>
  \/ \E k \in DOMAIN terms : AgentWrites(k)
  \/ Refresh /\ UNCHANGED <<tvars, wvars>>
  \/ (\E p \in DOMAIN procs : ServerDies(p)) /\ UNCHANGED <<tvars, wvars>>
  \/ \E c \in Clients, s \in Sessions : AttachTerminal(c, s)
  \/ \E m \in Readers, stop \in {0} \cup Sessions : Look(m, stop)
  \/ RecordRun
  \/ Exit \/ Crash

Spec == Init /\ [][Next]_vars

\* The loop of a stream goes on.
FairSpec == Spec /\ \A c \in Clients : WF_vars(Tick(c) /\ UNCHANGED <<mvars, wvars>>)

---------------------------------------------------------------------------
\* Properties.

\* "An mcp_server.py process never exits on its own, so a half-killed one
\* would survive forever" (_stop_server): a live server is the one its session
\* has, or boots, and its session is open; unless its host has died without
\* stopping it, or while it was booting, or a request has failed that booted it.
ServersAreOwned ==
  \A p \in Live \ strays :
    \/ doing.op = "boot" /\ doing.pid = p
    \/ sess[procs[p].session].server = p /\ sess[procs[p].session].status = "open"

\* "Its only wait is asyncio.sleep" (pty_stream_async): a stream ends once its
\* session is closed or its host has died.
StreamsEnd ==
  \A c \in Clients :
    (streams[c].on /\ sess[streams[c].session].status # "open") ~> ~streams[c].on
===========================================================================
