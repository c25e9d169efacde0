# TLA+ models of the coding-agents orchestrator

This directory models the parts of the repository that run concurrently or can
fail half-way: how the engine takes a run from its submission to a verdict, how
it publishes and merges the result, how it shares processes and a git repository
between runs, how it talks to the coding agents in their remote runtimes, how a
chat turn becomes a run, what the console keeps for its users and their
workspaces, and what the deployment scripts leave behind. TLC checks the models
on small instances; each of them also has theorems that hold for every value of its
constants.

## 1. The system

A user signs in to the **console** (`console/server.py`) and talks to the
orchestrator in a **chat** (`orchestrator/chat.py`), or submits a task directly;
either way the **connection api** (`orchestrator/connection_api.py`) hands it to
the **engine** (`orchestrator/engine.py`). The engine keeps one `Run` object per
task and one worker thread (`_drive`) per run. The worker goes through admission,
hydration and pre-flight, and then through rounds of two phases: *agent execution*
starts one thread per role (backend, frontend, validator), each of which produces
an artifact through a coding agent, and *finalization* runs the acceptance gate,
composes the artifacts in a git repository, publishes them as a pull request
through a GitHub gateway, asks a judge, and merges or goes back for another round.
A **reconcile daemon** strands runs that make no progress and reaps idle server
processes. Beside it the console has **workspace sessions**
(`interactive-api/interactive_api.py`) with a folder, a terminal and a preview
server each, terminals on remote runtimes (`runtime_shell.py`), and a governance
view (`metrics-api/`) that reads the ledger they all write and can stop a session.
Which runtimes a role has is in the **fleet settings** (`runtime_config.py`), and
the runtimes come from the **scripts** under `coding-agents/`.

| component | state it keeps | operations | hard part | modelled in |
|---|---|---|---|---|
| run lifecycle (`engine.py`) | status, reason, round, ledger of each run | submit, the phases, settle, strand | worker assigns, daemon compares-and-sets | RunLifecycle |
| finalization (`engine.py`, `github.py`) | local branch, remote branch, pull request, settings | compose, open, update, merge, change of settings | every call can fail or lose its answer | Finalization |
| role threads (`engine.py`) | threads, endpoint, server handle, progress | start, join, watchdog, stop of the server | threads outlive the deadline | RoleThreads |
| composed repository (`engine.py`) | lease, index, work tree, branches | acquire, six git steps, release, eviction | steps break off, holders hang | ComposeRepo |
| replay servers (`engine.py`) | processes, pool | register, evict, reap, exit, boot | crash and restart, kills outside the lock | ReplayServers |
| role dispatch (`runtime_exec.py`, `engine._runtime_cli`) | terminal, turn, mount | open, type, post, wait, read back, retry | agents outlive their turn, files arrive late | Dispatch |
| remote terminals (`interactive-api/runtime_shell.py`) | shell, size, buffer, subscribers | connect, resize, stream, close | one thread and several handlers, no ordering | RuntimeShell |
| fleet settings (`runtime_config.py`) | a JSON file, a cursor for each role | save, add, remove, clear, describe, pick | unlocked read-modify-write, truncation | Fleet, Settings |
| chat (`chat.py`, `connection_api.py`, `router.py`) | history of each conversation, queue of a turn | ask, call tools, drain, finish | threads within threads, browsers that leave | Assistant |
| sign-in (`cognito_auth.py`, `server.py`) | sessions, cookies | sign in and out, look up, expire | looked up twice in one request | Identity |
| workspaces (`interactive_api.py`) | sessions, folders, terminals, servers, ledger | every route that changes something | one lock, and threads that do not take it | Workbench, Terminals, Workspace |
| governance view (`metrics_lib.py`) | cache of the ledger, stopped sessions | read, stop | a cache in two stores, stale rows | Metrics |
| deployment (`coding-agents/*`, `kiro_config.py`, `configure_deploy.py`) | runtimes, roles, images, key, records | deploy, clean up, save key, configure | overlapping scripts, death at any step | Deployment, Harness |
| reviewer, builders, llm | none | judge, generate | their outcome is free | as outcomes |
| gateway server, terminal clients, web, samples | none of the above | - | - | not modelled |

They interact by calls and by shared objects: worker and daemon share the `Run`
object, workers share the lease, the work tree and the replay pool, role threads
share the run's event and endpoint dictionary, dispatches share the mount, the
connection thread of a terminal shares buffer and size with the handlers of the
web server, a chat request shares a queue with its agent's thread and the
conversation with other requests, the workspace routes and the governance view
share the ledger and the processes, and scripts, console and account share the
records on disk. `PROJECT.json` lists every component with its sources and every
hazard with its line.

What makes each component correct, in a sentence: a run settles exactly once, on
a status its gate, review and reason justify, and no more runs than allowed are
in flight (RunLifecycle); only what was approved is merged, not into the
default branch, and the run does not claim more (Finalization); the gate sees
finished work of its own round and no server leaks (RoleThreads); a commit holds
the files of its run (ComposeRepo); no server process is lost sight of and
no more than the cap are parked (ReplayServers); an artifact is a whole file
(Dispatch); a terminal is launched, sized,
streamed and closed whatever the order of the requests (RuntimeShell); a change of
the settings takes effect as a whole, and no instance starves (Fleet); a turn's
runs are routed, announced and attributed to who asked, and what was said is
remembered (Assistant); a preview server has an owner and a stream
shows its own terminal (Workbench); a view sees what
was written before it (Metrics); a record tells of what once was and a runtime is
granted what it uses (Deployment).

## 2. Modules and the code

Actions have the names of the functions or steps they stand for, and `PROJECT.json`
"map" gives the lines. A step of a thread ends where another one can see or change
what they share. Variables marked *history* in a module record what happened and
influence nothing.

**RunOutcome** is the promise of the engine to its callers: a submitted run is
open until it settles, once, on one of three statuses. **RunLifecycle** implements
it: `outcome` maps a run to its status once its worker can write it no more, and
`SettlesOnce` and `EveryRunSettles` are the abstract specification under that
mapping. `pc[r]` is the worker; `Strand` is the compare-and-set of
`Engine.reconcile`, possible between any two steps of a worker. Time is counted in
ticks of 600 s since submission and since the start of the agent phase, which is
what `STRANDED_AFTER_S` and `AGENT_EXECUTION_TIMEOUT_S` measure. Role threads and
the pull request only have outcomes here. A ledger row that the system refuses to
write is logged and missing (`unlogged`). The read-only review workflow is left out.

**Finalization** is one run with its pull request. A file is known by the round
that wrote it, so that "the merged files are those the judge read" is an equation.
Each gateway call may succeed, fail, or fail after it took effect; `PutFileLost`
is an upload whose error comes back as an ordinary result, which `_tool` does not
tell from success. A user changes the merge policy and the wiring at any time and,
once there is a pull request, the repository; `landed` is the base of what was then
merged, in whichever repository. Before that a change of it only means
that the next `open_pr` starts anew, and is left out.

**RoleThreads** is one run over its rounds, with the threads of the roles, the
worker that joins them with a deadline, and the daemon. A role may be late without
limit. `_stop_server`, `_keep_replay_server` and the backend's assignment of the handle
are in steps, as there is no lock. Round *k* starts at most one server process, named *k*;
it may end by itself at any time, before its url is published too (`fallen`), and
`inject_failure` publishes a port nobody listens on.

**ComposeRepo** is the lease and, step by step, what `_compose_commit_locked` does
to the head, index and work tree. `Dirty` says when git refuses a checkout. Any
step may fail or hang, and the timeout of 20 s may kill a git half way (`Killed...`),
which can leave its lock file behind (`stuck`), or in the first compose a repository
without a commit; an overdue holder is evicted and may still be running.

**ReplayServers** is the console as a process: the pool, the threads that take
entries out under the lock and kill them after it, exit, crash and the sweep at boot,
which may miss any of the orphans, as it is silent about failures (`escaped`). An
entry is its run, `since` the order in which they were registered.

**Dispatch** is one role over its rounds. A dispatch types its turn into a
terminal, runs the CLI headless, or posts it to a local server (`_run_in_local_dev`),
whose artifact is taken from the first read that finds one. Turns are numbered; the
agents of earlier turns may still work while a later one runs, and users and the
assistant (`agent_send`) type into any of the terminals at any time. The mount shows a
file in parts, in the order of the writes, and a file changes between two reads
while it is still arriving: these two are assumptions about the shared file system,
and without the second two reads in a row prove nothing. The read of a directory and
the retry with a sibling model (which the code calls dormant) are left out.

**RuntimeShell** is one terminal on a remote runtime. Output is counted in chunks.
The handlers `resize` and `stream_output` are split where another thread gets in
between: recording the size and passing it on, sending the buffer and subscribing.
Keystrokes are left out.

**Settings** is the store that the fleet settings promise to be: an operation
changes the runtimes of a role, or the descriptions, as a whole. **Fleet** implements
it while requests do not overlap. Each operation is in the steps in which the code
reads the file, edits what it has read, reads the descriptions it wants to keep,
truncates and dumps; every request runs on a thread of its own, the console may die
between any two steps, and `deploy.py` may leave or take a runtime meanwhile. `Held`
is the refinement mapping: the store is what the file holds, or what is about to be
dumped into it. Pickers look the instances up first and move the cursor after; `waits`
counts for each instance the picks that passed it over since the fleet became what it is.

**Identity** is the table of signed-in sessions. A look-up is an action, as it renews
a session whose token has expired or ends it. **Assistant** extends it with the turns
of the chat: a request is let in (`Knock`), its body awaited, and only then is it asked
whose it is (`Identify`), as `s2_chat` does. The agent of a turn runs on a thread of its
own and puts events on a queue; its tools run on others, several at a time, and `submit`
takes the identity from the context of its caller; the request drains the queue, and
the browser may leave, which stops only the draining. A task is known by the intents
the router finds in it, and `Ladder` is the order in which it looks. A run goes on
through admission, pre-flight and dispatch, as far as routing, wiring and identity
decide about it; a role runs headless, and names the user, or in a live terminal or
on a local server, which name nobody. A history is a sequence of messages, each known by
its turn; a turn adds one or more and the last `Retained` are kept. What the agent
library drops from a conversation by itself, when a model's window is full, is not
modelled.

**Workbench** composes three modules over the lock that every route of
`interactive_api.py` takes. **Terminals** has the shells, the threads that read them,
which know their terminal by the number of a descriptor that goes to the next one
opened, and the streams, none of which takes the lock. **Workspace** has what the file
operations do to a tree of directories and files, as operators on functions from paths.
**Metrics** has the cached read of the ledger, with the two stores of the cache apart, and
the kill switch. A request is one action, except where it waits with the lock held: for
a shell that is killed, and for a server that boots. In between everything that takes no
lock goes on. The host may exit, with its hooks, or crash, and starts again with the
folders and the ledger only; what it can no longer know is then in `strays`, and so
is a server whose boot raises what is no OSError. Pruning removes all but the newest folders; one that the system refuses to
remove keeps some of its entries.

**Harness** is what differs between the five agents, as data read off their scripts:
the statements of the role's policy, what a runtime is configured with, the steps of
the cleanup, and which scripts adopt a runtime whose name is taken. **Deployment** has
the scripts as sequences of steps, each one call or one write of a file, over the
account, the records, the key, the coordinator's project and the shelf of the console.
Scripts overlap, are answered an error, lose an answer, or die, also in the middle of a
dump. The execution role and its policy are made, and taken, by calls of their own, so
that a role may be left without a policy. External: a name is held by one runtime, one that is
settling refuses an update, and a deletion is over by the time `cleanup.py` has slept.

MC modules extend these and supply symmetry and instances; bounds are constants in the
.cfg files.

## 3. What is checked

| run | instance | shows |
|---|---|---|
| RunLifecycle_one | one run, three rounds, a daemon | PassedIsEarned, LedgerMatchesOutcome, RoundsAreReviewed, SettlesOnce, EveryRunSettles |
| RunLifecycle_cap | two runs, one slot, every deadline may be over | AdmissionCap, BucketMatchesReason |
| Finalization_faulty | two files, two rounds, every failure | DefaultBranchUntouched, MergeStateIsHonest, ApprovedIsMerged |
| RoleThreads_rounds | backend and two waiting roles, two rounds | GateSeesFinishedRoles, NothingLeaks, JudgedEndpointIsOwn |
| ComposeRepo_lease | two runs, two files, two rounds | CommitIsOwn, RepoIsUsable, EveryComposeEnds |
| ReplayServers_pool | three runs, a cap of two | NoServerIsOrphaned, LiveCountIsCapped, IdleServersStop |
| RuntimeShell_session | one client that reconnects, two resizes, two chunks | StreamsAreFaithful, SizeIsHonoured, StreamsEnd, ConnectionsSettle |
| Dispatch_turns | two rounds, two dispatches each, files in three parts | AgreedIsWhole |
| Fleet_race | two request threads, two pickers, a role with two instances, three operations, six picks | OperationsAreAtomic, NoInstanceStarves |
| Assistant_turns | two turns of one conversation, of one message or two, with two kept, one user, one call, one change | ChatRunsAreRouted, RunsAreAttributed, RunsAreAnnounced, FinishedTurnsAreHeard, TurnsEnd |
| Workbench_requests | three sessions, a client, four requests, shells of two chunks, one death of the host | ServersAreOwned, StreamsAreFaithful, ReadsAreFresh, StreamsEnd |
| Deployment_scripts | three scripts, two at a time, one fault, for each agent | RecordsWereTrue, RuntimeIsGranted, CalmDeploysSucceed |

Runs take between some seconds and three minutes; the largest has about five million states.

`PROJECT.json` names for each property a mutant, a version of one action with a
plausible bug, under which TLC finds the property violated. The type invariant, where a module
has one, and `MergedIsPassed` are in no cfg: they are part of the invariants proved in
section 5.

**Why the bounds are enough.** `MAX_ITERATIONS` is 2 in the code: two rounds are
the real system, and three in RunLifecycle_one cover a raised limit. One slot and two
runs are the smallest race for admission; with both clocks at 0 every deadline may
have passed at any time. Two runs suffice for the lease, as there is one holder
and its successor, and a path only one of them delivers shows leftovers. A pool
of two with three runs is the smallest in which the order of eviction matters.
Three parts and four reads let a read see two different partial files before the
whole one. Clients of a remote terminal do not interact, so one that leaves and comes
back is enough. Three ticks for the agent phase and one for the sweep are the
proportion of 1800 s to 600 s. Two threads are what it takes to overlap in the
settings, and three operations let one of them find what the other two have left. Two
pickers are what it takes to pick between the look-up and the pick of another; two
instances are the smallest fleet that can rotate, and six picks go around it three times,
also before and after a change. Two turns overlap or follow one
another, with a history that a turn of two messages fills, so that it drops the other
turn; one call is enough for an
announcement to be lost or to be late, and a session that changes once covers each
change at each moment of a turn. For the workbench the sessions share the descriptors, the
folders, of which one is kept, and the ledger; four requests open one, give it a
terminal or a server, and disturb it, and two chunks overflow a buffer of one.
Three scripts, two at a time and one fault, are a script over what a broken one has left
while another runs.

**Fairness.** RunLifecycle: workers proceed (they are threads whose waits have
deadlines), the daemon sweeps every run in the end and writes its row, and the clock ticks.
The rounds are bounded by the code. ComposeRepo: waiting runs
poll the lease, git calls have timeouts, so a compose goes on or fails unless it
hangs by choice of the model, and an eviction happens because `acquire` looks at
the age of the holder. ReplayServers: the daemon loops, and a thread that has
taken entries out kills them. RuntimeShell: the thread of a session runs and
clients read what they are sent; nothing is assumed of the remote shell. Assistant:
tools return, the agent's thread answers or fails, and the request drains its queue;
nothing is assumed of the runs. Workbench: the loop of a stream goes on, as it only
sleeps between two ticks; nothing is assumed of shells, requests or servers. The
other models state safety only. Deadlock is not checked, as every one of these
systems legitimately comes to rest.

## 4. What the documentation says and the code does not do

The passing properties exclude such cases by a history variable or a condition
(`swept`, `late`, `unlogged`, `trouble`, `stranded`, `stuck`, `overtaken`, `escaped`,
`cut`, `lost`, `deaf`, `missed`, `calm`, `alone`, `lapsed`, `robbed`, `strays`, `strayed`,
`revoked`), which says under which condition the system is right.

Runs:

- `merge_pr` and `update_pr` take the repository from the settings of the moment and the
  number from the pull request (github.py:541-553): after a change of the repository
  they merge, and report as merged, whatever has the number there. The check of the base
  (548-550) is about the run's own pull request, so this may be one on the default branch
  of that repository.
- A ledger row that cannot be written is logged only (engine.py:1932): the run settles
  without one.
- `_keep_replay_server` reads the handle twice (engine.py:1949-1950), so that a sweep that
  strands the run in between makes it register an entry without a process; the pool
  then raises at every registration and sweep until the entry is TTL old.
- `STRANDED_AFTER_S` is 600 and the agent budget 1800 (engine.py:353, 297), so the
  sweep strands runs whose agents are within their budget, but engine.py:351-352 says it
  never kills a live run.
- A compose or update that failed is logged only (engine.py:1711-1717); the judge reads
  the work directory, and its approval merges the branch of the round before, although
  engine.py:1766 says that it approved on the pull request.
- Files a failed commit left in the index survive checkout and clean and are committed
  by the next run; engine.py:1857-1858 says a leftover is dropped.
- `_execute` assigns `running` (engine.py:1317) also to a run the daemon has
  already settled, so a terminal status is not final until the worker is done.
- API_CONTRACT.md:177-178 says that a passed run has a pull request and that a red gate
  ends in `failed`; the engine passes runs whose publication failed, and hands
  a red gate to a human.
- `_tool` (github.py:229) returns an error result as text, so a lost upload looks like success.
- A backend thread that ends after the phase deadline starts a server nobody
  stops (engine.py:1418, against 758-759), and the frontend goes on without an
  endpoint after 300 s (engine.py:1470).
- A server that never answers is published after 50 attempts all the same
  (engine.py:1421-1431); the gate then finds nobody there.
- `_stop_server` kills the process it finds in the handle and clears the handle in
  a later step (engine.py:1943), so a process assigned in between is forgotten.
- An exit that does not come through `Engine.shutdown` reaps only the pool
  (engine.py:209, against 122-123): the server of a run in progress is left, and
  only the sweep of the next boot finds it. That sweep passes over what it cannot list
  or kill, without a word (engine.py:252-259), and such an orphan stays.
- A git killed by its timeout can leave its lock file in the composed repository
  (engine.py:1799 names it), and one killed in the first compose a repository without a
  commit; every later compose then fails, as nothing removes either.
- A slow holder of the lease that was evicted goes on writing (engine.py:392), and a
  work tree it left dirty makes checkouts fail (engine.py:1855).

Dispatch and terminals:

- The last read of an artifact is accepted without a
  second that agrees (runtime_exec.py:560), but "Two consecutive reads must agree before
  the content is accepted" (537-538). Of a local server the first read is accepted always,
  and an empty turn of a later round returns the artifact of the earlier one.
- Terminals opened by dispatches are not closed by anyone, and the first dispatch of a
  role may still be at work when it is tried again (engine.py:972), so that two agents
  write the same file; so may an agent that a user or the assistant has put to work.
- A resize recorded while the shell is being opened is overwritten
  (runtime_shell.py:158), against the comment at 301-302, and the CLI is launched at
  the size of the opening.
- `close` does nothing to a session whose loop does not run yet
  (runtime_shell.py:201); output still queued for a client when its session
  ends is dropped (runtime_shell.py:551).

Fleet:

- Of two changes in progress at once one is lost, and a dump over a longer one leaves a
  file that reads as empty (runtime_config.py:224-226).
- The pre-flight check calls `pick` and takes a turn of the cursor (engine.py:886),
  and the dispatches pick again (942, 1202): with two instances and one role a run uses
  the same one each time, although runtime_config.py:307-309 and engine.py:939-940 say that runs
  spread over the fleet.

Chat and sign-in:

- The session is looked up before the body of a request is read and again after it
  (server.py:411-433): one that ends in between leaves an authenticated turn to nobody.
- A role in a live terminal is launched with what
  `dispatch_env` gives, which has nothing of the user as shipped (runtime_exec.py:155-173,
  identity_baggage.py:70), a headless one with the ids of the user (208), but
  "dispatch_env() builds the same mapping the headless path uses" (691). A local server is
  not told of the user either (390).
- Of two turns of a conversation in flight the later to end drops the other
  (connection_api.py:97-109), and a browser that leaves drops its turn from the history.
- `_MAX_TURNS` counts messages (connection_api.py:69), so that one long turn can drop
  several before it.

Workspaces and governance:

- After 200 000 bytes a stream sends nothing more (interactive_api.py:612, 633),
  although pty_stream_async (650) says that bytes are sent the instant they appear; one that
  spans a re-opened terminal skips as many bytes as it had sent; and the tail is lost
  when a shell exits before its reader is through.
- A reader of a closed terminal can take what the next terminal on its descriptor writes
  (interactive_api.py:540-552).
- File operations of a session whose folder was closed act on the directory the host
  runs in (interactive_api.py:1070, 894).
- `_prune_dirs` (92) deletes the folder of an open session, or parts of it where the
  system refuses the rest (98): claude-code can then open no
  terminal, as its configuration has nowhere to go; opencode and kiro make the folder
  again; Development, whose folder vanished, leaves a descriptor open.
- A verification asks the server the session has, whatever
  file that was started from (1535), or whether it still runs, but is to "Run the
  agent's output and report whether it works" (1524).
- A server that boots while the host exits is not reaped (1508), and neither is one whose
  first answer is no HTTP, as only an OSError is caught (1487, 1559); one that
  a verification boots has no process in the ledger, so that the kill switch does not
  reach it.
- The kill switch goes by the first row of a session (metrics_lib.py:535), and a
  session stopped once stays stopped for good; a process that is gone and not waited for
  is shown as running (181-189).
- A view between the two stores of the cache gets the old rows for the new key
  (metrics_lib.py:123-124).
- The shelf shows "ready" and the old ARN of an agent whose record is gone
  (interactive_api.py:1680-1711).

Deployment:

- The scripts of claude-code and its validator do not handle a name that is taken
  (claude-code/deploy.py:354), which those of the others call idempotence.
- The policy of a role is taken also when the runtime could not be deleted
  (kiro/cleanup.py:97-102), which then runs without it; a role may be left with no policy.
- A deploy is refused while the runtime is still settling from an earlier one that broke
  off (opencode/deploy.py:357).
- Local records go even when the deletions failed; a record that was cut in a dump makes
  deploy fail and cleanup do nothing; a deploy without the access point that overlaps one
  with it takes the mount away; one run without GATEWAY_URL drops the gateway.
- Clearing the key drops its status though the provider remains (kiro_config.py:174-181);
  the cleanup of kiro deletes the key and leaves the status "connected".

## 5. What is proved

The modules named `*_proofs` are checked by TLAPS, for every value of the constants:
any set of runs, roles, clients, files, turns, users or wordings, any cap, clock bound and
number of rounds. The assumptions are the named ASSUMEs on the constants: sets that
are counted are finite, bounds are natural numbers, and positive where the code's are;
workspace sessions are numbered from 1, and the paths in a folder are sequences of names.
What is a single step in the model is one under the interpreter's lock or the code's own
and is built into the actions.

The properties are seldom inductive. Each module states its `IInv` (`PoolInv`, `ShellInv`,
`FleetInv` where two share a proof module), the types with the
strengthening the properties need, and there is a lemma for each part that every action
keeps it; TLC has checked each `IInv` on the instance of the run. The arguments:

*RunLifecycle.* That a passed run was reviewed follows only if every stage between the
review and the verdict keeps gate and review of the current round. `IInv` adds `StatusInv`
(what the status may be at each stage), `RoundInv` (what the round, gate and review are),
`ReasonInv` (which reasons go with which status) and `LedgerInv` (how many rows there are,
unless the daemon took the run or a row could not be written); `PassedIsAlwaysEarned`, `LedgerAlwaysMatches` and
`BucketAlwaysMatches` follow. `AdmissionIsCapped` argues that only `CheckCapacity` adds a run
to those in flight, and that what it counts includes all of them. `RoundsAreAlwaysReviewed`
is an action property, and `EngineSettlesOnce` the refinement: every step is one of
`RunOutcome` or a stutter.

*Finalization.* `BaseInv` says what base an open pull request can have, given who opened
it, and that only a changed repository is another one; `EndInv` what holds once the run has
ended. `DefaultBranchIsSafe`, `MergeStateIsAlwaysHonest` and `OnlyPassedIsMerged` follow; the
core is that `merge_pr` looks at the base of the pull request and not only at the policy of
the moment. It does not do so for a pull request of another repository, wherefore both
properties except a run under which the repository was changed. For `ApprovedIsAlwaysMerged`, `NoExtraFiles` says that branch and pull request
hold no path that the work directory lacks, and `PublishInv` how far the round has
brought them to the work directory at each step.

*RoleThreads.* `ThreadInv` relates where a thread stands to what it has said of itself and to
where the worker is, `StopInv` the two callers of `_stop_server`, `ServerInv` which processes are
alive between and in the rounds of a run that had no trouble, and `EndpointInv` who has been
told of which server, and that nobody but itself and the daemon has ended it. The core of `NothingEverLeaks` is that between the start of a server and
the assignment of its handle the backend's thread is not over, so that nobody judges.

*ComposeRepo.* `LeaseInv` (only the holder writes) gives one writer; `RepoInv` says, step by
step, that the writer's branch is checked out and that a committed path is the same in tree and
index, and in the work tree if it is there at all, which a killed git keeps too, wherefore git
refuses no checkout; `StagedInv` and `ComposedInv` that what is
staged is the writer's own. All are conditional on what the properties exclude.

*ReplayServers.* The pool's cap is an argument about cardinalities: `Surplus` leaves at most
`Cap` entries (`SurplusLeavesCap`), and a live server that is neither in progress nor condemned
is an entry, or an orphan the last sweep has left, which is what `NoServerIsEverOrphaned` says;
that one is inductive with the types.

*Dispatch.* `TurnInv` bounds the turns by rounds and tries, `ReadsInv` says when the reader has
something in hand, and `AgentInv` that only the turn being waited for works, unless one was cut
off or prompted. `HalfReadInv` is
what makes two agreeing reads prove anything: a half file that was read is still there, or has
grown, or another turn has written over it and it does not come again.

*RuntimeShell.* `StreamInv` says that what waits for a client is the newest part of the output
and what it has been sent the part before; `SizeInv` that the last resize is the last in the
queue of the loop and is never overtaken by an earlier one or by the launch.

*Assistant.* `SenderInv` says that a turn keeps the owner of its session unless that ended while
it was read, `UserInv` that a run has the identity of its turn, and so what its roles have
stamped. `RouteInv` relies on the router answering twice the same (`RouteFacts`). `LogInv` is
about the events of a turn on both sides of the browser, joined (`Log`): a run of the turn is
told of once or there is one call in flight that will tell of it, and the end comes only when
none is, so that draining moves events and changes nothing. For the history, `HistoryInv` says that a turn over and
alone has its last message among those kept, behind as many messages as have followed it
(`Near`, `TrimFacts`), `AloneInv` that nobody was asked for meanwhile, and `HeardInv` that
what a turn was given keeps that.

*Deployment.* `PlanInv` says what is left to do of a script of each kind. `ReadyInv` says of
what is READY, of what a file names and of what a script is about to write into one that it
has been READY, and `KeyInv` the same of the sidecar and the vault. `GrantInv` says that a policy is the
whole one of its agent, that its role is there, that a runtime uses nothing outside it, and
that it was put before there was a runtime, and before a script makes one, unless a cleanup
has taken it since. `CalmInv` gives `CalmDeploysAlwaysSucceed`: a deployment that nothing
disturbs is alone with its agent, so role, policy and runtime are those it left one step
before.

*Fleet.* `CalmInv` says that while requests do not overlap one is in progress at most, and
that what it has still to write is what the file holds after one operation (`Becomes`), until
it has cut the file. So `Held` changes when the request truncates, which is one operation of
Settings (`OperationIs`), or drops the file, which is a clearing, and the dump changes
nothing of it; a restart keeps the file or finds it cut. This is `FleetImplementsSettings`, a
step simulation. The instances of a role, each listed once, are never more than there are
(`FleetIs`), as the file's type says. `NoInstanceEverStarves` rests on `CursorInv`: an
instance has waited at most as many picks as the cursor has to go around from it to
where it stands (`Ago`), as the look-up and the move of the cursor are one step of a picker
and what it has looked up before only tells it where the fleet ends.

*Workbench.* `FdInv` says that open terminals have descriptors of their own and that the terminal
of a session is open and the session's; `BufferInv` that an open terminal's buffer holds its own
output in order, and all of it if it is `Whole` (no other reader took from it, and it fits). A
stream may have outlived several terminals: `StreamInv` says of what it got (`Heard`, `Complete`)
and of the terminal it follows (`Ahead`) that the part up to its offset has been sent, so that a
tick adds only what is new. `DoingInv` says what a request waits for with the lock held, and
carries `ServersAreAlwaysOwned` over the boot of a server and the closing of a terminal; the
property is inductive with it, as a boot that fails leaves its server among the `strays`. `ReadInv` follows the reads of the ledger: one that is alone
finds the cache with key and rows of one read (`CacheInv`), which
gives `ReadsAreAlwaysFresh`.

Modules that share a proof module are extended by it together, wherefore their parts have
names of their own: `Servers_proofs` is about ReplayServers (`PoolSpec`) and RoleThreads,
`Runtimes_proofs` about Dispatch, RuntimeShell (`ShellSpec`) and Fleet (`FleetSpec`),
`Workbench_proofs` about Workbench with Terminals, Metrics and Workspace.

Only model-checked:

- Liveness (EveryRunSettles, EveryComposeEnds, IdleServersStop, StreamsEnd, ConnectionsSettle,
  TurnsEnd): beyond the prover.
- That a step of the model is what the code does in it: the map is read, not proved.

Every other property of the passing runs is a theorem.

## 6. Plan

Built: RunLifecycle with RunOutcome, Finalization, RoleThreads, ComposeRepo,
ReplayServers, RuntimeShell, Dispatch, Identity with Assistant, Harness with
Deployment, Fleet with Settings, and Workbench with Terminals, Metrics and Workspace, each
with its proofs. No module uses a RECURSIVE operator, so each can be proved about.

To extend the model: what the read-only workflow does to the pull request in
Finalization, the engine's work directories pruned under a run, and a composition of
RoleThreads with ReplayServers through the pool.

## 7. Not modelled

The judge, the builders and the models are text generation: only their outcomes
matter here. What the acceptance tests look at is outside as well. `runtime_stage.py`
uploads files once and keeps nothing. The GitHub gateway server makes one call for each
tool; Finalization has those calls as succeeding, failing or losing their answer. The
`connect.py` clients forward bytes between a terminal and a runtime, one process each,
and share nothing. The entry point of the orchestrator agent turns a request into a chat
turn. The metrics api's sums over what it has read, and its queries to the account's logs,
are pure. The password gate of the console is a signed timestamp without state. The web
front end keeps no state of its own, and the sample use cases and end-to-end tests are
not part of the running system.
