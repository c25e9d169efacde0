---------------------------- MODULE RoleThreads ----------------------------
(***************************************************************************)
(* The threads of one run during its rounds (engine.py, _execute, _drive,  *)
(* _stop_server, _keep_replay_server, reconcile).  In every round the      *)
(* worker starts one thread per routed role and joins them until the phase *)
(* deadline.  The backend role starts a server process and hands its       *)
(* handle to the run; the other roles wait for its endpoint.  The worker,  *)
(* and the reconcile daemon when it strands the run, stop the server       *)
(* through that handle; a passed run parks it in the replay pool.          *)
(*                                                                         *)
(* Round k starts at most one server process, process k.                   *)
(***************************************************************************)
EXTENDS Naturals

CONSTANTS
  Waiters,     \* the routed roles that wait for the endpoint
  MaxRounds    \* engine.MAX_ITERATIONS

ASSUME RoleThreadsAssumption ==
  /\ "backend" \notin Waiters
  /\ MaxRounds \in Nat \ {0}

Stoppers == {"worker", "daemon"}

Servers == 1 .. MaxRounds

NoServer == 0

\* No server at all: what the pool holds after a handle that was forgotten
\* has been registered, and what listens on the dead port of inject_failure.
Nobody == MaxRounds + 1

VARIABLES
  routed,     \* the backend role is routed; else the worker starts the server
  injected,   \* run.options["inject_failure"]
  pc,         \* where the worker is
  next,       \* where it goes after it has stopped the server
  round,      \* run.iterations
  status,     \* run.status
  thread,     \* thread[a]: where the thread of role a is
  state,      \* state[a]: run.progress[a].state
  endpoint,   \* the server behind endpoint["url"]; NoServer before it is set
  artifact,   \* run.artifact_endpoint
  wired,      \* wired[a]: the endpoint role a has built against
  handle,     \* run._server_proc
  pool,       \* the entry of the run in the replay pool
  alive,      \* the server processes that run
  stop,       \* stop[s]: how far stopper s is in _stop_server
  fallen,     \* history: the server processes that have ended by themselves
  late,       \* history: a role has outlived the phase deadline
  swept       \* history: the daemon has stranded the run

vars == <<routed, injected, pc, next, round, status, thread, state, endpoint,
          artifact, wired, handle, pool, alive, stop, fallen, late, swept>>

roles   == <<thread, state, wired>>
link    == <<endpoint, artifact>>
server  == <<handle, pool, alive>>
history == <<fallen, late, swept>>
control == <<routed, injected, next, round>>

Roles == Waiters \cup IF routed THEN {"backend"} ELSE {}

AllRoles == Waiters \cup {"backend"}

Init ==
  /\ routed \in BOOLEAN
  /\ injected \in BOOLEAN
  /\ pc = "round"
  /\ next = "end"
  /\ round = 0
  /\ status = "running"
  /\ thread = [a \in AllRoles |-> "none"]
  /\ state = [a \in AllRoles |-> "pending"]
  /\ endpoint = NoServer
  /\ artifact = NoServer
  /\ wired = [a \in AllRoles |-> NoServer]
  /\ handle = NoServer
  /\ pool = NoServer
  /\ alive = {}
  /\ stop = [s \in Stoppers |-> "no"]
  /\ fallen = {}
  /\ late = FALSE
  /\ swept = FALSE

Goto(from, to) ==
  /\ pc = from
  /\ pc' = to

---------------------------------------------------------------------------
\* _execute, up to the joins.

\* A fresh endpoint and event; one thread per routed role.  Without
\* a backend role the worker itself starts the server.
StartRound ==
  /\ Goto("round", "join")
  /\ round' = round + 1
  /\ status' = "running"
  /\ thread' = [a \in AllRoles |-> IF a \in Roles THEN "start" ELSE "none"]
  /\ state' = [a \in AllRoles |-> IF a \in Roles THEN "working" ELSE "pending"]
  /\ wired' = [a \in AllRoles |-> NoServer]
  /\ endpoint' = IF routed THEN NoServer ELSE round'
  /\ handle' = IF routed THEN handle ELSE round'
  /\ alive' = IF routed THEN alive ELSE alive \cup {round'}
  /\ UNCHANGED <<routed, injected, next, artifact, pool, stop, history>>

Over(a) == thread[a] = "over"

\* Mutant of Join: the threads are not joined.
JoinNow ==
  /\ Goto("join", "watch")
  /\ artifact' = endpoint
  /\ UNCHANGED <<control, status, roles, endpoint, server, stop, history>>

\* The joins return when every thread is over, or at the deadline.
Join ==
  /\ Goto("join", "watch")
  /\ late' = (late \/ \E a \in Roles : ~Over(a))
  /\ artifact' = endpoint
  /\ UNCHANGED <<control, status, roles, endpoint, server, stop, fallen, swept>>

\* Mutant of Watchdog: a role that is late is not counted.
WatchdogAsleep ==
  /\ Goto("watch", "tally")
  /\ UNCHANGED <<control, status, roles, link, server, stop, history>>

\* A role still working after the deadline is wedged.
Watchdog ==
  /\ Goto("watch", "tally")
  /\ state' = [a \in AllRoles |-> IF state[a] = "working" THEN "error" ELSE state[a]]
  /\ UNCHANGED <<control, status, thread, wired, link, server, stop, history>>

Errored == {a \in Roles : state[a] = "error"}

RolesFailed ==
  /\ Goto("tally", "finally")
  /\ Errored # {}
  /\ status' = "needs_human"
  /\ UNCHANGED <<control, roles, link, server, stop, history>>

RolesSucceeded ==
  /\ Goto("tally", "gate")
  /\ Errored = {}
  /\ UNCHANGED <<control, status, roles, link, server, stop, history>>

---------------------------------------------------------------------------
\* _finalize and the finally clause of _drive.

Pass ==
  /\ Goto("gate", "finally")
  /\ status' = "passed"
  /\ UNCHANGED <<control, roles, link, server, stop, history>>

\* Mutant of Reject: the server of a rejected round is not stopped.
RejectKeep ==
  /\ Goto("gate", IF round < MaxRounds THEN "round" ELSE "finally")
  /\ status' = IF round < MaxRounds THEN status ELSE "needs_human"
  /\ UNCHANGED <<control, roles, link, server, stop, history>>

\* The server of the round is stopped before the next round, or for good.
Reject ==
  /\ Goto("gate", "stop")
  /\ next' = IF round < MaxRounds THEN "round" ELSE "finally"
  /\ status' = IF round < MaxRounds THEN status ELSE "needs_human"
  /\ UNCHANGED <<routed, injected, round, roles, link, server, stop, history>>

\* The worker raises: before it starts the roles, or in the gate.
EngineError ==
  /\ pc \in {"round", "gate"}
  /\ pc' = "finally"
  /\ status' = "needs_human"
  /\ UNCHANGED <<control, roles, link, server, stop, history>>

\* A passed run keeps its server if it still runs; any other stops it.
Finally ==
  /\ pc = "finally"
  /\ IF status = "passed"
     THEN /\ pc' = IF handle \in alive THEN "keep" ELSE "end"
          /\ UNCHANGED next
     ELSE /\ pc' = "stop"
          /\ next' = "end"
  /\ UNCHANGED <<routed, injected, round, status, roles, link, server, stop, history>>

\* The handle is read a second time, to be registered: the daemon may have
\* forgotten it since it was found to be running.
Keep ==
  /\ Goto("keep", "end")
  /\ pool' = IF handle = NoServer THEN Nobody ELSE handle
  /\ UNCHANGED <<control, status, roles, link, handle, alive, stop, history>>

---------------------------------------------------------------------------
\* _stop_server, by the worker or by the daemon: the run leaves the pool,
\* the process behind the handle is killed, the handle is forgotten.

\* _REPLAY.drop
DropFromPool(s) ==
  /\ stop[s] = "no"
  /\ IF s = "worker"
     THEN pc = "stop" /\ UNCHANGED <<status, swept>>
     ELSE round > 0 /\ status = "running" /\ status' = "needs_human" /\ swept' = TRUE
  /\ pool' = NoServer
  /\ alive' = alive \ {pool}
  /\ stop' = [stop EXCEPT ![s] = "kill"]
  /\ UNCHANGED <<pc, control, roles, link, handle, fallen, late>>

\* _kill_proc(run._server_proc)
KillServer(s) ==
  /\ stop[s] = "kill"
  /\ alive' = alive \ {handle}
  /\ stop' = [stop EXCEPT ![s] = "forget"]
  /\ UNCHANGED <<pc, control, status, roles, link, handle, pool, history>>

\* run._server_proc = None
ForgetServer(s) ==
  /\ stop[s] = "forget"
  /\ handle' = NoServer
  /\ stop' = [stop EXCEPT ![s] = "no"]
  /\ pc' = IF s = "worker" THEN next ELSE pc
  /\ UNCHANGED <<control, status, roles, link, pool, alive, history>>

---------------------------------------------------------------------------
\* The role threads.

At(a, from, to) ==
  /\ thread[a] = from
  /\ thread' = [thread EXCEPT ![a] = to]

\* The backend has built its server and starts it.
SpawnServer ==
  /\ At("backend", "start", "spawned")
  /\ alive' = alive \cup {round}
  /\ UNCHANGED <<pc, control, status, state, wired, link, handle, pool, stop, history>>

\* run._server_proc = proc
TrackServer ==
  /\ At("backend", "spawned", "tracked")
  /\ handle' = round
  /\ UNCHANGED <<pc, control, status, state, wired, link, pool, alive, stop, history>>

\* The server behind the url the backend publishes: in the first round of
\* inject_failure a port nobody listens on.
Published == IF injected /\ routed /\ round = 1 THEN Nobody ELSE round

\* endpoint["url"] = ...; then backend_ready is set.  The url is published
\* once the server has answered, and also after 50 attempts without answer.
PublishEndpoint ==
  /\ At("backend", "tracked", "ended")
  /\ endpoint' = Published
  /\ UNCHANGED <<pc, control, status, state, wired, artifact, server, stop, history>>

\* backend_ready.wait(300): the event, or the time is up and the role goes on
\* with no endpoint.
Wire(a) ==
  /\ At(a, "start", "ended")
  /\ a \in Waiters
  /\ wired' = [wired EXCEPT ![a] = endpoint]
  /\ UNCHANGED <<pc, control, status, state, link, server, stop, history>>

RoleDone(a) ==
  /\ At(a, "ended", "over")
  /\ state' = [state EXCEPT ![a] = "done"]
  /\ UNCHANGED <<pc, control, status, wired, link, server, stop, history>>

\* The closure of a role raises.
RoleErrs(a) ==
  /\ thread[a] \in {"start", "tracked", "ended"}
  /\ thread' = [thread EXCEPT ![a] = "over"]
  /\ state' = [state EXCEPT ![a] = "error"]
  /\ UNCHANGED <<pc, control, status, wired, link, server, stop, history>>

---------------------------------------------------------------------------
\* A server process ends by itself: it cannot bind its port, what the agent
\* has written raises, it crashes.
ServerEnds ==
  /\ \E k \in alive : alive' = alive \ {k} /\ fallen' = fallen \cup {k}
  /\ UNCHANGED <<pc, control, status, roles, link, handle, pool, stop, late, swept>>

---------------------------------------------------------------------------
Worker ==
  \/ StartRound \/ Join \/ Watchdog \/ RolesFailed \/ RolesSucceeded
  \/ Pass \/ Reject \/ EngineError \/ Finally \/ Keep

Stopper(s) == DropFromPool(s) \/ KillServer(s) \/ ForgetServer(s)

Backend == SpawnServer \/ TrackServer \/ PublishEndpoint

Role(a) == Wire(a) \/ RoleDone(a) \/ RoleErrs(a)

Next ==
  \/ Worker
  \/ \E s \in Stoppers : Stopper(s)
  \/ Backend
  \/ \E a \in AllRoles : Role(a)
  \/ ServerEnds

Spec == Init /\ [][Next]_vars

---------------------------------------------------------------------------
\* Properties.

\* Every variable keeps its type; a process is of a round of this run.
TypeOK ==
  /\ {routed, injected} \subseteq BOOLEAN
  /\ pc \in {"round", "join", "watch", "tally", "gate", "finally", "keep", "stop", "end"}
  /\ next \in {"round", "finally", "end"}
  /\ round \in 0 .. MaxRounds
  /\ status \in {"running", "passed", "needs_human"}
  /\ thread \in [AllRoles -> {"none", "start", "spawned", "tracked", "ended", "over"}]
  /\ state \in [AllRoles -> {"pending", "working", "done", "error"}]
  /\ handle \in Servers \cup {NoServer}
  /\ {endpoint, artifact, pool} \subseteq Servers \cup {NoServer, Nobody}
  /\ wired \in [AllRoles -> Servers \cup {NoServer, Nobody}]
  /\ alive \cup fallen \subseteq Servers
  /\ stop \in [Stoppers -> {"no", "kill", "forget"}]
  /\ {late, swept} \subseteq BOOLEAN

\* The gate judges the work of roles that have all finished without an error,
\* though the joins give up at the deadline and a late thread still writes
\* its state: never a half-built artifact (_execute, watchdog).  And a round
\* never starts while a thread of an earlier one is at work: they share the
\* event, the endpoint and the progress records.
GateSeesFinishedRoles ==
  /\ pc = "gate" => \A a \in Roles : Over(a) /\ state[a] = "done"
  /\ pc = "round" => \A a \in AllRoles : thread[a] \in {"none", "over"}

\* Nobody is at work on the run any more.
Quiet ==
  /\ pc = "end"
  /\ \A s \in Stoppers : stop[s] = "no"
  /\ \A a \in Roles : thread[a] \in {"none", "over"}

\* Only the server of a passed run is ever parked, also when the daemon stops
\* it while the worker settles the run; and what is parked is a server: a
\* handle that the daemon has forgotten enters the pool only when it did stop
\* the run's server.  When the run is over and nobody is at work on it, no
\* other server process of it runs, of whichever round, unless a role was late
\* or the daemon has taken the run (_finalize, _drive, _keep_replay_server,
\* _stop_server).
NothingLeaks ==
  /\ pool # NoServer => status = "passed" /\ pc = "end"
  /\ pool = Nobody => swept
  /\ Quiet /\ ~late /\ ~swept => alive \subseteq {pool}

\* The gate judges what its own round has published, never the endpoint of an
\* earlier round: the url of the server of the round, or the dead port of
\* inject_failure; and that server is still there, unless it has ended by
\* itself or the daemon has stopped it: no clean-up of the run, late or of
\* another round, stops the server under judgement.  All that unless a role
\* was late.  And no role is ever built against the endpoint of an earlier
\* round: where its wait has ended in time it has that of its own, else none
\* (_execute, _finalize).
JudgedEndpointIsOwn ==
  /\ pc = "gate" /\ ~late =>
       /\ artifact = Published
       /\ round \in alive \cup fallen \/ swept
  /\ \A a \in Waiters : wired[a] \in {NoServer, Published}
===========================================================================
