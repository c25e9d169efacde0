--------------------------- MODULE ReplayServers ---------------------------
(***************************************************************************)
(* The server processes of all the runs of a console (engine.py,           *)
(* _ReplayPool, _kill_proc, _keep_replay_server, shutdown, the boot sweep; *)
(* connection_api.py, _reconcile_loop and main).  A passed run parks its   *)
(* server in a bounded pool; entries leave the pool under its lock, and    *)
(* the thread that took them out kills them after it has let the lock go.  *)
(* A console that exits reaps the pool, one that is killed reaps nothing,  *)
(* and the next one sweeps what is left, as well as it can.                *)
(*                                                                         *)
(* Each run has one server process, named by the run.                      *)
(***************************************************************************)
EXTENDS FiniteSetsExt, Naturals

CONSTANTS
  Runs,         \* the runs, each driven by a worker thread
  Daemon,       \* the reconcile thread
  Console,      \* the main thread
  Cap           \* _MAX_REPLAY_SERVERS

ASSUME ReplayServersAssumption ==
  /\ IsFiniteSet(Runs)
  /\ Cap \in Nat \ {0}
  /\ {Daemon, Console} \cap Runs = {}

Threads == Runs \cup {Daemon, Console}

VARIABLES
  host,      \* the console process
  unstopped, \* the runs that ENGINE.shutdown has still to stop
  stage,     \* stage[r]: where the worker of r is
  live,      \* the server processes that run
  procs,     \* the entries of the pool
  since,     \* since[r]: when r was registered, by its number; 0 if never
  aged,      \* the entries older than _REPLAY_TTL_S
  victims,   \* victims[t]: what thread t has taken out and has still to kill
  escaped    \* history: the orphans the sweep of this console has left alive

poolVars == <<host, unstopped, stage, live, procs, since, aged, victims,
              escaped>>

InProgress == {r \in Runs : stage[r] = "serving"}

Condemned == UNION {victims[t] : t \in Threads}

PoolInit ==
  /\ host = "up"
  /\ unstopped = {}
  /\ stage = [r \in Runs |-> "none"]
  /\ live = {}
  /\ procs = {}
  /\ since = [r \in Runs |-> 0]
  /\ aged = {}
  /\ victims = [t \in Threads |-> {}]
  /\ escaped = {}

\* Threads run until the interpreter is gone; victims come first.
Running(t) == host # "down" /\ victims[t] = {}

---------------------------------------------------------------------------
\* The worker of a run.

StartServer(r) ==
  /\ Running(r)
  /\ stage[r] = "none"
  /\ stage' = [stage EXCEPT ![r] = "serving"]
  /\ live' = live \cup {r}
  /\ UNCHANGED <<host, unstopped, procs, since, aged, victims, escaped>>

\* The run does not pass: _stop_server.
StopFailed(r) ==
  /\ Running(r)
  /\ stage[r] = "serving"
  /\ stage' = [stage EXCEPT ![r] = "over"]
  /\ live' = live \ {r}
  /\ UNCHANGED <<host, unstopped, procs, since, aged, victims, escaped>>

\* time.monotonic(), as far as it orders the entries.
Now == 1 + Cardinality({r \in Runs : since[r] # 0})

\* The entries once r is one of them and the dead ones are gone.
Registered(r) == (procs \cap live) \cup {r}

\* What is evicted so that no more than Cap are left: the oldest.
Surplus(entries, time) ==
  {old \in SUBSET entries :
     /\ Cardinality(entries \ old) = Min({Cap, Cardinality(entries)})
     /\ \A o \in old, young \in entries \ old : time[o] < time[young]}

\* Mutant of Register: an evicted server is forgotten, not killed.
RegisterForgetful(r) ==
  /\ since' = [since EXCEPT ![r] = Now]
  /\ \E old \in Surplus(Registered(r), since') : procs' = Registered(r) \ old
  /\ UNCHANGED victims

\* register and _evict_locked: the dead entries go, then the oldest over Cap.
Register(r) ==
  /\ since' = [since EXCEPT ![r] = Now]
  /\ \E old \in Surplus(Registered(r), since') :
       /\ procs' = Registered(r) \ old
       /\ victims' = [victims EXCEPT ![r] = old]

\* The run has passed: a server that still runs is parked.
Park(r) ==
  /\ Running(r)
  /\ stage[r] = "serving"
  /\ stage' = [stage EXCEPT ![r] = "parked"]
  /\ IF r \in live THEN Register(r) ELSE UNCHANGED <<procs, since, victims>>
  /\ aged' = aged \cap procs'
  /\ UNCHANGED <<host, unstopped, live, escaped>>

---------------------------------------------------------------------------
\* Idle entries, by the worker of a run that has passed or by the daemon.

\* Mutant of Idle: only what has died is reaped.
IdleDead == procs \ live

Idle == aged \cup (procs \ live)

ReapIdle(t) ==
  /\ Running(t)
  /\ t # Console
  /\ t \in Runs => stage[t] = "parked"
  /\ stage' = [r \in Runs |-> IF r = t THEN "over" ELSE stage[r]]
  /\ victims' = [victims EXCEPT ![t] = Idle]
  /\ procs' = procs \ Idle
  /\ aged' = aged \ Idle
  /\ UNCHANGED <<host, unstopped, live, since, escaped>>

\* _kill_proc
KillVictim(t) ==
  /\ host # "down"
  /\ \E r \in victims[t] :
       /\ victims' = [victims EXCEPT ![t] = @ \ {r}]
       /\ live' = live \ {r}
  /\ UNCHANGED <<host, unstopped, stage, procs, since, aged, escaped>>

\* Time goes by: an entry grows old after those before it.
Age ==
  /\ \E r \in procs \ aged :
       /\ \A older \in procs : since[older] < since[r] => older \in aged
       /\ aged' = aged \cup {r}
  /\ UNCHANGED <<host, unstopped, stage, live, procs, since, victims, escaped>>

\* A server dies by itself.
Die ==
  /\ \E r \in live : live' = live \ {r}
  /\ UNCHANGED <<host, unstopped, stage, procs, since, aged, victims, escaped>>

---------------------------------------------------------------------------
\* The end of a console and the start of the next.

\* A stop request; a host that is connection_api.main then calls
\* ENGINE.shutdown, which stops every run, console/server.py does not.
Shutdown ==
  /\ host = "up"
  /\ host' = "shutdown"
  /\ unstopped' \in {Runs, {}}
  /\ UNCHANGED <<stage, live, procs, since, aged, victims, escaped>>

\* _stop_server, for one run after the other.
StopRun(r) ==
  /\ host = "shutdown"
  /\ r \in unstopped
  /\ unstopped' = unstopped \ {r}
  /\ procs' = procs \ {r}
  /\ aged' = aged \ {r}
  /\ live' = IF r \in procs \/ stage[r] # "none" THEN live \ {r} ELSE live
  /\ UNCHANGED <<host, stage, since, victims, escaped>>

\* atexit: reap_all.
ReapAll ==
  /\ host = "shutdown"
  /\ unstopped = {}
  /\ host' = "atexit"
  /\ procs' = {}
  /\ aged' = {}
  /\ victims' = [victims EXCEPT ![Console] = procs]
  /\ UNCHANGED <<unstopped, stage, live, since, escaped>>

\* The threads of the console are gone, and what they knew.
Vanish ==
  /\ host' = "down"
  /\ unstopped' = {}
  /\ stage' = [r \in Runs |-> IF stage[r] = "none" THEN "none" ELSE "over"]
  /\ procs' = {}
  /\ since' = [r \in Runs |-> 0]
  /\ aged' = {}
  /\ victims' = [t \in Threads |-> {}]
  /\ UNCHANGED <<live, escaped>>

Exit ==
  /\ host = "atexit"
  /\ victims[Console] = {}
  /\ Vanish

\* kill -9
Crash ==
  /\ host # "down"
  /\ Vanish

\* Mutant of Boot: the next console does not sweep.
BootBlind ==
  /\ host = "down"
  /\ host' = "up"
  /\ UNCHANGED <<unstopped, stage, live, procs, since, aged, victims, escaped>>

\* _reap_orphaned_servers: every server whose parent is dead is killed; none
\* is when ps is missing or takes more than 5 s, and a kill may fail.  All of
\* that is silent.
Boot ==
  /\ host = "down"
  /\ host' = "up"
  /\ \E left \in SUBSET live : live' = left /\ escaped' = left
  /\ UNCHANGED <<unstopped, stage, procs, since, aged, victims>>

---------------------------------------------------------------------------
WorkerStep(r) == StartServer(r) \/ StopFailed(r) \/ Park(r)

Pool(t) == ReapIdle(t) \/ KillVictim(t)

Host == Shutdown \/ ReapAll \/ Exit \/ Crash \/ Boot

PoolNext ==
  \/ \E r \in Runs : WorkerStep(r) \/ StopRun(r)
  \/ \E t \in Threads : Pool(t)
  \/ Age \/ Die
  \/ Host

PoolSpec == PoolInit /\ [][PoolNext]_poolVars

\* The daemon wakes up every 60 s and every thread gets to run.
FairPoolSpec == PoolSpec /\ WF_poolVars(ReapIdle(Daemon)) /\ \A t \in Threads : WF_poolVars(KillVictim(t))

---------------------------------------------------------------------------
\* Properties.

\* Every variable keeps its type; the pool has at most Cap entries and an
\* idle entry is in the pool.
PoolTypeOK ==
  /\ host \in {"up", "shutdown", "atexit", "down"}
  /\ unstopped \subseteq Runs
  /\ stage \in [Runs -> {"none", "serving", "parked", "over"}]
  /\ live \subseteq Runs
  /\ procs \subseteq Runs
  /\ Cardinality(procs) <= Cap
  /\ since \in [Runs -> Nat]
  /\ aged \subseteq procs
  /\ victims \in [Threads -> SUBSET Runs]
  /\ escaped \subseteq Runs

\* While a console is up no server process is unaccounted for: each is of a
\* run in progress, parked, or about to be killed by the thread that has taken
\* it out of the pool.  That holds of the servers of this console and of those
\* of consoles before it, also after a crash, but for the orphans the sweep at
\* its start could not kill: nothing ever stops those before the next start.
NoServerIsOrphaned ==
  host = "up" => live \subseteq InProgress \cup procs \cup Condemned \cup escaped

\* "The hard guarantee is the CAP (absolute live count)" (_ReplayPool): but
\* for the runs in progress, the victims in flight and the orphans the sweep
\* at the start of the console has left, at most Cap servers run.
LiveCountIsCapped ==
  host = "up" =>
    Cardinality(live \ (InProgress \cup Condemned \cup escaped)) <= Cap

\* A server that has been idle for _REPLAY_TTL_S is stopped while the console
\* stays up: the pool releases it without a new run (reconcile, reap_idle).
IdleServersStop ==
  \A r \in Runs : r \in aged ~> (r \notin live \/ host # "up")
===========================================================================
