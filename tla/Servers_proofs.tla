---------------------------- MODULE Servers_proofs --------------------------
(***************************************************************************)
(* Theorems about the servers of the runs.  About the pool, ReplayServers, *)
(* for every set of runs and every cap: no server process is ever          *)
(* unaccounted for, and the cap is kept.  About the server of one run,     *)
(* RoleThreads, for every set of waiting roles and every number of rounds: *)
(* the gate sees only finished roles, no server leaks and the endpoint     *)
(* judged is the one the round has published.                              *)
(***************************************************************************)
EXTENDS ReplayServers, RoleThreads, FiniteSetTheorems, TLAPS

\* The invariant: a thread that takes entries out of the pool has none to kill
\* (Running), so that what it takes out replaces nothing it still has to kill.
PoolInv == PoolTypeOK /\ NoServerIsOrphaned

---------------------------------------------------------------------------
\* The smaller of two numbers.
LEMMA MinOfTwo ==
  ASSUME NEW m \in Nat, NEW n \in Nat
  PROVE  Min({m, n}) \in {m, n} /\ Min({m, n}) <= m
<1>1. \E x \in {m, n} : \A y \in {m, n} : x <= y
  <2>1. m <= n \/ n <= m
    OBVIOUS
  <2> QED
    BY <2>1
<1> QED
  BY <1>1 DEF Min

\* What an eviction leaves is not more than the cap.
LEMMA SurplusLeavesCap ==
  ASSUME NEW entries \in SUBSET Runs, NEW time, NEW old \in Surplus(entries, time)
  PROVE  old \subseteq entries /\ Cardinality(entries \ old) <= Cap
<1>1. IsFiniteSet(entries)
  BY FS_Subset, ReplayServersAssumption
<1>2. Cardinality(entries) \in Nat
  BY <1>1, FS_CardinalityType
<1>3. old \subseteq entries /\ Cardinality(entries \ old) = Min({Cap, Cardinality(entries)})
  BY DEF Surplus
<1> QED
  BY <1>2, <1>3, MinOfTwo, ReplayServersAssumption

\* What is taken out of the pool makes it no larger.
LEMMA FewerEntries ==
  ASSUME NEW entries \in SUBSET Runs, NEW fewer \in SUBSET entries,
         Cardinality(entries) <= Cap
  PROVE  Cardinality(fewer) <= Cap
<1>1. IsFiniteSet(entries)
  BY FS_Subset, ReplayServersAssumption
<1>2. /\ IsFiniteSet(fewer)
      /\ Cardinality(fewer) <= Cardinality(entries)
  BY <1>1, FS_Subset
<1>3. Cardinality(fewer) \in Nat /\ Cardinality(entries) \in Nat
  BY <1>1, <1>2, FS_CardinalityType
<1> QED
  BY <1>2, <1>3, ReplayServersAssumption

\* An empty pool is within the cap.
LEMMA EmptyPool ==
  Cardinality({}) <= Cap
  BY FS_EmptySet, ReplayServersAssumption

\* A step keeps the types, and the pool within its cap.
LEMMA PoolTypeStep ==
  PoolInv /\ [PoolNext]_poolVars => PoolTypeOK'
<1> SUFFICES ASSUME PoolInv, [PoolNext]_poolVars PROVE PoolTypeOK'
  OBVIOUS
<1> USE ReplayServersAssumption
     DEF PoolInv, PoolTypeOK, Threads
<1>1. CASE \E r \in Runs : StartServer(r)
  <2>1. PICK r \in Runs : StartServer(r)
    BY <1>1
  <2> QED
    BY <2>1 DEF StartServer
<1>2. CASE \E r \in Runs : StopFailed(r)
  <2>1. PICK r \in Runs : StopFailed(r)
    BY <1>2
  <2> QED
    BY <2>1 DEF StopFailed
<1>3. CASE \E r \in Runs : Park(r)
  <2>1. PICK r \in Runs : Park(r)
    BY <1>3
  <2>2. CASE r \in live
    <3>1. Now \in Nat
      <4>1. Cardinality({s \in Runs : since[s] # 0}) \in Nat
        BY FS_Subset, FS_CardinalityType
      <4> QED
        BY <4>1 DEF Now
    <3>2. Registered(r) \in SUBSET Runs
      BY DEF Registered
    <3>3. PICK old \in Surplus(Registered(r), since') :
             procs' = Registered(r) \ old /\ victims' = [victims EXCEPT ![r] = old]
      BY <2>1, <2>2 DEF Park, Register
    <3>4. old \subseteq Registered(r) /\ Cardinality(procs') <= Cap
      BY <3>2, <3>3, SurplusLeavesCap
    <3>5. since' = [since EXCEPT ![r] = Now]
      BY <2>1, <2>2 DEF Park, Register
    <3>6. procs' \subseteq Runs /\ old \subseteq Runs
      BY <3>2, <3>3, <3>4
    <3> QED
      BY <2>1, <3>1, <3>3, <3>4, <3>5, <3>6 DEF Park
  <2>3. CASE r \notin live
    BY <2>1, <2>3 DEF Park
  <2> QED
    BY <2>2, <2>3
<1>4. CASE \E r \in Runs : StopRun(r)
  <2>1. PICK r \in Runs : StopRun(r)
    BY <1>4
  <2>2. procs' \subseteq procs
    BY <2>1 DEF StopRun
  <2>3. Cardinality(procs') <= Cap
    BY <2>2, FewerEntries
  <2> QED
    BY <2>1, <2>2, <2>3 DEF StopRun
<1>5. CASE \E t \in Threads : ReapIdle(t)
  <2>1. PICK t \in Threads : ReapIdle(t)
    BY <1>5
  <2>2. procs' \subseteq procs
    BY <2>1 DEF ReapIdle
  <2>3. Cardinality(procs') <= Cap
    BY <2>2, FewerEntries
  <2>4. Idle \subseteq Runs
    BY  DEF Idle
  <2> QED
    BY <2>1, <2>2, <2>3, <2>4 DEF ReapIdle
<1>6. CASE \E t \in Threads : KillVictim(t)
  <2>1. PICK t \in Threads : KillVictim(t)
    BY <1>6
  <2> QED
    BY <2>1 DEF KillVictim
<1>7. CASE Age
  BY <1>7 DEF Age
<1>8. CASE Die
  BY <1>8 DEF Die
<1>9. CASE Shutdown
  BY <1>9 DEF Shutdown
<1>10. CASE ReapAll
  BY <1>10, EmptyPool DEF ReapAll
<1>11. CASE Exit
  BY <1>11, EmptyPool DEF Exit, Vanish
<1>12. CASE Crash
  BY <1>12, EmptyPool DEF Crash, Vanish
<1>13. CASE Boot
  BY <1>13 DEF Boot
<1>14. CASE UNCHANGED poolVars
  BY <1>14 DEF poolVars
<1> QED
  BY <1>1, <1>2, <1>3, <1>4, <1>5, <1>6, <1>7, <1>8, <1>9, <1>10, <1>11,
     <1>12, <1>13, <1>14 DEF PoolNext, WorkerStep, Pool, Host

\* A step loses no server process.
LEMMA OrphanStep ==
  PoolInv /\ [PoolNext]_poolVars => NoServerIsOrphaned'
<1> SUFFICES ASSUME PoolInv, [PoolNext]_poolVars PROVE NoServerIsOrphaned'
  OBVIOUS
<1> USE ReplayServersAssumption
     DEF PoolInv, PoolTypeOK, NoServerIsOrphaned, InProgress, Condemned, Threads
<1>1. CASE \E r \in Runs : StartServer(r)
  <2>1. PICK r \in Runs : StartServer(r)
    BY <1>1
  <2> QED
    BY <2>1 DEF StartServer
<1>2. CASE \E r \in Runs : StopFailed(r)
  <2>1. PICK r \in Runs : StopFailed(r)
    BY <1>2
  <2> QED
    BY <2>1 DEF StopFailed
<1>3. CASE \E r \in Runs : Park(r)
  <2>1. PICK r \in Runs : Park(r)
    BY <1>3
  <2>2. /\ InProgress' = InProgress \ {r} /\ live' = live
        /\ host' = host /\ escaped' = escaped
    BY <2>1 DEF Park
  <2>3. CASE r \in live
    <3>1. PICK old \in Surplus(Registered(r), since') :
             procs' = Registered(r) \ old /\ victims' = [victims EXCEPT ![r] = old]
      BY <2>1, <2>3 DEF Park, Register
    <3>2. victims[r] = {}
      BY <2>1 DEF Park, Running
    <3>3. Condemned \subseteq Condemned' /\ old \subseteq Condemned'
      BY <3>1, <3>2
    <3>4. (procs \cap live) \cup {r} \subseteq procs' \cup Condemned'
      BY <3>1, <3>3 DEF Registered
    <3> QED
      BY <2>2, <3>3, <3>4
  <2>4. CASE r \notin live
    BY <2>1, <2>2, <2>4 DEF Park
  <2> QED
    BY <2>3, <2>4
<1>4. CASE \E r \in Runs : StopRun(r)
  <2>1. PICK r \in Runs : StopRun(r)
    BY <1>4
  <2> QED
    BY <2>1 DEF StopRun
<1>5. CASE \E t \in Threads : ReapIdle(t)
  <2>1. PICK t \in Threads : ReapIdle(t)
    BY <1>5
  <2>2. /\ victims' = [victims EXCEPT ![t] = Idle] /\ victims[t] = {}
        /\ procs' = procs \ Idle
    BY <2>1 DEF ReapIdle, Running
  <2>3. Condemned \subseteq Condemned' /\ Idle \subseteq Condemned'
    BY <2>2
  <2>4. InProgress' = InProgress
    BY <2>1 DEF ReapIdle
  <2> QED
    BY <2>1, <2>2, <2>3, <2>4 DEF ReapIdle
<1>6. CASE \E t \in Threads : KillVictim(t)
  <2>1. PICK t \in Threads : KillVictim(t)
    BY <1>6
  <2>2. PICK v \in victims[t] :
           /\ victims' = [victims EXCEPT ![t] = victims[t] \ {v}]
           /\ live' = live \ {v}
    <3> HIDE DEF PoolInv, PoolTypeOK, NoServerIsOrphaned
    <3> QED
      BY <2>1 DEF KillVictim
  <2>3. ASSUME NEW r \in Condemned, r # v PROVE r \in Condemned'
    <3>1. PICK s \in Threads : r \in victims[s]
      OBVIOUS
    <3>2. victims'[s] = IF s = t THEN victims[t] \ {v} ELSE victims[s]
      BY <2>2
    <3> QED
      BY <2>3, <3>1, <3>2
  <2> QED
    BY <2>1, <2>2, <2>3 DEF KillVictim
<1>7. CASE Age
  BY <1>7 DEF Age
<1>8. CASE Die
  BY <1>8 DEF Die
<1>9. CASE Shutdown
  BY <1>9 DEF Shutdown
<1>10. CASE ReapAll
  BY <1>10 DEF ReapAll
<1>11. CASE Exit
  BY <1>11 DEF Exit, Vanish
<1>12. CASE Crash
  BY <1>12 DEF Crash, Vanish
<1>13. CASE Boot
  BY <1>13 DEF Boot
<1>14. CASE UNCHANGED poolVars
  BY <1>14 DEF poolVars
<1> QED
  BY <1>1, <1>2, <1>3, <1>4, <1>5, <1>6, <1>7, <1>8, <1>9, <1>10, <1>11,
     <1>12, <1>13, <1>14 DEF PoolNext, WorkerStep, Pool, Host

\* PoolInv is an invariant of the servers.
LEMMA PoolInductive ==
  PoolSpec => []PoolInv
<1>1. PoolInit => PoolInv
  BY EmptyPool, ReplayServersAssumption
     DEF PoolInit, PoolInv, PoolTypeOK, NoServerIsOrphaned, Threads
<1>2. PoolInv /\ [PoolNext]_poolVars => PoolInv'
  BY PoolTypeStep, OrphanStep DEF PoolInv
<1> QED
  BY <1>1, <1>2, PTL DEF PoolSpec

\* While a console is up each server process belongs to a run in progress, to
\* the pool, or to a thread that is about to kill it: neither the eviction, nor
\* two reapers at once, nor a console killed before, leaves one running unseen,
\* but for the orphans the sweep at the start of the console could not kill
\* (_ReplayPool, _reap_orphaned_servers).
THEOREM NoServerIsEverOrphaned ==
  PoolSpec => []NoServerIsOrphaned
<1>1. PoolInv => NoServerIsOrphaned
  BY DEF PoolInv
<1> QED
  BY <1>1, PoolInductive, PTL

\* The absolute live count that _ReplayPool guarantees: whatever the threads
\* do, at most Cap servers run besides those of the runs in progress, those
\* about to be killed and those the sweep of the console has left.
THEOREM LiveCountIsAlwaysCapped ==
  PoolSpec => []LiveCountIsCapped
<1>1. PoolInv => LiveCountIsCapped
  <2> SUFFICES ASSUME PoolInv, host = "up"
               PROVE  Cardinality(live \ (InProgress \cup Condemned \cup escaped)) <= Cap
    BY DEF LiveCountIsCapped
  <2>1. live \ (InProgress \cup Condemned \cup escaped) \subseteq procs
    BY DEF PoolInv, NoServerIsOrphaned
  <2> QED
    BY <2>1, FewerEntries DEF PoolInv, PoolTypeOK
<1> QED
  BY <1>1, PoolInductive, PTL

---------------------------------------------------------------------------
\* The rounds judge the work of their own threads: a role of no round or of
\* an earlier one is not at work when a round starts.
Before == {"round", "join", "watch"}

\* The round goes on, or the run is approved.
GoesOn == pc = "gate" \/ (pc = "stop" /\ next = "round") \/ (pc = "round" /\ round # 0)

\* Where a thread stands and what it has said of itself.
ThreadInv ==
  /\ \A a \in AllRoles \ Roles : thread[a] = "none"
  /\ \A a \in Waiters : thread[a] \notin {"spawned", "tracked"}
  /\ \A a \in AllRoles : state[a] = "done" => Over(a)
  /\ round = 0 => /\ pc \in {"round", "finally", "stop", "end"}
                  /\ pc = "stop" => next = "end"
                  /\ status # "passed"
                  /\ \A a \in AllRoles : thread[a] = "none"
  /\ pc \in {"join", "watch"} => \A a \in Roles : state[a] # "pending"
  /\ pc \notin Before /\ round # 0 => \A a \in Roles : state[a] \in {"done", "error"}
  /\ GoesOn => \A a \in Roles : state[a] = "done"
  /\ pc \notin {"round", "join"} /\ ~late =>
       \A a \in Roles : thread[a] \in {"none", "over"}

\* Where the worker and the daemon are in _stop_server.
StopInv ==
  /\ stop["worker"] # "no" => pc = "stop"
  /\ ~swept => stop["daemon"] = "no"
  /\ status = "passed" => pc \in {"finally", "keep", "end"}
  /\ pc = "keep" => status = "passed"
  /\ pc = "gate" => round # 0
  /\ pc = "stop" /\ next = "round" => round < MaxRounds
  /\ pc = "round" => round < MaxRounds

\* The servers of a run that has had no trouble: the one of the round, which
\* is in the handle or about to be, none between the rounds, and the one in
\* the pool at the end.
ServerInv ==
  /\ pool # NoServer => status = "passed" /\ pc = "end"
  /\ pool = Nobody => swept
  /\ pc = "keep" /\ ~swept => handle \in Servers
  /\ alive \subseteq 1 .. round
  /\ ~late /\ ~swept =>
       /\ pc \in {"round", "end"} => alive \subseteq {pool}
       /\ pc \notin {"round", "end"} => alive \subseteq {round}
       /\ pc \notin {"round", "end"} /\ round \in alive =>
            handle = round \/ thread["backend"] = "spawned"
       /\ stop["worker"] = "forget" => alive = {}

\* The backend role has started its server, and told everybody.
Started   == ~routed \/ thread["backend"] \in {"spawned", "tracked", "ended"}
                     \/ state["backend"] = "done"
Told      == ~routed \/ thread["backend"] = "ended" \/ state["backend"] = "done"

EndpointInv ==
  /\ endpoint \in {NoServer, Published}
  /\ \A a \in Waiters : wired[a] \in {NoServer, Published}
  /\ pc \in {"join", "watch", "tally", "gate"} /\ Told => endpoint = Published
  /\ pc \in {"watch", "tally", "gate"} /\ ~late => artifact = endpoint
  /\ pc \in {"join", "watch", "tally", "gate"} /\ Started =>
       round \in alive \cup fallen \/ swept

IInv ==
  /\ TypeOK
  /\ ThreadInv
  /\ StopInv
  /\ ServerInv
  /\ EndpointInv

---------------------------------------------------------------------------
\* A step keeps the types.
LEMMA TypeStep ==
  IInv /\ [Next]_vars => TypeOK'
<1> SUFFICES ASSUME IInv, [Next]_vars PROVE TypeOK'
  OBVIOUS
<1> USE RoleThreadsAssumption
     DEF IInv, TypeOK, roles, link, server, history, control, Stoppers,
         Servers, NoServer, Nobody, AllRoles, ThreadInv, StopInv
<1>1. CASE StartRound
  BY <1>1 DEF StartRound, Goto
<1>2. CASE Join
  BY <1>2 DEF Join, Goto
<1>3. CASE Watchdog
  BY <1>3 DEF Watchdog, Goto
<1>4. CASE RolesFailed
  BY <1>4 DEF RolesFailed, Goto, Errored
<1>5. CASE RolesSucceeded
  BY <1>5 DEF RolesSucceeded, Goto, Errored
<1>6. CASE Pass
  BY <1>6 DEF Pass, Goto
<1>7. CASE Reject
  BY <1>7 DEF Reject, Goto
<1>8. CASE Finally
  BY <1>8 DEF Finally
<1>9. CASE Keep
  BY <1>9 DEF Keep, Goto
<1>10. CASE \E s \in Stoppers : DropFromPool(s)
  <2>1. PICK s \in Stoppers : DropFromPool(s)
    BY <1>10
  <2>2. stop' \in [Stoppers -> {"no", "kill", "forget"}]
    BY <2>1 DEF DropFromPool
  <2>3. alive' \subseteq Servers
    BY <2>1 DEF DropFromPool
  <2> QED
    BY <2>1, <2>2, <2>3 DEF DropFromPool
<1>11. CASE \E s \in Stoppers : KillServer(s)
  <2>1. PICK s \in Stoppers : KillServer(s)
    BY <1>11
  <2>2. stop' \in [Stoppers -> {"no", "kill", "forget"}]
    BY <2>1 DEF KillServer
  <2>3. alive' \subseteq Servers
    BY <2>1 DEF KillServer
  <2> QED
    BY <2>1, <2>2, <2>3 DEF KillServer
<1>12. CASE \E s \in Stoppers : ForgetServer(s)
  BY <1>12 DEF ForgetServer
<1>13. CASE SpawnServer
  BY <1>13 DEF SpawnServer, At
<1>14. CASE TrackServer
  BY <1>14 DEF TrackServer, At
<1>15. CASE PublishEndpoint
  BY <1>15 DEF PublishEndpoint, At, Published
<1>16. CASE \E a \in AllRoles : Wire(a)
  BY <1>16 DEF Wire, At
<1>17. CASE \E a \in AllRoles : RoleDone(a)
  BY <1>17 DEF RoleDone, At
<1>18. CASE \E a \in AllRoles : RoleErrs(a)
  BY <1>18 DEF RoleErrs
<1>19. CASE EngineError
  BY <1>19 DEF EngineError
<1>20. CASE ServerEnds
  BY <1>20 DEF ServerEnds
<1>21. CASE UNCHANGED vars
  BY <1>21 DEF vars
<1> QED
  BY <1>1, <1>2, <1>3, <1>4, <1>5, <1>6, <1>7, <1>8, <1>9, <1>10, <1>11,
     <1>12, <1>13, <1>14, <1>15, <1>16, <1>17, <1>18, <1>19, <1>20, <1>21
     DEF Next, Worker, Stopper, Backend, Role

\* A step of a thread is one of the round, and the worker goes on only when
\* all of them are through.
LEMMA ThreadStep ==
  IInv /\ [Next]_vars => ThreadInv'
<1> SUFFICES ASSUME IInv, [Next]_vars PROVE ThreadInv'
  OBVIOUS
<1> USE RoleThreadsAssumption
     DEF IInv, TypeOK, roles, link, server, history, control, Stoppers,
         Servers, NoServer, Nobody, AllRoles, ThreadInv, StopInv, Roles, Over,
         Before, GoesOn
<1>1. CASE StartRound
  BY <1>1 DEF StartRound, Goto
<1>2. CASE Join
  BY <1>2 DEF Join, Goto
<1>3. CASE Watchdog
  BY <1>3 DEF Watchdog, Goto
<1>4. CASE RolesFailed
  BY <1>4 DEF RolesFailed, Goto, Errored
<1>5. CASE RolesSucceeded
  BY <1>5 DEF RolesSucceeded, Goto, Errored
<1>6. CASE Pass
  BY <1>6 DEF Pass, Goto
<1>7. CASE Reject
  BY <1>7 DEF Reject, Goto
<1>8. CASE Finally
  BY <1>8 DEF Finally
<1>9. CASE Keep
  BY <1>9 DEF Keep, Goto
<1>10. CASE \E s \in Stoppers : DropFromPool(s)
  BY <1>10 DEF DropFromPool
<1>11. CASE \E s \in Stoppers : KillServer(s)
  BY <1>11 DEF KillServer
<1>12. CASE \E s \in Stoppers : ForgetServer(s)
  BY <1>12 DEF ForgetServer
<1>13. CASE SpawnServer
  BY <1>13 DEF SpawnServer, At
<1>14. CASE TrackServer
  BY <1>14 DEF TrackServer, At
<1>15. CASE PublishEndpoint
  BY <1>15 DEF PublishEndpoint, At
<1>16. CASE \E a \in AllRoles : Wire(a)
  BY <1>16 DEF Wire, At
<1>17. CASE \E a \in AllRoles : RoleDone(a)
  BY <1>17 DEF RoleDone, At
<1>18. CASE \E a \in AllRoles : RoleErrs(a)
  BY <1>18 DEF RoleErrs
<1>19. CASE EngineError
  BY <1>19 DEF EngineError
<1>20. CASE ServerEnds
  BY <1>20 DEF ServerEnds
<1>21. CASE UNCHANGED vars
  BY <1>21 DEF vars
<1> QED
  BY <1>1, <1>2, <1>3, <1>4, <1>5, <1>6, <1>7, <1>8, <1>9, <1>10, <1>11,
     <1>12, <1>13, <1>14, <1>15, <1>16, <1>17, <1>18, <1>19, <1>20, <1>21
     DEF Next, Worker, Stopper, Backend, Role

\* A step stops the server only where the worker or the daemon may.
LEMMA StopStep ==
  IInv /\ [Next]_vars => StopInv'
<1> SUFFICES ASSUME IInv, [Next]_vars PROVE StopInv'
  OBVIOUS
<1> USE RoleThreadsAssumption
     DEF IInv, TypeOK, roles, link, server, history, control, Stoppers,
         Servers, NoServer, Nobody, AllRoles, ThreadInv, StopInv
<1>1. CASE StartRound
  BY <1>1 DEF StartRound, Goto
<1>2. CASE Join
  BY <1>2 DEF Join, Goto
<1>3. CASE Watchdog
  BY <1>3 DEF Watchdog, Goto
<1>4. CASE RolesFailed
  BY <1>4 DEF RolesFailed, Goto, Errored
<1>5. CASE RolesSucceeded
  BY <1>5 DEF RolesSucceeded, Goto, Errored
<1>6. CASE Pass
  BY <1>6 DEF Pass, Goto
<1>7. CASE Reject
  BY <1>7 DEF Reject, Goto
<1>8. CASE Finally
  BY <1>8 DEF Finally
<1>9. CASE Keep
  BY <1>9 DEF Keep, Goto
<1>10. CASE \E s \in Stoppers : DropFromPool(s)
  BY <1>10 DEF DropFromPool
<1>11. CASE \E s \in Stoppers : KillServer(s)
  BY <1>11 DEF KillServer
<1>12. CASE \E s \in Stoppers : ForgetServer(s)
  BY <1>12 DEF ForgetServer
<1>13. CASE SpawnServer
  BY <1>13 DEF SpawnServer, At
<1>14. CASE TrackServer
  BY <1>14 DEF TrackServer, At
<1>15. CASE PublishEndpoint
  BY <1>15 DEF PublishEndpoint, At
<1>16. CASE \E a \in AllRoles : Wire(a)
  BY <1>16 DEF Wire, At
<1>17. CASE \E a \in AllRoles : RoleDone(a)
  BY <1>17 DEF RoleDone, At
<1>18. CASE \E a \in AllRoles : RoleErrs(a)
  BY <1>18 DEF RoleErrs
<1>19. CASE EngineError
  BY <1>19 DEF EngineError
<1>20. CASE ServerEnds
  BY <1>20 DEF ServerEnds
<1>21. CASE UNCHANGED vars
  BY <1>21 DEF vars
<1> QED
  BY <1>1, <1>2, <1>3, <1>4, <1>5, <1>6, <1>7, <1>8, <1>9, <1>10, <1>11,
     <1>12, <1>13, <1>14, <1>15, <1>16, <1>17, <1>18, <1>19, <1>20, <1>21
     DEF Next, Worker, Stopper, Backend, Role

\* A step of a run without trouble loses no server.
LEMMA ServerStep ==
  IInv /\ [Next]_vars => ServerInv'
<1> SUFFICES ASSUME IInv, [Next]_vars PROVE ServerInv'
  OBVIOUS
<1> USE RoleThreadsAssumption
     DEF IInv, TypeOK, roles, link, server, history, control, Stoppers,
         Servers, NoServer, Nobody, AllRoles, ThreadInv, StopInv, ServerInv,
         Roles, Over, Before, GoesOn
<1>1. CASE StartRound
  BY <1>1 DEF StartRound, Goto
<1>2. CASE Join
  BY <1>2 DEF Join, Goto
<1>3. CASE Watchdog
  BY <1>3 DEF Watchdog, Goto
<1>4. CASE RolesFailed
  BY <1>4 DEF RolesFailed, Goto, Errored
<1>5. CASE RolesSucceeded
  BY <1>5 DEF RolesSucceeded, Goto, Errored
<1>6. CASE Pass
  BY <1>6 DEF Pass, Goto
<1>7. CASE Reject
  BY <1>7 DEF Reject, Goto
<1>8. CASE Finally
  BY <1>8 DEF Finally
<1>9. CASE Keep
  <2>1. ~swept => pool' = handle /\ pool' # Nobody
    <3>1. ~swept => handle \in 1 .. MaxRounds
      BY <1>9 DEF Keep, Goto
    <3>2. pool' = IF handle = 0 THEN MaxRounds + 1 ELSE handle
      BY <1>9 DEF Keep, Goto
    <3>3. ~swept => handle # 0 /\ handle # MaxRounds + 1
      <4> HIDE DEF IInv
      <4> QED
        BY <3>1
    <3> QED
      BY <3>2, <3>3
  <2>2. ~late => thread["backend"] # "spawned"
    BY <1>9 DEF Keep, Goto
  <2>3. ~late /\ ~swept => alive \subseteq {handle}
    BY <1>9, <2>2 DEF Keep, Goto
  <2> QED
    BY <1>9, <2>1, <2>3 DEF Keep, Goto
<1>10. CASE \E s \in Stoppers : DropFromPool(s)
  BY <1>10 DEF DropFromPool
<1>11. CASE \E s \in Stoppers : KillServer(s)
  <2>1. PICK s \in Stoppers : KillServer(s)
    BY <1>11
  <2>2. s = "worker" /\ ~late => thread["backend"] # "spawned"
    BY <2>1 DEF KillServer
  <2>3. ~late /\ ~swept => s = "worker" /\ pc = "stop"
    BY <2>1 DEF KillServer
  <2>4. ~late /\ ~swept => alive \subseteq {handle}
    BY <2>2, <2>3
  <2>5. ~late /\ ~swept => s = "worker" /\ alive' = {}
    BY <2>1, <2>3, <2>4 DEF KillServer
  <2>6. alive' \subseteq alive
    BY <2>1 DEF KillServer
  <2> QED
    BY <2>1, <2>2, <2>3, <2>4, <2>5, <2>6 DEF KillServer
<1>12. CASE \E s \in Stoppers : ForgetServer(s)
  BY <1>12 DEF ForgetServer
<1>13. CASE SpawnServer
  BY <1>13 DEF SpawnServer, At
<1>14. CASE TrackServer
  BY <1>14 DEF TrackServer, At
<1>15. CASE PublishEndpoint
  BY <1>15 DEF PublishEndpoint, At
<1>16. CASE \E a \in AllRoles : Wire(a)
  BY <1>16 DEF Wire, At
<1>17. CASE \E a \in AllRoles : RoleDone(a)
  BY <1>17 DEF RoleDone, At
<1>18. CASE \E a \in AllRoles : RoleErrs(a)
  BY <1>18 DEF RoleErrs
<1>19. CASE EngineError
  BY <1>19 DEF EngineError
<1>20. CASE ServerEnds
  BY <1>20 DEF ServerEnds
<1>21. CASE UNCHANGED vars
  BY <1>21 DEF vars
<1> QED
  BY <1>1, <1>2, <1>3, <1>4, <1>5, <1>6, <1>7, <1>8, <1>9, <1>10, <1>11,
     <1>12, <1>13, <1>14, <1>15, <1>16, <1>17, <1>18, <1>19, <1>20, <1>21
     DEF Next, Worker, Stopper, Backend, Role

\* A step tells of no endpoint but that of the round.
LEMMA EndpointStep ==
  IInv /\ [Next]_vars => EndpointInv'
<1> SUFFICES ASSUME IInv, [Next]_vars PROVE EndpointInv'
  OBVIOUS
<1> USE RoleThreadsAssumption
     DEF IInv, TypeOK, roles, link, server, history, control, Stoppers,
         Servers, NoServer, Nobody, AllRoles, ThreadInv, StopInv, ServerInv,
         EndpointInv, Roles, Over, Before, GoesOn, Started, Told, Published
<1>1. CASE StartRound
  BY <1>1 DEF StartRound, Goto
<1>2. CASE Join
  BY <1>2 DEF Join, Goto
<1>3. CASE Watchdog
  BY <1>3 DEF Watchdog, Goto
<1>4. CASE RolesFailed
  BY <1>4 DEF RolesFailed, Goto, Errored
<1>5. CASE RolesSucceeded
  BY <1>5 DEF RolesSucceeded, Goto, Errored
<1>6. CASE Pass
  BY <1>6 DEF Pass, Goto
<1>7. CASE Reject
  BY <1>7 DEF Reject, Goto
<1>8. CASE Finally
  BY <1>8 DEF Finally
<1>9. CASE Keep
  BY <1>9 DEF Keep, Goto
<1>10. CASE \E s \in Stoppers : DropFromPool(s)
  BY <1>10 DEF DropFromPool
<1>11. CASE \E s \in Stoppers : KillServer(s)
  BY <1>11 DEF KillServer
<1>12. CASE \E s \in Stoppers : ForgetServer(s)
  BY <1>12 DEF ForgetServer
<1>13. CASE SpawnServer
  BY <1>13 DEF SpawnServer, At
<1>14. CASE TrackServer
  BY <1>14 DEF TrackServer, At
<1>15. CASE PublishEndpoint
  BY <1>15 DEF PublishEndpoint, At
<1>16. CASE \E a \in AllRoles : Wire(a)
  BY <1>16 DEF Wire, At
<1>17. CASE \E a \in AllRoles : RoleDone(a)
  BY <1>17 DEF RoleDone, At
<1>18. CASE \E a \in AllRoles : RoleErrs(a)
  BY <1>18 DEF RoleErrs
<1>19. CASE EngineError
  BY <1>19 DEF EngineError
<1>20. CASE ServerEnds
  BY <1>20 DEF ServerEnds
<1>21. CASE UNCHANGED vars
  BY <1>21 DEF vars
<1> QED
  BY <1>1, <1>2, <1>3, <1>4, <1>5, <1>6, <1>7, <1>8, <1>9, <1>10, <1>11,
     <1>12, <1>13, <1>14, <1>15, <1>16, <1>17, <1>18, <1>19, <1>20, <1>21
     DEF Next, Worker, Stopper, Backend, Role

\* IInv is an invariant of the run.
LEMMA Inductive ==
  Spec => []IInv
<1>1. Init => IInv
  <2> SUFFICES ASSUME Init PROVE IInv
    OBVIOUS
  <2> USE RoleThreadsAssumption DEF Init, Stoppers, Servers, NoServer, Nobody
  <2>1. TypeOK
    <3>1. 0 \in 0 .. MaxRounds /\ MaxRounds + 1 \in Nat
      OBVIOUS
    <3> QED
      BY <3>1 DEF TypeOK
  <2>2. ThreadInv /\ StopInv
    BY DEF ThreadInv, StopInv, AllRoles, Roles, Over, Before, GoesOn
  <2>3. ServerInv
    BY DEF ServerInv
  <2>4. EndpointInv
    BY DEF EndpointInv, AllRoles
  <2> QED
    BY <2>1, <2>2, <2>3, <2>4 DEF IInv
<1>2. IInv /\ [Next]_vars => IInv'
  BY TypeStep, ThreadStep, StopStep, ServerStep, EndpointStep DEF IInv
<1> QED
  BY <1>1, <1>2, PTL DEF Spec

\* The gate sees only roles that are through without an error, and a round
\* starts only when no thread of an earlier one is at work (_execute).
THEOREM GateAlwaysSeesFinishedRoles ==
  Spec => []GateSeesFinishedRoles
<1>1. IInv => GateSeesFinishedRoles
  BY RoleThreadsAssumption
     DEF IInv, TypeOK, ThreadInv, GoesOn, Roles, AllRoles, Over,
         GateSeesFinishedRoles, Before
<1> QED
  BY <1>1, Inductive, PTL

\* No server outlives a run unless it is parked, and nothing else is parked
\* (_drive, _keep_replay_server, _stop_server).
THEOREM NothingEverLeaks ==
  Spec => []NothingLeaks
<1>1. IInv => NothingLeaks
  BY DEF IInv, ServerInv, NothingLeaks, Quiet
<1> QED
  BY <1>1, Inductive, PTL

\* The gate judges what its round has published, and unless it has ended by
\* itself or the daemon has stopped it, the server of the round still runs then
\* (_execute, _finalize).
THEOREM JudgedEndpointIsAlwaysOwn ==
  Spec => []JudgedEndpointIsOwn
<1>1. IInv => JudgedEndpointIsOwn
  BY RoleThreadsAssumption
     DEF IInv, TypeOK, ThreadInv, EndpointInv, GoesOn, Roles, AllRoles,
         Started, Told, JudgedEndpointIsOwn
<1> QED
  BY <1>1, Inductive, PTL
===========================================================================
