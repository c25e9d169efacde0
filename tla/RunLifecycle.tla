--------------------------- MODULE RunLifecycle ---------------------------
(***************************************************************************)
(* The life of the runs of one Engine (orchestrator/engine.py): submit     *)
(* registers a run and starts its worker thread, the worker (_drive) takes *)
(* it through admission, hydration, pre-flight and up to MaxIterations     *)
(* rounds of agent execution and finalization, and the reconcile daemon    *)
(* strands runs it finds non-terminal for too long.  Worker and daemon     *)
(* share the Run object: the daemon writes the status by compare-and-swap  *)
(* (Run.transition), the worker by plain assignment.                       *)
(*                                                                         *)
(* A step of a worker ends where another thread can see or change what it  *)
(* shares: between the write of a status and the next read of one.  The    *)
(* role threads, the compose lease, the pull request and the server        *)
(* processes are other modules; here the agent phase and the review only   *)
(* have outcomes.                                                          *)
(***************************************************************************)
EXTENDS Naturals, Sequences, FiniteSets

CONSTANTS
  Runs,            \* the runs that may be submitted
  MaxConcurrent,   \* Engine.max_concurrent
  MaxIterations,   \* 1 + reviewer.MAX_REVIEW_ROUNDS
  StrandedAfter,   \* STRANDED_AFTER_S, in ticks of the clock
  ExecBudget       \* AGENT_EXECUTION_TIMEOUT_S, in ticks of the clock

ASSUME ConstantsAssumption ==
  /\ IsFiniteSet(Runs)
  /\ MaxConcurrent \in Nat \ {0}
  /\ MaxIterations \in Nat \ {0}
  /\ StrandedAfter \in Nat
  /\ ExecBudget \in Nat

VARIABLES
  pc,          \* pc[r]: where the worker thread of run r is
  status,      \* run.status, or "none" before submit
  reason,      \* run.fail_reason, by class
  iterations,  \* run.iterations
  gate,        \* run.gate: the acceptance gate of the last round that ran it
  review,      \* run.review: the round it judged and whether it is an LGTM
  age,         \* time since submit (run._t0), saturated at StrandedAfter
  elapsed,     \* time since the agent phase began, saturated at ExecBudget
  rows,        \* rows[r]: the statuses of the ledger rows of run r, in order
  unlogged,    \* history: the runs of which a row could not be written
  sweep,       \* what the reconcile daemon is doing to run r
  swept        \* history: the daemon has stranded run r at least once

vars == <<pc, status, reason, iterations, gate, review, age, elapsed, rows,
          unlogged, sweep, swept>>

---------------------------------------------------------------------------
Active   == {"queued", "running"}
Terminal == {"passed", "failed", "needs_human"}

\* The reasons the worker tells apart.  "REJECTED" stands for every member
\* of PERMANENT_FAIL_REASONS, "TRANSIENT" for RUNTIME_NOT_WIRED,
\* SKILL_STAGING_FAILED, ROLE_EXECUTION_ERROR, ROLE_TOTAL_FAILURE and
\* ENGINE_ERROR.
Reasons == {"none", "REJECTED", "TRANSIENT", "CONCURRENCY_LIMIT",
            "ITERATION_CAP", "ENGINE_STALL", "STRANDED_NO_PROGRESS"}

IsPermanent(why) == why = "REJECTED"

Stages == {"idle", "lost", "admission", "routing", "limit", "hydration",
           "hydrating", "preflight", "round", "agents", "gate", "assess",
           "verdict", "journal", "cleanup", "done"}

\* Past the admission check and not yet at a verdict: the stages in which
\* the worker itself expects the run to be active.
Admitted == {"hydration", "hydrating", "preflight", "round", "agents",
             "gate", "assess", "verdict"}

NoReview == [round |-> 0, lgtm |-> FALSE]

Init ==
  /\ pc         = [r \in Runs |-> "idle"]
  /\ status     = [r \in Runs |-> "none"]
  /\ reason     = [r \in Runs |-> "none"]
  /\ iterations = [r \in Runs |-> 0]
  /\ gate       = [r \in Runs |-> "none"]
  /\ review     = [r \in Runs |-> NoReview]
  /\ age        = [r \in Runs |-> 0]
  /\ elapsed    = [r \in Runs |-> 0]
  /\ rows       = [r \in Runs |-> <<>>]
  /\ unlogged   = {}
  /\ sweep      = [r \in Runs |-> "no"]
  /\ swept      = [r \in Runs |-> FALSE]

\* The worker of r moves from one stage to the next.
Goto(r, from, to) ==
  /\ pc[r] = from
  /\ pc' = [pc EXCEPT ![r] = to]

SetStatus(r, s) == status' = [status EXCEPT ![r] = s]

\* run.status, run.fail_reason = "failed", why
Fail(r, why) ==
  /\ SetStatus(r, "failed")
  /\ reason' = [reason EXCEPT ![r] = why]

---------------------------------------------------------------------------
\* Submission.

\* Engine.submit: the run is registered as queued and its thread starts.
Submit(r) ==
  /\ Goto(r, "idle", "admission")
  /\ SetStatus(r, "queued")
  /\ UNCHANGED <<reason, iterations, gate, review, age, elapsed, rows, unlogged, sweep, swept>>

\* Engine.submit when the thread cannot be started: the run is registered
\* already, and no worker will ever write its status.
SubmitNoThread(r) ==
  /\ Goto(r, "idle", "lost")
  /\ SetStatus(r, "queued")
  /\ UNCHANGED <<reason, iterations, gate, review, age, elapsed, rows, unlogged, sweep, swept>>

---------------------------------------------------------------------------
\* Engine._admission.

StartAdmission(r) ==
  /\ Goto(r, "admission", "routing")
  /\ SetStatus(r, "queued")
  /\ UNCHANGED <<reason, iterations, gate, review, age, elapsed, rows, unlogged, sweep, swept>>

\* An empty task, a task no route serves, an unknown workflow or agent.
RejectTask(r) ==
  /\ Goto(r, "routing", "cleanup")
  /\ Fail(r, "REJECTED")
  /\ UNCHANGED <<iterations, gate, review, age, elapsed, rows, unlogged, sweep, swept>>

\* Mutant of ActiveCount: a queued run holds no slot.
RunningCount(r) == Cardinality({q \in Runs \ {r} : status[q] = "running"})

\* Engine.active_count(exclude): recomputed from the runs, under the lock.
ActiveCount(r) == Cardinality({q \in Runs \ {r} : status[q] \in Active})

CheckCapacity(r) ==
  /\ Goto(r, "routing",
          IF ActiveCount(r) >= MaxConcurrent THEN "limit" ELSE "hydration")
  /\ UNCHANGED <<status, reason, iterations, gate, review, age, elapsed, rows, unlogged,
                 sweep, swept>>

\* The rejection is written after the lock of active_count is released.
RejectLimit(r) ==
  /\ Goto(r, "limit", "cleanup")
  /\ Fail(r, "CONCURRENCY_LIMIT")
  /\ UNCHANGED <<iterations, gate, review, age, elapsed, rows, unlogged, sweep, swept>>

---------------------------------------------------------------------------
\* Engine._hydrate and Engine._preflight.

StartHydration(r) ==
  /\ Goto(r, "hydration", "hydrating")
  /\ SetStatus(r, "running")
  /\ UNCHANGED <<reason, iterations, gate, review, age, elapsed, rows, unlogged, sweep, swept>>

\* A missing harness file is permanent, a failed upload to S3 is not.
HydrationFails(r) ==
  /\ Goto(r, "hydrating", "cleanup")
  /\ \E why \in {"REJECTED", "TRANSIENT"} : Fail(r, why)
  /\ UNCHANGED <<iterations, gate, review, age, elapsed, rows, unlogged, sweep, swept>>

HydrationDone(r) ==
  /\ Goto(r, "hydrating", "preflight")
  /\ UNCHANGED <<status, reason, iterations, gate, review, age, elapsed, rows, unlogged,
                 sweep, swept>>

\* No contract, import, harness or run to review (permanent); a role with
\* no runtime wired (transient).
PreflightFails(r) ==
  /\ Goto(r, "preflight", "cleanup")
  /\ \E why \in {"REJECTED", "TRANSIENT"} : Fail(r, why)
  /\ UNCHANGED <<iterations, gate, review, age, elapsed, rows, unlogged, sweep, swept>>

PreflightGreen(r) ==
  /\ Goto(r, "preflight", "round")
  /\ UNCHANGED <<status, reason, iterations, gate, review, age, elapsed, rows, unlogged,
                 sweep, swept>>

---------------------------------------------------------------------------
\* Engine._execute, with the role threads reduced to how they end.

StartRound(r) ==
  /\ Goto(r, "round", "agents")
  /\ iterations' = [iterations EXCEPT ![r] = @ + 1]
  /\ SetStatus(r, "running")
  /\ elapsed' = [elapsed EXCEPT ![r] = 0]
  /\ UNCHANGED <<reason, gate, review, age, rows, unlogged, sweep, swept>>

\* Every routed role ended without an error.
RolesSucceed(r) ==
  /\ Goto(r, "agents", "gate")
  /\ UNCHANGED <<status, reason, iterations, gate, review, age, elapsed, rows, unlogged,
                 sweep, swept>>

\* A routed role raised; or, in a review run, the target has gone.
RolesFail(r) ==
  /\ Goto(r, "agents", "cleanup")
  /\ \E why \in {"REJECTED", "TRANSIENT"} : Fail(r, why)
  /\ UNCHANGED <<iterations, gate, review, age, elapsed, rows, unlogged, sweep, swept>>

\* The joins time out and the watchdog counts the roles still working as
\* failed.
PhaseDeadline(r) ==
  /\ Goto(r, "agents", "cleanup")
  /\ elapsed[r] >= ExecBudget
  /\ Fail(r, "TRANSIENT")
  /\ UNCHANGED <<iterations, gate, review, age, elapsed, rows, unlogged, sweep, swept>>

---------------------------------------------------------------------------
\* Engine._finalize.

\* reviewer.run_gate; a red gate is its own review, with no judge.
GateRed(r) ==
  /\ Goto(r, "gate", "verdict")
  /\ gate' = [gate EXCEPT ![r] = "red"]
  /\ review' = [review EXCEPT ![r] = [round |-> iterations[r], lgtm |-> FALSE]]
  /\ UNCHANGED <<status, reason, iterations, age, elapsed, rows, unlogged, sweep, swept>>

GateGreen(r) ==
  /\ Goto(r, "gate", "assess")
  /\ gate' = [gate EXCEPT ![r] = "green"]
  /\ UNCHANGED <<status, reason, iterations, review, age, elapsed, rows, unlogged, sweep, swept>>

\* reviewer.assess on a green gate: the judge decides, or abstains and the
\* gate stands as the verdict.
Assess(r) ==
  /\ Goto(r, "assess", "verdict")
  /\ \E lgtm \in BOOLEAN :
       review' = [review EXCEPT ![r] = [round |-> iterations[r], lgtm |-> lgtm]]
  /\ UNCHANGED <<status, reason, iterations, gate, age, elapsed, rows, unlogged, sweep, swept>>

\* Mutant of Pass: the verdict is the end of the review, not its LGTM.
PassUnreviewed(r) ==
  /\ Goto(r, "verdict", "journal")
  /\ SetStatus(r, "passed")
  /\ UNCHANGED <<reason, iterations, gate, review, age, elapsed, rows, unlogged, sweep, swept>>

Pass(r) ==
  /\ Goto(r, "verdict", "journal")
  /\ review[r].lgtm
  /\ SetStatus(r, "passed")
  /\ UNCHANGED <<reason, iterations, gate, review, age, elapsed, rows, unlogged, sweep, swept>>

\* Mutant of HandToHuman: the status is left to the safety net of _drive.
HandToHumanLate(r) ==
  /\ Goto(r, "verdict", "journal")
  /\ ~review[r].lgtm
  /\ iterations[r] >= MaxIterations
  /\ reason' = [reason EXCEPT ![r] = "ITERATION_CAP"]
  /\ UNCHANGED <<status, iterations, gate, review, age, elapsed, rows, unlogged, sweep, swept>>

HandToHuman(r) ==
  /\ Goto(r, "verdict", "journal")
  /\ ~review[r].lgtm
  /\ iterations[r] >= MaxIterations
  /\ SetStatus(r, "needs_human")
  /\ reason' = [reason EXCEPT ![r] = "ITERATION_CAP"]
  /\ UNCHANGED <<iterations, gate, review, age, elapsed, rows, unlogged, sweep, swept>>

\* Mutant of Iterate: an approved run goes round again.
IterateApproved(r) ==
  /\ Goto(r, "verdict", "round")
  /\ iterations[r] < MaxIterations
  /\ UNCHANGED <<status, reason, iterations, gate, review, age, elapsed, rows, unlogged,
                 sweep, swept>>

Iterate(r) ==
  /\ Goto(r, "verdict", "round")
  /\ ~review[r].lgtm
  /\ iterations[r] < MaxIterations
  /\ UNCHANGED <<status, reason, iterations, gate, review, age, elapsed, rows, unlogged,
                 sweep, swept>>

\* Engine._ledger: the row holds the status the run has when it is written;
\* an OSError is logged and the run goes on without the row.
AppendRow(r) ==
  \/ /\ rows' = [rows EXCEPT ![r] = Append(@, status[r])]
     /\ UNCHANGED unlogged
  \/ /\ unlogged' = unlogged \cup {r}
     /\ UNCHANGED rows

WriteLedger(r) ==
  /\ Goto(r, "journal", "cleanup")
  /\ AppendRow(r)
  /\ UNCHANGED <<status, reason, iterations, gate, review, age, elapsed, sweep, swept>>

---------------------------------------------------------------------------
\* The except and finally clauses of Engine._drive.

\* An exception in hydration, in the agent phase outside a role thread, in
\* the gate (its 90 s timeout), while publishing, or in _ledger before the
\* row is written (no name for the user).
EngineError(r) ==
  /\ pc[r] \in {"hydrating", "agents", "gate", "assess", "journal"}
  /\ pc' = [pc EXCEPT ![r] = "cleanup"]
  /\ Fail(r, "TRANSIENT")
  /\ UNCHANGED <<iterations, gate, review, age, elapsed, rows, unlogged, sweep, swept>>

\* The safety net: a run still active is a stall.
Settled(r) == IF status[r] \in Active THEN "failed" ELSE status[r]

SettledReason(r) ==
  IF status[r] \in Active /\ reason[r] = "none" THEN "ENGINE_STALL" ELSE reason[r]

\* Mutant of Regraded: a rejection for want of a slot counts as permanent.
RegradedTransient(s, why) ==
  IF s = "failed" /\ why \notin {"REJECTED", "CONCURRENCY_LIMIT"}
  THEN "needs_human" ELSE s

\* The two-bucket model: a failure that is not permanent is for a human.
Regraded(s, why) ==
  IF s = "failed" /\ ~IsPermanent(why) THEN "needs_human" ELSE s

Finish(r) ==
  /\ Goto(r, "cleanup", "done")
  /\ SetStatus(r, Regraded(Settled(r), SettledReason(r)))
  /\ reason' = [reason EXCEPT ![r] = SettledReason(r)]
  /\ UNCHANGED <<iterations, gate, review, age, elapsed, rows, unlogged, sweep, swept>>

---------------------------------------------------------------------------
\* Engine.reconcile, run every 60 s by connection_api._reconcile_loop.  One
\* daemon thread walks the runs, so it is busy with one run at a time.

\* Mutant of Strand: the status is not compared before it is swapped.
StrandAnyway(r) ==
  /\ \A q \in Runs : sweep[q] = "no"
  /\ pc[r] # "idle"
  /\ age[r] >= StrandedAfter
  /\ SetStatus(r, "needs_human")
  /\ reason' = [reason EXCEPT ![r] = "STRANDED_NO_PROGRESS"]
  /\ sweep' = [sweep EXCEPT ![r] = "stopping"]
  /\ swept' = [swept EXCEPT ![r] = TRUE]
  /\ UNCHANGED <<pc, iterations, gate, review, age, elapsed, rows, unlogged>>

\* Mutant of Strand: a queued run is not looked at.
StrandRunning(r) ==
  /\ \A q \in Runs : sweep[q] = "no"
  /\ status[r] = "running"
  /\ age[r] >= StrandedAfter
  /\ SetStatus(r, "needs_human")
  /\ reason' = [reason EXCEPT ![r] = "STRANDED_NO_PROGRESS"]
  /\ sweep' = [sweep EXCEPT ![r] = "stopping"]
  /\ swept' = [swept EXCEPT ![r] = TRUE]
  /\ UNCHANGED <<pc, iterations, gate, review, age, elapsed, rows, unlogged>>

\* Run.transition("needs_human", "queued", "running"): the compare-and-swap.
\* CPython switches threads at calls and backward jumps; there is none between
\* the test of the status and its assignment, so the swap is one step also
\* against a worker that takes no lock.
Strand(r) ==
  /\ \A q \in Runs : sweep[q] = "no"
  /\ status[r] \in Active
  /\ age[r] >= StrandedAfter
  /\ SetStatus(r, "needs_human")
  /\ reason' = [reason EXCEPT ![r] = "STRANDED_NO_PROGRESS"]
  /\ sweep' = [sweep EXCEPT ![r] = "stopping"]
  /\ swept' = [swept EXCEPT ![r] = TRUE]
  /\ UNCHANGED <<pc, iterations, gate, review, age, elapsed, rows, unlogged>>

\* The row is written once the run's server has been stopped, which may
\* take seconds.
StrandLedger(r) ==
  /\ sweep[r] = "stopping"
  /\ sweep' = [sweep EXCEPT ![r] = "no"]
  /\ AppendRow(r)
  /\ UNCHANGED <<pc, status, reason, iterations, gate, review, age, elapsed, swept>>

---------------------------------------------------------------------------
\* Time passes for every run alike.
Later(clock, limit) == IF clock < limit THEN clock + 1 ELSE clock

Tick ==
  /\ age' = [r \in Runs |-> IF pc[r] = "idle" THEN age[r]
                            ELSE Later(age[r], StrandedAfter)]
  /\ elapsed' = [r \in Runs |-> IF pc[r] # "agents" THEN elapsed[r]
                                ELSE Later(elapsed[r], ExecBudget)]
  /\ <<age', elapsed'>> # <<age, elapsed>>
  /\ UNCHANGED <<pc, status, reason, iterations, gate, review, rows, unlogged, sweep, swept>>

---------------------------------------------------------------------------
\* What the worker thread does by itself, whatever its surroundings do.
Worker(r) ==
  \/ StartAdmission(r) \/ RejectTask(r) \/ CheckCapacity(r) \/ RejectLimit(r)
  \/ StartHydration(r) \/ HydrationFails(r) \/ HydrationDone(r)
  \/ PreflightFails(r) \/ PreflightGreen(r)
  \/ StartRound(r) \/ PhaseDeadline(r)
  \/ GateRed(r) \/ GateGreen(r) \/ Assess(r)
  \/ Pass(r) \/ HandToHuman(r) \/ Iterate(r)
  \/ WriteLedger(r) \/ Finish(r)

\* What happens to it: the roles end, an exception is raised.
Surroundings(r) == RolesSucceed(r) \/ RolesFail(r) \/ EngineError(r)

Reconciler(r) == Strand(r) \/ StrandLedger(r)

Next ==
  \/ \E r \in Runs : \/ Submit(r) \/ SubmitNoThread(r)
                     \/ Worker(r) \/ Surroundings(r) \/ Reconciler(r)
  \/ Tick

Spec == Init /\ [][Next]_vars

\* Worker threads are scheduled and every call one makes has a timeout; the
\* daemon wakes every 60 s; time passes.  Nothing is assumed of the roles.
Fairness ==
  /\ \A r \in Runs : /\ WF_vars(Worker(r))
                     /\ WF_vars(Strand(r))
                     /\ WF_vars(StrandLedger(r))
  /\ WF_vars(Tick)

FairSpec == Spec /\ Fairness

---------------------------------------------------------------------------
\* Properties.

\* Every variable keeps its type: a status of the contract, at most
\* MaxIterations rounds, clocks within their bounds.
TypeOK ==
  /\ pc \in [Runs -> Stages]
  /\ status \in [Runs -> {"none"} \cup Active \cup Terminal]
  /\ reason \in [Runs -> Reasons]
  /\ iterations \in [Runs -> 0 .. MaxIterations]
  /\ gate \in [Runs -> {"none", "green", "red"}]
  /\ review \in [Runs -> [round : 0 .. MaxIterations, lgtm : BOOLEAN]]
  /\ age \in [Runs -> 0 .. StrandedAfter]
  /\ elapsed \in [Runs -> 0 .. ExecBudget]
  /\ rows \in [Runs -> Seq({"none"} \cup Active \cup Terminal)]
  /\ unlogged \subseteq Runs
  /\ sweep \in [Runs -> {"no", "stopping"}]
  /\ swept \in [Runs -> BOOLEAN]

\* The runs that hold an admission: past the check of _admission, and not
\* given up by the daemon.
InFlight == {r \in Runs : pc[r] \in Admitted /\ ~swept[r]}

\* However many admissions race, no more than max_concurrent admitted runs
\* are in flight: the check and the slot it grants are two steps, the count
\* covers queued runs so that none slips in between (_admission).
AdmissionCap == Cardinality(InFlight) <= MaxConcurrent

\* A run is passed only on the work of its last round: that round's gate was
\* green and that round's review gave the LGTM (_finalize), whatever earlier
\* rounds and the daemon left behind.
PassedIsEarned ==
  \A r \in Runs : status[r] = "passed" =>
    /\ gate[r] = "green"
    /\ review[r] = [round |-> iterations[r], lgtm |-> TRUE]

\* When the worker is done and the daemon never took the run, the ledger has
\* exactly one row for a run that reached a verdict, with the status the run
\* ends with, and none for a run that failed on the way.  The one exception
\* is a row that could not be written: it is missing for good, whatever the
\* verdict was (_ledger, _drive).
LedgerMatchesOutcome ==
  \A r \in Runs : pc[r] = "done" /\ ~swept[r] =>
    LET verdict == status[r] = "passed" \/ reason[r] = "ITERATION_CAP"
    IN  rows[r] = IF verdict /\ r \notin unlogged THEN <<status[r]>> ELSE <<>>

\* The two-bucket model of _drive: a run that is over and not passed is
\* failed when its reason is permanent and needs_human otherwise, whoever
\* wrote the reason last.
BucketMatchesReason ==
  \A r \in Runs : pc[r] = "done" =>
    /\ status[r] \in Terminal
    /\ status[r] = "failed" <=> IsPermanent(reason[r])

NewRoundsAreReviewed ==
  \A r \in Runs : iterations'[r] # iterations[r] =>
    /\ iterations'[r] = iterations[r] + 1
    /\ iterations[r] # 0 => review[r] = [round |-> iterations[r], lgtm |-> FALSE]

\* Another round is never started but on a review of the round before it
\* that asked for changes, and never after an LGTM (_drive, _finalize).
RoundsAreReviewed == [][NewRoundsAreReviewed]_vars

---------------------------------------------------------------------------
\* What became of a run: its status, once no worker thread can write it any
\* more.
outcome ==
  [r \in Runs |->
     CASE pc[r] = "idle" -> "none"
       [] pc[r] = "done" -> status[r]
       [] pc[r] = "lost" /\ status[r] \in Terminal -> status[r]
       [] OTHER -> "open"]

Promise == INSTANCE RunOutcome

\* The engine implements RunOutcome: once the worker is done, neither it nor
\* the daemon moves the run again, and no run leaves its outcome (_drive,
\* Run.transition).
SettlesOnce == Promise!Safety

\* Every submitted run settles, also one whose thread never started and one
\* whose roles hang (_drive, reconcile).
EveryRunSettles == Promise!EverySettles
===========================================================================
