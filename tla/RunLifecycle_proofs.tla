----------------------- MODULE RunLifecycle_proofs -----------------------
(***************************************************************************)
(* Theorems about RunLifecycle for every set of runs and every bound: type *)
(* correctness, the admission cap, what a passed run has earned, the       *)
(* ledger, the two buckets, and that the engine implements RunOutcome.     *)
(* All follow from one inductive invariant, IInv, whose conjuncts say what *)
(* holds of a run at each stage of its worker.                             *)
(***************************************************************************)
EXTENDS RunLifecycle, TLAPS, FiniteSetTheorems

\* Before the first round.
Early == {"idle", "lost", "admission", "routing", "limit", "hydration",
          "hydrating", "preflight"}

\* After the verdict, or after giving up.
Late == {"journal", "cleanup", "done"}

\* A run has a status from submit on, and a terminal one once it is over.
StatusInv ==
  \A r \in Runs :
    /\ (status[r] = "none") <=> (pc[r] = "idle")
    /\ pc[r] = "done" => status[r] \in Terminal
    /\ pc[r] \in Admitted \cup {"admission", "routing"} /\ ~swept[r] =>
         status[r] \in Active

\* Where the worker stands in its rounds.
RoundOK(r) ==
  /\ pc[r] \in Early => iterations[r] = 0
  /\ pc[r] = "round" =>
       /\ iterations[r] < MaxIterations
       /\ iterations[r] # 0 => review[r] = [round |-> iterations[r], lgtm |-> FALSE]
  /\ pc[r] = "assess" \/ (pc[r] = "verdict" /\ review[r].lgtm) => gate[r] = "green"
  /\ pc[r] = "verdict" => review[r].round = iterations[r]
  /\ status[r] = "passed" =>
       /\ pc[r] \in Late
       /\ gate[r] = "green"
       /\ review[r] = [round |-> iterations[r], lgtm |-> TRUE]

RoundInv == \A r \in Runs : RoundOK(r)

\* A permanent reason, and only a failure of the worker, makes a run failed.
ReasonInv ==
  \A r \in Runs :
    /\ status[r] = "failed" => pc[r] \in {"cleanup", "done"}
    /\ reason[r] = "REJECTED" => status[r] = "failed"
    /\ pc[r] = "done" /\ status[r] = "failed" => reason[r] = "REJECTED"

\* The row of a run the daemon never took is written, or fails to be, on the
\* way from the verdict to the cleanup.
LedgerOK(r) ==
  /\ sweep[r] = "stopping" => swept[r]
  /\ ~swept[r] =>
       /\ pc[r] \notin {"cleanup", "done"} => rows[r] = <<>> /\ r \notin unlogged
       /\ pc[r] = "journal" =>
            \/ status[r] = "passed"
            \/ status[r] = "needs_human" /\ reason[r] = "ITERATION_CAP"
       /\ reason[r] = "ITERATION_CAP" => pc[r] \in Late /\ status[r] = "needs_human"
       /\ pc[r] \in {"cleanup", "done"} =>
            LET verdict == status[r] = "passed" \/ reason[r] = "ITERATION_CAP"
            IN  rows[r] = IF verdict /\ r \notin unlogged
                          THEN <<status[r]>> ELSE <<>>

LedgerInv == \A r \in Runs : LedgerOK(r)

IInv == TypeOK /\ StatusInv /\ RoundInv /\ ReasonInv /\ LedgerInv
---------------------------------------------------------------------------
\* The ledger keeps its type whether the row is written or not.
LEMMA RowTyped ==
  ASSUME TypeOK, NEW r \in Runs, AppendRow(r)
  PROVE  /\ rows' \in [Runs -> Seq({"none"} \cup Active \cup Terminal)]
         /\ unlogged' \subseteq Runs
<1> USE DEF TypeOK
<1>1. CASE rows' = [rows EXCEPT ![r] = Append(@, status[r])] /\ UNCHANGED unlogged
  <2>1. rows[r] \in Seq({"none"} \cup Active \cup Terminal)
    OBVIOUS
  <2>2. Append(rows[r], status[r]) \in Seq({"none"} \cup Active \cup Terminal)
    BY <2>1
  <2> QED
    BY <1>1, <2>2
<1>2. CASE unlogged' = unlogged \cup {r} /\ UNCHANGED rows
  BY <1>2
<1> QED
  BY <1>1, <1>2 DEF AppendRow

\* A step keeps the types; the bound on the rounds needs what RoundInv says
\* of a worker about to start one.
LEMMA TypeStep ==
  IInv /\ [Next]_vars => TypeOK'
<1> SUFFICES ASSUME IInv, [Next]_vars PROVE TypeOK'
  OBVIOUS
<1> USE ConstantsAssumption DEF IInv, TypeOK, RoundInv, RoundOK, Stages, Reasons, Active, Terminal, Early
<1>1. CASE \E r \in Runs : Submit(r)
  BY <1>1 DEF Submit, Goto, SetStatus
<1>2. CASE \E r \in Runs : SubmitNoThread(r)
  BY <1>2 DEF SubmitNoThread, Goto, SetStatus
<1>3. CASE \E r \in Runs : StartAdmission(r)
  BY <1>3 DEF StartAdmission, Goto, SetStatus
<1>4. CASE \E r \in Runs : RejectTask(r)
  BY <1>4 DEF RejectTask, Goto, Fail, SetStatus
<1>5. CASE \E r \in Runs : CheckCapacity(r)
  BY <1>5 DEF CheckCapacity, Goto
<1>6. CASE \E r \in Runs : RejectLimit(r)
  BY <1>6 DEF RejectLimit, Goto, Fail, SetStatus
<1>7. CASE \E r \in Runs : StartHydration(r)
  BY <1>7 DEF StartHydration, Goto, SetStatus
<1>8. CASE \E r \in Runs : HydrationFails(r)
  BY <1>8 DEF HydrationFails, Goto, Fail, SetStatus
<1>9. CASE \E r \in Runs : HydrationDone(r)
  BY <1>9 DEF HydrationDone, Goto
<1>10. CASE \E r \in Runs : PreflightFails(r)
  BY <1>10 DEF PreflightFails, Goto, Fail, SetStatus
<1>11. CASE \E r \in Runs : PreflightGreen(r)
  BY <1>11 DEF PreflightGreen, Goto
<1>12. CASE \E r \in Runs : StartRound(r)
  BY <1>12 DEF StartRound, Goto, SetStatus
<1>13. CASE \E r \in Runs : PhaseDeadline(r)
  BY <1>13 DEF PhaseDeadline, Goto, Fail, SetStatus
<1>14. CASE \E r \in Runs : GateRed(r)
  BY <1>14 DEF GateRed, Goto
<1>15. CASE \E r \in Runs : GateGreen(r)
  BY <1>15 DEF GateGreen, Goto
<1>16. CASE \E r \in Runs : Assess(r)
  BY <1>16 DEF Assess, Goto
<1>17. CASE \E r \in Runs : Pass(r)
  BY <1>17 DEF Pass, Goto, SetStatus
<1>18. CASE \E r \in Runs : HandToHuman(r)
  BY <1>18 DEF HandToHuman, Goto, SetStatus
<1>19. CASE \E r \in Runs : Iterate(r)
  BY <1>19 DEF Iterate, Goto
<1>20. CASE \E r \in Runs : WriteLedger(r)
  <2>1. PICK r \in Runs : WriteLedger(r)
    BY <1>20
  <2>2. rows' \in [Runs -> Seq({"none"} \cup Active \cup Terminal)] /\ unlogged' \subseteq Runs
    BY <2>1, RowTyped DEF WriteLedger
  <2> QED
    BY <2>1, <2>2 DEF WriteLedger, Goto
<1>21. CASE \E r \in Runs : Finish(r)
  BY <1>21 DEF Finish, Goto, SetStatus, Settled, SettledReason, Regraded, IsPermanent
<1>22. CASE \E r \in Runs : RolesSucceed(r)
  BY <1>22 DEF RolesSucceed, Goto
<1>23. CASE \E r \in Runs : RolesFail(r)
  BY <1>23 DEF RolesFail, Goto, Fail, SetStatus
<1>24. CASE \E r \in Runs : EngineError(r)
  BY <1>24 DEF EngineError, Fail, SetStatus
<1>25. CASE \E r \in Runs : Strand(r)
  BY <1>25 DEF Strand, SetStatus
<1>26. CASE \E r \in Runs : StrandLedger(r)
  <2>1. PICK r \in Runs : StrandLedger(r)
    BY <1>26
  <2>2. rows' \in [Runs -> Seq({"none"} \cup Active \cup Terminal)] /\ unlogged' \subseteq Runs
    BY <2>1, RowTyped DEF StrandLedger
  <2> QED
    BY <2>1, <2>2 DEF StrandLedger
<1>27. CASE Tick
  <2>1. ASSUME NEW r \in Runs
        PROVE  /\ Later(age[r], StrandedAfter) \in 0 .. StrandedAfter
               /\ Later(elapsed[r], ExecBudget) \in 0 .. ExecBudget
    BY DEF Later
  <2>2. age' \in [Runs -> 0 .. StrandedAfter] /\ elapsed' \in [Runs -> 0 .. ExecBudget]
    BY <1>27, <2>1 DEF Tick
  <2> QED
    BY <1>27, <2>2 DEF Tick
<1>28. CASE UNCHANGED vars
  BY <1>28 DEF vars
<1> QED
  BY <1>1, <1>2, <1>3, <1>4, <1>5, <1>6, <1>7, <1>8, <1>9, <1>10, <1>11,
     <1>12, <1>13, <1>14, <1>15, <1>16, <1>17, <1>18, <1>19, <1>20, <1>21,
     <1>22, <1>23, <1>24, <1>25, <1>26, <1>27, <1>28
     DEF Next, Worker, Surroundings, Reconciler

\* A step keeps the status in accord with the stage: the daemon marks the
\* run it takes, so an unmarked one is still active.
LEMMA StatusStep ==
  IInv /\ [Next]_vars => StatusInv'
<1> SUFFICES ASSUME IInv, [Next]_vars PROVE StatusInv'
  OBVIOUS
<1> USE ConstantsAssumption DEF IInv, TypeOK, StatusInv, Stages, Active, Terminal, Admitted
<1>1. CASE \E r \in Runs : Submit(r)
  BY <1>1 DEF Submit, Goto, SetStatus
<1>2. CASE \E r \in Runs : SubmitNoThread(r)
  BY <1>2 DEF SubmitNoThread, Goto, SetStatus
<1>3. CASE \E r \in Runs : StartAdmission(r)
  BY <1>3 DEF StartAdmission, Goto, SetStatus
<1>4. CASE \E r \in Runs : RejectTask(r)
  BY <1>4 DEF RejectTask, Goto, Fail, SetStatus
<1>5. CASE \E r \in Runs : CheckCapacity(r)
  <2>1. PICK r \in Runs : CheckCapacity(r)
    BY <1>5
  <2>2. /\ pc[r] = "routing"
        /\ \/ pc' = [pc EXCEPT ![r] = "limit"]
           \/ pc' = [pc EXCEPT ![r] = "hydration"]
        /\ UNCHANGED <<status, swept>>
    BY <2>1, Zenon DEF CheckCapacity, Goto
  <2>3. ~swept[r] => status[r] \in Active
    BY <2>2
  <2> QED
    BY <2>2, <2>3
<1>6. CASE \E r \in Runs : RejectLimit(r)
  BY <1>6 DEF RejectLimit, Goto, Fail, SetStatus
<1>7. CASE \E r \in Runs : StartHydration(r)
  BY <1>7 DEF StartHydration, Goto, SetStatus
<1>8. CASE \E r \in Runs : HydrationFails(r)
  BY <1>8 DEF HydrationFails, Goto, Fail, SetStatus
<1>9. CASE \E r \in Runs : HydrationDone(r)
  BY <1>9 DEF HydrationDone, Goto
<1>10. CASE \E r \in Runs : PreflightFails(r)
  BY <1>10 DEF PreflightFails, Goto, Fail, SetStatus
<1>11. CASE \E r \in Runs : PreflightGreen(r)
  BY <1>11 DEF PreflightGreen, Goto
<1>12. CASE \E r \in Runs : StartRound(r)
  BY <1>12 DEF StartRound, Goto, SetStatus
<1>13. CASE \E r \in Runs : PhaseDeadline(r)
  BY <1>13 DEF PhaseDeadline, Goto, Fail, SetStatus
<1>14. CASE \E r \in Runs : GateRed(r)
  BY <1>14 DEF GateRed, Goto
<1>15. CASE \E r \in Runs : GateGreen(r)
  BY <1>15 DEF GateGreen, Goto
<1>16. CASE \E r \in Runs : Assess(r)
  BY <1>16 DEF Assess, Goto
<1>17. CASE \E r \in Runs : Pass(r)
  BY <1>17 DEF Pass, Goto, SetStatus
<1>18. CASE \E r \in Runs : HandToHuman(r)
  BY <1>18 DEF HandToHuman, Goto, SetStatus
<1>19. CASE \E r \in Runs : Iterate(r)
  BY <1>19 DEF Iterate, Goto
<1>20. CASE \E r \in Runs : WriteLedger(r)
  BY <1>20 DEF WriteLedger, Goto, AppendRow
<1>21. CASE \E r \in Runs : Finish(r)
  BY <1>21 DEF Finish, Goto, SetStatus, Settled, SettledReason, Regraded, IsPermanent
<1>22. CASE \E r \in Runs : RolesSucceed(r)
  BY <1>22 DEF RolesSucceed, Goto
<1>23. CASE \E r \in Runs : RolesFail(r)
  BY <1>23 DEF RolesFail, Goto, Fail, SetStatus
<1>24. CASE \E r \in Runs : EngineError(r)
  BY <1>24 DEF EngineError, Fail, SetStatus
<1>25. CASE \E r \in Runs : Strand(r)
  BY <1>25 DEF Strand, SetStatus
<1>26. CASE \E r \in Runs : StrandLedger(r)
  BY <1>26 DEF StrandLedger, AppendRow
<1>27. CASE Tick
  BY <1>27 DEF Tick
<1>28. CASE UNCHANGED vars
  BY <1>28 DEF vars
<1> QED
  BY <1>1, <1>2, <1>3, <1>4, <1>5, <1>6, <1>7, <1>8, <1>9, <1>10, <1>11,
     <1>12, <1>13, <1>14, <1>15, <1>16, <1>17, <1>18, <1>19, <1>20, <1>21,
     <1>22, <1>23, <1>24, <1>25, <1>26, <1>27, <1>28
     DEF Next, Worker, Surroundings, Reconciler

\* A step keeps the verdict of a round tied to its gate and its review.
LEMMA RoundStep ==
  IInv /\ [Next]_vars => RoundInv'
<1> SUFFICES ASSUME IInv, [Next]_vars PROVE RoundInv'
  OBVIOUS
<1> USE ConstantsAssumption DEF IInv, TypeOK, StatusInv, RoundInv, RoundOK, NoReview, Active, Terminal, Early, Late
<1>1. CASE \E r \in Runs : Submit(r)
  BY <1>1 DEF Submit, Goto, SetStatus
<1>2. CASE \E r \in Runs : SubmitNoThread(r)
  BY <1>2 DEF SubmitNoThread, Goto, SetStatus
<1>3. CASE \E r \in Runs : StartAdmission(r)
  BY <1>3 DEF StartAdmission, Goto, SetStatus
<1>4. CASE \E r \in Runs : RejectTask(r)
  BY <1>4 DEF RejectTask, Goto, Fail, SetStatus
<1>5. CASE \E r \in Runs : CheckCapacity(r)
  BY <1>5 DEF CheckCapacity, Goto
<1>6. CASE \E r \in Runs : RejectLimit(r)
  BY <1>6 DEF RejectLimit, Goto, Fail, SetStatus
<1>7. CASE \E r \in Runs : StartHydration(r)
  BY <1>7 DEF StartHydration, Goto, SetStatus
<1>8. CASE \E r \in Runs : HydrationFails(r)
  BY <1>8 DEF HydrationFails, Goto, Fail, SetStatus
<1>9. CASE \E r \in Runs : HydrationDone(r)
  BY <1>9 DEF HydrationDone, Goto
<1>10. CASE \E r \in Runs : PreflightFails(r)
  BY <1>10 DEF PreflightFails, Goto, Fail, SetStatus
<1>11. CASE \E r \in Runs : PreflightGreen(r)
  BY <1>11 DEF PreflightGreen, Goto
<1>12. CASE \E r \in Runs : StartRound(r)
  BY <1>12 DEF StartRound, Goto, SetStatus
<1>13. CASE \E r \in Runs : PhaseDeadline(r)
  BY <1>13 DEF PhaseDeadline, Goto, Fail, SetStatus
<1>14. CASE \E r \in Runs : GateRed(r)
  <2>1. PICK r \in Runs : GateRed(r)
    BY <1>14
  <2>2. /\ review'[r] = [round |-> iterations[r], lgtm |-> FALSE]
        /\ \A q \in Runs \ {r} : review'[q] = review[q] /\ gate'[q] = gate[q]
    BY <2>1 DEF GateRed
  <2>3. status[r] # "passed"
    BY <2>1 DEF GateRed, Goto
  <2> QED
    <3>1. /\ pc[r] = "gate" /\ pc'[r] = "verdict"
          /\ \A q \in Runs \ {r} : pc'[q] = pc[q]
          /\ UNCHANGED <<status, iterations>>
      BY <2>1 DEF GateRed, Goto
    <3>2. review'[r].round = iterations[r] /\ review'[r].lgtm = FALSE
      BY <2>2
    <3>3. RoundOK(r)'
      BY <2>3, <3>1, <3>2
    <3>4. \A q \in Runs \ {r} : RoundOK(q)'
      <4> SUFFICES ASSUME NEW q \in Runs \ {r} PROVE RoundOK(q)'
        OBVIOUS
      <4>1. /\ pc'[q] = pc[q] /\ status'[q] = status[q] /\ gate'[q] = gate[q]
            /\ iterations'[q] = iterations[q] /\ review'[q] = review[q]
        BY <2>2, <3>1
      <4>2. RoundOK(q)
        OBVIOUS
      <4> QED
        BY <4>1, <4>2, Zenon
    <3> QED
      BY <3>3, <3>4
<1>15. CASE \E r \in Runs : GateGreen(r)
  BY <1>15 DEF GateGreen, Goto
<1>16. CASE \E r \in Runs : Assess(r)
  <2>1. PICK r \in Runs : Assess(r)
    BY <1>16
  <2>2. /\ review'[r].round = iterations[r]
        /\ \A q \in Runs \ {r} : review'[q] = review[q]
    BY <2>1 DEF Assess
  <2>3. status[r] # "passed" /\ gate[r] = "green"
    BY <2>1 DEF Assess, Goto
  <2> QED
    <3>1. /\ pc[r] = "assess" /\ pc'[r] = "verdict"
          /\ \A q \in Runs \ {r} : pc'[q] = pc[q]
          /\ UNCHANGED <<status, iterations, gate>>
      BY <2>1 DEF Assess, Goto
    <3>2. RoundOK(r)'
      BY <2>2, <2>3, <3>1
    <3>3. \A q \in Runs \ {r} : RoundOK(q)'
      <4> SUFFICES ASSUME NEW q \in Runs \ {r} PROVE RoundOK(q)'
        OBVIOUS
      <4>1. /\ pc'[q] = pc[q] /\ status'[q] = status[q] /\ gate'[q] = gate[q]
            /\ iterations'[q] = iterations[q] /\ review'[q] = review[q]
        BY <2>2, <3>1
      <4>2. RoundOK(q)
        OBVIOUS
      <4> QED
        BY <4>1, <4>2, Zenon
    <3> QED
      BY <3>2, <3>3
<1>17. CASE \E r \in Runs : Pass(r)
  BY <1>17 DEF Pass, Goto, SetStatus
<1>18. CASE \E r \in Runs : HandToHuman(r)
  BY <1>18 DEF HandToHuman, Goto, SetStatus
<1>19. CASE \E r \in Runs : Iterate(r)
  BY <1>19 DEF Iterate, Goto
<1>20. CASE \E r \in Runs : WriteLedger(r)
  BY <1>20 DEF WriteLedger, Goto, AppendRow
<1>21. CASE \E r \in Runs : Finish(r)
  BY <1>21 DEF Finish, Goto, SetStatus, Settled, SettledReason, Regraded, IsPermanent
<1>22. CASE \E r \in Runs : RolesSucceed(r)
  BY <1>22 DEF RolesSucceed, Goto
<1>23. CASE \E r \in Runs : RolesFail(r)
  BY <1>23 DEF RolesFail, Goto, Fail, SetStatus
<1>24. CASE \E r \in Runs : EngineError(r)
  BY <1>24 DEF EngineError, Fail, SetStatus
<1>25. CASE \E r \in Runs : Strand(r)
  BY <1>25 DEF Strand, SetStatus
<1>26. CASE \E r \in Runs : StrandLedger(r)
  BY <1>26 DEF StrandLedger, AppendRow
<1>27. CASE Tick
  BY <1>27 DEF Tick
<1>28. CASE UNCHANGED vars
  BY <1>28 DEF vars
<1> QED
  BY <1>1, <1>2, <1>3, <1>4, <1>5, <1>6, <1>7, <1>8, <1>9, <1>10, <1>11,
     <1>12, <1>13, <1>14, <1>15, <1>16, <1>17, <1>18, <1>19, <1>20, <1>21,
     <1>22, <1>23, <1>24, <1>25, <1>26, <1>27, <1>28
     DEF Next, Worker, Surroundings, Reconciler

\* A step keeps permanent reasons to failed runs and, once the run is over,
\* failed runs to permanent reasons.
LEMMA ReasonStep ==
  IInv /\ [Next]_vars => ReasonInv'
<1> SUFFICES ASSUME IInv, [Next]_vars PROVE ReasonInv'
  OBVIOUS
<1> USE ConstantsAssumption DEF IInv, TypeOK, StatusInv, ReasonInv, Active, Terminal, Stages
<1>1. CASE \E r \in Runs : Submit(r)
  BY <1>1 DEF Submit, Goto, SetStatus
<1>2. CASE \E r \in Runs : SubmitNoThread(r)
  BY <1>2 DEF SubmitNoThread, Goto, SetStatus
<1>3. CASE \E r \in Runs : StartAdmission(r)
  BY <1>3 DEF StartAdmission, Goto, SetStatus
<1>4. CASE \E r \in Runs : RejectTask(r)
  BY <1>4 DEF RejectTask, Goto, Fail, SetStatus
<1>5. CASE \E r \in Runs : CheckCapacity(r)
  BY <1>5 DEF CheckCapacity, Goto
<1>6. CASE \E r \in Runs : RejectLimit(r)
  BY <1>6 DEF RejectLimit, Goto, Fail, SetStatus
<1>7. CASE \E r \in Runs : StartHydration(r)
  BY <1>7 DEF StartHydration, Goto, SetStatus
<1>8. CASE \E r \in Runs : HydrationFails(r)
  BY <1>8 DEF HydrationFails, Goto, Fail, SetStatus
<1>9. CASE \E r \in Runs : HydrationDone(r)
  BY <1>9 DEF HydrationDone, Goto
<1>10. CASE \E r \in Runs : PreflightFails(r)
  BY <1>10 DEF PreflightFails, Goto, Fail, SetStatus
<1>11. CASE \E r \in Runs : PreflightGreen(r)
  BY <1>11 DEF PreflightGreen, Goto
<1>12. CASE \E r \in Runs : StartRound(r)
  BY <1>12 DEF StartRound, Goto, SetStatus
<1>13. CASE \E r \in Runs : PhaseDeadline(r)
  BY <1>13 DEF PhaseDeadline, Goto, Fail, SetStatus
<1>14. CASE \E r \in Runs : GateRed(r)
  BY <1>14 DEF GateRed, Goto
<1>15. CASE \E r \in Runs : GateGreen(r)
  BY <1>15 DEF GateGreen, Goto
<1>16. CASE \E r \in Runs : Assess(r)
  BY <1>16 DEF Assess, Goto
<1>17. CASE \E r \in Runs : Pass(r)
  BY <1>17 DEF Pass, Goto, SetStatus
<1>18. CASE \E r \in Runs : HandToHuman(r)
  BY <1>18 DEF HandToHuman, Goto, SetStatus
<1>19. CASE \E r \in Runs : Iterate(r)
  BY <1>19 DEF Iterate, Goto
<1>20. CASE \E r \in Runs : WriteLedger(r)
  BY <1>20 DEF WriteLedger, Goto, AppendRow
<1>21. CASE \E r \in Runs : Finish(r)
  BY <1>21 DEF Finish, Goto, SetStatus, Settled, SettledReason, Regraded, IsPermanent
<1>22. CASE \E r \in Runs : RolesSucceed(r)
  BY <1>22 DEF RolesSucceed, Goto
<1>23. CASE \E r \in Runs : RolesFail(r)
  BY <1>23 DEF RolesFail, Goto, Fail, SetStatus
<1>24. CASE \E r \in Runs : EngineError(r)
  BY <1>24 DEF EngineError, Fail, SetStatus
<1>25. CASE \E r \in Runs : Strand(r)
  BY <1>25 DEF Strand, SetStatus
<1>26. CASE \E r \in Runs : StrandLedger(r)
  BY <1>26 DEF StrandLedger, AppendRow
<1>27. CASE Tick
  BY <1>27 DEF Tick
<1>28. CASE UNCHANGED vars
  BY <1>28 DEF vars
<1> QED
  BY <1>1, <1>2, <1>3, <1>4, <1>5, <1>6, <1>7, <1>8, <1>9, <1>10, <1>11,
     <1>12, <1>13, <1>14, <1>15, <1>16, <1>17, <1>18, <1>19, <1>20, <1>21,
     <1>22, <1>23, <1>24, <1>25, <1>26, <1>27, <1>28
     DEF Next, Worker, Surroundings, Reconciler

\* A step keeps the rows of an unswept run in accord with its verdict.
LEMMA LedgerStep ==
  IInv /\ [Next]_vars => LedgerInv'
<1> SUFFICES ASSUME IInv, [Next]_vars PROVE LedgerInv'
  OBVIOUS
<1> USE ConstantsAssumption DEF IInv, TypeOK, StatusInv, RoundInv, RoundOK, ReasonInv, LedgerInv, LedgerOK, Stages, Active, Terminal, Late, Admitted
<1>1. CASE \E r \in Runs : Submit(r)
  BY <1>1 DEF Submit, Goto, SetStatus
<1>2. CASE \E r \in Runs : SubmitNoThread(r)
  BY <1>2 DEF SubmitNoThread, Goto, SetStatus
<1>3. CASE \E r \in Runs : StartAdmission(r)
  BY <1>3 DEF StartAdmission, Goto, SetStatus
<1>4. CASE \E r \in Runs : RejectTask(r)
  BY <1>4 DEF RejectTask, Goto, Fail, SetStatus
<1>5. CASE \E r \in Runs : CheckCapacity(r)
  BY <1>5 DEF CheckCapacity, Goto
<1>6. CASE \E r \in Runs : RejectLimit(r)
  BY <1>6 DEF RejectLimit, Goto, Fail, SetStatus
<1>7. CASE \E r \in Runs : StartHydration(r)
  BY <1>7 DEF StartHydration, Goto, SetStatus
<1>8. CASE \E r \in Runs : HydrationFails(r)
  BY <1>8 DEF HydrationFails, Goto, Fail, SetStatus
<1>9. CASE \E r \in Runs : HydrationDone(r)
  BY <1>9 DEF HydrationDone, Goto
<1>10. CASE \E r \in Runs : PreflightFails(r)
  BY <1>10 DEF PreflightFails, Goto, Fail, SetStatus
<1>11. CASE \E r \in Runs : PreflightGreen(r)
  BY <1>11 DEF PreflightGreen, Goto
<1>12. CASE \E r \in Runs : StartRound(r)
  BY <1>12 DEF StartRound, Goto, SetStatus
<1>13. CASE \E r \in Runs : PhaseDeadline(r)
  BY <1>13 DEF PhaseDeadline, Goto, Fail, SetStatus
<1>14. CASE \E r \in Runs : GateRed(r)
  BY <1>14 DEF GateRed, Goto
<1>15. CASE \E r \in Runs : GateGreen(r)
  BY <1>15 DEF GateGreen, Goto
<1>16. CASE \E r \in Runs : Assess(r)
  BY <1>16 DEF Assess, Goto
<1>17. CASE \E r \in Runs : Pass(r)
  BY <1>17 DEF Pass, Goto, SetStatus
<1>18. CASE \E r \in Runs : HandToHuman(r)
  BY <1>18 DEF HandToHuman, Goto, SetStatus
<1>19. CASE \E r \in Runs : Iterate(r)
  BY <1>19 DEF Iterate, Goto
<1>20. CASE \E r \in Runs : WriteLedger(r)
  <2>1. PICK r \in Runs : WriteLedger(r)
    BY <1>20
  <2>2. ~swept[r] => rows'[r] = IF r \notin unlogged' THEN <<status[r]>> ELSE <<>>
    <3>1. ~swept[r] => rows[r] = <<>> /\ r \notin unlogged
      BY <2>1 DEF WriteLedger, Goto
    <3>2. \/ rows'[r] = Append(rows[r], status[r]) /\ unlogged' = unlogged
          \/ rows'[r] = rows[r] /\ r \in unlogged'
      BY <2>1 DEF WriteLedger, AppendRow
    <3>3. Append(<<>>, status[r]) = <<status[r]>>
      OBVIOUS
    <3>4. CASE rows'[r] = Append(rows[r], status[r]) /\ unlogged' = unlogged
      BY <3>1, <3>3, <3>4
    <3>5. CASE rows'[r] = rows[r] /\ r \in unlogged'
      BY <3>1, <3>5
    <3> QED
      BY <3>2, <3>4, <3>5
  <2>3. \A q \in Runs : q # r =>
          /\ rows'[q] = rows[q] /\ pc'[q] = pc[q]
          /\ (q \in unlogged') <=> (q \in unlogged)
    BY <2>1 DEF WriteLedger, Goto, AppendRow
  <2>4. pc[r] = "journal" /\ pc'[r] = "cleanup"
    BY <2>1 DEF WriteLedger, Goto
  <2>5. UNCHANGED <<status, reason, sweep, swept>>
    BY <2>1 DEF WriteLedger
  <2>6. ~swept[r] =>
          \/ status[r] = "passed" /\ reason[r] # "ITERATION_CAP"
          \/ status[r] = "needs_human" /\ reason[r] = "ITERATION_CAP"
    BY <2>4
  <2>7. \A q \in Runs \ {r} : LedgerOK(q)'
    <3> SUFFICES ASSUME NEW q \in Runs, q # r PROVE LedgerOK(q)'
      OBVIOUS
    <3>1. LedgerOK(q)
      OBVIOUS
    <3> HIDE DEF IInv, TypeOK, StatusInv, RoundInv, RoundOK, ReasonInv, LedgerInv, LedgerOK
    <3>2. rows'[q] = rows[q] /\ pc'[q] = pc[q] /\ ((q \in unlogged') <=> (q \in unlogged))
      BY <2>3
    <3>3. /\ status'[q] = status[q] /\ reason'[q] = reason[q]
          /\ sweep'[q] = sweep[q] /\ swept'[q] = swept[q]
      BY <2>5
    <3> QED
      BY <3>1, <3>2, <3>3 DEF LedgerOK
  <2>8. LedgerOK(r)'
    <3>1. /\ sweep'[r] = "stopping" => swept'[r]
          /\ pc'[r] = "cleanup"
          /\ ~swept'[r] => ~swept[r]
          /\ reason'[r] = reason[r] /\ status'[r] = status[r]
      BY <2>4, <2>5
    <3>2. CASE swept[r]
      BY <3>1, <3>2, <2>5
    <3>3. CASE ~swept[r]
      <4>1. rows'[r] = IF r \notin unlogged' THEN <<status[r]>> ELSE <<>>
        BY <3>3, <2>2
      <4>2. \/ status'[r] = "passed" /\ reason'[r] # "ITERATION_CAP"
            \/ status'[r] = "needs_human" /\ reason'[r] = "ITERATION_CAP"
        BY <3>1, <3>3, <2>6
      <4> HIDE DEF IInv, TypeOK, StatusInv, RoundInv, RoundOK, ReasonInv, LedgerInv
      <4> QED
        BY <3>1, <4>1, <4>2
    <3> QED
      BY <3>2, <3>3
  <2> HIDE DEF LedgerOK
  <2>9. \A q \in Runs : LedgerOK(q)'
    BY <2>7, <2>8
  <2> QED
    BY <2>9, Zenon
<1>21. CASE \E r \in Runs : Finish(r)
  BY <1>21 DEF Finish, Goto, SetStatus, Settled, SettledReason, Regraded, IsPermanent
<1>22. CASE \E r \in Runs : RolesSucceed(r)
  BY <1>22 DEF RolesSucceed, Goto
<1>23. CASE \E r \in Runs : RolesFail(r)
  BY <1>23 DEF RolesFail, Goto, Fail, SetStatus
<1>24. CASE \E r \in Runs : EngineError(r)
  BY <1>24 DEF EngineError, Fail, SetStatus
<1>25. CASE \E r \in Runs : Strand(r)
  BY <1>25 DEF Strand, SetStatus
<1>26. CASE \E r \in Runs : StrandLedger(r)
  BY <1>26 DEF StrandLedger, AppendRow
<1>27. CASE Tick
  BY <1>27 DEF Tick
<1>28. CASE UNCHANGED vars
  BY <1>28 DEF vars
<1> QED
  BY <1>1, <1>2, <1>3, <1>4, <1>5, <1>6, <1>7, <1>8, <1>9, <1>10, <1>11,
     <1>12, <1>13, <1>14, <1>15, <1>16, <1>17, <1>18, <1>19, <1>20, <1>21,
     <1>22, <1>23, <1>24, <1>25, <1>26, <1>27, <1>28
     DEF Next, Worker, Surroundings, Reconciler

\* The initial state satisfies the inductive invariant.
LEMMA InitIInv ==
  Init => IInv
BY ConstantsAssumption
   DEF Init, IInv, TypeOK, StatusInv, RoundInv, RoundOK, ReasonInv, LedgerInv,
       LedgerOK, NoReview, Stages, Reasons, Early, Late, Admitted, Active, Terminal

\* IInv is an invariant of the engine.
LEMMA Inductive ==
  Spec => []IInv
<1>1. Init => IInv
  BY InitIInv
<1>2. IInv /\ [Next]_vars => IInv'
  BY TypeStep, StatusStep, RoundStep, ReasonStep, LedgerStep DEF IInv
<1> QED
  BY <1>1, <1>2, PTL DEF Spec

\* Type correctness: every variable of the engine keeps its type, whatever
\* the daemon does between two steps of a worker.
THEOREM TypeCorrect ==
  Spec => []TypeOK
<1>1. IInv => TypeOK
  BY DEF IInv
<1> QED
  BY <1>1, Inductive, PTL

\* A run is passed only on the work of its last round (_finalize).
THEOREM PassedIsAlwaysEarned ==
  Spec => []PassedIsEarned
<1>1. IInv => PassedIsEarned
  BY DEF IInv, RoundInv, RoundOK, PassedIsEarned
<1> QED
  BY <1>1, Inductive, PTL

\* The ledger agrees with the outcome of every run the daemon never took,
\* whatever rows could not be written (_ledger, _drive).
THEOREM LedgerAlwaysMatches ==
  Spec => []LedgerMatchesOutcome
<1>1. IInv => LedgerMatchesOutcome
  BY DEF IInv, LedgerInv, LedgerOK, LedgerMatchesOutcome
<1> QED
  BY <1>1, Inductive, PTL

\* The bucket of a run that is over agrees with its reason (_drive).
THEOREM BucketAlwaysMatches ==
  Spec => []BucketMatchesReason
<1>1. IInv => BucketMatchesReason
  BY DEF IInv, StatusInv, ReasonInv, BucketMatchesReason, IsPermanent
<1> QED
  BY <1>1, Inductive, PTL

---------------------------------------------------------------------------
\* A step that starts no admission lets no run into the set of runs in
\* flight; the one that does finds a free slot first (_admission).
LEMMA CapStep ==
  IInv /\ AdmissionCap /\ [Next]_vars => AdmissionCap'
<1> SUFFICES ASSUME IInv, AdmissionCap, [Next]_vars PROVE AdmissionCap'
  OBVIOUS
<1> USE ConstantsAssumption
<1>a. IsFiniteSet(InFlight) /\ Cardinality(InFlight) \in Nat
  BY FS_Subset, FS_CardinalityType DEF InFlight
<1>b. CASE InFlight' \subseteq InFlight
  BY <1>a, <1>b, FS_Subset, FS_CardinalityType DEF AdmissionCap
<1>1. CASE \E r \in Runs : CheckCapacity(r)
  <2>1. PICK r \in Runs : CheckCapacity(r)
    BY <1>1
  <2> DEFINE Others == {q \in Runs \ {r} : status[q] \in Active}
  <2>2. IsFiniteSet(Others) /\ Cardinality(Others) \in Nat
    BY FS_Subset, FS_CardinalityType
  <2>3. CASE ActiveCount(r) >= MaxConcurrent
    <3>1. InFlight' \subseteq InFlight
      BY <2>1, <2>3 DEF CheckCapacity, Goto, InFlight, Admitted, IInv, TypeOK
    <3> QED
      BY <3>1, <1>b
  <2>4. CASE ~(ActiveCount(r) >= MaxConcurrent)
    <3>1. InFlight' \subseteq Others \cup {r}
      <4>1. pc' = [pc EXCEPT ![r] = "hydration"] /\ UNCHANGED swept
        BY <2>1, <2>4 DEF CheckCapacity, Goto
      <4> QED
        BY <4>1 DEF InFlight, Admitted, IInv, TypeOK, StatusInv
    <3>2. Cardinality(Others) + 1 <= MaxConcurrent
      BY <2>2, <2>4 DEF ActiveCount
    <3>3. /\ IsFiniteSet(Others \cup {r})
          /\ Cardinality(Others \cup {r}) = Cardinality(Others) + 1
      BY <2>2, FS_AddElement
    <3>4. Cardinality(InFlight') <= Cardinality(Others \cup {r})
      BY <3>1, <3>3, FS_Subset
    <3>5. Cardinality(InFlight') \in Nat
      BY <3>1, <3>3, FS_Subset, FS_CardinalityType
    <3> QED
      BY <2>2, <3>2, <3>3, <3>4, <3>5 DEF AdmissionCap
  <2> QED
    BY <2>3, <2>4
<1>2. CASE ~\E r \in Runs : CheckCapacity(r)
  <2> SUFFICES InFlight' \subseteq InFlight
    BY <1>b
  <2> USE DEF IInv, TypeOK, InFlight, Admitted
  <2>1. CASE \E r \in Runs : Submit(r)
    BY <2>1 DEF Submit, Goto, SetStatus
  <2>2. CASE \E r \in Runs : SubmitNoThread(r)
    BY <2>2 DEF SubmitNoThread, Goto, SetStatus
  <2>3. CASE \E r \in Runs : StartAdmission(r)
    BY <2>3 DEF StartAdmission, Goto, SetStatus
  <2>4. CASE \E r \in Runs : RejectTask(r)
    BY <2>4 DEF RejectTask, Goto, Fail, SetStatus
  <2>5. CASE \E r \in Runs : RejectLimit(r)
    BY <2>5 DEF RejectLimit, Goto, Fail, SetStatus
  <2>6. CASE \E r \in Runs : StartHydration(r)
    BY <2>6 DEF StartHydration, Goto, SetStatus
  <2>7. CASE \E r \in Runs : HydrationFails(r)
    BY <2>7 DEF HydrationFails, Goto, Fail, SetStatus
  <2>8. CASE \E r \in Runs : HydrationDone(r)
    BY <2>8 DEF HydrationDone, Goto
  <2>9. CASE \E r \in Runs : PreflightFails(r)
    BY <2>9 DEF PreflightFails, Goto, Fail, SetStatus
  <2>10. CASE \E r \in Runs : PreflightGreen(r)
    BY <2>10 DEF PreflightGreen, Goto
  <2>11. CASE \E r \in Runs : StartRound(r)
    BY <2>11 DEF StartRound, Goto, SetStatus
  <2>12. CASE \E r \in Runs : PhaseDeadline(r)
    BY <2>12 DEF PhaseDeadline, Goto, Fail, SetStatus
  <2>13. CASE \E r \in Runs : GateRed(r)
    BY <2>13 DEF GateRed, Goto
  <2>14. CASE \E r \in Runs : GateGreen(r)
    BY <2>14 DEF GateGreen, Goto
  <2>15. CASE \E r \in Runs : Assess(r)
    BY <2>15 DEF Assess, Goto
  <2>16. CASE \E r \in Runs : Pass(r)
    BY <2>16 DEF Pass, Goto, SetStatus
  <2>17. CASE \E r \in Runs : HandToHuman(r)
    BY <2>17 DEF HandToHuman, Goto, SetStatus
  <2>18. CASE \E r \in Runs : Iterate(r)
    BY <2>18 DEF Iterate, Goto
  <2>19. CASE \E r \in Runs : WriteLedger(r)
    BY <2>19 DEF WriteLedger, Goto
  <2>20. CASE \E r \in Runs : Finish(r)
    BY <2>20 DEF Finish, Goto, SetStatus
  <2>21. CASE \E r \in Runs : RolesSucceed(r)
    BY <2>21 DEF RolesSucceed, Goto
  <2>22. CASE \E r \in Runs : RolesFail(r)
    BY <2>22 DEF RolesFail, Goto, Fail, SetStatus
  <2>23. CASE \E r \in Runs : EngineError(r)
    BY <2>23 DEF EngineError, Fail, SetStatus
  <2>24. CASE \E r \in Runs : Strand(r)
    BY <2>24 DEF Strand, SetStatus
  <2>25. CASE \E r \in Runs : StrandLedger(r)
    BY <2>25 DEF StrandLedger
  <2>26. CASE Tick
    BY <2>26 DEF Tick
  <2>27. CASE UNCHANGED vars
    BY <2>27 DEF vars
  <2> QED
    BY <1>2, <2>1, <2>2, <2>3, <2>4, <2>5, <2>6, <2>7, <2>8, <2>9, <2>10, <2>11, <2>12, <2>13, <2>14, <2>15, <2>16, <2>17, <2>18, <2>19, <2>20, <2>21, <2>22, <2>23, <2>24, <2>25, <2>26, <2>27
       DEF Next, Worker, Surroundings, Reconciler
<1> QED
  BY <1>1, <1>2

\* No more than max_concurrent admitted runs are in flight, for any number
\* of runs and any interleaving of their admissions (_admission).
THEOREM AdmissionIsCapped ==
  Spec => []AdmissionCap
<1>1. Init => AdmissionCap
  <2>1. Init => InFlight = {}
    BY DEF Init, InFlight, Admitted
  <2> QED
    BY <2>1, FS_EmptySet, ConstantsAssumption DEF AdmissionCap
<1>2. IInv /\ AdmissionCap /\ [Next]_vars => AdmissionCap'
  BY CapStep
<1> QED
  BY <1>1, <1>2, Inductive, PTL DEF Spec

---------------------------------------------------------------------------
\* A round starts on nothing but a review of the round before it that asked
\* for changes (_drive, _finalize).
THEOREM RoundsAreAlwaysReviewed ==
  Spec => RoundsAreReviewed
<1>1. IInv /\ [Next]_vars => [NewRoundsAreReviewed]_vars
  <2> SUFFICES ASSUME IInv, Next PROVE NewRoundsAreReviewed
    BY DEF vars
  <2>1. CASE \E r \in Runs : StartRound(r)
    BY <2>1 DEF StartRound, Goto, IInv, TypeOK, RoundInv, RoundOK, NewRoundsAreReviewed
  <2>2. CASE ~\E r \in Runs : StartRound(r)
    <3>1. iterations' = iterations
      BY <2>2 DEF Next, Worker, Surroundings, Reconciler, Tick,
          Submit, SubmitNoThread, StartAdmission, RejectTask,
          CheckCapacity, RejectLimit, StartHydration,
          HydrationFails, HydrationDone, PreflightFails,
          PreflightGreen, PhaseDeadline, GateRed, GateGreen,
          Assess, Pass, HandToHuman, Iterate, WriteLedger, Finish,
          RolesSucceed, RolesFail, EngineError, Strand,
          StrandLedger
    <3> QED
      BY <3>1 DEF NewRoundsAreReviewed
  <2> QED
    BY <2>1, <2>2
<1> QED
  BY <1>1, Inductive, PTL DEF Spec, RoundsAreReviewed

---------------------------------------------------------------------------
\* A step of the engine is a step of RunOutcome or leaves the outcome alone.
LEMMA OutcomeStep ==
  IInv /\ [Next]_vars => [Promise!Next]_outcome
<1> SUFFICES ASSUME IInv, [Next]_vars PROVE [Promise!Next]_outcome
  OBVIOUS
<1> USE DEF IInv, TypeOK, StatusInv, Stages, Active, Terminal
<1>1. ASSUME NEW r \in Runs, Submit(r) \/ SubmitNoThread(r)
      PROVE  Promise!Submit(r)
  <2>1. /\ pc[r] = "idle"
        /\ \/ pc' = [pc EXCEPT ![r] = "admission"]
           \/ pc' = [pc EXCEPT ![r] = "lost"]
        /\ status' = [status EXCEPT ![r] = "queued"]
    BY <1>1 DEF Submit, SubmitNoThread, Goto, SetStatus
  <2>2. outcome[r] = "none"
    BY <2>1 DEF outcome
  <2>3. outcome' = [outcome EXCEPT ![r] = "open"]
    BY <2>1 DEF outcome
  <2> QED
    BY <2>2, <2>3 DEF Promise!Submit
<1>2. ASSUME NEW r \in Runs, Finish(r)
      PROVE  Promise!Settle(r)
  <2>1. pc[r] = "cleanup" /\ pc' = [pc EXCEPT ![r] = "done"]
    BY <1>2 DEF Finish, Goto
  <2> DEFINE end == Regraded(Settled(r), SettledReason(r))
  <2>2. status' = [status EXCEPT ![r] = end]
    BY <1>2 DEF Finish, SetStatus
  <2>3. end \in Terminal
    BY <2>1 DEF Regraded, Settled, SettledReason, IsPermanent
  <2> HIDE DEF end
  <2>4. outcome[r] = "open"
    BY <2>1 DEF outcome
  <2>5. outcome' = [outcome EXCEPT ![r] = end]
    BY <2>1, <2>2, <2>3 DEF outcome
  <2> QED
    BY <2>3, <2>4, <2>5 DEF Promise!Settle, Promise!Terminal
<1>3. ASSUME NEW r \in Runs, Strand(r)
      PROVE  Promise!Settle(r) \/ outcome' = outcome
  <2>1. /\ status[r] \in Active
        /\ status' = [status EXCEPT ![r] = "needs_human"]
        /\ pc' = pc
    BY <1>3 DEF Strand, SetStatus
  <2>2. CASE pc[r] = "lost"
    BY <2>1, <2>2 DEF outcome, Promise!Settle, Promise!Terminal
  <2>3. CASE pc[r] # "lost"
    BY <2>1, <2>3 DEF outcome
  <2> QED
    BY <2>2, <2>3
<1>4. CASE \E r \in Runs : StrandLedger(r)
  BY <1>4 DEF StrandLedger, outcome
<1>5. CASE Tick
  BY <1>5 DEF Tick, outcome
<1>6. CASE UNCHANGED vars
  BY <1>6 DEF vars, outcome
\* Any other step of a worker keeps its run open.
<1>7. ASSUME NEW r \in Runs, Worker(r) \/ Surroundings(r), ~Finish(r)
      PROVE  outcome' = outcome
  <2>1. /\ pc[r] \notin {"idle", "lost", "done"}
        /\ pc'[r] \notin {"idle", "lost", "done"}
        /\ pc' = [pc EXCEPT ![r] = pc'[r]]
        /\ status' = [status EXCEPT ![r] = status'[r]]
    BY <1>7 DEF Worker, Surroundings, Goto, SetStatus, Fail,
          StartAdmission, RejectTask, CheckCapacity, RejectLimit,
          StartHydration, HydrationFails, HydrationDone,
          PreflightFails, PreflightGreen, StartRound,
          PhaseDeadline, GateRed, GateGreen, Assess, Pass,
          HandToHuman, Iterate, WriteLedger, RolesSucceed,
          RolesFail, EngineError
  <2> QED
    BY <2>1 DEF outcome
<1> QED
  BY <1>1, <1>2, <1>3, <1>4, <1>5, <1>6, <1>7
     DEF Next, Reconciler, Promise!Next

\* The engine implements RunOutcome: a run settles once, and neither its
\* worker nor the daemon moves it afterwards (_drive, Run.transition).
THEOREM EngineSettlesOnce ==
  Spec => SettlesOnce
<1>1. Init => Promise!Init
  BY DEF Init, Promise!Init, outcome
<1>2. IInv /\ [Next]_vars => [Promise!Next]_outcome
  BY OutcomeStep
<1> QED
  BY <1>1, <1>2, Inductive, PTL DEF Spec, SettlesOnce, Promise!Safety
===========================================================================
