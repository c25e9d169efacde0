---------------------------- MODULE RunOutcome ----------------------------
(***************************************************************************)
(* What the engine promises its callers about a run, and nothing of how:   *)
(* a submitted run is open until it settles on one of the three terminal   *)
(* statuses, it settles once, and every submitted run does settle.         *)
(* (orchestrator/engine.py, class Engine: "every run ends passed / failed  *)
(* / needs_human".)                                                        *)
(***************************************************************************)
CONSTANTS
  Runs            \* the runs that may be submitted

VARIABLES
  outcome         \* outcome[r]: what became of run r

Terminal == {"passed", "failed", "needs_human"}

TypeOK == outcome \in [Runs -> {"none", "open"} \cup Terminal]

Init == outcome = [r \in Runs |-> "none"]

Submit(r) ==
  /\ outcome[r] = "none"
  /\ outcome' = [outcome EXCEPT ![r] = "open"]

Settle(r) ==
  /\ outcome[r] = "open"
  /\ \E end \in Terminal : outcome' = [outcome EXCEPT ![r] = end]

Next == \E r \in Runs : Submit(r) \/ Settle(r)

Safety == Init /\ [][Next]_outcome

\* An open run does not stay open.
EverySettles == \A r \in Runs : outcome[r] = "open" ~> outcome[r] \in Terminal

Spec == Safety /\ EverySettles
===========================================================================
