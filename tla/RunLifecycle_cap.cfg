\* Runs compete for the slots while the daemon sweeps.  With both clocks
\* bounded by 0 every deadline may be over at any time.
CONSTANTS
  Runs = {r1, r2}
  MaxConcurrent = 1
  MaxIterations = 1
  StrandedAfter = 0
  ExecBudget = 0
SYMMETRY Symmetry
SPECIFICATION Spec
INVARIANTS
  AdmissionCap
  BucketMatchesReason
\* Every run may be over.
CHECK_DEADLOCK FALSE
