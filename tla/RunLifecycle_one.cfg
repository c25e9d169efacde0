\* One run through up to three rounds, under the daemon and the clock.
CONSTANTS
  Runs = {r1}
  MaxConcurrent = 1
  MaxIterations = 3
  StrandedAfter = 1
  ExecBudget = 3
SPECIFICATION FairSpec
INVARIANTS
  PassedIsEarned
  LedgerMatchesOutcome
PROPERTIES
  RoundsAreReviewed
  SettlesOnce
  EveryRunSettles
\* The run may be over.
CHECK_DEADLOCK FALSE
