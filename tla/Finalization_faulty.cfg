\* Two files, two rounds, failures at every call, noticed or not.
CONSTANTS
  Files = {server, ui}
  MaxRounds = 2
SPECIFICATION Spec
INVARIANTS
  DefaultBranchUntouched
  MergeStateIsHonest
  ApprovedIsMerged
\* The run ends and the user may leave the settings alone.
CHECK_DEADLOCK FALSE
