\* Two rounds of slow or failing roles under a sweeping daemon.
CONSTANTS
  Waiters = {validator, frontend}
  MaxRounds = 2
SYMMETRY Symmetry
SPECIFICATION Spec
INVARIANTS
  GateSeesFinishedRoles
  NothingLeaks
  JudgedEndpointIsOwn
\* The run ends.
CHECK_DEADLOCK FALSE
