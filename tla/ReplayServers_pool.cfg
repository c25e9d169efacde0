\* Three runs, a pool of two, crashes and restarts.
CONSTANTS
  Runs = {r1, r2, r3}
  Daemon = Daemon
  Console = Console
  Cap = 2
SPECIFICATION FairPoolSpec
INVARIANTS
  NoServerIsOrphaned
  LiveCountIsCapped
PROPERTIES
  IdleServersStop
\* Every run may be over and the console down.
CHECK_DEADLOCK FALSE
