\* Two runs over two rounds that fail, hang, have a git killed and are overtaken.
CONSTANTS
  r1 = r1
  r2 = r2
  server = server
  ui = ui
  Runs = {r1, r2}
  Paths = {server, ui}
  Deliverables <- MCDeliverables
  None = None
  MaxRounds = 2
SPECIFICATION FairSpec
INVARIANTS
  CommitIsOwn
  RepoIsUsable
PROPERTIES
  EveryComposeEnds
\* Every run may have composed.
CHECK_DEADLOCK FALSE
