\* Two turns of one conversation, with one call and one run between them, of
\* a user who signs in once; a role is wired or unwired, or the session changes,
\* once.  With a turn that has lost its session on the way there are turns of
\* the user and of nobody.  A turn adds one message or two, and two are kept.
CONSTANTS
  Turns = {1, 2}
  Convs = {c1}
  Users = {alice}
  NoUser = nobody
  Tasks <- MCTasks
  Lengths = {1, 2}
  Retained = 2
  MaxCalls = 1
  MaxRuns = 1
  Unsettled = {"orchestrator", "opencode"}
  MaxSessions = 1
  MaxChanges = 1
SPECIFICATION FairSpec
INVARIANTS
  ChatRunsAreRouted
  RunsAreAttributed
  RunsAreAnnounced
  FinishedTurnsAreHeard
PROPERTIES
  TurnsEnd
\* All the turns and runs may be over.
CHECK_DEADLOCK FALSE
