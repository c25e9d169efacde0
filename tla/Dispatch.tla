------------------------------ MODULE Dispatch ------------------------------
(***************************************************************************)
(* How one role of a run gets its artifact, round after round (engine.py,  *)
(* _runtime_cli; runtime_exec.py, run_in_runtime, _run_in_live_pty,        *)
(* _dispatch_once, _read_artifact_from_runtime and _run_in_local_dev;      *)
(* runtime_shell.py, ensure_dispatch_session).  A dispatch types one turn  *)
(* into a terminal it has opened for it, or runs the CLI headless; when it *)
(* takes the turn to be over it reads the artifact back until two reads    *)
(* agree.  To a runtime that is a local server it posts the turn, and the  *)
(* first read that finds an artifact is enough.  A dispatch that fails is  *)
(* tried once more.  Users, and the assistant (runtime_shell.py,           *)
(* agent_send), type into the terminals too.  The agents work and write on *)
(* their own, and what they write reaches the shared mount bit by bit.     *)
(*                                                                         *)
(* Turns are numbered over all rounds.  A file is known by the turn that   *)
(* wrote it and how much of it has reached the mount, Parts being all.     *)
(*                                                                         *)
(* Assumptions about the mount: writes reach it in the order they were     *)
(* made, and while one is on its way the pause between two reads is long   *)
(* enough for the file to change.                                          *)
(***************************************************************************)
EXTENDS FiniteSets, Naturals, SequencesExt

CONSTANTS
  MaxRounds,    \* engine.MAX_ITERATIONS
  Tries,        \* the dispatches of a role in a round, 2 in the code
  Reads,        \* the reads of an artifact, 8 in the code
  LocalReads,   \* ... of a local one, 6 in the code
  Parts         \* bound: the steps in which a file reaches the mount

ASSUME DispatchAssumption == {MaxRounds, Tries, Reads, LocalReads, Parts} \subseteq Nat \ {0}

VARIABLES
  pc,         \* where the dispatching thread is
  round,      \* run.iterations
  try,        \* _attempt, from 1
  turn,       \* the turns so far
  term,       \* the state of the terminal opened last
  tuis,       \* the turns a terminal was opened for
  working,    \* the turns whose agents are at work
  unsettled,  \* the turns whose writes are on their way to the mount, in order
  file,       \* the artifact as the mount shows it
  reads,      \* the reads so far
  prev,       \* prev, what the last one that was not empty has read
  artifact,   \* what the dispatch returned
  agreed,     \* history: two reads agreed on it
  cut         \* history: an agent worked when its turn was taken to be over

vars == <<pc, round, try, turn, term, tuis, working, unsettled, file,
          reads, prev, artifact, agreed, cut>>

attempt   == <<round, try, turn>>
terminals == <<term, tuis>>
mount     == <<unsettled, file>>
reading   == <<reads, prev, artifact, agreed>>

Turns == 1 .. MaxRounds * Tries

Nothing == [by |-> 0, part |-> 0]

Files == {Nothing} \cup [by : Turns, part : 1 .. Parts]

Init ==
  /\ pc = "open"
  /\ round = 1
  /\ try = 1
  /\ turn = 0
  /\ term = "none"
  /\ tuis = {}
  /\ working = {}
  /\ unsettled = <<>>
  /\ file = Nothing
  /\ reads = 0
  /\ prev = Nothing
  /\ artifact = Nothing
  /\ agreed = FALSE
  /\ cut = FALSE

Goto(from, to) ==
  /\ pc = from
  /\ pc' = to

\* RoleExecutionError: the role is dispatched once more, or has failed.
Retry ==
  IF try < Tries
  THEN pc' = "open" /\ try' = try + 1
  ELSE pc' = "failed" /\ UNCHANGED try

---------------------------------------------------------------------------
\* The live terminal.

\* The environment of the run has to be there at the launch of the CLI, so
\* ensure_dispatch_session opens a terminal of its own for every dispatch.
OpenTerminal ==
  /\ Goto("open", "ready")
  /\ turn' = turn + 1
  /\ term' = "connecting"
  /\ tuis' = tuis \cup {turn'}
  /\ UNCHANGED <<round, try, working, mount, reading, cut>>

\* wait_ready
TerminalReady ==
  /\ Goto("ready", "type")
  /\ term = "ready"
  /\ UNCHANGED <<attempt, terminals, working, mount, reading, cut>>

\* The terminal is dead, has not painted anything for 120 s, or paints on.
TerminalNotReady ==
  /\ pc = "ready"
  /\ cut' = (cut \/ turn \in working)
  /\ Retry
  /\ UNCHANGED <<round, turn, terminals, working, mount, reading>>

\* send_turn; what is typed into a dead terminal is dropped without a word.
TypeTurn ==
  /\ Goto("type", "idle")
  /\ working' = IF term = "ready" THEN working \cup {turn} ELSE working
  /\ UNCHANGED <<attempt, terminals, mount, reading, cut>>

\* wait_turn_idle returns True: 8 s of silence, or the terminal is dead.
\* Neither says that the agent is done.
TurnIdle ==
  /\ Goto("idle", "read")
  /\ cut' = (cut \/ turn \in working)
  /\ UNCHANGED <<attempt, terminals, working, mount, reading>>

\* It returns False: no silence for HARNESS_ROLE_TIMEOUT_S.
TurnTimesOut ==
  /\ pc = "idle"
  /\ cut' = (cut \/ turn \in working)
  /\ Retry
  /\ UNCHANGED <<round, turn, terminals, working, mount, reading>>

---------------------------------------------------------------------------
\* The headless CLI, where no terminal can be had.

StartCli ==
  /\ Goto("open", "cli")
  /\ turn' = turn + 1
  /\ working' = working \cup {turn'}
  /\ UNCHANGED <<round, try, terminals, mount, reading, cut>>

CliSucceeds ==
  /\ Goto("cli", "read")
  /\ turn \notin working
  /\ UNCHANGED <<attempt, terminals, working, mount, reading, cut>>

CliFails ==
  /\ pc = "cli"
  /\ turn \notin working
  /\ Retry
  /\ UNCHANGED <<round, turn, terminals, working, mount, reading, cut>>

\* The first frame after the deadline.
CliTimesOut ==
  /\ pc = "cli"
  /\ cut' = (cut \/ turn \in working)
  /\ Retry
  /\ UNCHANGED <<round, turn, terminals, working, mount, reading>>

---------------------------------------------------------------------------
\* _run_in_local_dev, where the runtime is wired to a local server.

Post ==
  /\ Goto("open", "post")
  /\ turn' = turn + 1
  /\ working' = working \cup {turn'}
  /\ UNCHANGED <<round, try, terminals, mount, reading, cut>>

\* The server has answered to the end.
Posted ==
  /\ Goto("post", "local")
  /\ turn \notin working
  /\ UNCHANGED <<attempt, terminals, working, mount, reading, cut>>

\* No connection, or silence for too long: URLError, OSError.
PostFails ==
  /\ pc = "post"
  /\ cut' = (cut \/ turn \in working)
  /\ Retry
  /\ UNCHANGED <<round, turn, terminals, working, mount, reading>>

---------------------------------------------------------------------------
\* _read_artifact_from_runtime.

\* The counter and prev are local to it.
Leave ==
  /\ reads' = 0
  /\ prev' = Nothing

Return(content, settled) ==
  /\ Leave
  /\ pc' = "returned"
  /\ artifact' = content
  /\ agreed' = settled

\* Mutant of ReadAgrees: the first read that finds something is enough.
ReadSomething ==
  /\ pc = "read"
  /\ file # Nothing
  /\ Return(file, TRUE)
  /\ UNCHANGED <<attempt, terminals, working, mount, cut>>

ReadAgrees ==
  /\ pc = "read"
  /\ file # Nothing
  /\ prev = file
  /\ Return(file, TRUE)
  /\ UNCHANGED <<attempt, terminals, working, mount, cut>>

\* Empty, or another content than the last one.
ReadDiffers ==
  /\ Goto("read", "pause")
  /\ file = Nothing \/ prev # file
  /\ reads + 1 < Reads
  /\ reads' = reads + 1
  /\ prev' = file
  /\ UNCHANGED <<attempt, terminals, working, mount, artifact, agreed, cut>>

\* The last read decides alone, and with nothing read the dispatch has failed.
LastRead ==
  /\ pc = "read"
  /\ file = Nothing \/ prev # file
  /\ reads + 1 = Reads
  /\ IF file # Nothing
     THEN Return(file, FALSE) /\ UNCHANGED try
     ELSE Leave /\ Retry /\ UNCHANGED <<artifact, agreed>>
  /\ UNCHANGED <<round, turn, terminals, working, mount, cut>>

\* time.sleep, and the assumption about the mount.
Pause ==
  /\ Goto("pause", "read")
  /\ unsettled = <<>> \/ file # prev
  /\ UNCHANGED <<attempt, terminals, working, mount, reading, cut>>

\* The first frame of a read after its deadline.
ReadTimesOut ==
  /\ pc = "read"
  /\ Leave
  /\ Retry
  /\ UNCHANGED <<round, turn, terminals, working, mount, artifact, agreed, cut>>

\* The reads of _run_in_local_dev: the first that finds something counts.
LocalRead ==
  /\ pc = "local"
  /\ file # Nothing
  /\ Return(file, FALSE)
  /\ UNCHANGED <<attempt, terminals, working, mount, cut>>

LocalReadAgain ==
  /\ pc = "local"
  /\ file = Nothing
  /\ reads + 1 < LocalReads
  /\ reads' = reads + 1
  /\ UNCHANGED <<pc, attempt, terminals, working, mount, prev, artifact, agreed, cut>>

LocalNothing ==
  /\ pc = "local"
  /\ file = Nothing
  /\ reads + 1 = LocalReads
  /\ Leave
  /\ Retry
  /\ UNCHANGED <<round, turn, terminals, working, mount, artifact, agreed, cut>>

\* Any other exception of a command shell, here or in the CLI, or of a post is
\* not retried.
ShellBreaks ==
  /\ pc \in {"cli", "post", "read"}
  /\ pc' = "failed"
  /\ Leave
  /\ cut' = (cut \/ turn \in working)
  /\ UNCHANGED <<attempt, terminals, working, mount, artifact, agreed>>

\* Another round of the run; the work directory on the mount is kept.
NextRound ==
  /\ Goto("returned", "open")
  /\ round < MaxRounds
  /\ round' = round + 1
  /\ try' = 1
  /\ artifact' = Nothing
  /\ agreed' = FALSE
  /\ UNCHANGED <<turn, terminals, working, mount, reads, prev, cut>>

---------------------------------------------------------------------------
\* The terminals, the agents and the mount.  The terminals of earlier turns are
\* left open, and no dispatch looks at them again.

Connect ==
  /\ term = "connecting"
  /\ term' = "ready"
  /\ UNCHANGED <<pc, attempt, tuis, working, mount, reading, cut>>

\* The shell ends or a user closes it; the agent may outlive it.
Die ==
  /\ term \in {"connecting", "ready"}
  /\ term' = "dead"
  /\ UNCHANGED <<pc, attempt, tuis, working, mount, reading, cut>>

\* A user, or the assistant through agent_send, types into the terminal of the
\* turn or of an earlier one, whether or not a turn is under way in it.
Prompt(t) ==
  /\ t \in tuis
  /\ t = turn => term = "ready"
  /\ working' = working \cup {t}
  /\ cut' = (cut \/ t # turn \/ pc \notin {"ready", "type", "idle"})
  /\ UNCHANGED <<pc, attempt, terminals, mount, reading>>

AgentWrites(t) ==
  /\ t \in working
  /\ t \notin ToSet(unsettled)
  /\ unsettled' = Append(unsettled, t)
  /\ UNCHANGED <<pc, attempt, terminals, working, file, reading, cut>>

\* With or without an artifact.
AgentEnds(t) ==
  /\ t \in working
  /\ working' = working \ {t}
  /\ UNCHANGED <<pc, attempt, terminals, mount, reading, cut>>

\* A write reaches the mount in steps, of any size.
Settle ==
  /\ unsettled # <<>>
  /\ LET t == Head(unsettled)
         old == IF file.by = t THEN file.part % Parts ELSE 0
     IN \E part \in old + 1 .. Parts :
          /\ file' = [by |-> t, part |-> part]
          /\ unsettled' = IF part = Parts THEN Tail(unsettled) ELSE unsettled
  /\ UNCHANGED <<pc, attempt, terminals, working, reading, cut>>

---------------------------------------------------------------------------
Live == OpenTerminal \/ TerminalReady \/ TerminalNotReady \/ TypeTurn \/ TurnIdle \/ TurnTimesOut

Headless == StartCli \/ CliSucceeds \/ CliFails \/ CliTimesOut

Local == Post \/ Posted \/ PostFails \/ LocalRead \/ LocalReadAgain \/ LocalNothing

ReadBack == ReadAgrees \/ ReadDiffers \/ LastRead \/ ReadTimesOut \/ Pause \/ ShellBreaks

Remote ==
  \/ Connect \/ Die \/ Settle
  \/ \E t \in Turns : Prompt(t) \/ AgentWrites(t) \/ AgentEnds(t)

Next == Live \/ Headless \/ Local \/ ReadBack \/ NextRound \/ Remote

Spec == Init /\ [][Next]_vars

---------------------------------------------------------------------------
\* Properties.

\* Every variable keeps its type; a role is dispatched Tries times in a round
\* at most, and an artifact is read Reads times at most.
TypeOK ==
  /\ pc \in {"open", "ready", "type", "idle", "cli", "post", "local", "read", "pause", "returned", "failed"}
  /\ round \in 1 .. MaxRounds
  /\ try \in 1 .. Tries
  /\ turn \in 0 .. (round - 1) * Tries + try
  /\ term \in {"none", "connecting", "ready", "dead"}
  /\ tuis \subseteq Turns
  /\ working \subseteq Turns
  /\ unsettled \in Seq(Turns)
  /\ IsInjective(unsettled)
  /\ {file, prev, artifact} \subseteq Files
  /\ reads \in 0 .. Max({Reads, LocalReads}) - 1
  /\ {agreed, cut} \subseteq BOOLEAN

\* An artifact on which two reads agreed is a whole file, however slowly it
\* reached the mount and whichever turns wrote to it, unless an agent was still
\* at work, or put to work again, when its turn was taken to be over
\* (_read_artifact_from_runtime, "two agreeing reads: settled").
AgreedIsWhole == pc = "returned" /\ agreed /\ ~cut => artifact.part = Parts
===========================================================================
