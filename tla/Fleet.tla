------------------------------- MODULE Fleet -------------------------------
(***************************************************************************)
(* The runtimes wired to the roles (runtime_config.py; connection_api.py,  *)
(* POST /api/runtimes).  Every operation of the settings file reads it,    *)
(* edits what it has read and writes it back, with no lock, on a thread of *)
(* its own; the write truncates the file before it dumps into it, and a    *)
(* file that cannot be parsed reads as an empty one.  What a role resolves *)
(* to is looked up anew each time: the environment, else the settings,     *)
(* else what deploy.py has left beside the harness.  pick goes round the   *)
(* instances of a role.                                                    *)
(*                                                                         *)
(* Abstracted: the text of a description, known by the instance that has   *)
(* one; the descriptions older files keep by role; the shape of an ARN.    *)
(***************************************************************************)
EXTENDS Integers, SequencesExt

CONSTANTS
  Roles,      \* ROLES
  Arns,       \* instances that can be wired
  Threads,    \* request threads that change the settings
  Pickers,    \* threads of the engine that dispatch
  Environ,    \* AGENTCORE_RUNTIME_<ROLE>, a sequence for each role
  Deployable, \* the ARN deploy.py leaves for a role, for the roles with a harness
  MaxOps,     \* bound: the operations on the settings
  MaxPicks    \* bound: the dispatches

ASSUME FleetAssumption ==
  /\ IsFiniteSet(Arns)
  /\ Environ \in [Roles -> Seq(Arns)]
  /\ Deployable \in [DOMAIN Deployable -> Arns]
  /\ DOMAIN Deployable \subseteq Roles
  /\ {MaxOps, MaxPicks} \subseteq Nat

VARIABLES
  settings,   \* the settings file
  job,        \* what each request thread is doing
  calm,       \* history: no two operations overlap
  ops,        \* the operations so far
  deployed,   \* the roles whose runtime_config.json is there
  hits,       \* what each picker has looked up
  cursor,     \* _RR_CURSOR
  last,       \* history: the instances each role was picked from last
  waits,      \* history: for how many picks from them one was passed over
  picks       \* the picks so far

fleetVars == <<settings, job, calm, ops, deployed, hits, cursor, last, waits, picks>>

picking == <<hits, cursor, last, waits, picks>>

---------------------------------------------------------------------------
\* The file.

Empty == [fleets |-> [r \in Roles |-> <<>>], described |-> {}]

\* A file that was truncated and not yet, or not rightly, dumped.
Cut == [cut |-> TRUE]

\* _load_file, _load_descriptions: a file that is missing or cut is empty.
Loaded == IF settings = Cut THEN Empty ELSE settings

\* instances, reading the file once.
Instances(r) ==
  IF Environ[r] # <<>> THEN Environ[r]
  ELSE IF Loaded.fleets[r] # <<>> THEN Loaded.fleets[r]
  ELSE IF r \in deployed THEN <<Deployable[r]>> ELSE <<>>

Idle == [at |-> "idle", edit |-> Empty, then |-> <<>>]

Busy == {t \in Threads : job[t].at # "idle"}

FleetInit ==
  /\ settings = Empty
  /\ job = [t \in Threads |-> Idle]
  /\ calm = TRUE
  /\ ops = 0
  /\ deployed = {}
  /\ hits = [p \in Pickers |-> <<>>]
  /\ cursor = [r \in Roles |-> 0]
  /\ last = [r \in Roles |-> <<>>]
  /\ waits = [r \in Roles |-> [a \in Arns |-> 0]]
  /\ picks = 0

---------------------------------------------------------------------------
\* The operations.  t goes on with j; it is calm again when all are over.

GoOn(t, j) ==
  /\ job' = [job EXCEPT ![t] = j]
  /\ calm' = (calm \/ \A s \in Threads : job'[s].at = "idle")

\* A request is taken up: t goes on with j.
Begin(t, j) ==
  /\ job[t].at = "idle"
  /\ ops < MaxOps
  /\ ops' = ops + 1
  /\ job' = [job EXCEPT ![t] = j]
  /\ calm' = (calm /\ Busy = {})
  /\ UNCHANGED <<settings, deployed, picking>>

\* The dictionary of runtimes has been read and edited; the descriptions are
\* read by _write_file.  then is what the request does afterwards.
Edited(fleets, then) ==
  [at |-> "merge", edit |-> [Empty EXCEPT !.fleets = fleets], then |-> then]

\* save_runtime, and the description that may come with the ARN.
SaveRuntime(t, r, a, then) ==
  Begin(t, Edited([Loaded.fleets EXCEPT ![r] = <<a>>], then))

\* add_runtime.  An instance that deploy.py has left is not in the file.
AddRuntime(t, r, a, then) ==
  Begin(t, Edited([Loaded.fleets EXCEPT ![r] = IF a \in ToSet(@) THEN @ ELSE Append(@, a)], then))

\* remove_runtime.  An instance is in the file once at most.
RemoveRuntime(t, r, a) ==
  Begin(t, Edited([Loaded.fleets EXCEPT ![r] = RemoveFirst(@, a)], <<>>))

\* clear_runtime: the file goes when no runtime is left.
ClearRuntime(t, r) ==
  LET fleets == [Loaded.fleets EXCEPT ![r] = <<>>] IN
  Begin(t, IF fleets = Empty.fleets THEN [Idle EXCEPT !.at = "drop"]
           ELSE Edited(fleets, <<>>))

ClearEverything(t) == Begin(t, [Idle EXCEPT !.at = "drop"])

\* save_description, asked for by itself.
SaveDescription(t, r, a, text) ==
  Begin(t, [Idle EXCEPT !.at = "check", !.then = <<r, a, text>>])

\* os.remove: what is being dumped into the file is lost with it.
Drop(t) ==
  /\ job[t].at = "drop"
  /\ settings' = Empty
  /\ LET after(s) == IF s = t THEN Idle
                     ELSE IF job[s].at \in {"dump", "mangle"} THEN [job[s] EXCEPT !.at = "lost"]
                     ELSE job[s] IN
     /\ job' = [s \in Threads |-> after(s)]
     /\ calm' = (calm \/ Busy = {t})
  /\ UNCHANGED <<ops, deployed, picking>>

\* save_description: the ARN must be wired to the role.
CheckWired(t) ==
  /\ job[t].at = "check"
  /\ GoOn(t, IF job[t].then[2] \in ToSet(Instances(job[t].then[1]))
             THEN [job[t] EXCEPT !.at = "describe"] ELSE Idle)
  /\ UNCHANGED <<settings, ops, deployed, picking>>

\* save_description reads the descriptions and edits them ...
EditDescriptions(t) ==
  /\ job[t].at = "describe"
  /\ LET a == job[t].then[2]
         described == IF job[t].then[3] THEN Loaded.described \cup {a}
                      ELSE Loaded.described \ {a} IN
     GoOn(t, [at |-> "reload", edit |-> [Empty EXCEPT !.described = described], then |-> <<>>])
  /\ UNCHANGED <<settings, ops, deployed, picking>>

\* ... and then the runtimes, which it writes back with them.
Reload(t) ==
  /\ job[t].at = "reload"
  /\ GoOn(t, [job[t] EXCEPT !.at = "open", !.edit.fleets = Loaded.fleets])
  /\ UNCHANGED <<settings, ops, deployed, picking>>

\* Mutant: descriptions that the caller did not pass are not kept.
MergeNothing(t) ==
  /\ job[t].at = "merge"
  /\ GoOn(t, [job[t] EXCEPT !.at = "open"])
  /\ UNCHANGED <<settings, ops, deployed, picking>>

\* _write_file: "preserve existing descriptions unless the caller passed a
\* fresh map".
MergeDescriptions(t) ==
  /\ job[t].at = "merge"
  /\ GoOn(t, [job[t] EXCEPT !.at = "open", !.edit.described = Loaded.described])
  /\ UNCHANGED <<settings, ops, deployed, picking>>

\* _write_file: open(path, "w").
Truncate(t) ==
  /\ job[t].at = "open"
  /\ settings' = Cut
  /\ GoOn(t, [job[t] EXCEPT !.at = "dump"])
  /\ UNCHANGED <<ops, deployed, picking>>

\* _write_file: the dump.  Over what another thread has dumped since, it
\* leaves a file that is mixed up when it is the shorter one.  The request
\* may have a description to save too.
Dump(t) ==
  /\ job[t].at \in {"dump", "mangle", "lost"}
  /\ settings' \in CASE job[t].at = "dump" -> {job[t].edit}
                 [] job[t].at = "mangle" -> {job[t].edit, Cut}
                 [] job[t].at = "lost" -> {settings}
  /\ LET after(s) == IF s = t
                     THEN IF job[t].then = <<>> THEN Idle
                          ELSE [Idle EXCEPT !.at = "check", !.then = job[t].then]
                     ELSE IF job[s].at = "dump" /\ job[t].at # "lost"
                     THEN [job[s] EXCEPT !.at = "mangle"]
                     ELSE job[s] IN
     /\ job' = [s \in Threads |-> after(s)]
     /\ calm' = (calm \/ (Busy = {t} /\ job[t].then = <<>>))
  /\ UNCHANGED <<ops, deployed, picking>>

\* The console dies and is started again: the file is as it was left.
Restart ==
  /\ job' = [t \in Threads |-> Idle]
  /\ calm' = TRUE
  /\ hits' = [p \in Pickers |-> <<>>]
  /\ cursor' = [r \in Roles |-> 0]
  /\ last' = [r \in Roles |-> <<>>]
  /\ waits' = [r \in Roles |-> [a \in Arns |-> 0]]
  /\ UNCHANGED <<settings, ops, deployed, picks>>

\* deploy.py leaves runtime_config.json, cleanup.py takes it away.
Deploy(r) ==
  /\ deployed' = IF r \in deployed THEN deployed \ {r} ELSE deployed \cup {r}
  /\ UNCHANGED <<settings, job, calm, ops, picking>>

---------------------------------------------------------------------------
\* pick: the instances are read first, the cursor moves under its lock.

LookUp(p, r) ==
  /\ hits[p] = <<>>
  /\ picks < MaxPicks
  /\ picks' = picks + 1
  /\ Instances(r) # <<>>
  /\ hits' = [hits EXCEPT ![p] = <<r, Instances(r)>>]
  /\ UNCHANGED <<settings, job, calm, ops, deployed, cursor, last, waits>>

\* An instance of the fleet f is picked: the others are passed over once more.
Passed(r, f, picked) ==
  [a \in Arns |->
     IF a = picked \/ a \notin ToSet(f) THEN 0
     ELSE 1 + IF last[r] = f THEN waits[r][a] ELSE 0]

\* Mutant of Pick: without the lock, a thread that is between its look-up and
\* its pick has read the cursor before, and puts it back.
PickUnlocked(p) ==
  /\ hits[p] # <<>>
  /\ LET r == hits[p][1]
         fleet == hits[p][2]
         idx == cursor[r] % Len(fleet) IN
     /\ \/ cursor' = [cursor EXCEPT ![r] = idx + 1]
        \/ /\ \E q \in Pickers \ {p} : hits[q] # <<>> /\ hits[q][1] = r
           /\ cursor' = [cursor EXCEPT ![r] = idx]
     /\ last' = [last EXCEPT ![r] = fleet]
     /\ waits' = [waits EXCEPT ![r] = Passed(r, fleet, fleet[idx + 1])]
  /\ hits' = [hits EXCEPT ![p] = <<>>]
  /\ UNCHANGED <<settings, job, calm, ops, deployed, picks>>

Pick(p) ==
  /\ hits[p] # <<>>
  /\ LET r == hits[p][1]
         fleet == hits[p][2]
         idx == cursor[r] % Len(fleet) IN
     /\ cursor' = [cursor EXCEPT ![r] = idx + 1]
     /\ last' = [last EXCEPT ![r] = fleet]
     /\ waits' = [waits EXCEPT ![r] = Passed(r, fleet, fleet[idx + 1])]
  /\ hits' = [hits EXCEPT ![p] = <<>>]
  /\ UNCHANGED <<settings, job, calm, ops, deployed, picks>>

---------------------------------------------------------------------------
Request(t) ==
  \/ ClearEverything(t)
  \/ \E r \in Roles : ClearRuntime(t, r)
  \/ \E r \in Roles, a \in Arns :
       \/ RemoveRuntime(t, r, a)
       \/ \E then \in {<<>>, <<r, a, TRUE>>} : SaveRuntime(t, r, a, then) \/ AddRuntime(t, r, a, then)
       \/ \E text \in BOOLEAN : SaveDescription(t, r, a, text)

Step(t) ==
  \/ Drop(t) \/ CheckWired(t) \/ EditDescriptions(t) \/ Reload(t)
  \/ MergeDescriptions(t) \/ Truncate(t) \/ Dump(t)

FleetNext ==
  \/ \E t \in Threads : Request(t) \/ Step(t)
  \/ \E p \in Pickers : Pick(p) \/ \E r \in Roles : LookUp(p, r)
  \/ \E r \in DOMAIN Deployable : Deploy(r)
  \/ Restart

FleetSpec == FleetInit /\ [][FleetNext]_fleetVars

---------------------------------------------------------------------------
\* Properties.

Fleets == {f \in BoundedSeq(Arns, Cardinality(Arns)) : IsInjective(f)}

Stores == [fleets : [Roles -> Fleets], described : SUBSET Arns]

Jobs ==
  [at : {"idle", "check", "describe", "reload", "merge", "open", "dump", "mangle", "lost", "drop"},
   edit : Stores,
   then : {<<>>} \cup Roles \X Arns \X BOOLEAN]

\* Every variable keeps its type; no role has an instance twice in the file.
FleetTypeOK ==
  /\ settings \in Stores \cup {Cut}
  /\ job \in [Threads -> Jobs]
  /\ calm \in BOOLEAN
  /\ deployed \subseteq DOMAIN Deployable
  /\ hits \in [Pickers -> {<<>>} \cup Roles \X (Seq(Arns) \ {<<>>})]
  /\ cursor \in [Roles -> Nat]
  /\ last \in [Roles -> Seq(Arns)]
  /\ waits \in [Roles -> [Arns -> Nat]]

\* What the settings hold: the dump that is to come, else the file.
Held ==
  LET dumping == {t \in Threads : job[t].at = "dump"} IN
  IF calm /\ dumping # {} THEN job[CHOOSE t \in dumping : TRUE].edit ELSE Loaded

Store == INSTANCE Settings WITH store <- Held

\* While no two requests are in progress at once each operation takes effect
\* as a whole: what was wired, described or removed before it stays so, a
\* reader in the middle of a write apart; and a console that dies loses all of
\* the settings or at most that operation.
OperationsAreAtomic == Store!Spec

\* No instance starves: while a role is picked from the same n instances, one
\* is never passed over n times in a row, whichever threads pick, whatever they
\* have looked up before, and wherever the cursor stood when the fleet became
\* this one (pick, _RR_LOCK).
NoInstanceStarves ==
  \A r \in Roles : \A a \in ToSet(last[r]) : waits[r][a] < Len(last[r])
===========================================================================
