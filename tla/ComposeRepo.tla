---------------------------- MODULE ComposeRepo ----------------------------
(***************************************************************************)
(* The composed repository that every run shares (engine.py, _Lease,       *)
(* _compose_commit, _compose_commit_locked).  A run composes its artifacts *)
(* under a lease: it checks a branch of its own out at the empty first     *)
(* commit, cleans the work tree, copies its files, stages and commits      *)
(* them.  Every step is a git process or a copy and may raise; the lease   *)
(* is then released.  A git that its timeout kills may be half done, and   *)
(* leave a lock file that nobody removes.  A holder past                   *)
(* COMPOSE_LEASE_STUCK_S is evicted, and goes on composing if it was only  *)
(* slow.                                                                   *)
(*                                                                         *)
(* A tree maps each path to the run whose file is there, or to None.       *)
(***************************************************************************)
EXTENDS FiniteSets, Naturals

CONSTANTS
  Runs,          \* the runs that compose
  Paths,         \* the paths under deliverable/
  Deliverables,  \* the paths each run has files for, the choices there are
  None,          \* no run, no file
  MaxRounds      \* engine.MAX_ITERATIONS

Steps == {"checkout", "clean", "copy", "add", "commit", "record"}

ASSUME ComposeRepoAssumption ==
  /\ None \notin Runs
  /\ Deliverables \subseteq [Runs -> SUBSET Paths]
  /\ MaxRounds \in Nat \ {0}

VARIABLES
  delivers,   \* delivers[r]: the paths r has files for
  rounds,     \* rounds[r]: the composes r has begun
  pc,         \* pc[r]: where r is in _compose_commit
  owner,      \* the holder of the lease
  overdue,    \* the holder has had it for COMPOSE_LEASE_STUCK_S
  head,       \* the run whose branch is checked out; None is main
  tip,        \* tip[r]: the tree of the last commit of branch run/r
  index,      \* the staged tree
  files,      \* the work tree
  stuck,      \* a killed git left a lock file, or no first commit
  composed,   \* composed[r]: the tree of run.composed_commit, or None
  overtaken,  \* history: a run was evicted that was slow and not hung
  stranded    \* history: a compose broke off with files staged

vars == <<delivers, rounds, pc, owner, overdue, head, tip, index, files, stuck,
          composed, overtaken, stranded>>

lease == <<owner, overdue>>
repo  == <<head, tip, index, files, stuck>>
history == <<overtaken, stranded>>

Trees == [Paths -> Runs \cup {None}]

Empty == [p \in Paths |-> None]

Init ==
  /\ delivers \in Deliverables
  /\ rounds = [r \in Runs |-> 0]
  /\ pc = [r \in Runs |-> "idle"]
  /\ owner = None
  /\ overdue = FALSE
  /\ head = None
  /\ tip = [r \in Runs |-> Empty]
  /\ index = Empty
  /\ files = Empty
  /\ stuck = FALSE
  /\ composed = [r \in Runs |-> None]
  /\ overtaken = FALSE
  /\ stranded = FALSE

Goto(r, from, to) ==
  /\ pc[r] = from
  /\ pc' = [pc EXCEPT ![r] = to]

HeadTree == IF head = None THEN Empty ELSE tip[head]

---------------------------------------------------------------------------
\* The lease.

Request(r) ==
  /\ Goto(r, "idle", "wait")
  /\ rounds[r] < MaxRounds
  /\ rounds' = [rounds EXCEPT ![r] = @ + 1]
  /\ UNCHANGED <<delivers, lease, repo, composed, history>>

\* Mutant of Acquire: a plain lock.
AcquireFree(r) ==
  /\ Goto(r, "wait", "checkout")
  /\ owner = None
  /\ owner' = r
  /\ overdue' = FALSE
  /\ UNCHANGED <<delivers, rounds, repo, composed, history>>

\* The lease is free, or its holder is evicted.
Acquire(r) ==
  /\ Goto(r, "wait", "checkout")
  /\ owner = None \/ overdue
  /\ owner' = r
  /\ overdue' = FALSE
  /\ overtaken' = (overtaken \/ (owner # None /\ pc[owner] \in Steps))
  /\ UNCHANGED <<delivers, rounds, repo, composed, stranded>>

\* COMPOSE_LEASE_STUCK_S go by.
Expire ==
  /\ owner # None
  /\ ~overdue
  /\ overdue' = TRUE
  /\ UNCHANGED <<delivers, rounds, pc, owner, repo, composed, history>>

\* Mutant of Release: the lease is freed by whoever leaves.
ReleaseAnyway(r) ==
  /\ Goto(r, "release", "idle")
  /\ owner' = None
  /\ overdue' = FALSE
  /\ UNCHANGED <<delivers, rounds, repo, composed, history>>

\* A stolen lease is no longer ours.
Release(r) ==
  /\ Goto(r, "release", "idle")
  /\ owner' = IF owner = r THEN None ELSE owner
  /\ overdue' = (overdue /\ owner # r)
  /\ UNCHANGED <<delivers, rounds, repo, composed, history>>

---------------------------------------------------------------------------
\* The steps of _compose_commit_locked.

\* The paths that a checkout of the empty commit removes.
Tracked == {p \in Paths : HeadTree[p] # None /\ index[p] # None}

\* Those of them that hold changes; a file that is gone already is none.
Dirty == {p \in Tracked : index[p] # HeadTree[p] \/ files[p] \notin {index[p], None}}

Without(tree, gone) == [p \in Paths |-> IF p \in gone THEN None ELSE tree[p]]

\* git checkout -B run/r <empty commit>: the committed paths go away, staged
\* and untracked ones are kept; git refuses to throw changes away.
Checkout(r) ==
  /\ Goto(r, "checkout", "clean")
  /\ ~stuck
  /\ Dirty = {}
  /\ head' = r
  /\ tip' = [tip EXCEPT ![r] = Empty]
  /\ index' = Without(index, Tracked)
  /\ files' = Without(files, Tracked)
  /\ UNCHANGED <<delivers, rounds, lease, stuck, composed, history>>

RefuseCheckout(r) ==
  /\ Goto(r, "checkout", "release")
  /\ stuck \/ Dirty # {}
  /\ UNCHANGED <<delivers, rounds, lease, repo, composed, history>>

\* Mutant of Clean: the leftovers stay.
CleanNothing(r) ==
  /\ Goto(r, "clean", "copy")
  /\ UNCHANGED <<delivers, rounds, lease, repo, composed, history>>

Untracked == {p \in Paths : index[p] = None}

\* git clean -fd: the paths that are not in the index go away.
Clean(r) ==
  /\ Goto(r, "clean", "copy")
  /\ files' = Without(files, Untracked)
  /\ UNCHANGED <<delivers, rounds, lease, head, tip, index, stuck, composed, history>>

Written(r, some) == [p \in Paths |-> IF p \in some THEN r ELSE files[p]]

Copy(r) ==
  /\ Goto(r, "copy", "add")
  /\ files' = Written(r, delivers[r])
  /\ UNCHANGED <<delivers, rounds, lease, head, tip, index, stuck, composed, history>>

\* git add -A
Add(r) ==
  /\ Goto(r, "add", "commit")
  /\ ~stuck
  /\ index' = files
  /\ UNCHANGED <<delivers, rounds, lease, head, tip, files, stuck, composed, history>>

\* git commit --allow-empty, on whatever branch is checked out.
Commit(r) ==
  /\ Goto(r, "commit", "record")
  /\ ~stuck
  /\ tip' = [tip EXCEPT ![head] = index]
  /\ UNCHANGED <<delivers, rounds, lease, head, index, files, stuck, composed, history>>

\* git rev-parse HEAD
Record(r) ==
  /\ Goto(r, "record", "release")
  /\ composed' = [composed EXCEPT ![r] = HeadTree]
  /\ UNCHANGED <<delivers, rounds, lease, repo, history>>

\* A step raises: a git process fails before it changes anything, a copy stops
\* half way.
Fail(r) ==
  /\ pc[r] \in Steps
  /\ pc' = [pc EXCEPT ![r] = "release"]
  /\ stranded' = (stranded \/ pc[r] = "commit")
  /\ \E some \in SUBSET delivers[r] :
       files' = IF pc[r] = "copy" THEN Written(r, some) ELSE files
  /\ UNCHANGED <<delivers, rounds, lease, head, tip, index, stuck, composed, overtaken>>

\* The timeout of 20 s kills a git in the middle of its work.
Killed(r, step) ==
  /\ Goto(r, step, "release")
  /\ UNCHANGED <<delivers, rounds, lease, composed, overtaken>>

\* It removed some files and its lock file of the index stays (in the first
\* compose, git init may leave no commit to root the branch at), or it wrote
\* the index, perhaps the branch, but HEAD is still where it was.
KilledCheckout(r) ==
  /\ Killed(r, "checkout")
  /\ ~stuck
  /\ Dirty = {}
  /\ \/ /\ \E gone \in SUBSET Tracked : files' = Without(files, gone)
        /\ stuck' = TRUE
        /\ UNCHANGED <<tip, index>>
     \/ /\ index' = Without(index, Tracked)
        /\ files' = Without(files, Tracked)
        /\ tip' \in {tip, [tip EXCEPT ![r] = Empty]}
        /\ stuck' \in BOOLEAN
  /\ UNCHANGED <<head, stranded>>

\* git clean takes no lock.
KilledClean(r) ==
  /\ Killed(r, "clean")
  /\ \E gone \in SUBSET Untracked : files' = Without(files, gone)
  /\ UNCHANGED <<head, tip, index, stuck, stranded>>

\* The lock file stays, or the files were staged already.
KilledAdd(r) ==
  /\ Killed(r, "add")
  /\ ~stuck
  /\ \/ stuck' = TRUE /\ UNCHANGED <<index, stranded>>
     \/ index' = files /\ stranded' = TRUE /\ UNCHANGED stuck
  /\ UNCHANGED <<head, tip, files>>

\* A lock file stays and the files are staged, or the branch had its commit
\* already.
KilledCommit(r) ==
  /\ Killed(r, "commit")
  /\ ~stuck
  /\ \/ stuck' = TRUE /\ stranded' = TRUE /\ UNCHANGED tip
     \/ /\ tip' = [tip EXCEPT ![head] = index]
        /\ stuck' \in BOOLEAN
        /\ UNCHANGED stranded
  /\ UNCHANGED <<head, index, files>>

\* A copy never returns; the git processes have timeouts.
Hang(r) ==
  /\ Goto(r, "copy", "hung")
  /\ UNCHANGED <<delivers, rounds, lease, repo, composed, history>>

---------------------------------------------------------------------------
Compose(r) ==
  \/ Checkout(r) \/ RefuseCheckout(r) \/ Clean(r) \/ Copy(r) \/ Add(r)
  \/ Commit(r) \/ Record(r) \/ Fail(r)
  \/ KilledCheckout(r) \/ KilledClean(r) \/ KilledAdd(r) \/ KilledCommit(r)

Next ==
  \/ Expire
  \/ \E r \in Runs :
       Request(r) \/ Acquire(r) \/ Compose(r) \/ Hang(r) \/ Release(r)

Spec == Init /\ [][Next]_vars

\* Time goes by, a waiter wakes up at the latest after COMPOSE_LEASE_STUCK_S,
\* and a compose that does not hang goes on.
Fairness ==
  /\ WF_vars(Expire)
  /\ \A r \in Runs : WF_vars(Acquire(r)) /\ WF_vars(Compose(r)) /\ WF_vars(Release(r))

FairSpec == Spec /\ Fairness

---------------------------------------------------------------------------
\* Properties.

\* Every variable keeps its type; the lease is overdue only while it is held.
TypeOK ==
  /\ delivers \in Deliverables
  /\ rounds \in [Runs -> 0 .. MaxRounds]
  /\ pc \in [Runs -> Steps \cup {"idle", "wait", "release", "hung"}]
  /\ owner \in Runs \cup {None}
  /\ overdue \in BOOLEAN
  /\ overdue => owner # None
  /\ head \in Runs \cup {None}
  /\ tip \in [Runs -> Trees]
  /\ {index, files} \subseteq Trees
  /\ composed \in [Runs -> Trees \cup {None}]
  /\ {stuck, overtaken, stranded} \subseteq BOOLEAN

\* The runs that may still write to the repository.
Writers == {r \in Runs : pc[r] \in Steps}

\* The commit a run reports holds its files, all of them and no others, also
\* after composes of other runs that broke off, hung or had a git killed,
\* provided that none broke off with its files staged and no slow holder was
\* evicted (_compose_commit_locked).
CommitIsOwn ==
  ~overtaken /\ ~stranded =>
    \A r \in Runs : composed[r] # None =>
      composed[r] = [p \in Paths |-> IF p \in delivers[r] THEN r ELSE None]

\* While no slow holder is evicted, one run at a time writes, also when a run
\* that lost the lease releases it late; and whatever a compose that failed or
\* whose git was killed leaves in the index and the work tree, git does not
\* refuse the checkout of the next one, unless a killed git left its lock file
\* (or no first commit), which nothing in the code removes (_Lease,
\* _compose_commit_locked).
RepoIsUsable ==
  ~overtaken => Cardinality(Writers) <= 1 /\ (Writers = {} /\ ~stuck => Dirty = {})

\* A run that asks for the lease gets it and ends its compose, or hangs in it,
\* although other holders hang for good.
EveryComposeEnds == \A r \in Runs : pc[r] = "wait" ~> pc[r] \in {"idle", "hung"}
===========================================================================
