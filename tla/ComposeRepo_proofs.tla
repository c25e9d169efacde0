------------------------- MODULE ComposeRepo_proofs -------------------------
(***************************************************************************)
(* Theorems about ComposeRepo for every set of runs, paths and             *)
(* deliverables: one run at a time writes, no leftover makes git refuse a  *)
(* checkout, and the commit that a run reports is its own.                 *)
(***************************************************************************)
EXTENDS ComposeRepo, FiniteSetTheorems, TLAPS

\* The tree of a run's deliverables and nothing else.
Own(r) == [p \in Paths |-> IF p \in delivers[r] THEN r ELSE None]

\* Only the holder of the lease writes.
LeaseInv == ~overtaken => Writers \subseteq {owner}

\* The branch of the writer is checked out and empty until its commit; a path
\* that is committed and staged is the same in both, and in the work tree unless
\* it is gone there.
RepoInv == ~overtaken =>
  /\ \A r \in Writers :
       /\ pc[r] # "checkout" => head = r
       /\ pc[r] \notin {"checkout", "record"} => tip[r] = Empty
       /\ pc[r] = "commit" => index = files
       /\ pc[r] = "record" => tip[r] = index /\ index = files
  /\ \A p \in Paths :
       HeadTree[p] # None /\ index[p] # None =>
         index[p] = HeadTree[p] /\ files[p] \in {index[p], None}

\* Nothing is staged that is not committed, but by the run that is about to
\* commit its files.
StagedInv == ~overtaken /\ ~stranded =>
  /\ \A r \in Writers :
       /\ pc[r] \in {"clean", "copy", "add"} => index = Empty
       /\ pc[r] = "copy" => files = Empty
       /\ pc[r] = "add" => files = Own(r)
       /\ pc[r] \in {"commit", "record"} => index = Own(r)
  /\ (\A r \in Runs : pc[r] # "commit") =>
       \A p \in Paths : HeadTree[p] = None => index[p] = None

ComposedInv == ~overtaken /\ ~stranded => \A r \in Runs : composed[r] \in {None, Own(r)}

IInv ==
  /\ TypeOK
  /\ LeaseInv
  /\ RepoInv
  /\ StagedInv
  /\ ComposedInv

---------------------------------------------------------------------------
\* A step keeps the types.
LEMMA TypeStep ==
  IInv /\ [Next]_vars => TypeOK'
<1> SUFFICES ASSUME IInv, [Next]_vars PROVE TypeOK'
  OBVIOUS
<1> USE ComposeRepoAssumption
     DEF IInv, TypeOK, lease, repo, history, Steps
<1>1. CASE Expire
  BY <1>1 DEF Expire
<1>2. CASE \E r \in Runs : Request(r)
  <2>1. PICK r \in Runs : Request(r)
    BY <1>2
  <2>2. pc' \in [Runs -> Steps \cup {"idle", "wait", "release", "hung"}]
    BY <2>1 DEF Request, Goto
  <2> QED
    BY <2>1, <2>2 DEF Request, Goto
<1>3. CASE \E r \in Runs : Acquire(r)
  <2>1. PICK r \in Runs : Acquire(r)
    BY <1>3
  <2>2. pc' \in [Runs -> Steps \cup {"idle", "wait", "release", "hung"}]
    BY <2>1 DEF Acquire, Goto
  <2>3. overtaken' \in BOOLEAN
    BY <2>1 DEF Acquire
  <2> QED
    BY <2>1, <2>2, <2>3 DEF Acquire, Goto
<1>4. CASE \E r \in Runs : Checkout(r)
  <2>1. PICK r \in Runs : Checkout(r)
    BY <1>4
  <2>2. pc' \in [Runs -> Steps \cup {"idle", "wait", "release", "hung"}]
    BY <2>1 DEF Checkout, Goto
  <2>3. index' \in Trees /\ files' \in Trees
    BY <2>1 DEF Checkout, Without, Trees
  <2>4. tip' \in [Runs -> Trees]
    BY <2>1 DEF Checkout, Empty, Trees
  <2> QED
    BY <2>1, <2>2, <2>3, <2>4 DEF Checkout, Goto
<1>5. CASE \E r \in Runs : RefuseCheckout(r)
  <2>1. PICK r \in Runs : RefuseCheckout(r)
    BY <1>5
  <2>2. pc' \in [Runs -> Steps \cup {"idle", "wait", "release", "hung"}]
    BY <2>1 DEF RefuseCheckout, Goto
  <2> QED
    BY <2>1, <2>2 DEF RefuseCheckout, Goto
<1>6. CASE \E r \in Runs : Clean(r)
  <2>1. PICK r \in Runs : Clean(r)
    BY <1>6
  <2>2. pc' \in [Runs -> Steps \cup {"idle", "wait", "release", "hung"}]
    BY <2>1 DEF Clean, Goto
  <2>3. files' \in Trees
    BY <2>1 DEF Clean, Without, Trees
  <2> QED
    BY <2>1, <2>2, <2>3 DEF Clean, Goto
<1>7. CASE \E r \in Runs : Copy(r)
  <2>1. PICK r \in Runs : Copy(r)
    BY <1>7
  <2>2. pc' \in [Runs -> Steps \cup {"idle", "wait", "release", "hung"}]
    BY <2>1 DEF Copy, Goto
  <2>3. files' \in Trees
    BY <2>1 DEF Copy, Written, Trees
  <2> QED
    BY <2>1, <2>2, <2>3 DEF Copy, Goto
<1>8. CASE \E r \in Runs : Add(r)
  <2>1. PICK r \in Runs : Add(r)
    BY <1>8
  <2>2. pc' \in [Runs -> Steps \cup {"idle", "wait", "release", "hung"}]
    BY <2>1 DEF Add, Goto
  <2> QED
    BY <2>1, <2>2 DEF Add, Goto
<1>9. CASE \E r \in Runs : Commit(r)
  <2>1. PICK r \in Runs : Commit(r)
    BY <1>9
  <2>2. pc' \in [Runs -> Steps \cup {"idle", "wait", "release", "hung"}]
    BY <2>1 DEF Commit, Goto
  <2> QED
    BY <2>1, <2>2 DEF Commit, Goto
<1>10. CASE \E r \in Runs : Record(r)
  <2>1. PICK r \in Runs : Record(r)
    BY <1>10
  <2>2. pc' \in [Runs -> Steps \cup {"idle", "wait", "release", "hung"}]
    BY <2>1 DEF Record, Goto
  <2>3. HeadTree \in Trees
    BY  DEF HeadTree, Empty, Trees
  <2>4. composed' \in [Runs -> Trees \cup {None}]
    BY <2>1, <2>3 DEF Record
  <2> QED
    BY <2>1, <2>2, <2>3, <2>4 DEF Record, Goto
<1>11. CASE \E r \in Runs : Fail(r)
  <2>1. PICK r \in Runs : Fail(r)
    BY <1>11
  <2>2. pc' \in [Runs -> Steps \cup {"idle", "wait", "release", "hung"}]
    BY <2>1 DEF Fail
  <2>3. files' \in Trees
    BY <2>1 DEF Fail, Written, Trees
  <2>4. stranded' \in BOOLEAN
    BY <2>1 DEF Fail
  <2> QED
    BY <2>1, <2>2, <2>3, <2>4 DEF Fail
<1>12. CASE \E r \in Runs : Hang(r)
  <2>1. PICK r \in Runs : Hang(r)
    BY <1>12
  <2>2. pc' \in [Runs -> Steps \cup {"idle", "wait", "release", "hung"}]
    BY <2>1 DEF Hang, Goto
  <2> QED
    BY <2>1, <2>2 DEF Hang, Goto
<1>13. CASE \E r \in Runs : Release(r)
  <2>1. PICK r \in Runs : Release(r)
    BY <1>13
  <2>2. pc' \in [Runs -> Steps \cup {"idle", "wait", "release", "hung"}]
    BY <2>1 DEF Release, Goto
  <2>3. overdue' \in BOOLEAN
    BY <2>1 DEF Release
  <2>4. owner' \in Runs \cup {None} /\ (overdue' => owner' # None)
    BY <2>1 DEF Release
  <2> QED
    BY <2>1, <2>2, <2>3, <2>4 DEF Release, Goto
<1>14. CASE UNCHANGED vars
  BY <1>14 DEF vars
<1>15. CASE \E r \in Runs : KilledCheckout(r)
  <2>1. PICK r \in Runs : KilledCheckout(r)
    BY <1>15
  <2>2. pc' \in [Runs -> Steps \cup {"idle", "wait", "release", "hung"}]
    BY <2>1 DEF KilledCheckout, Killed, Goto
  <2>3. index' \in Trees /\ files' \in Trees
    BY <2>1 DEF KilledCheckout, Without, Trees
  <2>4. tip' \in [Runs -> Trees]
    BY <2>1 DEF KilledCheckout, Empty, Trees
  <2>5. stuck' \in BOOLEAN /\ stranded' \in BOOLEAN
    BY <2>1 DEF KilledCheckout
  <2> QED
    BY <2>1, <2>2, <2>3, <2>4, <2>5 DEF KilledCheckout, Killed
<1>16. CASE \E r \in Runs : KilledClean(r)
  <2>1. PICK r \in Runs : KilledClean(r)
    BY <1>16
  <2>2. pc' \in [Runs -> Steps \cup {"idle", "wait", "release", "hung"}]
    BY <2>1 DEF KilledClean, Killed, Goto
  <2>3. index' \in Trees /\ files' \in Trees
    BY <2>1 DEF KilledClean, Without, Trees
  <2>4. tip' \in [Runs -> Trees]
    BY <2>1 DEF KilledClean, Empty, Trees
  <2>5. stuck' \in BOOLEAN /\ stranded' \in BOOLEAN
    BY <2>1 DEF KilledClean
  <2> QED
    BY <2>1, <2>2, <2>3, <2>4, <2>5 DEF KilledClean, Killed
<1>17. CASE \E r \in Runs : KilledAdd(r)
  <2>1. PICK r \in Runs : KilledAdd(r)
    BY <1>17
  <2>2. pc' \in [Runs -> Steps \cup {"idle", "wait", "release", "hung"}]
    BY <2>1 DEF KilledAdd, Killed, Goto
  <2>3. index' \in Trees /\ files' \in Trees
    BY <2>1 DEF KilledAdd, Without, Trees
  <2>4. tip' \in [Runs -> Trees]
    BY <2>1 DEF KilledAdd, Empty, Trees
  <2>5. stuck' \in BOOLEAN /\ stranded' \in BOOLEAN
    BY <2>1 DEF KilledAdd
  <2> QED
    BY <2>1, <2>2, <2>3, <2>4, <2>5 DEF KilledAdd, Killed
<1>18. CASE \E r \in Runs : KilledCommit(r)
  <2>1. PICK r \in Runs : KilledCommit(r)
    BY <1>18
  <2>2. pc' \in [Runs -> Steps \cup {"idle", "wait", "release", "hung"}]
    BY <2>1 DEF KilledCommit, Killed, Goto
  <2>3. index' \in Trees /\ files' \in Trees
    BY <2>1 DEF KilledCommit, Without, Trees
  <2>4. tip' \in [Runs -> Trees]
    BY <2>1 DEF KilledCommit, Empty, Trees
  <2>5. stuck' \in BOOLEAN /\ stranded' \in BOOLEAN
    BY <2>1 DEF KilledCommit
  <2> QED
    BY <2>1, <2>2, <2>3, <2>4, <2>5 DEF KilledCommit, Killed
<1> QED
  BY <1>1, <1>2, <1>3, <1>4, <1>5, <1>6, <1>7, <1>8, <1>9, <1>10, <1>11,
     <1>12, <1>13, <1>14, <1>15, <1>16, <1>17, <1>18 DEF Next, Compose

\* A step lets nobody write but the holder of the lease.
LEMMA LeaseStep ==
  IInv /\ [Next]_vars => LeaseInv'
<1> SUFFICES ASSUME IInv, [Next]_vars PROVE LeaseInv'
  OBVIOUS
<1> USE ComposeRepoAssumption
     DEF IInv, TypeOK, LeaseInv, Writers, Steps, lease, repo, history
<1>1. CASE Expire
  BY <1>1 DEF Expire
<1>2. CASE \E r \in Runs : Request(r)
  <2>1. PICK r \in Runs : Request(r)
    BY <1>2
  <2> QED
    BY <2>1 DEF Request, Goto
<1>3. CASE \E r \in Runs : Acquire(r)
  <2>1. PICK r \in Runs : Acquire(r)
    BY <1>3
  <2> QED
    BY <2>1 DEF Acquire, Goto
<1>4. CASE \E r \in Runs : Checkout(r)
  <2>1. PICK r \in Runs : Checkout(r)
    BY <1>4
  <2> QED
    BY <2>1 DEF Checkout, Goto
<1>5. CASE \E r \in Runs : RefuseCheckout(r)
  <2>1. PICK r \in Runs : RefuseCheckout(r)
    BY <1>5
  <2> QED
    BY <2>1 DEF RefuseCheckout, Goto
<1>6. CASE \E r \in Runs : Clean(r)
  <2>1. PICK r \in Runs : Clean(r)
    BY <1>6
  <2> QED
    BY <2>1 DEF Clean, Goto
<1>7. CASE \E r \in Runs : Copy(r)
  <2>1. PICK r \in Runs : Copy(r)
    BY <1>7
  <2> QED
    BY <2>1 DEF Copy, Goto
<1>8. CASE \E r \in Runs : Add(r)
  <2>1. PICK r \in Runs : Add(r)
    BY <1>8
  <2> QED
    BY <2>1 DEF Add, Goto
<1>9. CASE \E r \in Runs : Commit(r)
  <2>1. PICK r \in Runs : Commit(r)
    BY <1>9
  <2> QED
    BY <2>1 DEF Commit, Goto
<1>10. CASE \E r \in Runs : Record(r)
  <2>1. PICK r \in Runs : Record(r)
    BY <1>10
  <2> QED
    BY <2>1 DEF Record, Goto
<1>11. CASE \E r \in Runs : Fail(r)
  <2>1. PICK r \in Runs : Fail(r)
    BY <1>11
  <2> QED
    BY <2>1 DEF Fail
<1>12. CASE \E r \in Runs : Hang(r)
  <2>1. PICK r \in Runs : Hang(r)
    BY <1>12
  <2> QED
    BY <2>1 DEF Hang, Goto
<1>13. CASE \E r \in Runs : Release(r)
  <2>1. PICK r \in Runs : Release(r)
    BY <1>13
  <2> QED
    BY <2>1 DEF Release, Goto
<1>14. CASE UNCHANGED vars
  BY <1>14 DEF vars
<1>15. CASE \E r \in Runs : KilledCheckout(r)
  <2>1. PICK r \in Runs : KilledCheckout(r)
    BY <1>15
  <2> QED
    BY <2>1 DEF KilledCheckout, Killed, Goto
<1>16. CASE \E r \in Runs : KilledClean(r)
  <2>1. PICK r \in Runs : KilledClean(r)
    BY <1>16
  <2> QED
    BY <2>1 DEF KilledClean, Killed, Goto
<1>17. CASE \E r \in Runs : KilledAdd(r)
  <2>1. PICK r \in Runs : KilledAdd(r)
    BY <1>17
  <2> QED
    BY <2>1 DEF KilledAdd, Killed, Goto
<1>18. CASE \E r \in Runs : KilledCommit(r)
  <2>1. PICK r \in Runs : KilledCommit(r)
    BY <1>18
  <2> QED
    BY <2>1 DEF KilledCommit, Killed, Goto
<1> QED
  BY <1>1, <1>2, <1>3, <1>4, <1>5, <1>6, <1>7, <1>8, <1>9, <1>10, <1>11,
     <1>12, <1>13, <1>14, <1>15, <1>16, <1>17, <1>18 DEF Next, Compose

\* A step leaves no change behind that a checkout would have to throw away.
LEMMA RepoStep ==
  IInv /\ [Next]_vars => RepoInv'
<1> SUFFICES ASSUME IInv, [Next]_vars PROVE RepoInv'
  OBVIOUS
<1> USE ComposeRepoAssumption
     DEF IInv, TypeOK, LeaseInv, RepoInv, Writers, Steps, HeadTree, Empty,
         Dirty, Tracked, Untracked, Without, Trees, lease, repo, history
<1>1. CASE Expire
  BY <1>1 DEF Expire
<1>2. CASE \E r \in Runs : Request(r)
  <2>1. PICK r \in Runs : Request(r)
    BY <1>2
  <2> QED
    BY <2>1 DEF Request, Goto
<1>3. CASE \E r \in Runs : Acquire(r)
  <2>1. PICK r \in Runs : Acquire(r)
    BY <1>3
  <2> QED
    BY <2>1 DEF Acquire, Goto
<1>4. CASE \E r \in Runs : Checkout(r)
  <2>1. PICK r \in Runs : Checkout(r)
    BY <1>4
  <2> QED
    BY <2>1 DEF Checkout, Goto
<1>5. CASE \E r \in Runs : RefuseCheckout(r)
  <2>1. PICK r \in Runs : RefuseCheckout(r)
    BY <1>5
  <2> QED
    BY <2>1 DEF RefuseCheckout, Goto
<1>6. CASE \E r \in Runs : Clean(r)
  <2>1. PICK r \in Runs : Clean(r)
    BY <1>6
  <2> QED
    BY <2>1 DEF Clean, Goto
<1>7. CASE \E r \in Runs : Copy(r)
  <2>1. PICK r \in Runs : Copy(r)
    BY <1>7
  <2> QED
    BY <2>1 DEF Copy, Goto
<1>8. CASE \E r \in Runs : Add(r)
  <2>1. PICK r \in Runs : Add(r)
    BY <1>8
  <2> QED
    BY <2>1 DEF Add, Goto
<1>9. CASE \E r \in Runs : Commit(r)
  <2>1. PICK r \in Runs : Commit(r)
    BY <1>9
  <2> QED
    BY <2>1 DEF Commit, Goto
<1>10. CASE \E r \in Runs : Record(r)
  <2>1. PICK r \in Runs : Record(r)
    BY <1>10
  <2> QED
    BY <2>1 DEF Record, Goto
<1>11. CASE \E r \in Runs : Fail(r)
  <2>1. PICK r \in Runs : Fail(r)
    BY <1>11
  <2> QED
    BY <2>1 DEF Fail
<1>12. CASE \E r \in Runs : Hang(r)
  <2>1. PICK r \in Runs : Hang(r)
    BY <1>12
  <2> QED
    BY <2>1 DEF Hang, Goto
<1>13. CASE \E r \in Runs : Release(r)
  <2>1. PICK r \in Runs : Release(r)
    BY <1>13
  <2> QED
    BY <2>1 DEF Release, Goto
<1>14. CASE UNCHANGED vars
  BY <1>14 DEF vars
<1>15. CASE \E r \in Runs : KilledCheckout(r)
  <2>1. PICK r \in Runs : KilledCheckout(r)
    BY <1>15
  <2>2. ~overtaken => \A s \in Runs : pc'[s] \notin Steps
    BY <2>1 DEF KilledCheckout, Killed, Goto
  <2>3. ASSUME ~overtaken, NEW p \in Paths, HeadTree'[p] # None, index'[p] # None
        PROVE  index'[p] = HeadTree'[p] /\ files'[p] \in {index'[p], None}
    <3>1. HeadTree'[p] = HeadTree[p]
      <4>1. head' = head
        BY <2>1 DEF KilledCheckout
      <4>2. head # None
        BY <2>3, <4>1
      <4>3. tip'[head] \in {tip[head], Empty}
        BY <2>1, <4>2 DEF KilledCheckout
      <4> QED
        BY <2>3, <4>1, <4>2, <4>3
    <3>2. index'[p] = index[p]
      BY <2>1, <2>3 DEF KilledCheckout
    <3>3. files'[p] \in {files[p], None}
      BY <2>1 DEF KilledCheckout
    <3> QED
      BY <2>3, <3>1, <3>2, <3>3
  <2>4. overtaken' = overtaken
    BY <2>1 DEF KilledCheckout, Killed
  <2> QED
    BY <2>2, <2>3, <2>4
<1>16. CASE \E r \in Runs : KilledClean(r)
  <2>1. PICK r \in Runs : KilledClean(r)
    BY <1>16
  <2> QED
    BY <2>1 DEF KilledClean, Killed, Goto
<1>17. CASE \E r \in Runs : KilledAdd(r)
  <2>1. PICK r \in Runs : KilledAdd(r)
    BY <1>17
  <2> QED
    BY <2>1 DEF KilledAdd, Killed, Goto
<1>18. CASE \E r \in Runs : KilledCommit(r)
  <2>1. PICK r \in Runs : KilledCommit(r)
    BY <1>18
  <2> QED
    BY <2>1 DEF KilledCommit, Killed, Goto
<1> QED
  BY <1>1, <1>2, <1>3, <1>4, <1>5, <1>6, <1>7, <1>8, <1>9, <1>10, <1>11,
     <1>12, <1>13, <1>14, <1>15, <1>16, <1>17, <1>18 DEF Next, Compose

\* A step leaves nothing staged for the next run.
LEMMA StagedStep ==
  IInv /\ [Next]_vars => StagedInv'
<1> SUFFICES ASSUME IInv, [Next]_vars PROVE StagedInv'
  OBVIOUS
<1> USE ComposeRepoAssumption
     DEF IInv, TypeOK, LeaseInv, RepoInv, Writers, Steps, HeadTree, Empty,
         Dirty, Tracked, Untracked, Without, Trees, lease, repo, history, StagedInv, Own
<1>1. CASE Expire
  BY <1>1 DEF Expire
<1>2. CASE \E r \in Runs : Request(r)
  <2>1. PICK r \in Runs : Request(r)
    BY <1>2
  <2> QED
    BY <2>1 DEF Request, Goto
<1>3. CASE \E r \in Runs : Acquire(r)
  <2>1. PICK r \in Runs : Acquire(r)
    BY <1>3
  <2> QED
    BY <2>1 DEF Acquire, Goto
<1>4. CASE \E r \in Runs : Checkout(r)
  <2>1. PICK r \in Runs : Checkout(r)
    BY <1>4
  <2>2. ~overtaken => Writers = {r}
    BY <2>1 DEF Checkout, Goto
  <2>3. ~overtaken => \A s \in Runs : s # r => pc[s] \notin Steps
    BY <2>2
  <2>4. ASSUME ~overtaken, ~stranded PROVE index' = Empty
    <3>1. \A s \in Runs : pc[s] # "commit"
      BY <2>1, <2>3, <2>4 DEF Checkout, Goto
    <3>2. \A p \in Paths : HeadTree[p] = None => index[p] = None
      BY <2>4, <3>1
    <3>3. index' = [p \in Paths |-> IF p \in Tracked THEN None ELSE index[p]]
      BY <2>1 DEF Checkout, Without
    <3> QED
      BY <3>2, <3>3
  <2>5. /\ pc' = [pc EXCEPT ![r] = "clean"]
        /\ overtaken' = overtaken /\ stranded' = stranded
    BY <2>1 DEF Checkout, Goto
  <2>6. ~overtaken => \A s \in Runs : s # r => pc'[s] \notin Steps
    BY <2>3, <2>5
  <2> QED
    BY <2>4, <2>5, <2>6
<1>5. CASE \E r \in Runs : RefuseCheckout(r)
  <2>1. PICK r \in Runs : RefuseCheckout(r)
    BY <1>5
  <2> QED
    BY <2>1 DEF RefuseCheckout, Goto
<1>6. CASE \E r \in Runs : Clean(r)
  <2>1. PICK r \in Runs : Clean(r)
    BY <1>6
  <2> QED
    BY <2>1 DEF Clean, Goto
<1>7. CASE \E r \in Runs : Copy(r)
  <2>1. PICK r \in Runs : Copy(r)
    BY <1>7
  <2>2. ~overtaken => Writers = {r}
    BY <2>1 DEF Copy, Goto
  <2>3. ~overtaken => \A s \in Runs : s # r => pc[s] \notin Steps
    BY <2>2
  <2>4. ASSUME ~overtaken, ~stranded PROVE index = Empty /\ files' = Own(r)
    BY <2>1, <2>2, <2>4 DEF Copy, Goto, Written
  <2>5. /\ pc' = [pc EXCEPT ![r] = "add"]
        /\ UNCHANGED <<overtaken, stranded, index, delivers>>
    BY <2>1 DEF Copy, Goto
  <2>6. ~overtaken => \A s \in Runs : s # r => pc'[s] \notin Steps
    BY <2>3, <2>5
  <2> QED
    BY <2>4, <2>5, <2>6
<1>8. CASE \E r \in Runs : Add(r)
  <2>1. PICK r \in Runs : Add(r)
    BY <1>8
  <2> QED
    BY <2>1 DEF Add, Goto
<1>9. CASE \E r \in Runs : Commit(r)
  <2>1. PICK r \in Runs : Commit(r)
    BY <1>9
  <2> QED
    BY <2>1 DEF Commit, Goto
<1>10. CASE \E r \in Runs : Record(r)
  <2>1. PICK r \in Runs : Record(r)
    BY <1>10
  <2> QED
    BY <2>1 DEF Record, Goto
<1>11. CASE \E r \in Runs : Fail(r)
  <2>1. PICK r \in Runs : Fail(r)
    BY <1>11
  <2>2. ~overtaken => Writers = {r}
    BY <2>1 DEF Fail
  <2>3. ~overtaken => \A s \in Runs : s # r => pc[s] \notin Steps
    BY <2>2
  <2>4. /\ pc' = [pc EXCEPT ![r] = "release"]
        /\ UNCHANGED <<overtaken, index, head, tip, delivers>>
        /\ ~stranded' => ~stranded /\ pc[r] # "commit"
    BY <2>1 DEF Fail
  <2>5. ~overtaken => \A s \in Runs : pc'[s] \notin Steps
    BY <2>3, <2>4
  <2>6. ASSUME ~overtaken', ~stranded'
        PROVE  \A p \in Paths : HeadTree'[p] = None => index'[p] = None
    <3>1. \A s \in Runs : pc[s] # "commit"
      BY <2>3, <2>4, <2>6
    <3>2. \A p \in Paths : HeadTree[p] = None => index[p] = None
      BY <2>4, <2>6, <3>1
    <3> QED
      BY <2>4, <3>2
  <2> QED
    BY <2>4, <2>5, <2>6
<1>12. CASE \E r \in Runs : Hang(r)
  <2>1. PICK r \in Runs : Hang(r)
    BY <1>12
  <2> QED
    BY <2>1 DEF Hang, Goto
<1>13. CASE \E r \in Runs : Release(r)
  <2>1. PICK r \in Runs : Release(r)
    BY <1>13
  <2> QED
    BY <2>1 DEF Release, Goto
<1>14. CASE UNCHANGED vars
  BY <1>14 DEF vars
<1>15. CASE \E r \in Runs : KilledCheckout(r)
  <2>1. PICK r \in Runs : KilledCheckout(r)
    BY <1>15
  <2> QED
    BY <2>1 DEF KilledCheckout, Killed, Goto
<1>16. CASE \E r \in Runs : KilledClean(r)
  <2>1. PICK r \in Runs : KilledClean(r)
    BY <1>16
  <2> QED
    BY <2>1 DEF KilledClean, Killed, Goto
<1>17. CASE \E r \in Runs : KilledAdd(r)
  <2>1. PICK r \in Runs : KilledAdd(r)
    BY <1>17
  <2> QED
    BY <2>1 DEF KilledAdd, Killed, Goto
<1>18. CASE \E r \in Runs : KilledCommit(r)
  <2>1. PICK r \in Runs : KilledCommit(r)
    BY <1>18
  <2> QED
    BY <2>1 DEF KilledCommit, Killed, Goto
<1> QED
  BY <1>1, <1>2, <1>3, <1>4, <1>5, <1>6, <1>7, <1>8, <1>9, <1>10, <1>11,
     <1>12, <1>13, <1>14, <1>15, <1>16, <1>17, <1>18 DEF Next, Compose

\* A step records a commit only if it is the run's own.
LEMMA ComposedStep ==
  IInv /\ [Next]_vars => ComposedInv'
<1> SUFFICES ASSUME IInv, [Next]_vars PROVE ComposedInv'
  OBVIOUS
<1> USE ComposeRepoAssumption
     DEF IInv, TypeOK, LeaseInv, RepoInv, StagedInv, ComposedInv, Writers,
         Steps, HeadTree, Own, lease, repo, history
<1>1. CASE Expire
  BY <1>1 DEF Expire
<1>2. CASE \E r \in Runs : Request(r)
  <2>1. PICK r \in Runs : Request(r)
    BY <1>2
  <2> QED
    BY <2>1 DEF Request, Goto
<1>3. CASE \E r \in Runs : Acquire(r)
  <2>1. PICK r \in Runs : Acquire(r)
    BY <1>3
  <2> QED
    BY <2>1 DEF Acquire, Goto
<1>4. CASE \E r \in Runs : Checkout(r)
  <2>1. PICK r \in Runs : Checkout(r)
    BY <1>4
  <2> QED
    BY <2>1 DEF Checkout, Goto
<1>5. CASE \E r \in Runs : RefuseCheckout(r)
  <2>1. PICK r \in Runs : RefuseCheckout(r)
    BY <1>5
  <2> QED
    BY <2>1 DEF RefuseCheckout, Goto
<1>6. CASE \E r \in Runs : Clean(r)
  <2>1. PICK r \in Runs : Clean(r)
    BY <1>6
  <2> QED
    BY <2>1 DEF Clean, Goto
<1>7. CASE \E r \in Runs : Copy(r)
  <2>1. PICK r \in Runs : Copy(r)
    BY <1>7
  <2> QED
    BY <2>1 DEF Copy, Goto
<1>8. CASE \E r \in Runs : Add(r)
  <2>1. PICK r \in Runs : Add(r)
    BY <1>8
  <2> QED
    BY <2>1 DEF Add, Goto
<1>9. CASE \E r \in Runs : Commit(r)
  <2>1. PICK r \in Runs : Commit(r)
    BY <1>9
  <2> QED
    BY <2>1 DEF Commit, Goto
<1>10. CASE \E r \in Runs : Record(r)
  <2>1. PICK r \in Runs : Record(r)
    BY <1>10
  <2> QED
    BY <2>1 DEF Record, Goto
<1>11. CASE \E r \in Runs : Fail(r)
  <2>1. PICK r \in Runs : Fail(r)
    BY <1>11
  <2> QED
    BY <2>1 DEF Fail
<1>12. CASE \E r \in Runs : Hang(r)
  <2>1. PICK r \in Runs : Hang(r)
    BY <1>12
  <2> QED
    BY <2>1 DEF Hang, Goto
<1>13. CASE \E r \in Runs : Release(r)
  <2>1. PICK r \in Runs : Release(r)
    BY <1>13
  <2> QED
    BY <2>1 DEF Release, Goto
<1>14. CASE UNCHANGED vars
  BY <1>14 DEF vars
<1>15. CASE \E r \in Runs : KilledCheckout(r)
  <2>1. PICK r \in Runs : KilledCheckout(r)
    BY <1>15
  <2> QED
    BY <2>1 DEF KilledCheckout, Killed, Goto
<1>16. CASE \E r \in Runs : KilledClean(r)
  <2>1. PICK r \in Runs : KilledClean(r)
    BY <1>16
  <2> QED
    BY <2>1 DEF KilledClean, Killed, Goto
<1>17. CASE \E r \in Runs : KilledAdd(r)
  <2>1. PICK r \in Runs : KilledAdd(r)
    BY <1>17
  <2> QED
    BY <2>1 DEF KilledAdd, Killed, Goto
<1>18. CASE \E r \in Runs : KilledCommit(r)
  <2>1. PICK r \in Runs : KilledCommit(r)
    BY <1>18
  <2> QED
    BY <2>1 DEF KilledCommit, Killed, Goto
<1> QED
  BY <1>1, <1>2, <1>3, <1>4, <1>5, <1>6, <1>7, <1>8, <1>9, <1>10, <1>11,
     <1>12, <1>13, <1>14, <1>15, <1>16, <1>17, <1>18 DEF Next, Compose

\* IInv is an invariant of the repository.
LEMMA Inductive ==
  Spec => []IInv
<1>1. Init => IInv
  <2> SUFFICES ASSUME Init PROVE IInv
    OBVIOUS
  <2> USE ComposeRepoAssumption DEF Init
  <2>1. TypeOK
    <3>1. Empty \in Trees
      BY DEF Empty, Trees
    <3>2. {stuck, overtaken, stranded} \subseteq BOOLEAN
      OBVIOUS
    <3>3. tip \in [Runs -> Trees] /\ composed \in [Runs -> Trees \cup {None}]
      BY <3>1
    <3>4. /\ rounds \in [Runs -> 0 .. MaxRounds]
          /\ pc \in [Runs -> Steps \cup {"idle", "wait", "release", "hung"}]
      OBVIOUS
    <3>5. {index, files} \subseteq Trees
      BY <3>1
    <3>6. overdue \in BOOLEAN /\ (overdue => owner # None)
      OBVIOUS
    <3> QED
      BY <3>2, <3>3, <3>4, <3>5, <3>6 DEF TypeOK
  <2>2. Writers = {}
    BY DEF Writers, Steps
  <2>3. LeaseInv /\ RepoInv /\ StagedInv /\ ComposedInv
    BY <2>2 DEF LeaseInv, RepoInv, StagedInv, ComposedInv, HeadTree, Empty
  <2> QED
    BY <2>1, <2>3 DEF IInv
<1>2. IInv /\ [Next]_vars => IInv'
  BY TypeStep, LeaseStep, RepoStep, StagedStep, ComposedStep DEF IInv
<1> QED
  BY <1>1, <1>2, PTL DEF Spec

\* Unless a slow holder was evicted one run at a time writes, and git does not
\* refuse the next checkout, whatever a compose that broke off has left behind
\* (_Lease, _compose_commit_locked).
THEOREM RepoIsAlwaysUsable ==
  Spec => []RepoIsUsable
<1>1. IInv => RepoIsUsable
  <2> SUFFICES ASSUME IInv, ~overtaken
               PROVE  Cardinality(Writers) <= 1 /\ Dirty = {}
    BY DEF RepoIsUsable
  <2>1. Writers \subseteq {owner}
    BY DEF IInv, LeaseInv
  <2>2. Cardinality(Writers) <= Cardinality({owner}) /\ Cardinality({owner}) = 1
    BY <2>1, FS_Singleton, FS_Subset
  <2>3. Dirty = {}
    BY DEF IInv, RepoInv, Dirty, Tracked
  <2> QED
    BY <2>2, <2>3
<1> QED
  BY <1>1, Inductive, PTL

\* The commit that a run reports holds its own files, all of them and no others
\* (_compose_commit_locked).
THEOREM CommitIsAlwaysOwn ==
  Spec => []CommitIsOwn
<1>1. IInv => CommitIsOwn
  BY DEF IInv, ComposedInv, CommitIsOwn, Own
<1> QED
  BY <1>1, Inductive, PTL
===========================================================================
