--------------------------- MODULE Finalization ---------------------------
(***************************************************************************)
(* The rounds of one run on its pull request (engine.py, _finalize and     *)
(* _compose_commit; github.py, open_pr, update_pr and merge_pr): every     *)
(* round builds a deliverable, the gate runs it, a green deliverable is    *)
(* composed on a local branch and published file by file, the judge        *)
(* decides, and an approved run may be merged.  Every call to the gateway  *)
(* may fail, with or without its effect, and the user may change the merge *)
(* policy, the wiring of the gateway and, once there is a pull request,    *)
(* the repository at any time.                                             *)
(*                                                                         *)
(* The content of a file is the round that last wrote it, 0 where there is *)
(* no file.  The work directory of the run is what the judge reads; it     *)
(* keeps the files a later round does not write.                           *)
(***************************************************************************)
EXTENDS Naturals

CONSTANTS
  Files,            \* the paths a deliverable may have
  MaxRounds         \* engine.MAX_ITERATIONS

ASSUME FinalizationAssumption == MaxRounds \in Nat \ {0}

VARIABLES
  pc,           \* where the worker is in the round
  round,        \* run.iterations
  readOnly,     \* the route is a review of another run
  work,         \* the files in the work directory of the run
  branch,       \* the files on the local branch of the run
  composed,     \* run.composed_branch is set
  todo,         \* the files still to be put
  target,       \* the base open_pr has chosen
  remote,       \* the files on the branch of the run in the repository
  pull,         \* the pull request of that branch: none, open or merged
  base,         \* the base it was created with
  known,        \* run.pr_url, run.pr: the engine knows of the pull request
  lgtm,         \* the verdict of this round
  trouble,      \* composing or publishing failed in this round: none, only
                \* failures nobody has noticed, or one the engine logged
  mergeState,   \* run.merge_state
  merged,       \* the files the merge landed
  landed,       \* the base of the pull request the gateway has merged for this
                \* run, its own or that of another repository
  status,       \* run.status at the end
  policy,       \* the merge policy setting
  wired,        \* the gateway and the repository are configured
  elsewhere,    \* the repository configured is not that of the pull request
  strayed       \* history: it has been another one since that was opened

vars == <<pc, round, readOnly, work, branch, composed, todo, target,
          remote, pull, base, known, lgtm, trouble, mergeState, merged,
          landed, status, policy, wired, elsewhere, strayed>>

moved    == <<elsewhere, strayed>>
settings == <<policy, wired, moved>>
built    == <<round, readOnly, work>>
local    == <<branch, composed>>
ending   == <<mergeState, merged, landed, status>>

Contents == [Files -> 0 .. MaxRounds]
NoFiles  == [f \in Files |-> 0]

Policies == {"human_review", "auto"}

Init ==
  /\ pc = "build"
  /\ round = 0
  /\ readOnly \in BOOLEAN
  /\ work = NoFiles
  /\ branch = NoFiles
  /\ composed = FALSE
  /\ todo = {}
  /\ target = "none"
  /\ remote = NoFiles
  /\ pull = "none"
  /\ base = "none"
  /\ known = FALSE
  /\ lgtm = FALSE
  /\ trouble = "none"
  /\ mergeState = "none"
  /\ merged = NoFiles
  /\ landed = "none"
  /\ status = "running"
  /\ policy \in Policies
  /\ wired \in BOOLEAN
  /\ elsewhere = FALSE
  /\ strayed = FALSE

Goto(from, to) ==
  /\ pc = from
  /\ pc' = to

---------------------------------------------------------------------------
\* A round of agent execution and its gate.

\* The agents decide which files to write; none is removed.
Build ==
  /\ Goto("build", "gate")
  /\ round' = round + 1
  /\ \E written \in (SUBSET Files) \ {{}} :
       work' = [f \in Files |-> IF f \in written THEN round' ELSE work[f]]
  /\ lgtm' = FALSE
  /\ trouble' = "none"
  /\ UNCHANGED <<readOnly, local, todo, target, remote, pull, base, known,
                 ending, settings>>

\* A role failed, or the gate timed out: no finalization.
RoundFails ==
  /\ pc \in {"build", "gate"}
  /\ pc' = "done"
  /\ status' = "needs_human"
  /\ UNCHANGED <<built, local, todo, target, remote, pull, base, known, lgtm,
                 trouble, mergeState, merged, landed, settings>>

GateRed ==
  /\ Goto("gate", "verdict")
  /\ UNCHANGED <<built, local, todo, target, remote, pull, base, known, lgtm,
                 trouble, ending, settings>>

\* A review of another run composes and publishes nothing.
GateGreen ==
  /\ Goto("gate", IF readOnly THEN "assess" ELSE "compose")
  /\ UNCHANGED <<built, local, todo, target, remote, pull, base, known, lgtm,
                 trouble, ending, settings>>

---------------------------------------------------------------------------
\* _compose_commit: the branch is reset to the empty root, then committed.

\* Mutant of Compose: the files of the first round are composed again.
ComposeOnce ==
  /\ Goto("compose", "publish")
  /\ branch' = IF composed THEN branch ELSE work
  /\ composed' = TRUE
  /\ UNCHANGED <<built, todo, target, remote, pull, base, known, lgtm, trouble,
                 ending, settings>>

Compose ==
  /\ Goto("compose", "publish")
  /\ branch' = work
  /\ composed' = TRUE
  /\ UNCHANGED <<built, todo, target, remote, pull, base, known, lgtm, trouble,
                 ending, settings>>

\* An error before the reset, after it, or after the commit: the run goes on
\* with what the branch then holds.
ComposeFails ==
  /\ Goto("compose", "publish")
  /\ branch' \in {branch, NoFiles, work}
  /\ trouble' = "logged"
  /\ UNCHANGED <<built, composed, todo, target, remote, pull, base, known, lgtm,
                 ending, settings>>

---------------------------------------------------------------------------
\* open_pr, or update_pr when the pull request is known.

Listed == {f \in Files : branch[f] # 0}

CanPublish == wired /\ composed /\ Listed # {}

\* The base a pull request opens on.
PolicyBase == IF policy = "auto" THEN "integration" ELSE "default"

\* What the files are for: a pull request to come, the one there is, or none,
\* as the repository has no such branch.
Target ==
  IF ~known THEN PolicyBase ELSE IF elsewhere THEN "nowhere" ELSE base

StartPublish ==
  /\ Goto("publish", "files")
  /\ CanPublish
  /\ todo' = Listed
  /\ target' = Target
  /\ UNCHANGED <<built, local, remote, pull, base, known, lgtm, trouble, ending,
                 settings>>

\* Nothing to publish or nowhere to; or open_pr cannot create a branch.
PublishFails ==
  /\ Goto("publish", "assess")
  /\ CanPublish => ~known
  /\ trouble' = "logged"
  /\ UNCHANGED <<built, local, todo, target, remote, pull, base, known, lgtm,
                 ending, settings>>

PutFile(f) ==
  /\ pc = "files"
  /\ f \in todo
  /\ target # "nowhere"
  /\ todo' = todo \ {f}
  /\ remote' = [remote EXCEPT ![f] = branch[f]]
  /\ UNCHANGED <<pc, built, local, target, pull, base, known, lgtm, trouble,
                 ending, settings>>

\* The call fails, its effect may have landed, and the rest is not tried.
PutFileFails(f) ==
  /\ Goto("files", "assess")
  /\ f \in todo
  /\ todo' = {}
  /\ \/ UNCHANGED remote
     \/ /\ target # "nowhere"
        /\ remote' = [remote EXCEPT ![f] = branch[f]]
  /\ trouble' = "logged"
  /\ UNCHANGED <<built, local, target, pull, base, known, lgtm, ending, settings>>

\* The tool fails with an MCP error result, which _tool takes for an answer.
PutFileLost(f) ==
  /\ pc = "files"
  /\ f \in todo
  /\ todo' = todo \ {f}
  /\ trouble' = IF trouble = "none" THEN "unnoticed" ELSE trouble
  /\ UNCHANGED <<pc, built, local, target, remote, pull, base, known, lgtm,
                 ending, settings>>

FilesDone ==
  /\ Goto("files", IF known THEN "assess" ELSE "pull")
  /\ todo = {}
  /\ UNCHANGED <<built, local, todo, target, remote, pull, base, known, lgtm,
                 trouble, ending, settings>>

CreatePull ==
  /\ Goto("pull", "assess")
  /\ pull = "none"
  /\ pull' = "open"
  /\ base' = target
  /\ known' = TRUE
  /\ UNCHANGED <<built, local, todo, target, remote, lgtm, trouble, ending, settings>>

\* The call fails, or its answer is lost, or the branch has a pull request
\* whose creation was lost in an earlier round.
CreatePullFails ==
  /\ Goto("pull", "assess")
  /\ \/ UNCHANGED <<pull, base>>
     \/ /\ pull = "none"
        /\ pull' = "open"
        /\ base' = target
  /\ trouble' = "logged"
  /\ UNCHANGED <<built, local, todo, target, remote, known, lgtm, ending, settings>>

---------------------------------------------------------------------------
\* The verdict.

\* reviewer.assess; the comment on the pull request changes nothing here.
Assess ==
  /\ Goto("assess", "verdict")
  /\ lgtm' \in BOOLEAN
  /\ UNCHANGED <<built, local, todo, target, remote, pull, base, known, trouble,
                 ending, settings>>

Approve ==
  /\ Goto("verdict", "done")
  /\ lgtm
  /\ status' = "passed"
  /\ UNCHANGED <<built, local, todo, target, remote, base, known, lgtm, trouble,
                 settings>>

ApproveUnpublished ==
  /\ Approve
  /\ ~known
  /\ UNCHANGED <<pull, merged, landed, mergeState>>

ApproveForHuman ==
  /\ Approve
  /\ known
  /\ policy = "human_review"
  /\ mergeState' = "human_review"
  /\ UNCHANGED <<pull, merged, landed>>

\* Mutant of MayMerge: the base is taken for what the policy says now.
MayMergeNow == wired /\ PolicyBase = "integration"

\* merge_pr: never without a gateway, never when the base the pull request of
\* the run was opened on is the default branch.
MayMerge == wired /\ base # "default"

ApproveSkipMerge ==
  /\ Approve
  /\ known
  /\ policy = "auto"
  /\ ~MayMerge
  /\ mergeState' = "skipped"
  /\ UNCHANGED <<pull, merged, landed>>

Land ==
  /\ pull' = "merged"
  /\ merged' = remote
  /\ landed' = base

\* Mutant of MergeAnswer: a merge whose answer is lost counts as skipped.
MergeAnswerGuessed == {"merged", "skipped"}

\* What run.merge_state may say of a merge that landed.
MergeAnswer == {"merged", "error"}

ApproveMerge ==
  /\ Approve
  /\ known
  /\ policy = "auto"
  /\ MayMerge
  /\ ~elsewhere
  /\ \/ /\ Land
        /\ mergeState' \in MergeAnswer
     \/ /\ UNCHANGED <<pull, merged, landed>>
        /\ mergeState' = "error"

\* merge_pr reads the repository again and asks that one to merge its pull
\* request of the same number, if it has one, whatever the base of that is.
MergeElsewhere ==
  /\ Approve
  /\ known
  /\ policy = "auto"
  /\ MayMerge
  /\ elsewhere
  /\ \/ /\ landed' \in {"default", "integration"}
        /\ mergeState' \in MergeAnswer
     \/ /\ mergeState' = "error"
        /\ UNCHANGED landed
  /\ UNCHANGED <<pull, merged>>

\* Changes requested: another round, or a human.
Reject ==
  /\ Goto("verdict", IF round >= MaxRounds THEN "done" ELSE "build")
  /\ ~lgtm
  /\ status' = IF round >= MaxRounds THEN "needs_human" ELSE status
  /\ UNCHANGED <<built, local, todo, target, remote, pull, base, known, lgtm,
                 trouble, mergeState, merged, landed, settings>>

---------------------------------------------------------------------------
\* The user, in the settings pane.

SetMergePolicy ==
  /\ policy' \in Policies \ {policy}
  /\ UNCHANGED <<pc, built, local, todo, target, remote, pull, base, known, lgtm,
                 trouble, ending, wired, moved>>

SaveOrClearSettings ==
  /\ wired' = ~wired
  /\ UNCHANGED <<pc, built, local, todo, target, remote, pull, base, known, lgtm,
                 trouble, ending, policy, moved>>

\* Another repository is saved, or that of the pull request again.
ChangeRepository ==
  /\ known
  /\ elsewhere' = ~elsewhere
  /\ strayed' = TRUE
  /\ UNCHANGED <<pc, built, local, todo, target, remote, pull, base, known, lgtm,
                 trouble, ending, policy, wired>>

---------------------------------------------------------------------------
Round   == Build \/ RoundFails \/ GateRed \/ GateGreen \/ Compose \/ ComposeFails

Publish ==
  \/ StartPublish \/ PublishFails \/ FilesDone \/ CreatePull \/ CreatePullFails
  \/ \E f \in Files : PutFile(f) \/ PutFileFails(f) \/ PutFileLost(f)

Verdict ==
  \/ Assess \/ ApproveUnpublished \/ ApproveForHuman \/ ApproveSkipMerge
  \/ ApproveMerge \/ MergeElsewhere \/ Reject

User == SetMergePolicy \/ SaveOrClearSettings \/ ChangeRepository

Next == Round \/ Publish \/ Verdict \/ User

Spec == Init /\ [][Next]_vars

---------------------------------------------------------------------------
\* Properties.

\* Every variable keeps its type; the rounds are bounded.
TypeOK ==
  /\ pc \in {"build", "gate", "compose", "publish", "files", "pull", "assess",
             "verdict", "done"}
  /\ round \in 0 .. MaxRounds
  /\ todo \subseteq Files
  /\ {work, branch, remote, merged} \subseteq Contents
  /\ {readOnly, composed, known, lgtm, wired, elsewhere, strayed}
       \subseteq BOOLEAN
  /\ trouble \in {"none", "unnoticed", "logged"}
  /\ base \in {"none", "default", "integration"}
  /\ target \in {"none", "default", "integration", "nowhere"}
  /\ pull \in {"none", "open", "merged"}
  /\ landed \in {"none", "default", "integration"}
  /\ mergeState \in {"none", "human_review", "skipped", "merged", "error"}
  /\ status \in {"running", "passed", "needs_human"}
  /\ policy \in Policies

\* No pull request is merged into a default branch on behalf of the run, also
\* when the policy turns auto after the pull request was opened for a human,
\* and also when its creation was retried under another policy.  The one
\* exception: merge_pr checks the base of the run's own pull request only, so
\* once another repository was configured under the run, what it merges there
\* may be a pull request on that one's default branch (open_pr, merge_pr).
DefaultBranchUntouched ==
  /\ landed = "default" => strayed
  /\ pull = "merged" => landed = "integration"

\* What run.merge_state says is what happened: merged only when a pull request
\* was merged, which is the run's own unless the repository was changed under
\* the run, and skipped or human_review only when none was, here or in another
\* repository (_finalize, merge_pr).
MergeStateIsHonest ==
  /\ mergeState = "merged" => landed # "none" /\ (pull = "merged" \/ strayed)
  /\ mergeState \in {"none", "human_review", "skipped"} => landed = "none"

\* When nothing failed in the last round, what the merge landed is what the
\* judge approved, file by file, whatever earlier rounds left on the branches
\* (_compose_commit, open_pr, update_pr, merge_pr).
ApprovedIsMerged == pull = "merged" /\ trouble = "none" => merged = work

\* Only an approved run is merged, and a run that is merged has passed: no
\* path merges after changes were requested (_finalize).
MergedIsPassed == pull = "merged" => lgtm /\ status = "passed" /\ ~readOnly
===========================================================================
