------------------------ MODULE Finalization_proofs ------------------------
(***************************************************************************)
(* Theorems about Finalization for every set of files and every bound on   *)
(* the rounds: what may be merged into a default branch, run.merge_state is *)
(* honest, and only a run that has passed is merged.                       *)
(***************************************************************************)
EXTENDS Finalization, TLAPS

Bases == {"default", "integration"}

\* A base is chosen before the pull request it is for, and a pull request
\* the engine knows of exists; the repository is another one only once it
\* has been changed.
BaseInv ==
  /\ pc \in {"files", "pull"} /\ ~known => target \in Bases
  /\ pull # "none" => base \in Bases
  /\ known => pull # "none"
  /\ readOnly => ~known
  /\ elsewhere => strayed

\* A review publishes nothing, and nothing happens after the end.
EndInv ==
  /\ readOnly => pc \notin {"compose", "publish", "files", "pull"}
  /\ pull = "merged" \/ landed # "none" \/ mergeState # "none" \/ status # "running" =>
       pc = "done"
  /\ pc = "build" => round < MaxRounds

\* The branch and the pull request have no file the work directory lacks.
NoExtraFiles ==
  \A f \in Files : work[f] = 0 => branch[f] = 0 /\ remote[f] = 0

\* What a round without trouble has done so far: the branch is the work
\* directory, and the files that are not still to be put are in the
\* pull request; a verdict of the round before is forgotten.
PublishInv ==
  ~readOnly /\ trouble = "none" =>
    /\ pc = "gate" => ~lgtm
    /\ pc \in {"publish", "files", "pull"} => branch = work
    /\ pc = "files" => \A f \in Files \ todo : remote[f] = work[f]
    /\ pc \in {"pull", "assess"} => remote = work
    /\ pc = "verdict" /\ lgtm => remote = work

IInv ==
  /\ TypeOK
  /\ BaseInv
  /\ EndInv
  /\ NoExtraFiles
  /\ PublishInv
  /\ DefaultBranchUntouched
  /\ MergeStateIsHonest
  /\ MergedIsPassed
  /\ ApprovedIsMerged

---------------------------------------------------------------------------
\* A step keeps the types.
LEMMA TypeStep ==
  IInv /\ [Next]_vars => TypeOK'
<1> SUFFICES ASSUME IInv, [Next]_vars PROVE TypeOK'
  OBVIOUS
<1> USE FinalizationAssumption DEF IInv, TypeOK, EndInv, Contents, NoFiles,
     Policies, built, local, ending, settings, moved
<1>1. CASE Build
  <2>1. round' \in 0 .. MaxRounds
    BY <1>1 DEF Build, Goto
  <2>2. PICK written \in SUBSET Files :
          work' = [f \in Files |-> IF f \in written THEN round' ELSE work[f]]
    BY <1>1 DEF Build
  <2>3. work' \in Contents
    BY <2>1, <2>2
  <2> QED
    BY <1>1, <2>1, <2>3 DEF Build, Goto
<1>2. CASE RoundFails
  BY <1>2 DEF RoundFails
<1>3. CASE GateRed
  BY <1>3 DEF GateRed, Goto
<1>4. CASE GateGreen
  BY <1>4 DEF GateGreen, Goto
<1>5. CASE Compose
  BY <1>5 DEF Compose, Goto
<1>6. CASE ComposeFails
  BY <1>6 DEF ComposeFails, Goto
<1>7. CASE StartPublish
  BY <1>7 DEF StartPublish, Goto, CanPublish, Listed, Target, PolicyBase
<1>8. CASE PublishFails
  BY <1>8 DEF PublishFails, Goto, CanPublish
<1>9. CASE FilesDone
  BY <1>9 DEF FilesDone, Goto
<1>10. CASE CreatePull
  BY <1>10 DEF CreatePull, Goto, BaseInv, Bases
<1>11. CASE CreatePullFails
  BY <1>11 DEF CreatePullFails, Goto, BaseInv, Bases
<1>12. CASE \E f \in Files : PutFile(f)
  BY <1>12 DEF PutFile
<1>13. CASE \E f \in Files : PutFileFails(f)
  BY <1>13 DEF PutFileFails, Goto
<1>14. CASE \E f \in Files : PutFileLost(f)
  BY <1>14 DEF PutFileLost
<1>15. CASE Assess
  BY <1>15 DEF Assess, Goto
<1>16. CASE ApproveUnpublished
  BY <1>16 DEF ApproveUnpublished, Approve, Goto
<1>17. CASE ApproveForHuman
  BY <1>17 DEF ApproveForHuman, Approve, Goto
<1>18. CASE ApproveSkipMerge
  BY <1>18 DEF ApproveSkipMerge, Approve, Goto, MayMerge
<1>19. CASE ApproveMerge
  BY <1>19 DEF ApproveMerge, Approve, Goto, MayMerge, Land, MergeAnswer
<1>20. CASE Reject
  BY <1>20 DEF Reject, Goto
<1>21. CASE SetMergePolicy
  BY <1>21 DEF SetMergePolicy
<1>22. CASE SaveOrClearSettings
  BY <1>22 DEF SaveOrClearSettings
<1>23. CASE MergeElsewhere
  BY <1>23 DEF MergeElsewhere, Approve, Goto, MayMerge, MergeAnswer, BaseInv
<1>24. CASE ChangeRepository
  BY <1>24 DEF ChangeRepository
<1>25. CASE UNCHANGED vars
  BY <1>25 DEF vars
<1> QED
  BY <1>1, <1>2, <1>3, <1>4, <1>5, <1>6, <1>7, <1>8, <1>9, <1>10, <1>11,
     <1>12, <1>13, <1>14, <1>15, <1>16, <1>17, <1>18, <1>19, <1>20, <1>21,
     <1>22, <1>23, <1>24, <1>25
     DEF Next, Round, Publish, Verdict, User

\* A step keeps the base of the pull request.
LEMMA BaseStep ==
  IInv /\ [Next]_vars => BaseInv'
<1> SUFFICES ASSUME IInv, [Next]_vars PROVE BaseInv'
  OBVIOUS
<1> USE FinalizationAssumption DEF IInv, TypeOK, BaseInv, EndInv, Bases,
     built, local, ending, settings, moved
<1>1. CASE Build
  BY <1>1 DEF Build, Goto
<1>2. CASE RoundFails
  BY <1>2 DEF RoundFails
<1>3. CASE GateRed
  BY <1>3 DEF GateRed, Goto
<1>4. CASE GateGreen
  BY <1>4 DEF GateGreen, Goto
<1>5. CASE Compose
  BY <1>5 DEF Compose, Goto
<1>6. CASE ComposeFails
  BY <1>6 DEF ComposeFails, Goto
<1>7. CASE StartPublish
  BY <1>7 DEF StartPublish, Goto, CanPublish, Listed, Target, PolicyBase
<1>8. CASE PublishFails
  BY <1>8 DEF PublishFails, Goto, CanPublish
<1>9. CASE FilesDone
  BY <1>9 DEF FilesDone, Goto
<1>10. CASE CreatePull
  BY <1>10 DEF CreatePull, Goto
<1>11. CASE CreatePullFails
  BY <1>11 DEF CreatePullFails, Goto
<1>12. CASE \E f \in Files : PutFile(f)
  BY <1>12 DEF PutFile
<1>13. CASE \E f \in Files : PutFileFails(f)
  BY <1>13 DEF PutFileFails, Goto
<1>14. CASE \E f \in Files : PutFileLost(f)
  BY <1>14 DEF PutFileLost
<1>15. CASE Assess
  BY <1>15 DEF Assess, Goto
<1>16. CASE ApproveUnpublished
  BY <1>16 DEF ApproveUnpublished, Approve, Goto
<1>17. CASE ApproveForHuman
  BY <1>17 DEF ApproveForHuman, Approve, Goto
<1>18. CASE ApproveSkipMerge
  BY <1>18 DEF ApproveSkipMerge, Approve, Goto, MayMerge
<1>19. CASE ApproveMerge
  BY <1>19 DEF ApproveMerge, Approve, Goto, MayMerge, Land, MergeAnswer
<1>20. CASE Reject
  BY <1>20 DEF Reject, Goto
<1>21. CASE SetMergePolicy
  BY <1>21 DEF SetMergePolicy
<1>22. CASE SaveOrClearSettings
  BY <1>22 DEF SaveOrClearSettings
<1>23. CASE MergeElsewhere
  BY <1>23 DEF MergeElsewhere, Approve, Goto, MayMerge, MergeAnswer, BaseInv
<1>24. CASE ChangeRepository
  BY <1>24 DEF ChangeRepository
<1>25. CASE UNCHANGED vars
  BY <1>25 DEF vars
<1> QED
  BY <1>1, <1>2, <1>3, <1>4, <1>5, <1>6, <1>7, <1>8, <1>9, <1>10, <1>11,
     <1>12, <1>13, <1>14, <1>15, <1>16, <1>17, <1>18, <1>19, <1>20, <1>21,
     <1>22, <1>23, <1>24, <1>25
     DEF Next, Round, Publish, Verdict, User

\* A step merges and settles only where it ends the run.
LEMMA EndStep ==
  IInv /\ [Next]_vars => EndInv'
<1> SUFFICES ASSUME IInv, [Next]_vars PROVE EndInv'
  OBVIOUS
<1> USE FinalizationAssumption DEF IInv, TypeOK, BaseInv, EndInv, built,
     local, ending, settings, moved
<1>1. CASE Build
  BY <1>1 DEF Build, Goto
<1>2. CASE RoundFails
  BY <1>2 DEF RoundFails
<1>3. CASE GateRed
  BY <1>3 DEF GateRed, Goto
<1>4. CASE GateGreen
  BY <1>4 DEF GateGreen, Goto
<1>5. CASE Compose
  BY <1>5 DEF Compose, Goto
<1>6. CASE ComposeFails
  BY <1>6 DEF ComposeFails, Goto
<1>7. CASE StartPublish
  BY <1>7 DEF StartPublish, Goto, CanPublish, Listed, Target, PolicyBase
<1>8. CASE PublishFails
  BY <1>8 DEF PublishFails, Goto, CanPublish
<1>9. CASE FilesDone
  BY <1>9 DEF FilesDone, Goto
<1>10. CASE CreatePull
  BY <1>10 DEF CreatePull, Goto
<1>11. CASE CreatePullFails
  BY <1>11 DEF CreatePullFails, Goto
<1>12. CASE \E f \in Files : PutFile(f)
  BY <1>12 DEF PutFile
<1>13. CASE \E f \in Files : PutFileFails(f)
  BY <1>13 DEF PutFileFails, Goto
<1>14. CASE \E f \in Files : PutFileLost(f)
  BY <1>14 DEF PutFileLost
<1>15. CASE Assess
  BY <1>15 DEF Assess, Goto
<1>16. CASE ApproveUnpublished
  BY <1>16 DEF ApproveUnpublished, Approve, Goto
<1>17. CASE ApproveForHuman
  BY <1>17 DEF ApproveForHuman, Approve, Goto
<1>18. CASE ApproveSkipMerge
  BY <1>18 DEF ApproveSkipMerge, Approve, Goto, MayMerge
<1>19. CASE ApproveMerge
  BY <1>19 DEF ApproveMerge, Approve, Goto, MayMerge, Land, MergeAnswer
<1>20. CASE Reject
  BY <1>20 DEF Reject, Goto
<1>21. CASE SetMergePolicy
  BY <1>21 DEF SetMergePolicy
<1>22. CASE SaveOrClearSettings
  BY <1>22 DEF SaveOrClearSettings
<1>23. CASE MergeElsewhere
  BY <1>23 DEF MergeElsewhere, Approve, Goto, MayMerge, MergeAnswer, BaseInv
<1>24. CASE ChangeRepository
  BY <1>24 DEF ChangeRepository
<1>25. CASE UNCHANGED vars
  BY <1>25 DEF vars
<1> QED
  BY <1>1, <1>2, <1>3, <1>4, <1>5, <1>6, <1>7, <1>8, <1>9, <1>10, <1>11,
     <1>12, <1>13, <1>14, <1>15, <1>16, <1>17, <1>18, <1>19, <1>20, <1>21,
     <1>22, <1>23, <1>24, <1>25
     DEF Next, Round, Publish, Verdict, User

\* A step merges only into the integration branch, unless the repository has
\* been changed.
LEMMA DefaultStep ==
  IInv /\ [Next]_vars => DefaultBranchUntouched'
<1> SUFFICES ASSUME IInv, [Next]_vars PROVE DefaultBranchUntouched'
  OBVIOUS
<1> USE FinalizationAssumption DEF IInv, TypeOK, BaseInv, EndInv, Bases,
     DefaultBranchUntouched, built, local, ending, settings, moved
<1>1. CASE Build
  BY <1>1 DEF Build, Goto
<1>2. CASE RoundFails
  BY <1>2 DEF RoundFails
<1>3. CASE GateRed
  BY <1>3 DEF GateRed, Goto
<1>4. CASE GateGreen
  BY <1>4 DEF GateGreen, Goto
<1>5. CASE Compose
  BY <1>5 DEF Compose, Goto
<1>6. CASE ComposeFails
  BY <1>6 DEF ComposeFails, Goto
<1>7. CASE StartPublish
  BY <1>7 DEF StartPublish, Goto, CanPublish, Listed, Target, PolicyBase
<1>8. CASE PublishFails
  BY <1>8 DEF PublishFails, Goto, CanPublish
<1>9. CASE FilesDone
  BY <1>9 DEF FilesDone, Goto
<1>10. CASE CreatePull
  BY <1>10 DEF CreatePull, Goto
<1>11. CASE CreatePullFails
  BY <1>11 DEF CreatePullFails, Goto
<1>12. CASE \E f \in Files : PutFile(f)
  BY <1>12 DEF PutFile
<1>13. CASE \E f \in Files : PutFileFails(f)
  BY <1>13 DEF PutFileFails, Goto
<1>14. CASE \E f \in Files : PutFileLost(f)
  BY <1>14 DEF PutFileLost
<1>15. CASE Assess
  BY <1>15 DEF Assess, Goto
<1>16. CASE ApproveUnpublished
  BY <1>16 DEF ApproveUnpublished, Approve, Goto
<1>17. CASE ApproveForHuman
  BY <1>17 DEF ApproveForHuman, Approve, Goto
<1>18. CASE ApproveSkipMerge
  BY <1>18 DEF ApproveSkipMerge, Approve, Goto, MayMerge
<1>19. CASE ApproveMerge
  BY <1>19 DEF ApproveMerge, Approve, Goto, MayMerge, Land, MergeAnswer
<1>20. CASE Reject
  BY <1>20 DEF Reject, Goto
<1>21. CASE SetMergePolicy
  BY <1>21 DEF SetMergePolicy
<1>22. CASE SaveOrClearSettings
  BY <1>22 DEF SaveOrClearSettings
<1>23. CASE MergeElsewhere
  BY <1>23 DEF MergeElsewhere, Approve, Goto, MayMerge, MergeAnswer, BaseInv
<1>24. CASE ChangeRepository
  BY <1>24 DEF ChangeRepository
<1>25. CASE UNCHANGED vars
  BY <1>25 DEF vars
<1> QED
  BY <1>1, <1>2, <1>3, <1>4, <1>5, <1>6, <1>7, <1>8, <1>9, <1>10, <1>11,
     <1>12, <1>13, <1>14, <1>15, <1>16, <1>17, <1>18, <1>19, <1>20, <1>21,
     <1>22, <1>23, <1>24, <1>25
     DEF Next, Round, Publish, Verdict, User

\* A step reports a merge as what it was.
LEMMA HonestStep ==
  IInv /\ [Next]_vars => MergeStateIsHonest'
<1> SUFFICES ASSUME IInv, [Next]_vars PROVE MergeStateIsHonest'
  OBVIOUS
<1> USE FinalizationAssumption DEF IInv, TypeOK, BaseInv, EndInv, Bases,
     MergeStateIsHonest, built, local, ending, settings, moved
<1>1. CASE Build
  BY <1>1 DEF Build, Goto
<1>2. CASE RoundFails
  BY <1>2 DEF RoundFails
<1>3. CASE GateRed
  BY <1>3 DEF GateRed, Goto
<1>4. CASE GateGreen
  BY <1>4 DEF GateGreen, Goto
<1>5. CASE Compose
  BY <1>5 DEF Compose, Goto
<1>6. CASE ComposeFails
  BY <1>6 DEF ComposeFails, Goto
<1>7. CASE StartPublish
  BY <1>7 DEF StartPublish, Goto, CanPublish, Listed, Target, PolicyBase
<1>8. CASE PublishFails
  BY <1>8 DEF PublishFails, Goto, CanPublish
<1>9. CASE FilesDone
  BY <1>9 DEF FilesDone, Goto
<1>10. CASE CreatePull
  BY <1>10 DEF CreatePull, Goto
<1>11. CASE CreatePullFails
  BY <1>11 DEF CreatePullFails, Goto
<1>12. CASE \E f \in Files : PutFile(f)
  BY <1>12 DEF PutFile
<1>13. CASE \E f \in Files : PutFileFails(f)
  BY <1>13 DEF PutFileFails, Goto
<1>14. CASE \E f \in Files : PutFileLost(f)
  BY <1>14 DEF PutFileLost
<1>15. CASE Assess
  BY <1>15 DEF Assess, Goto
<1>16. CASE ApproveUnpublished
  BY <1>16 DEF ApproveUnpublished, Approve, Goto
<1>17. CASE ApproveForHuman
  BY <1>17 DEF ApproveForHuman, Approve, Goto
<1>18. CASE ApproveSkipMerge
  BY <1>18 DEF ApproveSkipMerge, Approve, Goto, MayMerge
<1>19. CASE ApproveMerge
  BY <1>19 DEF ApproveMerge, Approve, Goto, MayMerge, Land, MergeAnswer
<1>20. CASE Reject
  BY <1>20 DEF Reject, Goto
<1>21. CASE SetMergePolicy
  BY <1>21 DEF SetMergePolicy
<1>22. CASE SaveOrClearSettings
  BY <1>22 DEF SaveOrClearSettings
<1>23. CASE MergeElsewhere
  BY <1>23 DEF MergeElsewhere, Approve, Goto, MayMerge, MergeAnswer, BaseInv
<1>24. CASE ChangeRepository
  BY <1>24 DEF ChangeRepository
<1>25. CASE UNCHANGED vars
  BY <1>25 DEF vars
<1> QED
  BY <1>1, <1>2, <1>3, <1>4, <1>5, <1>6, <1>7, <1>8, <1>9, <1>10, <1>11,
     <1>12, <1>13, <1>14, <1>15, <1>16, <1>17, <1>18, <1>19, <1>20, <1>21,
     <1>22, <1>23, <1>24, <1>25
     DEF Next, Round, Publish, Verdict, User

\* A step merges only what it passes.
LEMMA PassedStep ==
  IInv /\ [Next]_vars => MergedIsPassed'
<1> SUFFICES ASSUME IInv, [Next]_vars PROVE MergedIsPassed'
  OBVIOUS
<1> USE FinalizationAssumption DEF IInv, TypeOK, BaseInv, EndInv,
     MergedIsPassed, built, local, ending, settings, moved
<1>1. CASE Build
  BY <1>1 DEF Build, Goto
<1>2. CASE RoundFails
  BY <1>2 DEF RoundFails
<1>3. CASE GateRed
  BY <1>3 DEF GateRed, Goto
<1>4. CASE GateGreen
  BY <1>4 DEF GateGreen, Goto
<1>5. CASE Compose
  BY <1>5 DEF Compose, Goto
<1>6. CASE ComposeFails
  BY <1>6 DEF ComposeFails, Goto
<1>7. CASE StartPublish
  BY <1>7 DEF StartPublish, Goto, CanPublish, Listed, Target, PolicyBase
<1>8. CASE PublishFails
  BY <1>8 DEF PublishFails, Goto, CanPublish
<1>9. CASE FilesDone
  BY <1>9 DEF FilesDone, Goto
<1>10. CASE CreatePull
  BY <1>10 DEF CreatePull, Goto
<1>11. CASE CreatePullFails
  BY <1>11 DEF CreatePullFails, Goto
<1>12. CASE \E f \in Files : PutFile(f)
  BY <1>12 DEF PutFile
<1>13. CASE \E f \in Files : PutFileFails(f)
  BY <1>13 DEF PutFileFails, Goto
<1>14. CASE \E f \in Files : PutFileLost(f)
  BY <1>14 DEF PutFileLost
<1>15. CASE Assess
  BY <1>15 DEF Assess, Goto
<1>16. CASE ApproveUnpublished
  BY <1>16 DEF ApproveUnpublished, Approve, Goto
<1>17. CASE ApproveForHuman
  BY <1>17 DEF ApproveForHuman, Approve, Goto
<1>18. CASE ApproveSkipMerge
  BY <1>18 DEF ApproveSkipMerge, Approve, Goto, MayMerge
<1>19. CASE ApproveMerge
  BY <1>19 DEF ApproveMerge, Approve, Goto, MayMerge, Land, MergeAnswer
<1>20. CASE Reject
  BY <1>20 DEF Reject, Goto
<1>21. CASE SetMergePolicy
  BY <1>21 DEF SetMergePolicy
<1>22. CASE SaveOrClearSettings
  BY <1>22 DEF SaveOrClearSettings
<1>23. CASE MergeElsewhere
  BY <1>23 DEF MergeElsewhere, Approve, Goto, MayMerge, MergeAnswer, BaseInv
<1>24. CASE ChangeRepository
  BY <1>24 DEF ChangeRepository
<1>25. CASE UNCHANGED vars
  BY <1>25 DEF vars
<1> QED
  BY <1>1, <1>2, <1>3, <1>4, <1>5, <1>6, <1>7, <1>8, <1>9, <1>10, <1>11,
     <1>12, <1>13, <1>14, <1>15, <1>16, <1>17, <1>18, <1>19, <1>20, <1>21,
     <1>22, <1>23, <1>24, <1>25
     DEF Next, Round, Publish, Verdict, User

\* A step puts no file on a branch that the work directory lacks.
LEMMA FilesStep ==
  IInv /\ [Next]_vars => NoExtraFiles'
<1> SUFFICES ASSUME IInv, [Next]_vars PROVE NoExtraFiles'
  OBVIOUS
<1> USE FinalizationAssumption DEF IInv, TypeOK, BaseInv, EndInv, NoExtraFiles,
     PublishInv, Contents, NoFiles, Listed, built, local, ending, settings, moved
<1>1. CASE Build
  <2>1. PICK written \in SUBSET Files :
          work' = [f \in Files |-> IF f \in written THEN round' ELSE work[f]]
    BY <1>1 DEF Build
  <2>2. round' # 0
    BY <1>1 DEF Build
  <2>3. UNCHANGED <<branch, remote>>
    BY <1>1 DEF Build
  <2> QED
    BY <2>1, <2>2, <2>3
<1>2. CASE RoundFails
  BY <1>2 DEF RoundFails
<1>3. CASE GateRed
  BY <1>3 DEF GateRed, Goto
<1>4. CASE GateGreen
  BY <1>4 DEF GateGreen, Goto
<1>5. CASE Compose
  BY <1>5 DEF Compose, Goto
<1>6. CASE ComposeFails
  BY <1>6 DEF ComposeFails, Goto
<1>7. CASE StartPublish
  BY <1>7 DEF StartPublish, Goto, CanPublish, Listed, Target, PolicyBase
<1>8. CASE PublishFails
  BY <1>8 DEF PublishFails, Goto, CanPublish
<1>9. CASE FilesDone
  BY <1>9 DEF FilesDone, Goto
<1>10. CASE CreatePull
  BY <1>10 DEF CreatePull, Goto
<1>11. CASE CreatePullFails
  BY <1>11 DEF CreatePullFails, Goto
<1>12. CASE \E f \in Files : PutFile(f)
  BY <1>12 DEF PutFile
<1>13. CASE \E f \in Files : PutFileFails(f)
  BY <1>13 DEF PutFileFails, Goto
<1>14. CASE \E f \in Files : PutFileLost(f)
  BY <1>14 DEF PutFileLost
<1>15. CASE Assess
  BY <1>15 DEF Assess, Goto
<1>16. CASE ApproveUnpublished
  BY <1>16 DEF ApproveUnpublished, Approve, Goto
<1>17. CASE ApproveForHuman
  BY <1>17 DEF ApproveForHuman, Approve, Goto
<1>18. CASE ApproveSkipMerge
  BY <1>18 DEF ApproveSkipMerge, Approve, Goto, MayMerge
<1>19. CASE ApproveMerge
  BY <1>19 DEF ApproveMerge, Approve, Goto, MayMerge, Land, MergeAnswer
<1>20. CASE Reject
  BY <1>20 DEF Reject, Goto
<1>21. CASE SetMergePolicy
  BY <1>21 DEF SetMergePolicy
<1>22. CASE SaveOrClearSettings
  BY <1>22 DEF SaveOrClearSettings
<1>23. CASE MergeElsewhere
  BY <1>23 DEF MergeElsewhere, Approve, Goto, MayMerge, MergeAnswer, BaseInv
<1>24. CASE ChangeRepository
  BY <1>24 DEF ChangeRepository
<1>25. CASE UNCHANGED vars
  BY <1>25 DEF vars
<1> QED
  BY <1>1, <1>2, <1>3, <1>4, <1>5, <1>6, <1>7, <1>8, <1>9, <1>10, <1>11,
     <1>12, <1>13, <1>14, <1>15, <1>16, <1>17, <1>18, <1>19, <1>20, <1>21,
     <1>22, <1>23, <1>24, <1>25
     DEF Next, Round, Publish, Verdict, User

\* A step of a round without trouble publishes what the gate has run.
LEMMA PublishStep ==
  IInv /\ [Next]_vars => PublishInv'
<1> SUFFICES ASSUME IInv, [Next]_vars PROVE PublishInv'
  OBVIOUS
<1> USE FinalizationAssumption DEF IInv, TypeOK, BaseInv, EndInv, NoExtraFiles,
     PublishInv, Contents, NoFiles, Listed, built, local, ending, settings, moved
<1>1. CASE Build
  BY <1>1 DEF Build, Goto
<1>2. CASE RoundFails
  BY <1>2 DEF RoundFails
<1>3. CASE GateRed
  BY <1>3 DEF GateRed, Goto
<1>4. CASE GateGreen
  BY <1>4 DEF GateGreen, Goto
<1>5. CASE Compose
  BY <1>5 DEF Compose, Goto
<1>6. CASE ComposeFails
  BY <1>6 DEF ComposeFails, Goto
<1>7. CASE StartPublish
  BY <1>7 DEF StartPublish, Goto, CanPublish, Listed, Target, PolicyBase
<1>8. CASE PublishFails
  BY <1>8 DEF PublishFails, Goto, CanPublish
<1>9. CASE FilesDone
  BY <1>9 DEF FilesDone, Goto
<1>10. CASE CreatePull
  BY <1>10 DEF CreatePull, Goto
<1>11. CASE CreatePullFails
  BY <1>11 DEF CreatePullFails, Goto
<1>12. CASE \E f \in Files : PutFile(f)
  BY <1>12 DEF PutFile
<1>13. CASE \E f \in Files : PutFileFails(f)
  BY <1>13 DEF PutFileFails, Goto
<1>14. CASE \E f \in Files : PutFileLost(f)
  BY <1>14 DEF PutFileLost
<1>15. CASE Assess
  BY <1>15 DEF Assess, Goto
<1>16. CASE ApproveUnpublished
  BY <1>16 DEF ApproveUnpublished, Approve, Goto
<1>17. CASE ApproveForHuman
  BY <1>17 DEF ApproveForHuman, Approve, Goto
<1>18. CASE ApproveSkipMerge
  BY <1>18 DEF ApproveSkipMerge, Approve, Goto, MayMerge
<1>19. CASE ApproveMerge
  BY <1>19 DEF ApproveMerge, Approve, Goto, MayMerge, Land, MergeAnswer
<1>20. CASE Reject
  BY <1>20 DEF Reject, Goto
<1>21. CASE SetMergePolicy
  BY <1>21 DEF SetMergePolicy
<1>22. CASE SaveOrClearSettings
  BY <1>22 DEF SaveOrClearSettings
<1>23. CASE MergeElsewhere
  BY <1>23 DEF MergeElsewhere, Approve, Goto, MayMerge, MergeAnswer, BaseInv
<1>24. CASE ChangeRepository
  BY <1>24 DEF ChangeRepository
<1>25. CASE UNCHANGED vars
  BY <1>25 DEF vars
<1> QED
  BY <1>1, <1>2, <1>3, <1>4, <1>5, <1>6, <1>7, <1>8, <1>9, <1>10, <1>11,
     <1>12, <1>13, <1>14, <1>15, <1>16, <1>17, <1>18, <1>19, <1>20, <1>21,
     <1>22, <1>23, <1>24, <1>25
     DEF Next, Round, Publish, Verdict, User

\* A step merges what the judge has read.
LEMMA ApprovedStep ==
  IInv /\ [Next]_vars => ApprovedIsMerged'
<1> SUFFICES ASSUME IInv, [Next]_vars PROVE ApprovedIsMerged'
  OBVIOUS
<1> USE FinalizationAssumption DEF IInv, TypeOK, BaseInv, EndInv, NoExtraFiles,
     PublishInv, ApprovedIsMerged, Contents,
     NoFiles, Listed, built, local, ending, settings, moved
<1>1. CASE Build
  BY <1>1 DEF Build, Goto
<1>2. CASE RoundFails
  BY <1>2 DEF RoundFails
<1>3. CASE GateRed
  BY <1>3 DEF GateRed, Goto
<1>4. CASE GateGreen
  BY <1>4 DEF GateGreen, Goto
<1>5. CASE Compose
  BY <1>5 DEF Compose, Goto
<1>6. CASE ComposeFails
  BY <1>6 DEF ComposeFails, Goto
<1>7. CASE StartPublish
  BY <1>7 DEF StartPublish, Goto, CanPublish, Listed, Target, PolicyBase
<1>8. CASE PublishFails
  BY <1>8 DEF PublishFails, Goto, CanPublish
<1>9. CASE FilesDone
  BY <1>9 DEF FilesDone, Goto
<1>10. CASE CreatePull
  BY <1>10 DEF CreatePull, Goto
<1>11. CASE CreatePullFails
  BY <1>11 DEF CreatePullFails, Goto
<1>12. CASE \E f \in Files : PutFile(f)
  BY <1>12 DEF PutFile
<1>13. CASE \E f \in Files : PutFileFails(f)
  BY <1>13 DEF PutFileFails, Goto
<1>14. CASE \E f \in Files : PutFileLost(f)
  BY <1>14 DEF PutFileLost
<1>15. CASE Assess
  BY <1>15 DEF Assess, Goto
<1>16. CASE ApproveUnpublished
  BY <1>16 DEF ApproveUnpublished, Approve, Goto
<1>17. CASE ApproveForHuman
  BY <1>17 DEF ApproveForHuman, Approve, Goto
<1>18. CASE ApproveSkipMerge
  BY <1>18 DEF ApproveSkipMerge, Approve, Goto, MayMerge
<1>19. CASE ApproveMerge
  BY <1>19 DEF ApproveMerge, Approve, Goto, MayMerge, Land, MergeAnswer
<1>20. CASE Reject
  BY <1>20 DEF Reject, Goto
<1>21. CASE SetMergePolicy
  BY <1>21 DEF SetMergePolicy
<1>22. CASE SaveOrClearSettings
  BY <1>22 DEF SaveOrClearSettings
<1>23. CASE MergeElsewhere
  BY <1>23 DEF MergeElsewhere, Approve, Goto, MayMerge, MergeAnswer, BaseInv
<1>24. CASE ChangeRepository
  BY <1>24 DEF ChangeRepository
<1>25. CASE UNCHANGED vars
  BY <1>25 DEF vars
<1> QED
  BY <1>1, <1>2, <1>3, <1>4, <1>5, <1>6, <1>7, <1>8, <1>9, <1>10, <1>11,
     <1>12, <1>13, <1>14, <1>15, <1>16, <1>17, <1>18, <1>19, <1>20, <1>21,
     <1>22, <1>23, <1>24, <1>25
     DEF Next, Round, Publish, Verdict, User

\* IInv is an invariant of finalization.
LEMMA Inductive ==
  Spec => []IInv
<1>1. Init => IInv
  <2> SUFFICES ASSUME Init PROVE IInv
    OBVIOUS
  <2>1. NoFiles \in Contents /\ 0 \in 0 .. MaxRounds
    BY FinalizationAssumption DEF NoFiles, Contents
  <2>2. TypeOK
    BY <2>1 DEF Init, TypeOK, Policies
  <2>3. BaseInv /\ EndInv
    BY FinalizationAssumption DEF Init, BaseInv, EndInv
  <2>4. NoExtraFiles /\ PublishInv
    BY DEF Init, NoFiles, NoExtraFiles, PublishInv
  <2>5. DefaultBranchUntouched /\ MergeStateIsHonest /\ MergedIsPassed /\ ApprovedIsMerged
    BY DEF Init, DefaultBranchUntouched, MergeStateIsHonest, MergedIsPassed,
       ApprovedIsMerged
  <2> QED
    BY <2>2, <2>3, <2>4, <2>5 DEF IInv
<1>2. IInv /\ [Next]_vars => IInv'
  BY TypeStep, BaseStep, EndStep, FilesStep, PublishStep, DefaultStep, HonestStep,
     PassedStep, ApprovedStep DEF IInv
<1> QED
  BY <1>1, <1>2, PTL DEF Spec

\* Type correctness: whatever the gateway and the user do, no variable leaves
\* its type and the rounds stay bounded.
THEOREM FinalizationTypeCorrect ==
  Spec => []TypeOK
<1>1. IInv => TypeOK
  BY DEF IInv
<1> QED
  BY <1>1, Inductive, PTL

\* Unless another repository was configured under the run, the default branch
\* is never merged into, however the merge policy changes between the opening
\* of the pull request and its merge (open_pr, merge_pr).
THEOREM DefaultBranchIsSafe ==
  Spec => []DefaultBranchUntouched
<1>1. IInv => DefaultBranchUntouched
  BY DEF IInv
<1> QED
  BY <1>1, Inductive, PTL

\* run.merge_state claims no merge that has not happened, here or in another
\* repository, and hides none behind a skip (_finalize, merge_pr).
THEOREM MergeStateIsAlwaysHonest ==
  Spec => []MergeStateIsHonest
<1>1. IInv => MergeStateIsHonest
  BY DEF IInv
<1> QED
  BY <1>1, Inductive, PTL

\* Nothing but an approved, passed build run is merged (_finalize).
THEOREM OnlyPassedIsMerged ==
  Spec => []MergedIsPassed
<1>1. IInv => MergedIsPassed
  BY DEF IInv
<1> QED
  BY <1>1, Inductive, PTL

\* In a round without trouble what the merge lands is, file by file, what the
\* judge has read: no file of an earlier round, none left out (_compose_commit,
\* open_pr, update_pr, merge_pr).
THEOREM ApprovedIsAlwaysMerged ==
  Spec => []ApprovedIsMerged
<1>1. IInv => ApprovedIsMerged
  BY DEF IInv
<1> QED
  BY <1>1, Inductive, PTL
===========================================================================
