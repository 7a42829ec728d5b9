------------------------- MODULE EvidenceStageProofs -------------------------
(***************************************************************************)
(* Proofs about the evidence files for every set of runs and every number  *)
(* of tier outcomes, with runs that crash, raise and are swept at any      *)
(* point.                                                                  *)
(***************************************************************************)
EXTENDS EvidenceStage, TLAPS

-----------------------------------------------------------------------------
(* Type correctness *)

\* The outcomes of a run are numbered from 1 and at most MaxOutcomes.
LEMMA PlanFiles ==
  ASSUME EvidenceTypeOK, NEW r \in Run
  PROVE  \E n \in 0..MaxOutcomes :
           Files(r) = 1..n /\ plan[r] \in [1..n -> Body \cup {NoBody}]
  <1>1. plan[r] \in Plans
    BY DEF EvidenceTypeOK
  <1>2. PICK n \in 0..MaxOutcomes : plan[r] \in [1..n -> Body \cup {NoBody}]
    BY <1>1 DEF Plans
  <1> QED BY <1>2 DEF Files

\* A run nobody has persisted yet has the empty plan.
LEMMA InitEvidenceType == EvidenceInit => EvidenceTypeOK
  <1> SUFFICES ASSUME EvidenceInit PROVE EvidenceTypeOK
    OBVIOUS
  <1>1. <<>> \in Plans
    <2>1. <<>> \in [1..0 -> Body \cup {NoBody}]
      OBVIOUS
    <2> QED BY <2>1, OutcomesAssumption DEF Plans
  <1> QED BY <1>1, OutcomesAssumption DEF EvidenceInit, EvidenceTypeOK, Stages

\* Every step keeps the files, the rows and the workers in their types.
LEMMA StepEvidenceType == EvidenceTypeOK /\ [EvidenceNext]_vars => EvidenceTypeOK'
  <1> SUFFICES ASSUME EvidenceTypeOK, [EvidenceNext]_vars PROVE EvidenceTypeOK'
    OBVIOUS
  <1> USE OutcomesAssumption DEF EvidenceTypeOK, Stages, Goto, stores
  <1>1. ASSUME NEW r \in Run, WorkerStep(r) PROVE EvidenceTypeOK'
    <2>0. PICK n \in 0..MaxOutcomes : Files(r) = 1..n
      BY PlanFiles
    <2>1. CASE BeginPersist(r)
      BY <2>1 DEF BeginPersist
    <2>2. CASE WriteArtifact(r) \/ ArtifactWritten(r)
      BY <2>2 DEF WriteArtifact, ArtifactWritten
    <2>3. CASE StageFile(r)
      BY <2>0, <2>3 DEF StageFile
    <2>4. CASE BeginPublish(r)
      BY <2>4 DEF BeginPublish
    <2>9. CASE EndPublish(r)
      BY <2>9 DEF EndPublish, RemoveStagingDir
    <2>5. CASE PublishFile(r)
      BY <2>0, <2>5 DEF PublishFile
    <2>6. CASE Commit(r)
      BY <2>6 DEF Commit
    <2>7. CASE UnlinkPublished(r)
      BY <2>7 DEF UnlinkPublished
    <2>10. CASE UnlinkRefused(r)
      BY <2>10 DEF UnlinkRefused
    <2>8. CASE RemoveFinalDir(r)
      <3>1. CASE /\ finalDir' = [finalDir EXCEPT ![r] = @ /\ final[r] # {}]
                 /\ UNCHANGED stubborn
        <4>1. (finalDir[r] /\ final[r] # {}) \in BOOLEAN
          OBVIOUS
        <4>2. finalDir' \in [Run -> BOOLEAN]
          BY <3>1, <4>1, Zenon
        <4> QED BY <2>8, <3>1, <4>2 DEF RemoveFinalDir
      <3>2. CASE stubborn' = stubborn \cup {<<r, "final">>} /\ UNCHANGED finalDir
        BY <2>8, <3>2 DEF RemoveFinalDir
      <3> QED BY <2>8, <3>1, <3>2 DEF RemoveFinalDir
    <2>11. CASE RemoveStaging(r)
      <3>1. CASE RemoveStagingDir(r) /\ UNCHANGED stubborn
        BY <2>11, <3>1 DEF RemoveStaging, RemoveStagingDir
      <3>2. ASSUME NEW left \in SUBSET staging[r],
                   staging' = [staging EXCEPT ![r] = left],
                   stubborn' = stubborn \cup {<<r, "staging">>}, UNCHANGED stagingDir
            PROVE  EvidenceTypeOK'
        BY <2>11, <3>2 DEF RemoveStaging
      <3> QED BY <2>11, <3>1, <3>2 DEF RemoveStaging
    <2> QED BY <1>1, <2>1, <2>2, <2>3, <2>4, <2>5, <2>6, <2>7, <2>8, <2>9, <2>10, <2>11
          DEF WorkerStep
  <1>2. ASSUME NEW r \in Run, PersistRaises(r) \/ WorkerCrashes(r) \/ SweepReported(r)
        PROVE  EvidenceTypeOK'
    <2>1. CASE PersistRaises(r)
      BY <2>1 DEF PersistRaises
    <2>2. CASE WorkerCrashes(r) \/ SweepReported(r)
      BY <2>2 DEF WorkerCrashes, SweepReported, RemoveStagingDir
    <2> QED BY <1>2, <2>1, <2>2
  <1>3. CASE ReportOrphans
    BY <1>3 DEF ReportOrphans, OrphanedEvidence
  <1>4. CASE UNCHANGED vars
    BY <1>4 DEF vars
  <1> QED BY <1>1, <1>2, <1>3, <1>4 DEF EvidenceNext

\* The list a worker walks, staging, publishing and unlinking, never runs past
\* the outcomes of its run, whatever raises in between.
THEOREM EvidenceTypeCorrect == EvidenceSpec => []EvidenceTypeOK
  BY InitEvidenceType, StepEvidenceType, PTL DEF EvidenceSpec

-----------------------------------------------------------------------------
(* Rows and files *)

\* What is published of run r is what publish() has recorded for discard(), and
\* what discard() has come by and could not remove.
Recorded(r) ==
  /\ final[r] = 1..(next[r] - 1) \cup refused[r]
  /\ \A k \in refused[r] : next[r] <= k
NothingPublished(r) == final[r] = {} /\ ~finalDir[r]

\* what a discard that is over leaves in runs/<run>
OnlyRefused(r) ==
  /\ final[r] = refused[r]
  /\ finalDir[r] => refused[r] # {} \/ <<r, "final">> \in stubborn

(* The strengthening: at every place of a worker, how much of its evidence   *)
(* is published, that nothing was refused before a failure, and that only a  *)
(* worker that is done has its rows.                                         *)
FilesFollowWorker(r) ==
  /\ r \in rows <=> pc[r] = "done"
  /\ pc[r] \in {"running", "staging", "writing"} => NothingPublished(r)
  /\ pc[r] \in {"publishing", "committing", "unlinking"} => Recorded(r)
  /\ pc[r] \in {"publishing", "committing"} => final[r] \subseteq Files(r)
  /\ pc[r] \in {"running", "staging", "writing", "publishing", "committing"} =>
       refused[r] = {}
  /\ pc[r] = "committing" => next[r] \notin Files(r)
  /\ pc[r] = "done" => final[r] = Files(r)
  /\ pc[r] \in {"tidying", "failed"} => OnlyRefused(r)
  /\ pc[r] = "failed" /\ stagingDir[r] => <<r, "staging">> \in stubborn
  /\ staging[r] # {} => stagingDir[r]

EvidenceInv == \A r \in Run : FilesFollowWorker(r)

\* A run whose worker, rows and published files stay as they are keeps what
\* holds of it; its staging directory may be swept.
LEMMA OtherRunKept ==
  ASSUME NEW r \in Run, FilesFollowWorker(r),
         pc'[r] = pc[r], plan'[r] = plan[r], next'[r] = next[r],
         final'[r] = final[r], finalDir'[r] = finalDir[r], refused'[r] = refused[r],
         stubborn \subseteq stubborn', r \in rows' <=> r \in rows,
         \/ staging'[r] = staging[r] /\ stagingDir'[r] = stagingDir[r]
         \/ staging'[r] = {} /\ ~stagingDir'[r]
  PROVE  FilesFollowWorker(r)'
  BY DEF FilesFollowWorker, Recorded, NothingPublished, OnlyRefused, Files

\* A list walked from 1 is through when its next position is beyond its end.
LEMMA WholeList ==
  ASSUME NEW n \in Nat, NEW m \in Nat, m >= 1, 1..(m - 1) \subseteq 1..n, m \notin 1..n
  PROVE  m - 1 = n
  <1>1. m > n
    OBVIOUS
  <1>2. m - 1 <= n
    <2>1. CASE m = 1
      BY <2>1
    <2>2. CASE m > 1
      <3>1. m - 1 \in 1..(m - 1)
        BY <2>2
      <3> QED BY <3>1
    <2> QED BY <2>1, <2>2
  <1> QED BY <1>1, <1>2

\* A step of the worker of a run keeps what holds of that run.
LEMMA WorkerStepKept ==
  ASSUME EvidenceTypeOK, NEW r \in Run, FilesFollowWorker(r), WorkerStep(r)
  PROVE  FilesFollowWorker(r)'
  <1>0. PICK n \in 0..MaxOutcomes : Files(r) = 1..n
    BY PlanFiles
  <1> USE OutcomesAssumption, <1>0
      DEF EvidenceTypeOK, Stages, Goto, stores, FilesFollowWorker, Recorded,
          NothingPublished, OnlyRefused, Files
  <1>1. CASE BeginPersist(r)
    BY <1>1 DEF BeginPersist
  <1>2. CASE WriteArtifact(r) \/ ArtifactWritten(r)
    BY <1>2 DEF WriteArtifact, ArtifactWritten
  <1>3. CASE StageFile(r)
    BY <1>3 DEF StageFile
  <1>4. CASE BeginPublish(r)
    BY <1>4 DEF BeginPublish
  <1>5. CASE PublishFile(r)
    <2>1. /\ next[r] \in 1..n /\ next[r] \in staging[r]
          /\ final'[r] = final[r] \cup {next[r]}
          /\ next'[r] = next[r] + 1 /\ refused' = refused
          /\ staging'[r] \subseteq staging[r]
          /\ UNCHANGED <<pc, plan, stagingDir, rows>> /\ pc[r] = "publishing"
      BY <1>5 DEF PublishFile, Movable
    <2>2. final[r] = 1..(next[r] - 1) /\ refused[r] = {} /\ final[r] \subseteq 1..n
      BY <2>1
    <2>3. final'[r] = 1..(next'[r] - 1) /\ final'[r] \subseteq 1..n
      BY <2>1, <2>2
    <2> QED BY <2>1, <2>2, <2>3
  <1>6. CASE EndPublish(r)
    BY <1>6 DEF EndPublish, RemoveStagingDir
  <1>7. CASE Commit(r)
    <2>1. final[r] = 1..(next[r] - 1) /\ final[r] \subseteq 1..n /\ next[r] \notin 1..n
      BY <1>7 DEF Commit
    <2>2. next[r] - 1 = n
      <3>1. n \in Nat /\ next[r] \in Nat /\ next[r] >= 1
        OBVIOUS
      <3> QED BY <2>1, <3>1, WholeList
    <2> QED BY <1>7, <2>1, <2>2 DEF Commit
  <1>8. CASE UnlinkPublished(r)
    <2>1. /\ final'[r] = (1..(next[r] - 1) \cup refused[r]) \ {next[r] - 1}
          /\ next'[r] = next[r] - 1 /\ next[r] > 1
          /\ refused' = refused /\ \A k \in refused[r] : next[r] <= k
      BY <1>8 DEF UnlinkPublished
    <2>2. final'[r] = 1..(next'[r] - 1) \cup refused'[r]
      BY <2>1
    <2>3. \A k \in refused'[r] : next'[r] <= k
      BY <2>1
    <2>4. /\ pc[r] = "unlinking" /\ pc' = pc /\ rows' = rows
          /\ UNCHANGED <<staging, stagingDir>>
      BY <1>8 DEF UnlinkPublished
    <2> QED BY <2>2, <2>3, <2>4
  <1>9. CASE UnlinkRefused(r)
    <2>1. /\ final'[r] = 1..(next[r] - 1) \cup refused[r]
          /\ next'[r] = next[r] - 1 /\ next[r] > 1
          /\ refused'[r] = refused[r] \cup {next[r] - 1}
          /\ \A k \in refused[r] : next[r] <= k
      BY <1>9 DEF UnlinkRefused
    <2>2. final'[r] = 1..(next'[r] - 1) \cup refused'[r]
      BY <2>1
    <2>3. \A k \in refused'[r] : next'[r] <= k
      BY <2>1
    <2>4. /\ pc[r] = "unlinking" /\ pc' = pc /\ rows' = rows
          /\ UNCHANGED <<staging, stagingDir>>
      BY <1>9 DEF UnlinkRefused
    <2> QED BY <2>2, <2>3, <2>4
  <1>10. CASE RemoveFinalDir(r)
    <2>1. final[r] = 1..(1 - 1) \cup refused[r] /\ final' = final /\ refused' = refused
      BY <1>10 DEF RemoveFinalDir
    <2>2. final'[r] = refused'[r]
      BY <2>1
    <2>3. finalDir'[r] => refused'[r] # {} \/ <<r, "final">> \in stubborn'
      <3>1. CASE finalDir' = [finalDir EXCEPT ![r] = @ /\ final[r] # {}]
        <4>1. finalDir'[r] => final[r] # {}
          BY <3>1, Zenon
        <4> QED BY <2>1, <4>1
      <3>2. CASE stubborn' = stubborn \cup {<<r, "final">>}
        BY <3>2
      <3> QED BY <1>10, <3>1, <3>2 DEF RemoveFinalDir
    <2>4. /\ pc'[r] = "tidying" /\ rows' = rows /\ pc[r] # "done"
          /\ UNCHANGED <<staging, stagingDir>>
      BY <1>10 DEF RemoveFinalDir
    <2> QED BY <2>2, <2>3, <2>4
  <1>11. CASE RemoveStaging(r)
    <2>1. /\ pc[r] = "tidying" /\ pc'[r] = "failed" /\ rows' = rows
          /\ UNCHANGED <<final, finalDir, refused>>
          /\ stubborn \subseteq stubborn'
      BY <1>11 DEF RemoveStaging
    <2>2. /\ stagingDir'[r] => <<r, "staging">> \in stubborn'
          /\ staging'[r] # {} => stagingDir'[r]
      <3>1. CASE RemoveStagingDir(r)
        BY <3>1 DEF RemoveStagingDir
      <3>2. CASE stagingDir[r] /\ stubborn' = stubborn \cup {<<r, "staging">>}
                 /\ UNCHANGED stagingDir
        BY <3>2
      <3> QED BY <1>11, <3>1, <3>2 DEF RemoveStaging
    <2> QED BY <2>1, <2>2
  <1> QED BY <1>1, <1>2, <1>3, <1>4, <1>5, <1>6, <1>7, <1>8, <1>9, <1>10, <1>11
        DEF WorkerStep

\* No step of a run touches the files of another.
LEMMA WorkerStepLocal ==
  ASSUME EvidenceTypeOK, NEW r \in Run, NEW q \in Run, q # r,
         WorkerStep(r) \/ PersistRaises(r) \/ WorkerCrashes(r)
  PROVE  /\ pc'[q] = pc[q] /\ plan'[q] = plan[q] /\ next'[q] = next[q]
         /\ final'[q] = final[q] /\ finalDir'[q] = finalDir[q]
         /\ refused'[q] = refused[q] /\ stubborn \subseteq stubborn'
         /\ q \in rows' <=> q \in rows
         /\ staging'[q] = staging[q] /\ stagingDir'[q] = stagingDir[q]
  <1> USE DEF EvidenceTypeOK, Goto, stores
  <1>1. CASE BeginPersist(r) \/ WriteArtifact(r) \/ ArtifactWritten(r) \/ StageFile(r)
    BY <1>1 DEF BeginPersist, WriteArtifact, ArtifactWritten, StageFile
  <1>2. CASE BeginPublish(r) \/ PublishFile(r) \/ EndPublish(r) \/ Commit(r)
    BY <1>2 DEF BeginPublish, PublishFile, EndPublish, RemoveStagingDir, Commit
  <1>3. CASE UnlinkPublished(r) \/ UnlinkRefused(r) \/ RemoveFinalDir(r) \/ RemoveStaging(r)
    BY <1>3 DEF UnlinkPublished, UnlinkRefused, RemoveFinalDir, RemoveStaging,
      RemoveStagingDir
  <1>4. CASE PersistRaises(r) \/ WorkerCrashes(r)
    BY <1>4 DEF PersistRaises, WorkerCrashes
  <1> QED BY <1>1, <1>2, <1>3, <1>4 DEF WorkerStep

\* Every step keeps rows and files together.
LEMMA StepEvidenceInv ==
  EvidenceTypeOK /\ EvidenceInv /\ [EvidenceNext]_vars => EvidenceInv'
  <1> SUFFICES ASSUME EvidenceTypeOK, EvidenceInv, [EvidenceNext]_vars,
                      NEW q \in Run
               PROVE  FilesFollowWorker(q)'
    BY DEF EvidenceInv
  <1>0. FilesFollowWorker(q)
    BY DEF EvidenceInv
  <1>1. ASSUME NEW r \in Run, WorkerStep(r) PROVE FilesFollowWorker(q)'
    <2>1. CASE q = r
      BY <1>0, <1>1, <2>1, WorkerStepKept
    <2>2. CASE q # r
      BY <1>0, <1>1, <2>2, WorkerStepLocal, OtherRunKept
    <2> QED BY <2>1, <2>2
  <1>2. ASSUME NEW r \in Run, PersistRaises(r) PROVE FilesFollowWorker(q)'
    <2>1. CASE q = r
      <3> USE <1>0, <1>2, <2>1 DEF PersistRaises, EvidenceTypeOK, Stages, Goto, stores
      <3>1. CASE pc[r] \in {"staging", "writing"}
        BY <3>1 DEF FilesFollowWorker, Recorded, NothingPublished
      <3>2. CASE pc[r] \in {"publishing", "committing"}
        BY <3>2 DEF FilesFollowWorker, Recorded
      <3> QED BY <3>1, <3>2
    <2>2. CASE q # r
      BY <1>0, <1>2, <2>2, WorkerStepLocal, OtherRunKept
    <2> QED BY <2>1, <2>2
  <1>3. ASSUME NEW r \in Run, WorkerCrashes(r) PROVE FilesFollowWorker(q)'
    <2>1. CASE q = r
      BY <1>0, <1>3, <2>1
      DEF WorkerCrashes, Alive, EvidenceTypeOK, Stages, Goto, stores, FilesFollowWorker,
        Recorded, NothingPublished, OnlyRefused, Files
    <2>2. CASE q # r
      BY <1>0, <1>3, <2>2, WorkerStepLocal, OtherRunKept
    <2> QED BY <2>1, <2>2
  <1>4. ASSUME NEW r \in Run, SweepReported(r) PROVE FilesFollowWorker(q)'
    BY <1>0, <1>4, OtherRunKept DEF SweepReported, RemoveStagingDir, EvidenceTypeOK
  <1>5. CASE ReportOrphans \/ UNCHANGED vars
    BY <1>0, <1>5, OtherRunKept DEF ReportOrphans, vars, stores
  <1> QED BY <1>1, <1>2, <1>3, <1>4, <1>5 DEF EvidenceNext

\* At the start nothing is published and no run has rows.
LEMMA InitEvidenceInv == EvidenceInit => EvidenceInv
  BY DEF EvidenceInit, EvidenceInv, FilesFollowWorker, NothingPublished, Recorded

\* A committed run has exactly the files its rows name, whoever else crashed,
\* raised or had its staging directory swept, itself included.
THEOREM CommittedEvidenceKept == EvidenceSpec => []CommittedKeepsEvidence
  <1>1. EvidenceTypeOK /\ EvidenceInv => CommittedKeepsEvidence
    BY DEF EvidenceTypeOK, EvidenceInv, FilesFollowWorker, CommittedKeepsEvidence
  <1> QED BY <1>1, InitEvidenceType, StepEvidenceType, InitEvidenceInv, StepEvidenceInv,
        PTL DEF EvidenceSpec

\* Once the failure of a run is handled it has no row, and all that is left of it is
\* what the file system refused to remove, wherever it was when it raised: a removal
\* that fails stops no other.
THEOREM DiscardIsThorough == EvidenceSpec => []FailureLeavesOnlyRefused
  <1>1. EvidenceInv => FailureLeavesOnlyRefused
    BY DEF EvidenceInv, FilesFollowWorker, OnlyRefused, FailureLeavesOnlyRefused
  <1> QED BY <1>1, InitEvidenceType, StepEvidenceType, InitEvidenceInv, StepEvidenceInv,
        PTL DEF EvidenceSpec
=============================================================================
