--------------------------- MODULE EvidenceStage ---------------------------
(***************************************************************************)
(* The evidence files of evaluation runs: services/evidence_store.py, its  *)
(* use by the completion transaction of services/orchestrator.py, the      *)
(* content-addressed artifacts of _write_content_addressed, and the report *)
(* of services/reconciliation.py with the sweep docs/operations/           *)
(* recovery.md tells an operator to do on it.                              *)
(*                                                                         *)
(* A run is one worker in evaluate_version after its tiers: it stages one  *)
(* file per tier outcome, publishes them one by one, commits.  Every file  *)
(* operation is a step of its own, and the worker may die between any two. *)
(* A commit that raises is taken to be not applied.  A removal may be      *)
(* refused by the file system: publish() and discard() go on all the same. *)
(***************************************************************************)
EXTENDS Naturals, Sequences, FiniteSets

CONSTANTS Run,           \* run ids: one per execution of evaluate_version
          Body,          \* contents of attribution and mask artifacts
          NoBody,        \* a tier outcome without such an artifact
          MaxOutcomes    \* bound: tier outcomes of a run

ASSUME OutcomesAssumption == MaxOutcomes \in Nat
ASSUME BodyAssumption == NoBody \notin Body

VARIABLES pc,         \* where the worker of a run is
          plan,       \* the artifact body of each tier outcome, in order
          next,       \* the outcome being persisted, then the file being moved
          staging,    \* files in results_root/staging/<run>
          stagingDir, \* whether that directory exists
          final,      \* files in results_root/runs/<run>
          finalDir,
          rows,       \* runs whose TierResults are committed
          artifact,   \* results_root/evidence/<digest>.json
          reported,   \* run ids an operator was given as orphaned
          refused,    \* the published files discard() could not remove
          stubborn    \* and the directories, as <<run, which>>

stores == <<staging, stagingDir, final, finalDir, refused, stubborn>>
vars == <<pc, plan, next, stores, rows, artifact, reported>>

Plans == UNION {[1..n -> Body \cup {NoBody}] : n \in 0..MaxOutcomes}
Files(r) == DOMAIN plan[r]
Stages == {"running", "staging", "writing", "publishing", "committing", "unlinking",
           "tidying", "done", "failed", "dead"}
Alive(r) == pc[r] \notin {"done", "failed", "dead"}

EvidenceInit ==
  /\ pc = [r \in Run |-> "running"]
  /\ plan = [r \in Run |-> <<>>]
  /\ next = [r \in Run |-> 1]
  /\ staging = [r \in Run |-> {}] /\ stagingDir = [r \in Run |-> FALSE]
  /\ final = [r \in Run |-> {}] /\ finalDir = [r \in Run |-> FALSE]
  /\ rows = {}
  /\ artifact = [b \in Body |-> "absent"]
  /\ reported = {}
  /\ refused = [r \in Run |-> {}]
  /\ stubborn = {}

Goto(r, place) == pc' = [pc EXCEPT ![r] = place]

-----------------------------------------------------------------------------
(* The completion transaction: _persist_tier_results, publish, commit.     *)

\* The tiers are over; the outcomes they left are persisted in order.
BeginPersist(r) ==
  /\ pc[r] = "running"
  /\ \E p \in Plans : plan' = [plan EXCEPT ![r] = p]
  /\ Goto(r, "staging")
  /\ UNCHANGED <<next, stores, rows, artifact, reported>>

\* _write_content_addressed: whatever exists under the digest is taken as the
\* artifact; otherwise it is created, empty, and then written.
NeedsArtifact(r) == next[r] \in Files(r) /\ plan[r][next[r]] # NoBody
MustWrite(b) == artifact[b] = "absent"

WriteArtifact(r) ==
  /\ pc[r] = "staging" /\ NeedsArtifact(r)
  /\ MustWrite(plan[r][next[r]])
  /\ artifact' = [artifact EXCEPT ![plan[r][next[r]]] = "torn"]
  /\ Goto(r, "writing")
  /\ UNCHANGED <<plan, next, stores, rows, reported>>

ArtifactWritten(r) ==
  /\ pc[r] = "writing"
  /\ artifact' = [artifact EXCEPT ![plan[r][next[r]]] = "whole"]
  /\ Goto(r, "staging")
  /\ UNCHANGED <<plan, next, stores, rows, reported>>

\* stage(): mkdir and write; the TierResult is added to the session.
StageFile(r) ==
  /\ pc[r] = "staging" /\ next[r] \in Files(r)
  /\ NeedsArtifact(r) => ~MustWrite(plan[r][next[r]])
  /\ staging' = [staging EXCEPT ![r] = @ \cup {next[r]}]
  /\ stagingDir' = [stagingDir EXCEPT ![r] = TRUE]
  /\ next' = [next EXCEPT ![r] = @ + 1]
  /\ UNCHANGED <<pc, plan, final, finalDir, refused, stubborn, rows, artifact, reported>>

\* publish(): the directory, then os.replace file by file.
BeginPublish(r) ==
  /\ pc[r] = "staging" /\ next[r] \notin Files(r)
  /\ finalDir' = [finalDir EXCEPT ![r] = TRUE]
  /\ next' = [next EXCEPT ![r] = 1]
  /\ Goto(r, "publishing")
  /\ UNCHANGED <<plan, staging, stagingDir, final, refused, stubborn, rows, artifact,
                 reported>>

\* mutant: publish() skips a file it does not find
MovableOrMissing(r) == TRUE

\* os.replace raises on a file that is gone.
Movable(r) == next[r] \in staging[r]

PublishFile(r) ==
  /\ pc[r] = "publishing" /\ next[r] \in Files(r) /\ Movable(r)
  /\ staging' = [staging EXCEPT ![r] = @ \ {next[r]}]
  /\ final' = [final EXCEPT ![r] = @ \cup ({next[r]} \cap staging[r])]
  /\ next' = [next EXCEPT ![r] = @ + 1]
  /\ UNCHANGED <<pc, plan, stagingDir, finalDir, refused, stubborn, rows, artifact,
                 reported>>

\* rmtree of the staging directory, which nobody needs to succeed
RemoveStagingDir(r) ==
  /\ staging' = [staging EXCEPT ![r] = {}]
  /\ stagingDir' = [stagingDir EXCEPT ![r] = FALSE]

EndPublish(r) ==
  /\ pc[r] = "publishing" /\ next[r] \notin Files(r)
  /\ RemoveStagingDir(r) \/ UNCHANGED <<staging, stagingDir>>
  /\ Goto(r, "committing")
  /\ UNCHANGED <<plan, next, final, finalDir, refused, stubborn, rows, artifact, reported>>

Commit(r) ==
  /\ pc[r] = "committing"
  /\ rows' = rows \cup {r}
  /\ Goto(r, "done")
  /\ UNCHANGED <<plan, next, stores, artifact, reported>>

-----------------------------------------------------------------------------
(* The except branch: discard, fail_intent, _reset_to_pending.             *)

\* mutant: publish() records its files only at its end, so discard() knows none
PersistRaisesForgetting(r) ==
  /\ pc[r] \in {"staging", "writing", "publishing", "committing"}
  /\ next' = [next EXCEPT ![r] = 1]
  /\ Goto(r, "unlinking")
  /\ UNCHANGED <<plan, stores, rows, artifact, reported>>

\* Any operation of the block may raise: the disk, the database, a refused
\* transition, a file that has gone.  A commit that raises is not applied.
PersistRaises(r) ==
  /\ pc[r] \in {"staging", "writing", "publishing", "committing"}
  /\ next' = [next EXCEPT ![r] = IF pc[r] \in {"staging", "writing"} THEN 1 ELSE @]
  /\ Goto(r, "unlinking")
  /\ UNCHANGED <<plan, stores, rows, artifact, reported>>

\* mutant: discard() walks its list one file too far
UnlinkPublishedTooFar(r) ==
  /\ pc[r] = "unlinking" /\ next[r] >= 1
  /\ final' = [final EXCEPT ![r] = @ \ {next[r] - 1}]
  /\ next' = [next EXCEPT ![r] = @ - 1]
  /\ UNCHANGED <<pc, plan, staging, stagingDir, finalDir, refused, stubborn, rows,
                 artifact, reported>>

\* discard(): the published files (those before next), one by one.
UnlinkPublished(r) ==
  /\ pc[r] = "unlinking" /\ next[r] > 1
  /\ final' = [final EXCEPT ![r] = @ \ {next[r] - 1}]
  /\ next' = [next EXCEPT ![r] = @ - 1]
  /\ UNCHANGED <<pc, plan, staging, stagingDir, finalDir, refused, stubborn, rows,
                 artifact, reported>>

\* mutant: the first unlink that raises ends the loop
UnlinkRefusedForAll(r) ==
  /\ pc[r] = "unlinking" /\ next[r] > 1
  /\ refused' = [refused EXCEPT ![r] = @ \cup {next[r] - 1}]
  /\ next' = [next EXCEPT ![r] = 1]
  /\ UNCHANGED <<pc, plan, staging, stagingDir, final, finalDir, stubborn, rows,
                 artifact, reported>>

\* unlink raises OSError, which is swallowed
UnlinkRefused(r) ==
  /\ pc[r] = "unlinking" /\ next[r] > 1
  /\ refused' = [refused EXCEPT ![r] = @ \cup {next[r] - 1}]
  /\ next' = [next EXCEPT ![r] = @ - 1]
  /\ UNCHANGED <<pc, plan, staging, stagingDir, final, finalDir, stubborn, rows,
                 artifact, reported>>

\* the directory goes only when it is empty
RemoveFinalDir(r) ==
  /\ pc[r] = "unlinking" /\ next[r] = 1
  /\ \/ /\ finalDir' = [finalDir EXCEPT ![r] = @ /\ final[r] # {}]
        /\ UNCHANGED stubborn
     \/ /\ finalDir[r]
        /\ stubborn' = stubborn \cup {<<r, "final">>}
        /\ UNCHANGED finalDir
  /\ Goto(r, "tidying")
  /\ UNCHANGED <<plan, next, staging, stagingDir, final, refused, rows, artifact, reported>>

\* rmtree with ignore_errors: what it may not remove stays, and so do the parents
RemoveStaging(r) ==
  /\ pc[r] = "tidying"
  /\ \/ RemoveStagingDir(r) /\ UNCHANGED stubborn
     \/ /\ stagingDir[r]
        /\ \E left \in SUBSET staging[r] : staging' = [staging EXCEPT ![r] = left]
        /\ stubborn' = stubborn \cup {<<r, "staging">>}
        /\ UNCHANGED stagingDir
  /\ Goto(r, "failed")
  /\ UNCHANGED <<plan, next, final, finalDir, refused, rows, artifact, reported>>

WorkerCrashes(r) ==
  /\ Alive(r)
  /\ Goto(r, "dead")
  /\ UNCHANGED <<plan, next, stores, rows, artifact, reported>>

-----------------------------------------------------------------------------
(* Reconciliation, and the operator who follows recovery.md on its report. *)

HasResults(r) == r \in rows /\ plan[r] # <<>>

OrphanedEvidence == {r \in Run : stagingDir[r] /\ ~HasResults(r)}

ReportOrphans ==
  /\ OrphanedEvidence \ reported # {}
  /\ reported' = OrphanedEvidence
  /\ UNCHANGED <<pc, plan, next, stores, rows, artifact>>

SweepReported(r) ==
  /\ r \in reported /\ ~HasResults(r)
  /\ reported' = reported \ {r}
  /\ RemoveStagingDir(r)
  /\ UNCHANGED <<pc, plan, next, final, finalDir, refused, stubborn, rows, artifact>>

-----------------------------------------------------------------------------
WorkerStep(r) ==
  \/ BeginPersist(r) \/ WriteArtifact(r) \/ ArtifactWritten(r) \/ StageFile(r)
  \/ BeginPublish(r) \/ PublishFile(r) \/ EndPublish(r) \/ Commit(r)
  \/ UnlinkPublished(r) \/ UnlinkRefused(r) \/ RemoveFinalDir(r) \/ RemoveStaging(r)

EvidenceNext ==
  \/ \E r \in Run : WorkerStep(r) \/ PersistRaises(r) \/ WorkerCrashes(r)
                    \/ SweepReported(r)
  \/ ReportOrphans

EvidenceSpec == EvidenceInit /\ [][EvidenceNext]_vars

-----------------------------------------------------------------------------
EvidenceTypeOK ==
  /\ pc \in [Run -> Stages]
  /\ plan \in [Run -> Plans]
  /\ next \in [Run -> 1..(MaxOutcomes + 1)]
  /\ staging \in [Run -> SUBSET (1..MaxOutcomes)]
  /\ stagingDir \in [Run -> BOOLEAN]
  /\ final \in [Run -> SUBSET (1..MaxOutcomes)]
  /\ finalDir \in [Run -> BOOLEAN]
  /\ rows \subseteq Run
  /\ artifact \in [Body -> {"absent", "torn", "whole"}]
  /\ reported \subseteq Run
  /\ refused \in [Run -> SUBSET (1..MaxOutcomes)]
  /\ stubborn \subseteq Run \X {"final", "staging"}

\* No committed run is missing the evidence its TierResults reference
\* (evidence_store.py:7-8), whoever crashed, raised or swept what: an operator
\* who removes the staging directory of a run that is still alive included.
CommittedKeepsEvidence == \A r \in rows : final[r] = Files(r)

\* A removal that fails stops no other: once the failure of a run is handled it
\* has no row, and what is left of it is exactly what the file system refused to
\* remove (evidence_store.py:86-97, where every removal has its own handler).
FailureLeavesOnlyRefused ==
  \A r \in Run : pc[r] = "failed" =>
    /\ r \notin rows
    /\ final[r] = refused[r]
    /\ finalDir[r] => refused[r] # {} \/ <<r, "final">> \in stubborn
    /\ stagingDir[r] => <<r, "staging">> \in stubborn
    /\ staging[r] # {} => stagingDir[r]

\* What the docstring of discard() promises of the same failure: "a rolled-back run
\* leaves no evidence behind" (evidence_store.py:84-85).
RolledBackLeavesNothing ==
  \A r \in Run : pc[r] = "failed" => final[r] = {} /\ staging[r] = {}

\* Evidence files without a row are found: a crash between publish() and commit()
\* "is harmless and swept by ``reconciliation.orphaned_evidence``"
\* (evidence_store.py:18-19).
OrphansAreReported ==
  \A r \in Run : pc[r] \in {"failed", "dead"} /\ r \notin rows /\ final[r] # {} =>
    r \in OrphanedEvidence

\* The attribution and mask artifacts a committed run refers to hold the bytes of
\* their digest (orchestrator.py:549-551), at the latest when nobody is writing them.
ReferencedIsWhole ==
  \A r \in rows : \A k \in Files(r) : plan[r][k] # NoBody =>
    \/ artifact[plan[r][k]] = "whole"
    \/ \E q \in Run : pc[q] = "writing" /\ plan[q][next[q]] = plan[r][k]
=============================================================================
