-------------------------- MODULE ArtifactIngest ---------------------------
(***************************************************************************)
(* Submissions as they handle files and uniqueness: submit_model of        *)
(* api/models.py, services/artifact_ingest.py and the sweep of             *)
(* services/artifact_janitor.py.                                           *)
(*                                                                         *)
(* Each submission is one request, in an API process of its own.  A row a  *)
(* transaction has flushed and not committed makes another insert of its   *)
(* key wait; a committed one makes it raise IntegrityError.  An error that *)
(* submit_model does not name is answered 500 by the framework, and nothing*)
(* of the submission is compensated.  What the API does after its commit   *)
(* (the publish of the intent) is in Evaluation.                           *)
(***************************************************************************)
EXTENDS Naturals, FiniteSets

CONSTANTS Submission, Name, VersionName,
          Earlier,     \* submissions that may have been accepted before
          NoFile,      \* the janitor has no file in hand
          Slow         \* whether a live upload may outlast the janitor's threshold

ASSUME EarlierAssumption ==
  Earlier \subseteq Submission /\ \A s, t \in Earlier : s = t
ASSUME NoFileAssumption == NoFile \notin Submission
ASSUME SlowAssumption == Slow \in BOOLEAN

VARIABLES pc,        \* where submit_model is
          req,       \* the (name, version) asked for
          reply,     \* the HTTP status
          flushed,   \* rows of the open transaction: "model", "version"
          models,    \* submissions whose Model row is committed
          versions,  \* submissions whose ModelVersion, receipt and intent are
          part,      \* the .part file
          aged,      \* whether its mtime is beyond the janitor's threshold
          artifact,  \* the finalised file
          stuck,     \* submissions whose artifact directory rmtree did not remove
          doomed     \* the file the janitor found old and is about to unlink

transaction == <<flushed, models, versions>>
files == <<part, aged, artifact, stuck>>
vars == <<pc, req, reply, transaction, files, doomed>>

Active == {"received", "inserting", "known", "streaming", "writing", "staged", "finalizing",
           "committing", "discarding"}
Codes == {201, 409, 413, 415, 422, 500, 507}
Live(s) == pc[s] \in Active
SameName(s, t) == req[s][1] = req[t][1]
SameVersion(s, t) == req[s] = req[t]

IngestInit ==
  \E accepted \in SUBSET Earlier :
    /\ pc = [s \in Submission |-> IF s \in accepted THEN "answered" ELSE "idle"]
    /\ req \in [Submission -> Name \X VersionName]
    /\ reply = [s \in Submission |-> IF s \in accepted THEN 201 ELSE 0]
    /\ flushed = [s \in Submission |-> {}]
    /\ models = accepted /\ versions = accepted
    /\ part = [s \in Submission |-> "none"]
    /\ aged = [s \in Submission |-> FALSE]
    /\ artifact = [s \in Submission |-> s \in accepted]
    /\ stuck = {}
    /\ doomed = NoFile

Goto(s, place) == pc' = [pc EXCEPT ![s] = place]

\* mutant: the session of a refused request stays open
AnswerKeepingSession(s, code) ==
  /\ Goto(s, "answered")
  /\ reply' = [reply EXCEPT ![s] = code]
  /\ UNCHANGED <<req, transaction, doomed>>

\* Leave submit_model; the session of the request is closed, so whatever it
\* has flushed is rolled back.
Answer(s, code) ==
  /\ Goto(s, "answered")
  /\ reply' = [reply EXCEPT ![s] = code]
  /\ flushed' = [flushed EXCEPT ![s] = {}]
  /\ UNCHANGED <<req, models, versions, doomed>>

-----------------------------------------------------------------------------
(* submit_model                                                            *)

\* Class, scorer and framework are checked before anything is read.
Receive(s) ==
  /\ pc[s] = "idle" /\ s \notin Earlier
  /\ \/ Goto(s, "received") /\ UNCHANGED <<req, reply, transaction, doomed>>
     \/ Answer(s, 422)
  /\ UNCHANGED files

FindModel(s) ==
  /\ pc[s] = "received"
  /\ Goto(s, IF \E t \in models : SameName(s, t) THEN "known" ELSE "inserting")
  /\ UNCHANGED <<req, reply, transaction, files, doomed>>

\* unique(name, class) and unique(model_id, version)
Same(s, t, row) == IF row = "model" THEN SameName(s, t) ELSE SameVersion(s, t)
Stored(row) == IF row = "model" THEN models ELSE versions
Waits(s, row) == \E t \in Submission \ {s} : row \in flushed[t] /\ Same(s, t, row)

\* mutant: the table has no unique constraint
NeverTaken(s, row) == FALSE

Taken(s, row) == \E t \in Stored(row) : Same(s, t, row)

\* Model flush: neither its IntegrityError nor any other error is caught.
InsertModel(s) ==
  /\ pc[s] = "inserting" /\ ~Waits(s, "model")
  /\ \/ Answer(s, 500)
     \/ /\ ~Taken(s, "model")
        /\ flushed' = [flushed EXCEPT ![s] = {"model"}]
        /\ Goto(s, "known")
        /\ UNCHANGED <<req, reply, models, versions, doomed>>
  /\ UNCHANGED files

CheckVersion(s) ==
  /\ pc[s] = "known"
  /\ \/ (\E t \in versions : SameVersion(s, t)) /\ Answer(s, 409)
     \/ /\ ~ \E t \in versions : SameVersion(s, t)
        /\ Goto(s, "streaming")
        /\ UNCHANGED <<req, reply, transaction, doomed>>
  /\ UNCHANGED files

\* stage_upload: the extension, the staging directory (whose mkdir may raise),
\* then chunks into the .part file.
BeginUpload(s) ==
  /\ pc[s] = "streaming"
  /\ \/ \E code \in {415, 500} : Answer(s, code) /\ UNCHANGED files
     \/ /\ Goto(s, "writing")
        /\ part' = [part EXCEPT ![s] = "partial"]
        /\ UNCHANGED <<req, reply, transaction, aged, artifact, stuck, doomed>>

\* The write of a chunk renews the file's mtime; a file the janitor removed
\* meanwhile is written on, unseen.  The file is unlinked when the stream is too
\* large, empty, or refused by the disk; it stays when that unlink raises, or the
\* stream something else than OSError.
EndUpload(s) ==
  /\ pc[s] = "writing"
  /\ aged' = [aged EXCEPT ![s] = FALSE]
  /\ \/ /\ \E code \in {413, 422, 507} : Answer(s, code)
        /\ part' = [part EXCEPT ![s] = "none"]
     \/ Answer(s, 500) /\ UNCHANGED part
     \/ /\ Goto(s, "staged")
        /\ part' = [part EXCEPT ![s] = IF @ = "partial" THEN "whole" ELSE @]
        /\ UNCHANGED <<req, reply, transaction, doomed>>
  /\ UNCHANGED <<artifact, stuck>>

\* Roll back, then staged.discard() and the answer
Compensate(s, code) ==
  /\ Goto(s, "discarding")
  /\ reply' = [reply EXCEPT ![s] = code]
  /\ flushed' = [flushed EXCEPT ![s] = {}]
  /\ UNCHANGED <<req, models, versions, doomed>>

\* ModelVersion flush: an IntegrityError is compensated, another error is not.
InsertVersion(s) ==
  /\ pc[s] = "staged" /\ ~Waits(s, "version")
  /\ \/ Taken(s, "version") /\ Compensate(s, 409)
     \/ Answer(s, 500)
     \/ /\ ~Taken(s, "version")
        /\ Goto(s, "finalizing")
        /\ flushed' = [flushed EXCEPT ![s] = @ \cup {"version"}]
        /\ UNCHANGED <<req, reply, models, versions, doomed>>
  /\ UNCHANGED files

\* finalize: os.replace moves the staged file, or raises when it is gone or the
\* disk refuses, which is compensated.  The mkdir of the destination and the test
\* of its name are outside the try: what they raise is not.
Finalize(s) ==
  /\ pc[s] = "finalizing"
  /\ \/ /\ part[s] = "whole"
        /\ part' = [part EXCEPT ![s] = "none"]
        /\ artifact' = [artifact EXCEPT ![s] = TRUE]
        /\ Goto(s, "committing")
        /\ UNCHANGED <<req, reply, transaction, doomed>>
     \/ (Compensate(s, 507) \/ Answer(s, 500)) /\ UNCHANGED <<part, artifact>>
  /\ UNCHANGED <<aged, stuck>>

\* version, receipt, audit event and intent in one transaction
Commit(s) ==
  /\ pc[s] = "committing"
  /\ Goto(s, "answered")
  /\ reply' = [reply EXCEPT ![s] = 201]
  /\ flushed' = [flushed EXCEPT ![s] = {}]
  /\ models' = IF "model" \in flushed[s] THEN models \cup {s} ELSE models
  /\ versions' = versions \cup {s}
  /\ UNCHANGED <<req, files, doomed>>

\* mutant: the artifact directory stays
CommitRefusedKeepingArtifact(s) ==
  /\ pc[s] = "committing"
  /\ \/ Compensate(s, 409) \/ Answer(s, 500)
  /\ UNCHANGED files

\* The database refuses the commit: a constraint is compensated, with the
\* artifact directory (rmtree ignores its errors); any other error is not caught.
CommitRefused(s) ==
  /\ pc[s] = "committing"
  /\ \/ /\ Compensate(s, 409)
        /\ \/ artifact' = [artifact EXCEPT ![s] = FALSE] /\ UNCHANGED stuck
           \/ stuck' = stuck \cup {s} /\ UNCHANGED artifact
     \/ Answer(s, 500) /\ UNCHANGED <<artifact, stuck>>
  /\ UNCHANGED <<part, aged>>

\* staged.discard() and the answer decided on, unless the unlink raises
Discard(s) ==
  /\ pc[s] = "discarding"
  /\ \/ part' = [part EXCEPT ![s] = "none"] /\ Answer(s, reply[s])
     \/ part[s] # "none" /\ UNCHANGED part /\ Answer(s, 500)
  /\ UNCHANGED <<aged, artifact, stuck>>

\* The process dies: the database rolls its transaction back, files stay.
ApiCrashes(s) ==
  /\ Live(s)
  /\ Goto(s, "dead")
  /\ flushed' = [flushed EXCEPT ![s] = {}]
  /\ UNCHANGED <<req, reply, models, versions, files, doomed>>

-----------------------------------------------------------------------------
(* Time and the janitor                                                    *)

Ages(s) ==
  /\ part[s] # "none" /\ ~aged[s]
  /\ pc[s] \in {"dead", "answered"} \/ Slow
  /\ aged' = [aged EXCEPT ![s] = TRUE]
  /\ UNCHANGED <<pc, req, reply, transaction, part, artifact, stuck, doomed>>

\* mutant: only complete uploads are looked for
SweepableWhole(s) == part[s] = "whole" /\ aged[s]

\* sweep_abandoned: every .part file whose mtime is old enough
Sweepable(s) == part[s] # "none" /\ aged[s]

JanitorLooks(s) ==
  /\ doomed = NoFile /\ Sweepable(s)
  /\ doomed' = s
  /\ UNCHANGED <<pc, req, reply, transaction, files>>

\* unlink(missing_ok=True), whatever became of the file since; one that raises is
\* a file this sweep has not looked at
JanitorUnlinks ==
  /\ doomed # NoFile
  /\ part' = [part EXCEPT ![doomed] = "none"]
  /\ doomed' = NoFile
  /\ UNCHANGED <<pc, req, reply, transaction, aged, artifact, stuck>>

-----------------------------------------------------------------------------
SubmitStep(s) ==
  \/ FindModel(s) \/ InsertModel(s) \/ CheckVersion(s) \/ BeginUpload(s) \/ EndUpload(s)
  \/ InsertVersion(s) \/ Finalize(s) \/ Commit(s) \/ CommitRefused(s) \/ Discard(s)

Janitor == JanitorUnlinks \/ \E s \in Submission : JanitorLooks(s)

IngestNext ==
  \/ \E s \in Submission : Receive(s) \/ SubmitStep(s) \/ ApiCrashes(s) \/ Ages(s)
  \/ Janitor

\* A request that runs goes on (a flush that waits does so once it may), time
\* passes, and the janitor is run periodically (artifact_janitor.py:8).
IngestFairness ==
  /\ \A s \in Submission : WF_vars(SubmitStep(s)) /\ WF_vars(Ages(s))
  /\ \A s \in Submission : SF_vars(JanitorLooks(s))
  /\ WF_vars(JanitorUnlinks)

IngestSpec == IngestInit /\ [][IngestNext]_vars /\ IngestFairness
-----------------------------------------------------------------------------
\* The identity of models and versions survives concurrent first submissions
\* (db/models.py:52,62): one row per key.
OneRowPerKey ==
  /\ \A s, t \in models : SameName(s, t) => s = t
  /\ \A s, t \in versions : SameVersion(s, t) => s = t

IngestTypeOK ==
  /\ pc \in [Submission -> Active \cup {"idle", "answered", "dead"}]
  /\ req \in [Submission -> Name \X VersionName]
  /\ reply \in [Submission -> Codes \cup {0}]
  /\ flushed \in [Submission -> SUBSET {"model", "version"}]
  /\ versions \subseteq Submission /\ models \subseteq versions
  /\ part \in [Submission -> {"none", "partial", "whole"}]
  /\ aged \in [Submission -> BOOLEAN]
  /\ artifact \in [Submission -> BOOLEAN]
  /\ stuck \subseteq Submission
  /\ doomed \in Submission \cup {NoFile}
  /\ OneRowPerKey

\* A committed version has its artifact, whole and in place
\* (artifact_ingest.py:4-8): whatever the janitor unlinked meanwhile.
CommittedHasArtifact == \A s \in versions : artifact[s]

\* A submission that was not accepted has no row, and one the handler refused
\* (api/models.py:120-122,146-154,169-174,199-204) leaves no file but what rmtree
\* could not remove.  An error it does not catch (500) leaves the file it was at.
RefusedLeavesNoFile ==
  \A s \in Submission : pc[s] = "answered" /\ reply[s] # 201 =>
    /\ s \notin versions
    /\ reply[s] # 500 => part[s] = "none" /\ (artifact[s] => s \in stuck)
    /\ part[s] # "none" => ~artifact[s]

\* Files and rows go together, through concurrent submissions, refusals at
\* every step, crashes and a janitor that sweeps what is being written.
FilesMatchRows == CommittedHasArtifact /\ RefusedLeavesNoFile

\* When finalize() fails the staged file is removed: "On failure the staged file is
\* removed by the caller's compensation" (artifact_ingest.py:126-127).
FailedFinalizeIsCompensated ==
  [][\A s \in Submission :
       pc[s] = "finalizing" /\ pc'[s] = "answered" => part'[s] = "none"]_vars

\* An upload its process abandoned, by dying or by an error nobody caught, is
\* swept (artifact_janitor.py:3-5).
AbandonedIsSwept ==
  \A s \in Submission :
    pc[s] = "dead" \/ (pc[s] = "answered" /\ reply[s] = 500) ~> part[s] = "none"

\* Requests that wait on each other's unique keys are all answered in the end.
EveryoneIsAnswered ==
  \A s \in Submission : Live(s) ~> pc[s] \in {"answered", "dead"}
=============================================================================
