------------------------- MODULE ArtifactIngestProofs -------------------------
(***************************************************************************)
(* Proofs about submissions for every set of requests, names and versions, *)
(* with requests that crash anywhere and a janitor that may sweep an       *)
(* upload while it is written.                                             *)
(***************************************************************************)
EXTENDS ArtifactIngest, TLAPS

\* IngestTypeOK without the uniqueness of keys, which needs more to be kept.
FieldsTyped ==
  /\ pc \in [Submission -> Active \cup {"idle", "answered", "dead"}]
  /\ req \in [Submission -> Name \X VersionName]
  /\ reply \in [Submission -> Codes \cup {0}]
  /\ flushed \in [Submission -> SUBSET {"model", "version"}]
  /\ versions \subseteq Submission /\ models \subseteq versions
  /\ part \in [Submission -> {"none", "partial", "whole"}]
  /\ aged \in [Submission -> BOOLEAN]
  /\ artifact \in [Submission -> BOOLEAN]
  /\ stuck \subseteq Submission
  /\ doomed \in Submission \cup {NoFile}

\* Whose files and rows a step may touch.
Untouched(s) ==
  /\ pc'[s] = pc[s] /\ reply'[s] = reply[s] /\ flushed'[s] = flushed[s]
  /\ s \in models' <=> s \in models
  /\ s \in versions' <=> s \in versions
  /\ artifact'[s] = artifact[s]
  /\ s \in stuck' <=> s \in stuck
  /\ part'[s] = part[s] \/ part'[s] = "none"

(* The strengthening, one request at a time: what files and rows it has at   *)
(* each place of submit_model.                                               *)
FilesFollowRequest(s) ==
  /\ s \in versions => pc[s] = "answered" /\ reply[s] = 201 /\ artifact[s]
  /\ pc[s] \in {"idle", "received", "inserting", "known", "streaming"} =>
       part[s] = "none" /\ ~artifact[s]
  /\ pc[s] \in {"writing", "staged", "finalizing"} => ~artifact[s]
  /\ pc[s] = "committing" => artifact[s] /\ part[s] = "none"
  /\ pc[s] = "discarding" =>
       /\ reply[s] \in {409, 507}
       /\ artifact[s] => s \in stuck /\ part[s] = "none"
  /\ pc[s] = "answered" /\ reply[s] # 201 =>
       /\ reply[s] # 500 => part[s] = "none" /\ (artifact[s] => s \in stuck)
       /\ part[s] # "none" => ~artifact[s]

(* What an open transaction has flushed at each place.                       *)
RowsFollowRequest(s) ==
  /\ pc[s] \in {"idle", "received", "inserting", "discarding", "answered", "dead"} =>
       flushed[s] = {}
  /\ pc[s] \in {"finalizing", "committing"} => "version" \in flushed[s]

(* Between two requests: the rows flushed by open transactions, and those    *)
(* that are stored, never share a key.                                       *)
KeysApart(s, t) ==
  /\ SameName(s, t) =>
       /\ ~("model" \in flushed[s] /\ "model" \in flushed[t])
       /\ ~("model" \in flushed[s] /\ t \in models)
       /\ ~(s \in models /\ t \in models)
  /\ SameVersion(s, t) =>
       /\ ~("version" \in flushed[s] /\ "version" \in flushed[t])
       /\ ~("version" \in flushed[s] /\ t \in versions)
       /\ ~(s \in versions /\ t \in versions)

IngestInv ==
  /\ FieldsTyped
  /\ \A s \in Submission : FilesFollowRequest(s) /\ RowsFollowRequest(s)
  /\ \A s, t \in Submission : s # t => KeysApart(s, t)

-----------------------------------------------------------------------------
\* A request that begins has no row and no file; an earlier one has its row and
\* its artifact.
LEMMA InitIngest == IngestInit => IngestInv
  <1> SUFFICES ASSUME IngestInit PROVE IngestInv
    OBVIOUS
  <1>1. PICK accepted \in SUBSET Earlier :
    /\ pc = [s \in Submission |-> IF s \in accepted THEN "answered" ELSE "idle"]
    /\ req \in [Submission -> Name \X VersionName]
    /\ reply = [s \in Submission |-> IF s \in accepted THEN 201 ELSE 0]
    /\ flushed = [s \in Submission |-> {}]
    /\ models = accepted /\ versions = accepted
    /\ part = [s \in Submission |-> "none"]
    /\ aged = [s \in Submission |-> FALSE]
    /\ artifact = [s \in Submission |-> s \in accepted]
    /\ stuck = {}
    /\ doomed = NoFile
    BY DEF IngestInit
  <1>2. FieldsTyped
    <2>1. accepted \subseteq Submission
      BY EarlierAssumption
    <2>2. artifact \in [Submission -> BOOLEAN]
      <3>1. \A s \in Submission : (s \in accepted) \in BOOLEAN
        OBVIOUS
      <3> QED BY <1>1, <3>1
    <2>3. pc \in [Submission -> Active \cup {"idle", "answered", "dead"}]
      BY <1>1
    <2>4. reply \in [Submission -> Codes \cup {0}]
      BY <1>1 DEF Codes
    <2> QED BY <1>1, <2>1, <2>2, <2>3, <2>4 DEF FieldsTyped
  <1>3. ASSUME NEW s \in Submission PROVE FilesFollowRequest(s) /\ RowsFollowRequest(s)
    <2>1. artifact[s] <=> s \in accepted
      BY <1>1, Zenon
    <2>2. /\ pc[s] = IF s \in accepted THEN "answered" ELSE "idle"
          /\ reply[s] = IF s \in accepted THEN 201 ELSE 0
          /\ part[s] = "none" /\ flushed[s] = {} /\ versions = accepted
      BY <1>1
    <2> QED BY <2>1, <2>2 DEF FilesFollowRequest, RowsFollowRequest
  <1>4. \A s, t \in Submission : s # t => KeysApart(s, t)
    BY <1>1, EarlierAssumption DEF KeysApart
  <1> QED BY <1>2, <1>3, <1>4 DEF IngestInv

\* Leaving submit_model keeps the fields typed, given that what the step does to
\* the files does.
LEMMA AnswerFields ==
  ASSUME FieldsTyped, NEW s \in Submission, NEW code \in Codes \cup {0}, Answer(s, code),
         part' \in [Submission -> {"none", "partial", "whole"}],
         aged' \in [Submission -> BOOLEAN],
         artifact' \in [Submission -> BOOLEAN],
         stuck' \subseteq Submission
  PROVE  FieldsTyped'
  BY DEF FieldsTyped, Answer, Goto

\* So does the compensation of what failed.
LEMMA CompensateFields ==
  ASSUME FieldsTyped, NEW s \in Submission, NEW code \in Codes, Compensate(s, code),
         part' \in [Submission -> {"none", "partial", "whole"}],
         aged' \in [Submission -> BOOLEAN],
         artifact' \in [Submission -> BOOLEAN],
         stuck' \subseteq Submission
  PROVE  FieldsTyped'
  BY DEF FieldsTyped, Compensate, Goto, Active

\* So does going on in it.
LEMMA GotoFields ==
  ASSUME FieldsTyped, NEW s \in Submission, NEW place \in Active, Goto(s, place),
         UNCHANGED <<req, models, versions, doomed>>,
         reply' \in [Submission -> Codes \cup {0}],
         flushed' \in [Submission -> SUBSET {"model", "version"}],
         part' \in [Submission -> {"none", "partial", "whole"}],
         aged' \in [Submission -> BOOLEAN],
         artifact' \in [Submission -> BOOLEAN],
         stuck' \subseteq Submission
  PROVE  FieldsTyped'
  BY DEF FieldsTyped, Goto

\* Every step keeps the fields in their types.
LEMMA StepFields == IngestInv /\ [IngestNext]_vars => FieldsTyped'
  <1> SUFFICES ASSUME FieldsTyped, IngestInv, [IngestNext]_vars PROVE FieldsTyped'
    BY DEF IngestInv
  <1>0. /\ part \in [Submission -> {"none", "partial", "whole"}]
        /\ aged \in [Submission -> BOOLEAN]
        /\ artifact \in [Submission -> BOOLEAN]
        /\ reply \in [Submission -> Codes \cup {0}]
        /\ flushed \in [Submission -> SUBSET {"model", "version"}]
        /\ stuck \subseteq Submission
    BY DEF FieldsTyped
  <1> USE <1>0 DEF Active, Codes, transaction, files
  <1>1. ASSUME NEW s \in Submission, Receive(s) PROVE FieldsTyped'
    <2>1. CASE Goto(s, "received") /\ UNCHANGED <<req, reply, transaction, doomed>>
      BY <1>1, <2>1, GotoFields DEF Receive
    <2>2. CASE Answer(s, 422)
      BY <1>1, <2>2, AnswerFields DEF Receive
    <2> QED BY <1>1, <2>1, <2>2 DEF Receive
  <1>2. ASSUME NEW s \in Submission, SubmitStep(s) PROVE FieldsTyped'
    <2>1. CASE FindModel(s)
      BY <2>1, GotoFields DEF FindModel
    <2>2. CASE InsertModel(s)
      <3>1. CASE Answer(s, 500)
        BY <2>2, <3>1, AnswerFields DEF InsertModel
      <3>2. CASE ~Answer(s, 500)
        <4>1. flushed' \in [Submission -> SUBSET {"model", "version"}]
          BY <2>2, <3>2 DEF InsertModel
        <4> QED BY <2>2, <3>2, <4>1, GotoFields DEF InsertModel
      <3> QED BY <3>1, <3>2
    <2>3. CASE CheckVersion(s)
      <3>1. CASE Answer(s, 409)
        BY <2>3, <3>1, AnswerFields DEF CheckVersion
      <3>2. CASE ~Answer(s, 409)
        BY <2>3, <3>2, GotoFields DEF CheckVersion
      <3> QED BY <3>1, <3>2
    <2>4. CASE BeginUpload(s)
      <3>1. ASSUME NEW code \in {415, 500}, Answer(s, code), UNCHANGED files
            PROVE  FieldsTyped'
        BY <3>1, AnswerFields
      <3>2. CASE Goto(s, "writing")
        <4>1. part' \in [Submission -> {"none", "partial", "whole"}]
          BY <2>4 DEF BeginUpload
        <4>2. CASE UNCHANGED <<req, reply, transaction, aged, artifact, stuck, doomed>>
          BY <3>2, <4>1, <4>2, GotoFields
        <4> QED BY <2>4, <3>1, <4>2 DEF BeginUpload
      <3> QED BY <2>4, <3>1, <3>2 DEF BeginUpload
    <2>5. CASE EndUpload(s)
      <3>1. /\ aged' \in [Submission -> BOOLEAN] /\ artifact' \in [Submission -> BOOLEAN]
            /\ stuck' \subseteq Submission
        BY <2>5 DEF EndUpload
      <3>2. ASSUME NEW code \in {413, 422, 507}, Answer(s, code),
                   part' = [part EXCEPT ![s] = "none"]
            PROVE  FieldsTyped'
        <4>1. part' \in [Submission -> {"none", "partial", "whole"}]
          BY <3>2
        <4> QED BY <3>1, <3>2, <4>1, AnswerFields
      <3>3. ASSUME Goto(s, "staged"), UNCHANGED <<req, reply, transaction, doomed>>,
                   part' = [part EXCEPT ![s] = IF @ = "partial" THEN "whole" ELSE @]
            PROVE  FieldsTyped'
        <4>1. part' \in [Submission -> {"none", "partial", "whole"}]
          BY <3>3
        <4> QED BY <3>1, <3>3, <4>1, GotoFields
      <3>4. CASE Answer(s, 500) /\ UNCHANGED part
        BY <3>1, <3>4, AnswerFields
      <3> QED BY <2>5, <3>2, <3>3, <3>4 DEF EndUpload
    <2>6. CASE InsertVersion(s)
      <3>1. CASE Compensate(s, 409)
        BY <2>6, <3>1, CompensateFields DEF InsertVersion
      <3>2. CASE Answer(s, 500)
        BY <2>6, <3>2, AnswerFields DEF InsertVersion
      <3>3. CASE /\ Goto(s, "finalizing")
                 /\ flushed' = [flushed EXCEPT ![s] = @ \cup {"version"}]
                 /\ UNCHANGED <<req, reply, models, versions, doomed>>
        <4>1. flushed' \in [Submission -> SUBSET {"model", "version"}]
          BY <3>3
        <4> QED BY <2>6, <3>3, <4>1, GotoFields DEF InsertVersion
      <3> QED BY <2>6, <3>1, <3>2, <3>3 DEF InsertVersion
    <2>7. CASE Finalize(s)
      <3>1. CASE /\ Goto(s, "committing")
                 /\ part' = [part EXCEPT ![s] = "none"]
                 /\ artifact' = [artifact EXCEPT ![s] = TRUE]
                 /\ UNCHANGED <<req, reply, transaction, doomed>>
        <4>1. /\ part' \in [Submission -> {"none", "partial", "whole"}]
              /\ artifact' \in [Submission -> BOOLEAN]
          BY <3>1
        <4> QED BY <2>7, <3>1, <4>1, GotoFields DEF Finalize
      <3>2. CASE Compensate(s, 507) /\ UNCHANGED <<part, artifact>>
        BY <2>7, <3>2, CompensateFields DEF Finalize
      <3>3. CASE Answer(s, 500) /\ UNCHANGED <<part, artifact>>
        BY <2>7, <3>3, AnswerFields DEF Finalize
      <3> QED BY <2>7, <3>1, <3>2, <3>3 DEF Finalize
    <2>8. CASE Commit(s)
      <3>1. /\ pc' \in [Submission -> Active \cup {"idle", "answered", "dead"}]
            /\ reply' \in [Submission -> Codes \cup {0}]
            /\ flushed' \in [Submission -> SUBSET {"model", "version"}]
        BY <2>8 DEF Commit, Goto, FieldsTyped
      <3>2. models' \subseteq versions' /\ versions' \subseteq Submission
        BY <2>8 DEF Commit, FieldsTyped
      <3> QED BY <2>8, <3>1, <3>2 DEF Commit, FieldsTyped
    <2>9. CASE CommitRefused(s)
      <3>1. CASE Answer(s, 500) /\ UNCHANGED <<artifact, stuck>>
        BY <2>9, <3>1, AnswerFields DEF CommitRefused
      <3>2. CASE Compensate(s, 409)
        <4>1. artifact' \in [Submission -> BOOLEAN] /\ stuck' \subseteq Submission
          <5>1. CASE artifact' = [artifact EXCEPT ![s] = FALSE] /\ UNCHANGED stuck
            BY <5>1
          <5>2. CASE stuck' = stuck \cup {s} /\ UNCHANGED artifact
            BY <5>2
          <5>3. CASE UNCHANGED <<artifact, stuck>>
            BY <5>3
          <5> QED BY <2>9, <5>1, <5>2, <5>3 DEF CommitRefused
        <4> QED BY <2>9, <3>2, <4>1, CompensateFields DEF CommitRefused
      <3> QED BY <2>9, <3>1, <3>2 DEF CommitRefused
    <2>10. CASE Discard(s)
      <3>1. /\ part' \in [Submission -> {"none", "partial", "whole"}]
            /\ reply[s] \in Codes \cup {0}
        BY <2>10 DEF Discard
      <3>2. Answer(s, reply[s]) \/ Answer(s, 500)
        BY <2>10 DEF Discard
      <3>3. UNCHANGED <<aged, artifact, stuck>>
        BY <2>10 DEF Discard
      <3> QED BY <3>1, <3>2, <3>3, AnswerFields
    <2> QED BY <1>2, <2>1, <2>2, <2>3, <2>4, <2>5, <2>6, <2>7, <2>8, <2>9, <2>10
          DEF SubmitStep
  <1>3. ASSUME NEW s \in Submission, ApiCrashes(s) PROVE FieldsTyped'
    BY <1>3 DEF ApiCrashes, Goto, FieldsTyped
  <1>6. ASSUME NEW s \in Submission, Ages(s) PROVE FieldsTyped'
    <2>1. aged' \in [Submission -> BOOLEAN]
      BY <1>6 DEF Ages
    <2> QED BY <1>6, <2>1 DEF Ages, FieldsTyped
  <1>4. CASE Janitor
    <2>1. CASE JanitorUnlinks
      <3>1. part' \in [Submission -> {"none", "partial", "whole"}]
        BY <2>1 DEF JanitorUnlinks
      <3> QED BY <2>1, <3>1 DEF JanitorUnlinks, FieldsTyped
    <2>2. ASSUME NEW s \in Submission, JanitorLooks(s) PROVE FieldsTyped'
      BY <2>2 DEF JanitorLooks, FieldsTyped
    <2> QED BY <1>4, <2>1, <2>2 DEF Janitor
  <1>5. CASE UNCHANGED vars
    BY <1>5 DEF vars, FieldsTyped
  <1> QED BY <1>1, <1>2, <1>3, <1>4, <1>5, <1>6 DEF IngestNext

-----------------------------------------------------------------------------
\* What a request does itself, its end included.
OwnStep(s) == Receive(s) \/ SubmitStep(s) \/ ApiCrashes(s)

\* A request never touches the place, the answer, the files or the rows of
\* another.
LEMMA OwnStepIsLocal ==
  ASSUME FieldsTyped, NEW s \in Submission, OwnStep(s), NEW t \in Submission, t # s
  PROVE  Untouched(t)
  <1> USE DEF FieldsTyped, Untouched, Goto, Answer, Compensate, transaction, files
  <1>1. CASE Receive(s) \/ ApiCrashes(s) \/ FindModel(s) \/ CheckVersion(s)
    BY <1>1 DEF Receive, ApiCrashes, FindModel, CheckVersion
  <1>2. CASE InsertModel(s) \/ BeginUpload(s) \/ InsertVersion(s)
    BY <1>2 DEF InsertModel, BeginUpload, InsertVersion
  <1>3. CASE EndUpload(s)
    BY <1>3 DEF EndUpload
  <1>4. CASE Finalize(s)
    BY <1>4 DEF Finalize
  <1>5. CASE Commit(s)
    BY <1>5 DEF Commit
  <1>6. CASE CommitRefused(s) \/ Discard(s)
    BY <1>6 DEF CommitRefused, Discard
  <1> QED BY <1>1, <1>2, <1>3, <1>4, <1>5, <1>6 DEF OwnStep, SubmitStep

\* Time and the janitor touch nothing of a request but its .part file, which
\* the janitor unlinks.
LEMMA OthersStepIsLocal ==
  ASSUME FieldsTyped, NEW t \in Submission,
         Janitor \/ UNCHANGED vars \/ \E s \in Submission : Ages(s)
  PROVE  Untouched(t)
  <1> USE DEF FieldsTyped, Untouched, transaction, files
  <1>1. CASE JanitorUnlinks
    BY <1>1 DEF JanitorUnlinks
  <1>2. ASSUME NEW s \in Submission, JanitorLooks(s) \/ Ages(s) PROVE Untouched(t)
    BY <1>2 DEF JanitorLooks, Ages
  <1>3. CASE UNCHANGED vars
    BY <1>3 DEF vars
  <1> QED BY <1>1, <1>2, <1>3 DEF Janitor

\* The (name, version) of a request never changes.
LEMMA RequestKept == [IngestNext]_vars => req' = req
  <1> SUFFICES ASSUME [IngestNext]_vars PROVE req' = req
    OBVIOUS
  <1> USE DEF Answer, Compensate
  <1>1. ASSUME NEW s \in Submission, Receive(s) \/ ApiCrashes(s) \/ Ages(s) PROVE req' = req
    BY <1>1 DEF Receive, ApiCrashes, Ages
  <1>2. ASSUME NEW s \in Submission, SubmitStep(s) PROVE req' = req
    BY <1>2 DEF SubmitStep, FindModel, InsertModel, CheckVersion, BeginUpload, EndUpload,
      InsertVersion, Finalize, Commit, CommitRefused, Discard
  <1>3. CASE Janitor \/ UNCHANGED vars
    BY <1>3 DEF Janitor, JanitorUnlinks, JanitorLooks, vars
  <1> QED BY <1>1, <1>2, <1>3 DEF IngestNext

\* A request that is not touched keeps its files and rows in step.
LEMMA UntouchedKept ==
  ASSUME NEW t \in Submission, Untouched(t), FilesFollowRequest(t), RowsFollowRequest(t)
  PROVE  FilesFollowRequest(t)' /\ RowsFollowRequest(t)'
  BY DEF Untouched, FilesFollowRequest, RowsFollowRequest

\* A request keeps its own files in step, wherever it is refused or dies.
LEMMA OwnFilesKept ==
  ASSUME FieldsTyped, NEW s \in Submission, FilesFollowRequest(s), OwnStep(s)
  PROVE  FilesFollowRequest(s)'
  <1> USE DEF FieldsTyped, FilesFollowRequest, Goto, Answer, Compensate, Active, Codes, transaction, files
  <1>1. CASE Receive(s)
    BY <1>1 DEF Receive
  <1>2. CASE ApiCrashes(s) \/ FindModel(s)
    BY <1>2 DEF ApiCrashes, FindModel, Live
  <1>3. CASE InsertModel(s) \/ CheckVersion(s)
    BY <1>3 DEF InsertModel, CheckVersion
  <1>4. CASE BeginUpload(s)
    BY <1>4 DEF BeginUpload
  <1>5. CASE EndUpload(s)
    BY <1>5 DEF EndUpload
  <1>6. CASE InsertVersion(s)
    BY <1>6 DEF InsertVersion
  <1>7. CASE Finalize(s)
    BY <1>7 DEF Finalize
  <1>8. CASE Commit(s)
    BY <1>8 DEF Commit
  <1>9. CASE CommitRefused(s)
    BY <1>9 DEF CommitRefused
  <1>10. CASE Discard(s)
    BY <1>10 DEF Discard
  <1> QED BY <1>1, <1>2, <1>3, <1>4, <1>5, <1>6, <1>7, <1>8, <1>9, <1>10
        DEF OwnStep, SubmitStep

\* And the rows of its transaction.
LEMMA OwnRowsKept ==
  ASSUME FieldsTyped, NEW s \in Submission, RowsFollowRequest(s), OwnStep(s)
  PROVE  RowsFollowRequest(s)'
  <1> USE DEF FieldsTyped, RowsFollowRequest, Goto, Answer, Compensate, Active, transaction
  <1>1. CASE Receive(s) \/ ApiCrashes(s) \/ FindModel(s) \/ CheckVersion(s)
    BY <1>1 DEF Receive, ApiCrashes, FindModel, CheckVersion, Live
  <1>2. CASE InsertModel(s) \/ BeginUpload(s) \/ EndUpload(s)
    BY <1>2 DEF InsertModel, BeginUpload, EndUpload
  <1>3. CASE InsertVersion(s) \/ Finalize(s)
    BY <1>3 DEF InsertVersion, Finalize
  <1>4. CASE Commit(s) \/ CommitRefused(s) \/ Discard(s)
    BY <1>4 DEF Commit, CommitRefused, Discard
  <1> QED BY <1>1, <1>2, <1>3, <1>4 DEF OwnStep, SubmitStep

-----------------------------------------------------------------------------
(* The keys of concurrent submissions                                      *)

\* What a step of a request does to the rows of its transaction and the stored
\* ones: nothing, less, a new row whose key nobody has, or the commit of all.
NoNewRow(s) ==
  /\ flushed'[s] \subseteq flushed[s]
  /\ s \in models' <=> s \in models
  /\ s \in versions' <=> s \in versions
Inserts(s, row) ==
  /\ ~Waits(s, row) /\ ~Taken(s, row)
  /\ flushed'[s] \subseteq flushed[s] \cup {row}
  /\ models' = models /\ versions' = versions
CommitsAll(s) ==
  /\ "version" \in flushed[s]
  /\ flushed'[s] = {}
  /\ s \in models' => s \in models \/ "model" \in flushed[s]

\* Every step of a request is of one of these kinds.
LEMMA RowEffects ==
  ASSUME FieldsTyped, NEW s \in Submission, OwnStep(s), RowsFollowRequest(s)
  PROVE  NoNewRow(s) \/ Inserts(s, "model") \/ Inserts(s, "version") \/ CommitsAll(s)
  <1> USE DEF FieldsTyped, Goto, Answer, Compensate, transaction
  <1>1. CASE Receive(s) \/ ApiCrashes(s) \/ FindModel(s) \/ CheckVersion(s)
    BY <1>1 DEF Receive, ApiCrashes, FindModel, CheckVersion, NoNewRow
  <1>2. CASE InsertModel(s)
    BY <1>2 DEF InsertModel, NoNewRow, Inserts
  <1>3. CASE BeginUpload(s) \/ EndUpload(s)
    BY <1>3 DEF BeginUpload, EndUpload, NoNewRow
  <1>4. CASE InsertVersion(s)
    BY <1>4 DEF InsertVersion, NoNewRow, Inserts
  <1>5. CASE Commit(s)
    BY <1>5 DEF Commit, CommitsAll, RowsFollowRequest
  <1>6. CASE Finalize(s) \/ CommitRefused(s) \/ Discard(s)
    BY <1>6 DEF Finalize, CommitRefused, Discard, NoNewRow
  <1> QED BY <1>1, <1>2, <1>3, <1>4, <1>5, <1>6 DEF OwnStep, SubmitStep

\* The transaction of a request never comes to hold a key of another, neither
\* flushed nor stored: of two that race for a key one waits until the other is
\* gone, and then is refused.
LEMMA OwnKeysApart ==
  ASSUME FieldsTyped, NEW s \in Submission, OwnStep(s), RowsFollowRequest(s), req' = req,
         NEW t \in Submission, t # s, KeysApart(s, t), KeysApart(t, s), Untouched(t)
  PROVE  KeysApart(s, t)' /\ KeysApart(t, s)'
  <1>0. (SameName(s, t) <=> SameName(t, s)) /\ (SameVersion(s, t) <=> SameVersion(t, s))
    BY DEF SameName, SameVersion
  <1> USE <1>0 DEF KeysApart, Untouched, SameName, SameVersion
  <1>1. CASE NoNewRow(s)
    BY <1>1 DEF NoNewRow
  <1>2. CASE Inserts(s, "model")
    <2>1. SameName(s, t) => "model" \notin flushed[t] /\ t \notin models
      BY <1>2 DEF Inserts, Waits, Taken, Same, Stored, FieldsTyped
    <2> QED BY <1>2, <2>1 DEF Inserts
  <1>3. CASE Inserts(s, "version")
    <2>1. SameVersion(s, t) => "version" \notin flushed[t] /\ t \notin versions
      BY <1>3 DEF Inserts, Waits, Taken, Same, Stored, FieldsTyped
    <2> QED BY <1>3, <2>1 DEF Inserts
  <1>4. CASE CommitsAll(s)
    BY <1>4 DEF CommitsAll
  <1> QED BY <1>1, <1>2, <1>3, <1>4, RowEffects

\* Every step keeps the strengthening.
LEMMA StepIngest == IngestInv /\ [IngestNext]_vars => IngestInv'
  <1> SUFFICES ASSUME IngestInv, [IngestNext]_vars PROVE IngestInv'
    OBVIOUS
  <1>0. FieldsTyped /\ FieldsTyped' /\ req' = req
    BY StepFields, RequestKept DEF IngestInv
  <1>1. ASSUME NEW u \in Submission, OwnStep(u) PROVE IngestInv'
    <2>1. ASSUME NEW t \in Submission, t # u PROVE Untouched(t)
      BY <1>0, <1>1, <2>1, OwnStepIsLocal
    <2>2. ASSUME NEW t \in Submission
          PROVE  FilesFollowRequest(t)' /\ RowsFollowRequest(t)'
      <3>1. FilesFollowRequest(t) /\ RowsFollowRequest(t)
        BY DEF IngestInv
      <3>2. CASE t = u
        BY <1>0, <1>1, <3>1, <3>2, OwnFilesKept, OwnRowsKept
      <3>3. CASE t # u
        BY <2>1, <3>1, <3>3, UntouchedKept
      <3> QED BY <3>2, <3>3
    <2>3. ASSUME NEW s \in Submission, NEW t \in Submission, s # t
          PROVE  KeysApart(s, t)'
      <3>1. KeysApart(s, t) /\ KeysApart(t, s) /\ RowsFollowRequest(u)
        BY <2>3 DEF IngestInv
      <3>2. CASE s = u
        BY <1>0, <1>1, <2>1, <2>3, <3>1, <3>2, OwnKeysApart
      <3>3. CASE t = u
        BY <1>0, <1>1, <2>1, <2>3, <3>1, <3>3, OwnKeysApart
      <3>4. CASE s # u /\ t # u
        BY <1>0, <2>1, <3>1, <3>4 DEF KeysApart, Untouched, SameName, SameVersion
      <3> QED BY <3>2, <3>3, <3>4
    <2> QED BY <1>0, <2>2, <2>3 DEF IngestInv
  <1>2. CASE Janitor \/ UNCHANGED vars \/ \E s \in Submission : Ages(s)
    <2>1. \A t \in Submission : Untouched(t)
      BY <1>0, <1>2, OthersStepIsLocal
    <2>2. ASSUME NEW t \in Submission
          PROVE  FilesFollowRequest(t)' /\ RowsFollowRequest(t)'
      BY <2>1, UntouchedKept DEF IngestInv
    <2>3. ASSUME NEW s \in Submission, NEW t \in Submission, s # t
          PROVE  KeysApart(s, t)'
      <3>1. KeysApart(s, t)
        BY <2>3 DEF IngestInv
      <3> QED BY <1>0, <2>1, <3>1 DEF KeysApart, Untouched, SameName, SameVersion
    <2> QED BY <1>0, <2>2, <2>3 DEF IngestInv
  <1> QED BY <1>1, <1>2 DEF IngestNext, OwnStep

\* However many first submissions of a name, or submissions of a version, run
\* at once, one row is stored for each key, and a model never without a version.
THEOREM IngestTypeCorrect == IngestSpec => []IngestTypeOK
  <1>1. IngestInv => IngestTypeOK
    <2>1. IngestInv => OneRowPerKey
      BY DEF IngestInv, FieldsTyped, KeysApart, OneRowPerKey
    <2> QED BY <2>1 DEF IngestInv, FieldsTyped, IngestTypeOK
  <1> QED BY <1>1, InitIngest, StepIngest, PTL DEF IngestSpec

\* A committed version has its artifact, a submission that was not accepted has no
\* row, and one the handler refused leaves no file but what the file system would
\* not remove, whatever the janitor sweeps and wherever requests raise or die.
THEOREM FilesAndRowsMatch == IngestSpec => []FilesMatchRows
  <1>1. IngestInv => FilesMatchRows
    <2> SUFFICES ASSUME IngestInv PROVE FilesMatchRows
      OBVIOUS
    <2>1. CommittedHasArtifact
      BY DEF IngestInv, FieldsTyped, FilesFollowRequest, CommittedHasArtifact
    <2>2. RefusedLeavesNoFile
      BY DEF IngestInv, FilesFollowRequest, RefusedLeavesNoFile, Codes
    <2> QED BY <2>1, <2>2 DEF FilesMatchRows
  <1> QED BY <1>1, InitIngest, StepIngest, PTL DEF IngestSpec
=============================================================================
