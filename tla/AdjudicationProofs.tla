------------------------- MODULE AdjudicationProofs -------------------------
(***************************************************************************)
(* Proofs about human decisions beside the evaluations (Adjudication).     *)
(*                                                                         *)
(* A decision writes a status and a record and nothing of the outbox or of *)
(* the runs, so what EvaluationProofs shows of an evaluation's steps is    *)
(* cited, and the argument left is about the requests: what a reviewer has *)
(* read stands while the clock of the case has not moved.                  *)
(***************************************************************************)
EXTENDS Adjudication, EvaluationProofs

-----------------------------------------------------------------------------
(* Types                                                                     *)

\* A decision writes one status, and at most counts a fault.
LEMMA DecisionKeepsEvaluation ==
  ASSUME EvaluationInv, AdjudicationTypeOK, NEW q \in requests, Decide(q)
  PROVE  EvaluationInv'
  <1>0. TypeOK /\ LedgerInv /\ TablesTyped /\ RunsTyped /\ CapturedKnown
        /\ outlives \in [Intent -> SUBSET Worker]
    BY TypeParts DEF EvaluationInv
  <1>1. CaseOf(q.run) \in Version
    BY <1>0, KeysOfVersion DEF AdjudicationTypeOK, TablesTyped, CaseOf
  <1>2. ApplyAdjudication(q.decision) \in Decided
    BY DEF ApplyAdjudication, Decided
  <1>3. faults' \in Nat
    BY <1>0 DEF Decide, Fault, NoFault, TypeOK
  <1>4. UNCHANGED <<intentVars, queue, dispatcherVars, workerVars, golden, runs, starts,
                    claims, claimedAt, apiVars, runVars, outlives>>
    BY DEF Decide
  <1>5. TypeOK'
    BY <1>0, <1>3, <1>4 DEF TypeOK, intentVars, dispatcherVars, workerVars
  <1>6. LedgerInv'
    BY <1>0, <1>4 DEF LedgerInv, NumberTaken, intentVars, workerVars
  <1>7. status' \in [Version -> Decided \cup {"absent", "pending", "evaluating"}]
    BY <1>0, <1>1, <1>2 DEF Decide, SetStatus, TablesTyped
  <1>8. EvaluationTypeOK'
    BY <1>0, <1>4, <1>7 DEF TablesTyped, RunsTyped, RunStages, TailStages,
      EvaluationTypeOK, apiVars, runVars, workerVars
  <1>9. CapturedKnown'
    BY <1>0, <1>4 DEF CapturedKnown, runVars
  <1> QED BY <1>5, <1>6, <1>8, <1>9 DEF EvaluationInv

\* What a step of the evaluations does to the runs alone.
LEMMA RunsGrow ==
  ASSUME [EvaluationNext]_allVars
  PROVE  runs \subseteq runs'
  <1>1. ASSUME NEW w \in Worker, EvaluateStep(w) PROVE runs \subseteq runs'
    BY <1>1, EvaluateStepRecords DEF SettleInfra, SettleScored, RecordRun
  <1> QED BY <1>1, StepRecords

\* The three kinds of step: of an evaluation, of a request that writes nothing
\* but itself, and a decision.
LEMMA GateSteps ==
  ASSUME [AdjudicationNext]_gateVars
  PROVE  \/ [EvaluationNext]_allVars /\ RecordLineage /\ UNCHANGED <<requests, records>>
         \/ UNCHANGED <<allVars, reviewVars>>
         \/ /\ UNCHANGED <<allVars, lineage, records>>
            /\ \/ \E p \in Reviewer, r \in runs, decision \in Decisions :
                    Review(p, r, decision)
               \/ \E q \in requests : DecisionRefused(q)
         \/ \E q \in requests : Decide(q)
  BY DEF AdjudicationNext, gateVars, Review, DecisionRefused

\* Requests and records are about runs, which are never taken away.
LEMMA StepAdjudicationType ==
  ASSUME EvaluationInv, AdjudicationTypeOK, [AdjudicationNext]_gateVars
  PROVE  EvaluationInv' /\ AdjudicationTypeOK'
  <1>1. ASSUME UNCHANGED allVars PROVE EvaluationInv'
    BY <1>1, StepEvaluationInv
  <1>2. ASSUME EvaluationInv', runs \subseteq runs', lineage' \subseteq runs',
               \A q \in requests' : q \in requests \/
                 q \in [reviewer : Reviewer, run : runs, decision : Decisions, asOf : Nat],
               \A p, q \in requests' : p.reviewer = q.reviewer => p = q,
               \A a \in records' : a \in records \/ a \in AdjudicationRecord
        PROVE  EvaluationInv' /\ AdjudicationTypeOK'
    BY <1>2 DEF AdjudicationTypeOK, AdjudicationRecord, EvaluationInv
  <1>3. CASE [EvaluationNext]_allVars /\ RecordLineage /\ UNCHANGED <<requests, records>>
    <2>1. runs \subseteq runs' /\ EvaluationInv'
      BY <1>3, RunsGrow, StepEvaluationInv
    <2>2. lineage' \subseteq runs'
      BY <1>3, <2>1 DEF RecordLineage, AdjudicationTypeOK
    <2> QED BY <1>2, <1>3, <2>1, <2>2 DEF AdjudicationTypeOK
  <1>4. CASE UNCHANGED <<allVars, reviewVars>>
    BY <1>1, <1>2, <1>4 DEF AdjudicationTypeOK, reviewVars, allVars, tableVars
  <1>5. ASSUME UNCHANGED <<allVars, lineage, records>>,
               \A q \in requests' : q \in requests \/
                 q \in [reviewer : Reviewer, run : runs, decision : Decisions, asOf : Nat],
               \A p, q \in requests' : p.reviewer = q.reviewer => p = q
        PROVE  EvaluationInv' /\ AdjudicationTypeOK'
    BY <1>1, <1>2, <1>5 DEF AdjudicationTypeOK, allVars, tableVars
  <1>6. ASSUME NEW p \in Reviewer, NEW r \in runs, NEW decision \in Decisions,
               Review(p, r, decision)
        PROVE  EvaluationInv' /\ AdjudicationTypeOK'
    <2>1. starts[CaseOf(r)] \in Nat
      <3>1. r.intent \in Intent /\ starts \in [Version -> Nat]
        BY DEF EvaluationInv, EvaluationTypeOK
      <3> QED BY <3>1, KeysOfVersion DEF CaseOf
    <2>2. \A q \in requests' : q \in requests \/
            q \in [reviewer : Reviewer, run : runs, decision : Decisions, asOf : Nat]
      BY <1>6, <2>1 DEF Review
    <2>3. \A q, s \in requests' : q.reviewer = s.reviewer => q = s
      BY <1>6 DEF Review, AdjudicationTypeOK
    <2> QED BY <1>5, <1>6, <2>2, <2>3 DEF Review
  <1>7. ASSUME NEW q \in requests, DecisionRefused(q)
        PROVE  EvaluationInv' /\ AdjudicationTypeOK'
    BY <1>5, <1>7 DEF DecisionRefused, AdjudicationTypeOK
  <1>8. ASSUME NEW q \in requests, Decide(q)
        PROVE  EvaluationInv' /\ AdjudicationTypeOK'
    <2>1. EvaluationInv' /\ UNCHANGED <<runs, lineage>> /\ requests' = requests \ {q}
      BY <1>8, DecisionKeepsEvaluation DEF Decide
    <2>2. \A a \in records' : a \in records \/ a \in AdjudicationRecord
      BY <1>8 DEF Decide, AdjudicationTypeOK, AdjudicationRecord
    <2> QED BY <1>2, <2>1, <2>2 DEF AdjudicationTypeOK
  <1> QED BY <1>3, <1>4, <1>6, <1>7, <1>8, GateSteps

\* Nothing is asked or recorded of no runs.
LEMMA InitAdjudication ==
  AdjudicationInit => EvaluationInv /\ AdjudicationTypeOK
  BY InitEvaluation DEF AdjudicationInit, AdjudicationTypeOK, AdjudicationRecord,
    EvaluationInv

\* Requests and records are about runs there are, a reviewer has one request at a
\* time, and decisions disturb no type of the evaluations.
THEOREM AdjudicationTypeCorrect == AdjudicationSpec => []AdjudicationTypeOK
  <1>1. /\ EvaluationInv /\ AdjudicationTypeOK /\ [AdjudicationNext]_gateVars
        => EvaluationInv' /\ AdjudicationTypeOK'
    BY StepAdjudicationType
  <1> QED BY <1>1, InitAdjudication, PTL DEF AdjudicationSpec

-----------------------------------------------------------------------------
(* One decision per run                                                      *)

\* No environment, no order of reviewers and no evaluation in between makes two
\* decisions on one run.
THEOREM DecidedOnce == AdjudicationSpec => []OneDecisionPerRun
  <1>1. AdjudicationInit => OneDecisionPerRun
    BY DEF AdjudicationInit, OneDecisionPerRun
  <1>2. OneDecisionPerRun /\ [AdjudicationNext]_gateVars => OneDecisionPerRun'
    <2> SUFFICES ASSUME OneDecisionPerRun, [AdjudicationNext]_gateVars
                 PROVE  OneDecisionPerRun'
      OBVIOUS
    <2>1. ASSUME NEW q \in requests, Decide(q) PROVE OneDecisionPerRun'
      BY <2>1 DEF Decide, Recorded, OneDecisionPerRun
    <2>2. ASSUME UNCHANGED records PROVE OneDecisionPerRun'
      BY <2>2 DEF OneDecisionPerRun
    <2> QED BY <2>1, <2>2, GateSteps DEF reviewVars
  <1> QED BY <1>1, <1>2, PTL DEF AdjudicationSpec

-----------------------------------------------------------------------------
(* What an evaluation does to the runs and the status of a version           *)

\* the row a worker's commit adds
NewRun(w, o) ==
  [intent |-> job[w], golden |-> captured[w], started |-> began[w], outcome |-> o]

\* a run of v begins, and nothing else of the versions changes
Begins(w, v) ==
  /\ OnVersion(w, v) /\ stage'[w] = "running"
  /\ began'[w] = starts[v] + 1 /\ starts' = [starts EXCEPT ![v] = @ + 1]
  /\ status[v] # "evaluating" /\ status' = [status EXCEPT ![v] = "evaluating"]
  /\ UNCHANGED runs

\* a run of v is committed
Commits(w, v, o) ==
  /\ Running(w, v) /\ stage'[w] = "recheck"
  /\ runs' = runs \cup {NewRun(w, o)} /\ UNCHANGED starts
  /\ status[v] = "evaluating"
  /\ status' = [status EXCEPT ![v] = IF o = "infra" THEN "pending" ELSE StatusForVerdict[o]]

\* neither: no version becomes judged or ceases to be
KeepsJudgements ==
  /\ UNCHANGED <<runs, starts>>
  /\ \A v \in Version : status'[v] = status[v] \/
       (status[v] \notin Decided /\ status'[v] \notin Decided)

\* With one evaluation of a version at a time, these are all the steps there are.
LEMMA EvaluationShape ==
  ASSUME SoloEnvironment, VersionInv, [EvaluationNext]_allVars
  PROVE  \/ KeepsJudgements
         \/ \E w \in Worker, v \in Version : Begins(w, v)
         \/ \E w \in Worker, v \in Version, o \in Outcome : Commits(w, v, o)
  <1> DEFINE Goal == \/ KeepsJudgements
                     \/ \E w \in Worker, v \in Version : Begins(w, v)
                     \/ \E w \in Worker, v \in Version, o \in Outcome : Commits(w, v, o)
  <1>0. /\ EvaluationInv /\ TypeOK /\ EvaluationTypeOK /\ RunsTyped /\ TablesTyped /\ MutexInv
        /\ OwnershipInv
    BY TypeParts DEF VersionInv, EvaluationInv
  <1>1. ASSUME NEW w \in Worker, stage[w] # "none"
        PROVE  VersionOf(job[w]) \in Version /\ OnVersion(w, VersionOf(job[w]))
    <2>1. job[w] \in Intent /\ VersionOf(job[w]) \in Version
      BY <1>0, <1>1, WorkerHasVersion
    <2> QED BY <2>1, ConstantsAssumption DEF OnVersion
  <1>2. ASSUME NEW w \in Worker, Start(w) PROVE Goal
    <2> DEFINE v == VersionOf(job[w])
    <2>1. v \in Version /\ OnVersion(w, v)
      BY <1>1, <1>2 DEF Start
    <2>2. status[v] # "evaluating"
      BY <1>2 DEF Start, Fault, SoloEnvironment
    <2>3. Begins(w, v)
      BY <1>0, <1>2, <2>1, <2>2 DEF Begins, Start, SetStatus, RunsTyped, VersionOf
    <2> QED BY <2>1, <2>3
  <1>3. ASSUME NEW w \in Worker, NEW o \in Outcome, stage[w] = "running",
               At(w, "running", "recheck"), RecordRun(w, o), UNCHANGED starts,
               SetStatus(VersionOf(job[w]),
                         IF o = "infra" THEN "pending" ELSE StatusForVerdict[o])
        PROVE  Goal
    <2> DEFINE v == VersionOf(job[w])
    <2>1. v \in Version /\ OnVersion(w, v)
      BY <1>1, <1>3
    <2>2. status[v] = "evaluating"
      BY <1>0, <1>3 DEF MutexInv, BusyHoldsMutex, Busy
    <2>3. stage'[w] = "recheck"
      BY <1>0, <1>3 DEF At, RunsTyped
    <2>4. Commits(w, v, o)
      BY <1>3, <2>1, <2>2, <2>3 DEF Commits, Running, RecordRun, NewRun, SetStatus
    <2> QED BY <2>1, <2>4
  <1>4. ASSUME NEW w \in Worker, SettleInfra(w) PROVE Goal
    BY <1>3, <1>4 DEF SettleInfra, At, Outcome
  <1>5. ASSUME NEW w \in Worker, NEW verdict \in Verdicts, SettleScored(w, verdict)
        PROVE  Goal
    <2>1. verdict # "infra" /\ verdict \in Outcome
      BY EvaluationAssumption DEF Outcome
    <2> QED BY <1>3, <1>5, <2>1 DEF SettleScored, At
  <1>6. CASE \E w \in Worker :
               Start(w) \/ SettleInfra(w) \/ \E verdict \in Verdicts : SettleScored(w, verdict)
    BY <1>2, <1>4, <1>5, <1>6
  <1>7. CASE ~(\E w \in Worker : \/ Start(w) \/ SettleInfra(w)
                                 \/ \E verdict \in Verdicts : SettleScored(w, verdict))
    <2>1. UNCHANGED <<runs, starts>>
      BY <1>7, StepRecords, EvaluateStepRecords
    <2>2. ASSUME NEW v \in Version, NEW u \in Version, Submit(u)
          PROVE  status'[v] = status[v] \/ (status[v] \notin Decided /\ status'[v] \notin Decided)
      BY <1>0, <2>2 DEF Submit, SetStatus, TablesTyped, Decided
    <2>3. ASSUME NEW v \in Version, ReclaimLeases
          PROVE  status'[v] = status[v] \/ (status[v] \notin Decided /\ status'[v] \notin Decided)
      BY <2>3 DEF ReclaimLeases, Freed, Decided
    <2>4. ASSUME NEW v \in Version, NEW w \in Worker, VersionOf(job[w]) \in Version,
                 ResetToPending(w)
          PROVE  status'[v] = status[v] \/ (status[v] \notin Decided /\ status'[v] \notin Decided)
      BY <1>0, <2>4 DEF ResetToPending, SetStatus, TablesTyped, Decided
    <2>5. KeepsJudgements
      BY <1>0, <1>7, <2>1, <2>2, <2>3, <2>4, StatusWriters, NothingLate
        DEF KeepsJudgements, ReclaimLeasesCommits
    <2> QED BY <2>5
  <1> QED BY <1>6, <1>7

-----------------------------------------------------------------------------
(* The newest run of a version                                               *)

\* a run in progress began after every run recorded, none after it
RunnerIsNewest ==
  \A w \in Worker, v \in Version : Running(w, v) =>
    began[w] = starts[v] /\ \A r \in RunsOn(v) : r.started < began[w]

\* runs have begun at different times, not after now
RunsDistinct ==
  \A v \in Version :
    /\ \A r \in RunsOn(v) : r.started <= starts[v]
    /\ \A r, s \in RunsOn(v) : r.started = s.started => r = s

\* so one of them is the latest
LatestExists ==
  \A v \in Version : RunsOn(v) # {} => \E r \in RunsOn(v) : IsLatestRun(r)

NewestInv == RunnerIsNewest /\ RunsDistinct /\ LatestExists

\* The numbers and the version of a run, for the arithmetic of what is newest.
LEMMA RunNumbers ==
  ASSUME EvaluationInv
  PROVE  /\ \A v \in Version : starts[v] \in Nat
         /\ \A v \in Version : \A r \in RunsOn(v) :
              r.started \in Nat /\ r.intent \in Intent /\ VersionOf(r.intent) = v
         /\ \A w \in Worker : began[w] \in Nat
  BY DEF EvaluationInv, EvaluationTypeOK, RunsOn

\* A commit adds the newest run of its version, a run that was not there.
LEMMA CommitIsNewest ==
  ASSUME EvaluationInv, NewestInv, NEW w \in Worker, NEW v \in Version,
         NEW o \in Outcome, Commits(w, v, o), NEW n, n = NewRun(w, o)
  PROVE  /\ RunsOn(v)' = RunsOn(v) \cup {n}
         /\ \A u \in Version : u # v => RunsOn(u)' = RunsOn(u)
         /\ n \notin runs /\ n \in runs' /\ VersionOf(n.intent) = v /\ n.outcome = o
         /\ IsLatestRun(n)'
         /\ n.started = starts[v] /\ \A r \in RunsOn(v) : r.started < n.started
  <1>1. VersionOf(n.intent) = v /\ n.started = began[w] /\ runs' = runs \cup {n}
        /\ n.outcome = o /\ n.started = starts[v]
    BY DEF Commits, Running, OnVersion, NewRun, VersionOf, NewestInv, RunnerIsNewest
  <1>2. \A r \in RunsOn(v) : r.started < began[w]
    BY DEF Commits, NewestInv, RunnerIsNewest
  <1>3. began[w] \in Nat /\ \A r \in RunsOn(v) : r.started \in Nat
    BY RunNumbers
  <1>4. n \notin runs
    BY <1>1, <1>2, <1>3 DEF RunsOn
  <1>5. RunsOn(v)' = RunsOn(v) \cup {n}
    BY <1>1 DEF RunsOn, VersionOf
  <1>6. \A u \in Version : u # v => RunsOn(u)' = RunsOn(u)
    BY <1>1 DEF RunsOn, VersionOf
  <1>7. \A s \in RunsOn(v)' : s.started <= n.started
    BY <1>1, <1>2, <1>3, <1>5
  <1>8. IsLatestRun(n)'
    BY <1>1, <1>7 DEF IsLatestRun, RunsOn, VersionOf
  <1> QED BY <1>1, <1>2, <1>4, <1>5, <1>6, <1>8

\* Unless a commit adds one, the runs of a version and the latest of them stay.
LEMMA RunsUntouched ==
  ASSUME UNCHANGED runs
  PROVE  /\ \A v \in Version : RunsOn(v)' = RunsOn(v)
         /\ \A r : IsLatestRun(r)' <=> IsLatestRun(r)
  BY DEF RunsOn, IsLatestRun, VersionOf

\* A start counts its version on, so that a commit adds the newest run.
LEMMA StepNewest ==
  ASSUME SoloEnvironment, VersionInv, NewestInv, [EvaluationNext]_allVars
  PROVE  NewestInv'
  <1>0. EvaluationInv /\ TypeOK /\ MutexInv /\ TablesTyped
    BY TypeParts DEF VersionInv, EvaluationInv
  <1>1. \A v \in Version : starts[v] \in Nat
    BY <1>0, RunNumbers
  <1>2. ASSUME NEW w \in Worker, NEW v \in Version, Running(w, v)'
        PROVE  \/ Begins(w, v)
               \/ Running(w, v) /\ began'[w] = began[w] /\ starts'[v] = starts[v]
                  /\ RunsOn(v)' = RunsOn(v)
    <2>1. stage'[w] = "running" /\ VersionOf(job'[w]) = v
      BY <1>2 DEF Running, OnVersion, VersionOf
    <2>2. /\ job'[w] = job[w] /\ job[w] \in Intent
          /\ Start(w) \/ (stage[w] = "running" /\ began'[w] = began[w])
      BY <1>0, <2>1, RunFrom
    <2>3. OnVersion(w, v)
      BY <2>1, <2>2, ConstantsAssumption DEF OnVersion
    <2>4. CASE Start(w)
      <3>1. status[v] # "evaluating"
        BY <2>3, <2>4, StartFindsFree DEF OnVersion
      <3>2. Begins(w, v)
        <4>1. RunsTyped
          BY <1>0, TypeParts DEF EvaluationInv
        <4>2. VersionOf(job[w]) = v
          BY <2>3 DEF OnVersion
        <4>3. /\ status' = [status EXCEPT ![v] = "evaluating"]
              /\ starts' = [starts EXCEPT ![v] = @ + 1]
              /\ UNCHANGED runs /\ stage' = [stage EXCEPT ![w] = "running"]
              /\ began' = [began EXCEPT ![w] = starts[v] + 1]
          BY <2>4, <4>2 DEF Start, SetStatus
        <4> QED BY <2>3, <3>1, <4>1, <4>3 DEF Begins, RunsTyped
      <3> QED BY <3>2
    <2>5. CASE stage[w] = "running" /\ began'[w] = began[w]
      <3>1. Running(w, v) /\ Busy(w) /\ status[v] = "evaluating"
        BY <1>0, <2>3, <2>5 DEF Running, OnVersion, Busy, MutexInv, BusyHoldsMutex
      <3>2. ASSUME NEW u \in Worker, NEW x \in Version, Begins(u, x)
            PROVE  starts'[v] = starts[v] /\ RunsOn(v)' = RunsOn(v)
        <4>1. x # v
          BY <3>1, <3>2 DEF Begins
        <4>2. starts'[v] = starts[v] /\ UNCHANGED runs
          BY <1>0, <3>2, <4>1 DEF Begins, TablesTyped
        <4> QED BY <4>2, RunsUntouched
      <3>3. ASSUME NEW u \in Worker, NEW x \in Version, NEW o \in Outcome, Commits(u, x, o)
            PROVE  starts'[v] = starts[v] /\ RunsOn(v)' = RunsOn(v)
        <4>1. x # v
          BY <1>0, <2>1, <3>1, <3>3
            DEF Commits, Running, OnVersion, Busy, MutexInv, BusyAlone
        <4> QED BY <1>0, <3>3, <4>1, CommitIsNewest DEF Commits
      <3>4. ASSUME KeepsJudgements
            PROVE  starts'[v] = starts[v] /\ RunsOn(v)' = RunsOn(v)
        BY <3>4, RunsUntouched DEF KeepsJudgements
      <3>5. starts'[v] = starts[v] /\ RunsOn(v)' = RunsOn(v)
        BY <3>2, <3>3, <3>4, EvaluationShape
      <3> QED BY <2>5, <3>1, <3>5
    <2> QED BY <2>2, <2>4, <2>5
  <1>3. RunnerIsNewest'
    <2> SUFFICES ASSUME NEW w \in Worker, NEW v \in Version, Running(w, v)'
                 PROVE  began'[w] = starts'[v] /\ \A r \in RunsOn(v)' : r.started < began'[w]
      BY DEF RunnerIsNewest
    <2>1. CASE Begins(w, v)
      <3>1. starts'[v] = starts[v] + 1 /\ began'[w] = starts[v] + 1
        BY <1>0, <2>1 DEF Begins, TablesTyped
      <3>2. RunsOn(v)' = RunsOn(v)
        BY <2>1, RunsUntouched DEF Begins
      <3>3. \A r \in RunsOn(v) : r.started <= starts[v] /\ r.started \in Nat
        BY <1>0, RunNumbers DEF NewestInv, RunsDistinct
      <3> QED BY <1>1, <3>1, <3>2, <3>3
    <2>2. CASE Running(w, v) /\ began'[w] = began[w] /\ starts'[v] = starts[v]
               /\ RunsOn(v)' = RunsOn(v)
      BY <2>2 DEF NewestInv, RunnerIsNewest
    <2> QED BY <1>2, <2>1, <2>2
  <1>4. ASSUME NEW w \in Worker, NEW v \in Version, NEW o \in Outcome, Commits(w, v, o)
        PROVE  RunsDistinct' /\ LatestExists'
    <2>1. PICK n : n = NewRun(w, o)
      OBVIOUS
    <2>2. /\ RunsOn(v)' = RunsOn(v) \cup {n}
          /\ \A u \in Version : u # v => RunsOn(u)' = RunsOn(u)
          /\ IsLatestRun(n)'
          /\ n.started = starts[v] /\ \A r \in RunsOn(v) : r.started < n.started
      BY <1>0, <1>4, <2>1, CommitIsNewest
    <2>3. UNCHANGED starts
      BY <1>4 DEF Commits
    <2>4. \A u \in Version : \A r \in RunsOn(u) :
            r.started \in Nat /\ VersionOf(r.intent) = u
      BY <1>0, RunNumbers
    <2>5. RunsDistinct'
      BY <1>1, <2>2, <2>3, <2>4 DEF NewestInv, RunsDistinct
    <2>6. ASSUME NEW u \in Version, u # v, RunsOn(u)' # {}
          PROVE  \E r \in RunsOn(u)' : IsLatestRun(r)'
      <3>1. PICK r \in RunsOn(u) : IsLatestRun(r)
        BY <2>2, <2>6 DEF NewestInv, LatestExists
      <3>2. IsLatestRun(r)'
        <4>1. \A s \in RunsOn(u) : s.started <= r.started
          BY <2>4, <3>1 DEF IsLatestRun
        <4>2. \A s \in RunsOn(u)' : s.started <= r.started
          BY <2>2, <2>6, <4>1
        <4>3. VersionOf(r.intent) = u
          BY <2>4
        <4> QED BY <4>2, <4>3 DEF IsLatestRun, VersionOf
      <3> QED BY <2>2, <2>6, <3>1, <3>2
    <2>7. LatestExists'
      BY <2>2, <2>6 DEF LatestExists
    <2> QED BY <2>5, <2>7
  <1>5. ASSUME UNCHANGED runs, \A v \in Version : starts[v] <= starts'[v] /\ starts'[v] \in Nat
        PROVE  RunsDistinct' /\ LatestExists'
    <2>1. /\ \A v \in Version : RunsOn(v)' = RunsOn(v)
          /\ \A r : IsLatestRun(r)' <=> IsLatestRun(r)
      BY <1>5, RunsUntouched
    <2>2. \A v \in Version : \A r \in RunsOn(v) : r.started \in Nat
      BY <1>0, RunNumbers
    <2>3. RunsDistinct'
      BY <1>1, <1>5, <2>1, <2>2 DEF NewestInv, RunsDistinct
    <2>4. LatestExists'
      BY <2>1 DEF NewestInv, LatestExists
    <2> QED BY <2>3, <2>4
  <1>6. ASSUME NEW w \in Worker, NEW v \in Version, Begins(w, v)
        PROVE  \A u \in Version : starts[u] <= starts'[u] /\ starts'[u] \in Nat
    BY <1>0, <1>1, <1>6 DEF Begins, TablesTyped
  <1>7. RunsDistinct' /\ LatestExists'
    BY <1>1, <1>4, <1>5, <1>6, EvaluationShape DEF Begins, KeepsJudgements
  <1> QED BY <1>3, <1>7 DEF NewestInv

-----------------------------------------------------------------------------
(* What a reviewer has read                                                  *)

\* A request holds what its checks found as long as no evaluation of the case
\* has begun since: the latest run, flagged, and the version waiting for this
\* decision or already decided by another on the same run.
RequestsStand ==
  \A q \in requests :
    /\ q.asOf <= starts[CaseOf(q.run)]
    /\ ~Late(q) =>
         /\ IsLatestRun(q.run) /\ MayDecide(q.run, q.decision)
         /\ q.run.outcome = "pending_adjudication"
         /\ \/ status[CaseOf(q.run)] = "pending_adjudication"
            \/ Recorded(q.run) /\ status[CaseOf(q.run)] \in {"approved", "rejected"}

\* in this environment no decision is written after such a beginning
PromptEnvironment == SoloEnvironment /\ "late_decision" \notin FaultKinds

GateInv ==
  /\ VersionInv /\ AdjudicationTypeOK
  /\ NewestInv /\ RequestsStand /\ StatusIsAccounted

\* While its clock stands still, an evaluation leaves a judged version alone.
LEMMA JudgedStands ==
  ASSUME SoloEnvironment, VersionInv, NewestInv, [EvaluationNext]_allVars,
         NEW v \in Version, status[v] \in Decided
  PROVE  \/ status'[v] = status[v] /\ starts'[v] = starts[v] /\ RunsOn(v)' = RunsOn(v)
         \/ /\ status'[v] = "evaluating" /\ starts'[v] = starts[v] + 1
            /\ RunsOn(v)' = RunsOn(v)
  <1> DEFINE Goal ==
        \/ status'[v] = status[v] /\ starts'[v] = starts[v] /\ RunsOn(v)' = RunsOn(v)
        \/ /\ status'[v] = "evaluating" /\ starts'[v] = starts[v] + 1
           /\ RunsOn(v)' = RunsOn(v)
  <1>0. EvaluationInv /\ TablesTyped
    BY TypeParts DEF VersionInv, EvaluationInv
  <1>1. ASSUME KeepsJudgements PROVE Goal
    BY <1>1, RunsUntouched DEF KeepsJudgements
  <1>2. ASSUME NEW w \in Worker, NEW u \in Version, Begins(w, u) PROVE Goal
    <2>1. RunsOn(v)' = RunsOn(v)
      BY <1>2, RunsUntouched DEF Begins
    <2>2. CASE u = v
      BY <1>0, <1>2, <2>1, <2>2 DEF Begins, TablesTyped
    <2>3. CASE u # v
      BY <1>0, <1>2, <2>1, <2>3 DEF Begins, TablesTyped
    <2> QED BY <2>2, <2>3
  <1>3. ASSUME NEW w \in Worker, NEW u \in Version, NEW o \in Outcome, Commits(w, u, o)
        PROVE  Goal
    <2>1. u # v
      BY <1>3 DEF Commits, Decided
    <2>2. RunsOn(v)' = RunsOn(v)
      BY <1>0, <1>3, <2>1, CommitIsNewest
    <2>3. status'[v] = status[v] /\ starts'[v] = starts[v]
      BY <1>0, <1>3, <2>1 DEF Commits, TablesTyped
    <2> QED BY <2>2, <2>3
  <1> HIDE DEF Goal
  <1>4. Goal
    BY <1>1, <1>2, <1>3, EvaluationShape
  <1> QED BY <1>4 DEF Goal

\* An evaluation moves the clock of the case or leaves the request its reasons.
LEMMA EvaluationKeepsRequests ==
  ASSUME SoloEnvironment, VersionInv, AdjudicationTypeOK, NewestInv, RequestsStand,
         [EvaluationNext]_allVars, RecordLineage, UNCHANGED <<requests, records>>
  PROVE  RequestsStand'
  <1> SUFFICES ASSUME NEW q \in requests
               PROVE  /\ q.asOf <= starts'[CaseOf(q.run)]
                      /\ ~Late(q)' =>
                           /\ IsLatestRun(q.run)' /\ MayDecide(q.run, q.decision)'
                           /\ q.run.outcome = "pending_adjudication"
                           /\ \/ status'[CaseOf(q.run)] = "pending_adjudication"
                              \/ /\ Recorded(q.run)'
                                 /\ status'[CaseOf(q.run)] \in {"approved", "rejected"}
    BY DEF RequestsStand, CaseOf, VersionOf
  <1> DEFINE v == CaseOf(q.run)
  <1>0. EvaluationInv /\ TablesTyped
    BY TypeParts DEF VersionInv, EvaluationInv
  <1>1. q.run \in runs /\ q.run.intent \in Intent /\ q.asOf \in Nat
    BY <1>0 DEF AdjudicationTypeOK, TablesTyped
  <1>2. v \in Version /\ v = VersionOf(q.run.intent)
    BY <1>1, KeysOfVersion DEF CaseOf
  <1>3. starts[v] \in Nat /\ q.asOf <= starts[v]
    BY <1>0, <1>2, RunNumbers DEF RequestsStand
  <1>4. starts'[v] = starts[v] \/ starts'[v] = starts[v] + 1
    BY <1>0, <1>2, EntriesFrom
  <1>5. q.asOf <= starts'[v]
    BY <1>1, <1>3, <1>4
  <1>6. ASSUME ~Late(q)'
        PROVE  /\ IsLatestRun(q.run)' /\ MayDecide(q.run, q.decision)'
               /\ q.run.outcome = "pending_adjudication"
               /\ \/ status'[v] = "pending_adjudication"
                  \/ Recorded(q.run)' /\ status'[v] \in {"approved", "rejected"}
    <2>1. starts'[v] = q.asOf
      BY <1>6 DEF Late, CaseOf, VersionOf
    <2>2. starts'[v] = starts[v] /\ ~Late(q)
      BY <1>1, <1>3, <1>4, <2>1 DEF Late
    <2>3. /\ IsLatestRun(q.run) /\ MayDecide(q.run, q.decision)
          /\ q.run.outcome = "pending_adjudication"
          /\ \/ status[v] = "pending_adjudication"
             \/ Recorded(q.run) /\ status[v] \in {"approved", "rejected"}
      BY <2>2 DEF RequestsStand
    <2>4. status'[v] = status[v] /\ RunsOn(v)' = RunsOn(v)
      BY <1>2, <1>3, <2>2, <2>3, JudgedStands DEF Decided
    <2>5. IsLatestRun(q.run)'
      BY <1>2, <2>3, <2>4 DEF IsLatestRun, VersionOf
    <2>6. MayDecide(q.run, q.decision)'
      BY <2>3 DEF MayDecide, RecordLineage
    <2>7. Recorded(q.run) => Recorded(q.run)'
      BY DEF Recorded
    <2> QED BY <2>3, <2>4, <2>5, <2>6, <2>7
  <1> QED BY <1>5, <1>6

\* A commit puts its version where its run says; otherwise a judged version and
\* its latest run stay.
LEMMA EvaluationAccounts ==
  ASSUME SoloEnvironment, VersionInv, AdjudicationTypeOK, NewestInv, StatusIsAccounted,
         [EvaluationNext]_allVars, RecordLineage, UNCHANGED <<requests, records>>
  PROVE  StatusIsAccounted'
  <1> DEFINE Accounted(v) ==
        \E r \in RunsOn(v)' :
          /\ IsLatestRun(r)' /\ r.outcome # "infra"
          /\ status'[v] \in Standing(r)'
          /\ status'[v] = "approved" => r \in lineage'
  <1> SUFFICES ASSUME NEW v \in Version, status'[v] \in Decided
               PROVE  Accounted(v)
    BY DEF StatusIsAccounted
  <1>0. EvaluationInv /\ TablesTyped
    BY TypeParts DEF VersionInv, EvaluationInv
  <1>1. \A r : Recorded(r)' = Recorded(r) /\ Standing(r)' = Standing(r)
    BY DEF Recorded, Standing
  <1>2. ASSUME status'[v] = status[v], RunsOn(v)' = RunsOn(v)
        PROVE  Accounted(v)
    <2>1. PICK r \in RunsOn(v) :
            /\ IsLatestRun(r) /\ r.outcome # "infra" /\ status[v] \in Standing(r)
            /\ status[v] = "approved" => r \in lineage
      BY <1>2 DEF StatusIsAccounted
    <2>2. VersionOf(r.intent) = v
      BY DEF RunsOn
    <2>3. IsLatestRun(r)'
      BY <1>2, <2>1, <2>2 DEF IsLatestRun, VersionOf
    <2>4. lineage \subseteq lineage'
      BY DEF RecordLineage
    <2> QED BY <1>1, <1>2, <2>1, <2>3, <2>4
  <1>3. ASSUME NEW w \in Worker, NEW o \in Outcome, Commits(w, v, o)
        PROVE  Accounted(v)
    <2>1. PICK n : n = NewRun(w, o)
      OBVIOUS
    <2>2. /\ RunsOn(v)' = RunsOn(v) \cup {n} /\ IsLatestRun(n)'
          /\ n \notin runs /\ n \in runs' /\ n.outcome = o
      BY <1>0, <1>3, <2>1, CommitIsNewest
    <2>3. status'[v] = IF o = "infra" THEN "pending" ELSE StatusForVerdict[o]
      BY <1>0, <1>3 DEF Commits, TablesTyped
    <2>4. o # "infra" /\ o \in {"pass", "fail", "pending_adjudication"}
      BY <2>3, EvaluationAssumption DEF Decided, Outcome
    <2>5. ~Recorded(n)
      BY <2>2 DEF Recorded, AdjudicationTypeOK, AdjudicationRecord
    <2>6. status'[v] \in Standing(n)
      BY <2>2, <2>3, <2>4, <2>5 DEF Standing
    <2>7. status'[v] = "approved" => o = "pass"
      BY <2>3, <2>4 DEF StatusForVerdict
    <2>8. o = "pass" => n \in lineage'
      BY <2>2 DEF RecordLineage
    <2> QED BY <1>1, <2>2, <2>4, <2>6, <2>7, <2>8
  <1>4. CASE status[v] \in Decided
    <2>1. status'[v] = status[v] /\ RunsOn(v)' = RunsOn(v)
      BY <1>4, JudgedStands DEF Decided
    <2> QED BY <1>2, <2>1
  <1>5. CASE status[v] \notin Decided
    <2>1. ~KeepsJudgements
      BY <1>5 DEF KeepsJudgements
    <2>2. ASSUME NEW w \in Worker, NEW u \in Version, Begins(w, u) PROVE FALSE
      BY <1>0, <1>5, <2>2 DEF Begins, TablesTyped, Decided
    <2>3. ASSUME NEW w \in Worker, NEW u \in Version, NEW o \in Outcome,
                 Commits(w, u, o), u # v
          PROVE  FALSE
      <3>1. status'[v] = status[v]
        BY <1>0, <2>3 DEF Commits, TablesTyped
      <3> QED BY <1>5, <3>1
    <2> HIDE DEF Accounted
    <2> QED BY <1>3, <2>1, <2>2, <2>3, EvaluationShape
  <1> QED BY <1>4, <1>5

\* A decision finds the version waiting for it, in the latest run's name.
LEMMA DecisionFinds ==
  ASSUME PromptEnvironment, GateInv, NEW q \in requests, Decide(q)
  PROVE  /\ CaseOf(q.run) \in Version /\ q.run \in RunsOn(CaseOf(q.run))
         /\ IsLatestRun(q.run) /\ MayDecide(q.run, q.decision) /\ ~Late(q)
         /\ status[CaseOf(q.run)] = "pending_adjudication"
         /\ status' = [status EXCEPT ![CaseOf(q.run)] = ApplyAdjudication(q.decision)]
         /\ UNCHANGED <<vars, runs, starts, lineage>>
  <1>1. ~Late(q)
    BY DEF Decide, PromptEnvironment, Fault
  <1>2. q.run \in runs /\ q.run.intent \in Intent
    BY DEF GateInv, AdjudicationTypeOK, EvaluationTypeOK
  <1>3. CaseOf(q.run) \in Version /\ q.run \in RunsOn(CaseOf(q.run))
    BY <1>2, KeysOfVersion DEF CaseOf, RunsOn
  <1>4. UNCHANGED <<vars, runs, starts, lineage>>
    BY <1>1 DEF Decide, NoFault, vars, intentVars, dispatcherVars, workerVars
  <1>5. /\ IsLatestRun(q.run) /\ MayDecide(q.run, q.decision)
        /\ status[CaseOf(q.run)] = "pending_adjudication"
    BY <1>1 DEF GateInv, RequestsStand, Decide
  <1> QED BY <1>1, <1>3, <1>4, <1>5 DEF Decide, SetStatus

\* Nobody runs an evaluation of a version that waits for a decision, so the
\* decision disturbs no run.
LEMMA DecisionKeepsVersions ==
  ASSUME PromptEnvironment, GateInv, NEW q \in requests, Decide(q)
  PROVE  VersionInv' /\ NewestInv'
  <1> DEFINE v == CaseOf(q.run)
  <1>0. EvaluationInv /\ OwnershipInv /\ MutexInv /\ TypeOK /\ LedgerInv /\ TablesTyped
    BY TypeParts DEF GateInv, VersionInv, EvaluationInv
  <1>1. /\ v \in Version /\ status[v] = "pending_adjudication"
        /\ status' = [status EXCEPT ![v] = ApplyAdjudication(q.decision)]
        /\ UNCHANGED <<vars, runs, starts, lineage>>
    BY DecisionFinds
  <1>2. UNCHANGED <<golden, claims, claimedAt, apiVars, runVars, outlives>>
    BY DEF Decide
  <1>3. EvaluationInv'
    BY <1>0, DecisionKeepsEvaluation DEF GateInv
  <1>4. OwnershipInv'
    BY <1>0, <1>1, StepOwnership DEF PromptEnvironment, SoloEnvironment
  <1>5. ApplyAdjudication(q.decision) \in {"approved", "rejected"}
    BY DEF ApplyAdjudication
  <1>6. \A u \in Version : status'[u] = status[u] \/ u = v
    BY <1>0, <1>1 DEF TablesTyped
  <1>7. BusyHoldsMutex'
    <2> SUFFICES ASSUME NEW w \in Worker, Busy(w)'
                 PROVE  status'[VersionOf(job'[w])] = "evaluating"
      BY DEF BusyHoldsMutex, VersionOf
    <2>1. Busy(w) /\ job'[w] = job[w]
      BY <1>1, <1>2 DEF Busy, vars, workerVars, runVars
    <2>2. status[VersionOf(job[w])] = "evaluating"
      BY <1>0, <2>1 DEF MutexInv, BusyHoldsMutex
    <2>3. stage[w] # "none"
      BY <2>1 DEF Busy
    <2>4. VersionOf(job[w]) \in Version
      BY <1>0, <2>3, WorkerHasVersion DEF EvaluationInv
    <2> QED BY <1>1, <1>6, <2>1, <2>2, <2>4
  <1>8. BusyAlone' /\ ResetNotOvertaken'
    BY <1>0, <1>1, <1>2 DEF MutexInv, BusyAlone, ResetNotOvertaken, Busy, VersionOf, vars,
      intentVars, workerVars, runVars
  <1>9. KnownVersions'
    <2>1. \A u : status[u] # "absent" /\ u \in Version => status'[u] # "absent"
      BY <1>0, <1>1, <1>5 DEF TablesTyped
    <2>2. \A i \in Intent : VersionOf(i) \in Version
      BY KeysOfVersion
    <2>3. \A c \in claims : c[1] \in Version
      BY <1>0 DEF TablesTyped
    <2>4. toEnqueue \subseteq Version
      BY <1>0 DEF TablesTyped
    <2>5. UNCHANGED <<state, claims, toEnqueue, minting>>
      BY <1>1, <1>2 DEF vars, intentVars, apiVars
    <2>6. /\ \A i \in Intent : state[i] # "absent" => status[VersionOf(i)] # "absent"
          /\ \A u \in toEnqueue : status[u] # "absent"
          /\ \A u \in Version : minting[u] > 0 => status[u] # "absent"
          /\ \A c \in claims : status[c[1]] # "absent"
      BY <1>0 DEF MutexInv, KnownVersions
    <2> QED BY <2>1, <2>2, <2>3, <2>4, <2>5, <2>6 DEF KnownVersions, VersionOf
  <1>10. NewestInv'
    <2>1. UNCHANGED <<runs, starts, stage, job, began>>
      BY <1>1, <1>2 DEF vars, workerVars, runVars
    <2> QED BY <2>1 DEF GateInv, NewestInv, RunnerIsNewest, RunsDistinct, LatestExists,
          RunsOn, IsLatestRun, Running, OnVersion, VersionOf
  <1> QED BY <1>3, <1>4, <1>7, <1>8, <1>9, <1>10 DEF VersionInv, MutexInv

\* The decided run is the latest, so the decision accounts for the status, and
\* any other request on the case is about the same run, which is now recorded.
LEMMA DecisionAccounts ==
  ASSUME PromptEnvironment, GateInv, NEW q \in requests, Decide(q)
  PROVE  RequestsStand' /\ StatusIsAccounted'
  <1> DEFINE v == CaseOf(q.run)
  <1>0. EvaluationInv /\ TablesTyped /\ NewestInv
    BY TypeParts DEF GateInv, VersionInv, EvaluationInv
  <1>1. /\ v \in Version /\ q.run \in RunsOn(v) /\ IsLatestRun(q.run)
        /\ MayDecide(q.run, q.decision) /\ status[v] = "pending_adjudication"
        /\ status' = [status EXCEPT ![v] = ApplyAdjudication(q.decision)]
        /\ UNCHANGED <<runs, starts, lineage>>
    BY DecisionFinds
  <1>2. /\ records' = records \cup {[run |-> q.run, decision |-> q.decision]}
        /\ requests' \subseteq requests
    BY DEF Decide
  <1>3. /\ \A u \in Version : RunsOn(u)' = RunsOn(u)
        /\ \A r : IsLatestRun(r)' <=> IsLatestRun(r)
    BY <1>1, RunsUntouched
  <1>4. /\ status'[v] = ApplyAdjudication(q.decision)
        /\ \A u \in Version : u # v => status'[u] = status[u]
    BY <1>0, <1>1 DEF TablesTyped
  <1>5. status'[v] \in {"approved", "rejected"}
    BY <1>4 DEF ApplyAdjudication
  <1>6. Recorded(q.run)' /\ \A r : Recorded(r) => Recorded(r)'
    <2> DEFINE a == [run |-> q.run, decision |-> q.decision]
    <2>1. a \in records' /\ a.run = q.run
      BY <1>2
    <2>2. \A r : Recorded(r) => Recorded(r)'
      BY <1>2 DEF Recorded
    <2> QED BY <2>1, <2>2 DEF Recorded
  <1>7. RequestsStand'
    <2> SUFFICES ASSUME NEW p \in requests
                 PROVE  /\ p.asOf <= starts'[CaseOf(p.run)]
                        /\ ~Late(p)' =>
                             /\ IsLatestRun(p.run)' /\ MayDecide(p.run, p.decision)'
                             /\ p.run.outcome = "pending_adjudication"
                             /\ \/ status'[CaseOf(p.run)] = "pending_adjudication"
                                \/ /\ Recorded(p.run)'
                                   /\ status'[CaseOf(p.run)] \in {"approved", "rejected"}
      BY <1>2 DEF RequestsStand, CaseOf, VersionOf
    <2>1. p.run \in runs /\ p.run.intent \in Intent
      BY <1>0 DEF GateInv, AdjudicationTypeOK, TablesTyped
    <2>2. CaseOf(p.run) \in Version /\ p.run \in RunsOn(CaseOf(p.run))
      BY <2>1, KeysOfVersion DEF CaseOf, RunsOn
    <2>3. p.asOf <= starts'[CaseOf(p.run)]
      BY <1>1 DEF GateInv, RequestsStand
    <2>4. Late(p)' = Late(p)
      BY <1>1 DEF Late, CaseOf, VersionOf
    <2>5. ASSUME ~Late(p)
          PROVE  /\ IsLatestRun(p.run)' /\ MayDecide(p.run, p.decision)'
                 /\ p.run.outcome = "pending_adjudication"
                 /\ \/ status'[CaseOf(p.run)] = "pending_adjudication"
                    \/ /\ Recorded(p.run)'
                       /\ status'[CaseOf(p.run)] \in {"approved", "rejected"}
      <3>1. /\ IsLatestRun(p.run) /\ MayDecide(p.run, p.decision)
            /\ p.run.outcome = "pending_adjudication"
            /\ \/ status[CaseOf(p.run)] = "pending_adjudication"
               \/ Recorded(p.run) /\ status[CaseOf(p.run)] \in {"approved", "rejected"}
        BY <2>5 DEF GateInv, RequestsStand
      <3>2. MayDecide(p.run, p.decision)'
        BY <1>1, <3>1 DEF MayDecide
      <3>3. CASE CaseOf(p.run) = v
        <4>1. p.run.started <= q.run.started /\ q.run.started <= p.run.started
          BY <1>1, <2>2, <3>1, <3>3 DEF IsLatestRun, CaseOf, RunsOn
        <4>2. p.run.started \in Nat /\ q.run.started \in Nat
          BY <1>0, <1>1, <2>2, RunNumbers
        <4>3. p.run.started = q.run.started
          BY <4>1, <4>2
        <4>4. p.run = q.run
          BY <1>0, <1>1, <2>2, <3>3, <4>3 DEF NewestInv, RunsDistinct
        <4> QED BY <1>3, <1>5, <1>6, <3>1, <3>2, <3>3, <4>4
      <3>4. CASE CaseOf(p.run) # v
        <4>1. status'[CaseOf(p.run)] = status[CaseOf(p.run)]
          BY <1>4, <2>2, <3>4
        <4> QED BY <1>3, <1>6, <3>1, <3>2, <4>1
      <3> QED BY <3>3, <3>4
    <2> QED BY <2>3, <2>4, <2>5
  <1>8. ASSUME NEW u \in Version, status'[u] \in Decided
        PROVE  \E r \in RunsOn(u)' :
                 /\ IsLatestRun(r)' /\ r.outcome # "infra"
                 /\ status'[u] \in Standing(r)'
                 /\ status'[u] = "approved" => r \in lineage'
    <2>1. CASE u = v
      <3>1. q.run.outcome = "pending_adjudication"
        BY DecisionFinds DEF GateInv, RequestsStand
      <3>2. status'[v] \in Standing(q.run)'
        <4> DEFINE a == [run |-> q.run, decision |-> q.decision]
        <4>1. a \in records' /\ a.run = q.run /\ a.decision = q.decision
          BY <1>2
        <4>2. a \in {b \in records' : b.run = q.run}
          BY <4>1
        <4>3. ApplyAdjudication(q.decision) = ApplyAdjudication(a.decision)
          BY <4>1
        <4>4. ApplyAdjudication(q.decision) \in
                {ApplyAdjudication(b.decision) : b \in {c \in records' : c.run = q.run}}
          BY <4>2, <4>3
        <4> QED BY <1>4, <1>6, <4>4 DEF Standing
      <3>3. status'[v] = "approved" => q.run \in lineage'
        BY <1>1, <1>4 DEF ApplyAdjudication, MayDecide
      <3> QED BY <1>1, <1>3, <2>1, <3>1, <3>2, <3>3
    <2>2. CASE u # v
      <3>1. status'[u] = status[u]
        BY <1>4, <2>2
      <3>2. PICK r \in RunsOn(u) :
              /\ IsLatestRun(r) /\ r.outcome # "infra" /\ status[u] \in Standing(r)
              /\ status[u] = "approved" => r \in lineage
        BY <1>8, <3>1 DEF GateInv, StatusIsAccounted
      <3>3. r # q.run
        BY <1>1, <2>2 DEF RunsOn
      <3>4. Recorded(r)' = Recorded(r)
        BY <1>2, <3>3 DEF Recorded
      <3>5. {b \in records' : b.run = r} = {b \in records : b.run = r}
        BY <1>2, <3>3
      <3>6. Standing(r)' = Standing(r)
        BY <3>4, <3>5 DEF Standing
      <3> QED BY <1>1, <1>3, <3>1, <3>2, <3>6
    <2> QED BY <2>1, <2>2
  <1>9. StatusIsAccounted'
    BY <1>8 DEF StatusIsAccounted
  <1> QED BY <1>7, <1>9

\* A request that writes nothing but itself changes no version, and a new one
\* has just made its checks.
LEMMA RequestAccounts ==
  ASSUME GateInv, UNCHANGED <<allVars, lineage, records>>,
         \A q \in requests' : q \in requests \/ (Reviewable(q.run) /\
           MayDecide(q.run, q.decision) /\ q.asOf = starts[CaseOf(q.run)] /\
           q.run \in runs)
  PROVE  NewestInv' /\ RequestsStand' /\ StatusIsAccounted'
  <1>0. UNCHANGED <<status, runs, starts, stage, job, began, lineage, records>>
    BY DEF allVars, outboxVars, vars, workerVars, tableVars, runVars
  <1>1. NewestInv'
    BY <1>0 DEF GateInv, NewestInv, RunnerIsNewest, RunsDistinct, LatestExists,
      RunsOn, IsLatestRun, Running, OnVersion, VersionOf
  <1>2. StatusIsAccounted'
    BY <1>0 DEF GateInv, StatusIsAccounted, RunsOn, IsLatestRun, VersionOf, Standing, Recorded
  <1>3. /\ \A r : IsLatestRun(r)' <=> IsLatestRun(r)
        /\ \A r : Recorded(r)' <=> Recorded(r)
        /\ \A q : Late(q)' <=> Late(q)
        /\ \A r, d : MayDecide(r, d)' <=> MayDecide(r, d)
    BY <1>0 DEF IsLatestRun, RunsOn, VersionOf, Recorded, Late, CaseOf, MayDecide
  <1>4. ASSUME NEW q \in requests'
        PROVE  /\ q.asOf <= starts[CaseOf(q.run)]
               /\ ~Late(q) =>
                    /\ IsLatestRun(q.run) /\ MayDecide(q.run, q.decision)
                    /\ q.run.outcome = "pending_adjudication"
                    /\ \/ status[CaseOf(q.run)] = "pending_adjudication"
                       \/ Recorded(q.run) /\ status[CaseOf(q.run)] \in {"approved", "rejected"}
    <2>1. CASE q \in requests
      BY <2>1 DEF GateInv, RequestsStand
    <2>2. CASE q \notin requests
      <3>1. /\ Reviewable(q.run) /\ MayDecide(q.run, q.decision)
            /\ q.asOf = starts[CaseOf(q.run)] /\ q.run \in runs
        BY <2>2
      <3>2. q.run.intent \in Intent /\ starts \in [Version -> Nat]
        BY <3>1 DEF GateInv, VersionInv, EvaluationInv, EvaluationTypeOK
      <3>3. q.asOf \in Nat
        BY <3>1, <3>2, KeysOfVersion DEF CaseOf
      <3> QED BY <3>1, <3>3 DEF Reviewable
    <2> QED BY <2>1, <2>2
  <1>5. RequestsStand'
    BY <1>0, <1>3, <1>4 DEF RequestsStand, CaseOf, VersionOf
  <1> QED BY <1>1, <1>2, <1>5

\* Evaluations, requests and decisions, each disturbing its part of the invariant.
LEMMA StepGateInv ==
  PromptEnvironment /\ OneOpenIntent /\ GateInv /\ [AdjudicationNext]_gateVars => GateInv'
  <1> SUFFICES ASSUME PromptEnvironment, OneOpenIntent, GateInv,
                      [AdjudicationNext]_gateVars
               PROVE  GateInv'
    OBVIOUS
  <1>0. SoloEnvironment /\ VersionInv /\ EvaluationInv
    BY DEF PromptEnvironment, GateInv, VersionInv
  <1>1. AdjudicationTypeOK'
    BY <1>0, StepAdjudicationType DEF GateInv
  <1>2. [EvaluationNext]_allVars => VersionInv'
    BY <1>0, StepVersionInv
  <1>3. CASE [EvaluationNext]_allVars /\ RecordLineage /\ UNCHANGED <<requests, records>>
    <2>1. NewestInv'
      BY <1>0, <1>3, StepNewest DEF GateInv
    <2>2. RequestsStand'
      BY <1>0, <1>3, EvaluationKeepsRequests DEF GateInv
    <2>3. StatusIsAccounted'
      BY <1>0, <1>3, EvaluationAccounts DEF GateInv
    <2> QED BY <1>1, <1>2, <1>3, <2>1, <2>2, <2>3 DEF GateInv
  <1>4. ASSUME UNCHANGED <<allVars, lineage, records>>,
               \A q \in requests' : q \in requests \/ (Reviewable(q.run) /\
                 MayDecide(q.run, q.decision) /\ q.asOf = starts[CaseOf(q.run)] /\
                 q.run \in runs)
        PROVE  GateInv'
    <2>1. NewestInv' /\ RequestsStand' /\ StatusIsAccounted'
      BY <1>4, RequestAccounts
    <2> QED BY <1>1, <1>2, <1>4, <2>1 DEF GateInv
  <1>5. CASE UNCHANGED <<allVars, reviewVars>>
    BY <1>4, <1>5 DEF reviewVars
  <1>6. ASSUME UNCHANGED <<allVars, lineage, records>>,
               NEW p \in Reviewer, NEW r \in runs, NEW decision \in Decisions,
               Review(p, r, decision)
        PROVE  GateInv'
    BY <1>4, <1>6 DEF Review
  <1>7. ASSUME UNCHANGED <<allVars, lineage, records>>,
               NEW q \in requests, DecisionRefused(q)
        PROVE  GateInv'
    BY <1>4, <1>7 DEF DecisionRefused
  <1>8. ASSUME NEW q \in requests, Decide(q) PROVE GateInv'
    BY <1>1, <1>8, DecisionKeepsVersions, DecisionAccounts DEF GateInv
  <1> QED BY <1>3, <1>5, <1>6, <1>7, <1>8, GateSteps

\* Without runs there is nothing to account for.
LEMMA InitGateInv ==
  AdjudicationInit => GateInv
  <1> SUFFICES ASSUME AdjudicationInit PROVE GateInv
    OBVIOUS
  <1>1. VersionInv /\ AdjudicationTypeOK
    BY InitVersionInv, InitAdjudication DEF AdjudicationInit
  <1>2. runs = {} /\ requests = {} /\ \A v \in Version : status[v] = "absent"
    BY DEF AdjudicationInit, EvaluationInit
  <1>3. \A w \in Worker : stage[w] = "none"
    BY DEF AdjudicationInit, EvaluationInit
  <1>4. NewestInv
    BY <1>2, <1>3 DEF NewestInv, RunnerIsNewest, RunsDistinct, LatestExists, RunsOn, Running
  <1>5. RequestsStand /\ StatusIsAccounted
    BY <1>2 DEF RequestsStand, StatusIsAccounted, Decided
  <1> QED BY <1>1, <1>4, <1>5 DEF GateInv

\* Wherever a judged version stands, its newest run or the reviewer's decision
\* on that very run put it there, and an approved one has results of every tier:
\* for any number of versions, runs, workers and reviewers.
THEOREM StatusAccounted ==
  PromptEnvironment => (AdjudicationSpec /\ []OneOpenIntent => []StatusIsAccounted)
  <1> SUFFICES ASSUME PromptEnvironment
               PROVE  AdjudicationSpec /\ []OneOpenIntent => []StatusIsAccounted
    OBVIOUS
  <1>1. OneOpenIntent /\ GateInv /\ [AdjudicationNext]_gateVars => GateInv'
    BY StepGateInv
  <1>2. GateInv => StatusIsAccounted
    BY DEF GateInv
  <1> QED BY <1>1, <1>2, InitGateInv, PTL DEF AdjudicationSpec

\* Decisions leave the mutex of the evaluations intact, and are legal moves.
THEOREM DecisionsRespectMutex ==
  PromptEnvironment =>
    (AdjudicationSpec /\ []OneOpenIntent => []RunnerHoldsMutex /\ LegalMovesOnly)
  <1> SUFFICES ASSUME PromptEnvironment
               PROVE  AdjudicationSpec /\ []OneOpenIntent
                        => []RunnerHoldsMutex /\ LegalMovesOnly
    OBVIOUS
  <1>1. OneOpenIntent /\ GateInv /\ [AdjudicationNext]_gateVars => GateInv'
    BY StepGateInv
  <1>2. GateInv => RunnerHoldsMutex
    BY DEF GateInv, VersionInv, MutexInv, BusyHoldsMutex, Busy, RunnerHoldsMutex, Running,
      OnVersion
  <1>3. GateInv /\ [AdjudicationNext]_gateVars =>
          [\A v \in Version :
             \/ status'[v] = status[v]
             \/ status[v] = "absent" /\ status'[v] = "pending"
             \/ <<status[v], status'[v]>> \in Transitions]_status
    <2> SUFFICES ASSUME GateInv, [AdjudicationNext]_gateVars, NEW v \in Version
                 PROVE  \/ status'[v] = status[v]
                        \/ status[v] = "absent" /\ status'[v] = "pending"
                        \/ <<status[v], status'[v]>> \in Transitions
      OBVIOUS
    <2>1. ASSUME [EvaluationNext]_allVars
          PROVE  \/ status'[v] = status[v]
                 \/ status[v] = "absent" /\ status'[v] = "pending"
                 \/ <<status[v], status'[v]>> \in Transitions
      BY <2>1, StepLegal DEF GateInv, VersionInv
    <2>2. ASSUME NEW q \in requests, Decide(q)
          PROVE  status'[v] = status[v] \/ <<status[v], status'[v]>> \in Transitions
      <3>1. /\ status \in [Version -> Decided \cup {"absent", "pending", "evaluating"}]
            /\ status[CaseOf(q.run)] = "pending_adjudication"
            /\ status' = [status EXCEPT ![CaseOf(q.run)] = ApplyAdjudication(q.decision)]
        BY <2>2, DecisionFinds DEF GateInv, VersionInv, EvaluationInv, EvaluationTypeOK
      <3>2. CASE v = CaseOf(q.run)
        BY <3>1, <3>2 DEF Transitions, ApplyAdjudication
      <3>3. CASE v # CaseOf(q.run)
        BY <3>1, <3>3
      <3> QED BY <3>2, <3>3
    <2>3. ASSUME UNCHANGED allVars PROVE status'[v] = status[v]
      BY <2>3 DEF allVars, tableVars
    <2> QED BY <2>1, <2>2, <2>3, GateSteps
  <1> QED BY <1>1, <1>2, <1>3, InitGateInv, PTL DEF AdjudicationSpec, LegalMovesOnly

\* A version is not left `evaluating` by decisions either, late ones included.
THEOREM DecisionsStrandNothing ==
  CleanEnvironment => (AdjudicationSpec /\ []NoneParked => []EvaluatingIsOwned)
  <1> SUFFICES ASSUME CleanEnvironment
               PROVE  AdjudicationSpec /\ []NoneParked => []EvaluatingIsOwned
    OBVIOUS
  <1> DEFINE I == EvaluationInv /\ AdjudicationTypeOK /\ OwnershipInv /\ EvaluatingUnsettled
  <1>1. AdjudicationInit => I
    BY InitEvaluation, InitAdjudication
      DEF EvaluationInv, EvaluatingUnsettled, EvaluationInit, AdjudicationInit
  <1>2. I /\ [AdjudicationNext]_gateVars => I'
    <2> SUFFICES ASSUME I, [AdjudicationNext]_gateVars PROVE I'
      OBVIOUS
    <2>1. EvaluationInv' /\ AdjudicationTypeOK'
      BY StepAdjudicationType
    <2>2. ASSUME [EvaluationNext]_allVars PROVE OwnershipInv' /\ EvaluatingUnsettled'
      BY <2>2, StepKeepsOutbox, StepEvaluatingUnsettled DEF EvaluationInv
    <2>3. ASSUME NEW q \in requests, Decide(q) PROVE OwnershipInv' /\ EvaluatingUnsettled'
      <3>1. UNCHANGED <<intentVars, queue, dispatcherVars, workerVars>>
        BY <2>3 DEF Decide
      <3>2. OwnershipInv'
        BY <3>1 DEF OwnershipInv, HolderOwnsRow, SingleHolder, AtMostOneRun,
          CompletedRowClosesIntent, OpenClaimIsCurrent, KnownOnly, Holds, Held,
          NumberTaken, intentVars, dispatcherVars, workerVars
      <3>3. status' = [status EXCEPT ![CaseOf(q.run)] = ApplyAdjudication(q.decision)]
        BY <2>3 DEF Decide, SetStatus
      <3>4. status \in [Version -> Decided \cup {"absent", "pending", "evaluating"}]
        BY DEF EvaluationInv, EvaluationTypeOK
      <3>5. \A v \in Version : status'[v] = "evaluating" => status[v] = "evaluating"
        BY <3>3, <3>4 DEF ApplyAdjudication
      <3>6. EvaluatingUnsettled'
        BY <3>1, <3>5 DEF EvaluatingUnsettled, IntentsOf, VersionOf, intentVars
      <3> QED BY <3>2, <3>6
    <2> QED BY <2>1, <2>2, <2>3, GateSteps
  <1>3. I /\ NoneParked => EvaluatingIsOwned
    BY UnsettledIsOwned DEF EvaluationInv
  <1> QED BY <1>1, <1>2, <1>3, PTL DEF AdjudicationSpec

-----------------------------------------------------------------------------
(* The gate                                                                  *)

\* the evidence of a version is its latest run, if it has any
EvidenceIsNewest ==
  \A v \in Version :
    /\ RunsOn(v) = {} => EvidenceOf(v) = NoRun
    /\ \A r \in RunsOn(v) : IsLatestRun(r) => EvidenceOf(v) = r

\* Runs have different numbers, so that only one of them is the latest.
LEMMA NewestIsEvidence ==
  GateInv => EvidenceIsNewest
  <1> SUFFICES ASSUME GateInv, NEW v \in Version, NEW r \in RunsOn(v), IsLatestRun(r)
               PROVE  EvidenceOf(v) = r
    BY DEF EvidenceIsNewest, EvidenceOf
  <1> DEFINE n == NewestRun(v)
  <1>0. EvaluationInv
    BY DEF GateInv, VersionInv
  <1>1. n \in RunsOn(v) /\ IsLatestRun(n)
    BY DEF NewestRun
  <1>2. n.started \in Nat /\ r.started \in Nat /\ VersionOf(n.intent) = v /\ VersionOf(r.intent) = v
    BY <1>0, <1>1, RunNumbers
  <1>3. n.started <= r.started /\ r.started <= n.started
    BY <1>1, <1>2 DEF IsLatestRun
  <1>4. n = r
    BY <1>1, <1>2, <1>3 DEF GateInv, NewestInv, RunsDistinct
  <1>5. RunsOn(v) # {}
    OBVIOUS
  <1> QED BY <1>4, <1>5 DEF EvidenceOf

\* No run is the absence of one.
LEMMA RunsAreNoNoRun ==
  ASSUME EvaluationInv, NEW r \in runs
  PROVE  r # NoRun /\ r.intent \in Intent
  <1>1. r.intent \in Intent
    BY DEF EvaluationInv, EvaluationTypeOK
  <1>2. NoRun.intent = NoIntent
    BY DEF NoRun
  <1> QED BY <1>1, <1>2, ConstantsAssumption

\* Evidence is a run of the version or none.
LEMMA EvidenceOfVersion ==
  ASSUME GateInv, NEW v \in Version
  PROVE  \/ EvidenceOf(v) = NoRun /\ RunsOn(v) = {}
         \/ /\ EvidenceOf(v) \in RunsOn(v) /\ EvidenceOf(v) \in runs
            /\ IsLatestRun(EvidenceOf(v)) /\ VersionOf(EvidenceOf(v).intent) = v
  <1>1. CASE RunsOn(v) = {}
    BY <1>1 DEF EvidenceOf
  <1>2. CASE RunsOn(v) # {}
    <2>1. PICK r \in RunsOn(v) : IsLatestRun(r)
      BY <1>2 DEF GateInv, NewestInv, LatestExists
    <2>2. EvidenceOf(v) = r
      BY <2>1, NewestIsEvidence DEF EvidenceIsNewest
    <2> QED BY <2>1, <2>2 DEF RunsOn
  <1> QED BY <1>1, <1>2

\* Runs that stay leave the evidence as it is.
LEMMA EvidenceStays ==
  ASSUME GateInv, EvidenceIsNewest', NEW v \in Version, RunsOn(v)' = RunsOn(v)
  PROVE  EvidenceOf(v)' = EvidenceOf(v)
  <1>1. CASE RunsOn(v) = {}
    BY <1>1 DEF EvidenceOf
  <1>2. CASE RunsOn(v) # {}
    <2>1. PICK r \in RunsOn(v) : IsLatestRun(r) /\ EvidenceOf(v) = r
      BY <1>2, NewestIsEvidence
        DEF GateInv, NewestInv, LatestExists, EvidenceIsNewest
    <2>2. VersionOf(r.intent) = v
      BY DEF RunsOn
    <2>3. IsLatestRun(r)'
      BY <2>1, <2>2 DEF IsLatestRun, VersionOf
    <2>4. EvidenceOf(v)' = r
      BY <2>3 DEF EvidenceIsNewest
    <2> QED BY <2>1, <2>4
  <1> QED BY <1>1, <1>2

\* A version whose status counts for the same, on the same evidence, stands.
LEMMA StandingStays ==
  ASSUME NEW v \in Version, EvidenceOf(v)' = EvidenceOf(v),
         Recorded(EvidenceOf(v))' <=> Recorded(EvidenceOf(v)),
         status'[v] = status[v] \/ (status[v] \notin Decided /\ status'[v] \notin Decided)
  PROVE  StandingOf(v)' = StandingOf(v)
  <1>1. CASE status'[v] = status[v]
    BY <1>1 DEF StandingOf
  <1>2. CASE status[v] \notin Decided /\ status'[v] \notin Decided
    BY <1>2 DEF StandingOf, Decided
  <1> QED BY <1>1, <1>2

\* Where every version stands as it stood the gate has not moved.
LEMMA GateStutter ==
  ASSUME \A v \in Version : StandingOf(v)' = StandingOf(v) /\ EvidenceOf(v)' = EvidenceOf(v),
         UNCHANGED records
  PROVE  UNCHANGED Gate!gate
  BY DEF Gate!gate

\* Where one version alone moves it is the one the gate moves.
LEMMA GateStand ==
  ASSUME NEW v \in Version, NEW at, StandingOf(v)' = at,
         \A u \in Version : u # v => StandingOf(u)' = StandingOf(u)
  PROVE  Gate!Stand(v, at)
  BY DEF Gate!Stand

\* The beginning of a run reopens its version, or the version was open already.
LEMMA BeginsReopens ==
  ASSUME GateInv, EvidenceIsNewest', UNCHANGED records,
         NEW w \in Worker, NEW v \in Version, Begins(w, v)
  PROVE  [Gate!GateNext]_(Gate!gate)
  <1>0. TablesTyped
    BY TypeParts DEF GateInv, VersionInv, EvaluationInv
  <1>1. \A u \in Version : EvidenceOf(u)' = EvidenceOf(u)
    <2>1. \A u \in Version : RunsOn(u)' = RunsOn(u)
      BY RunsUntouched DEF Begins
    <2> QED BY <2>1, EvidenceStays
  <1>2. \A u \in Version : Recorded(EvidenceOf(u))' <=> Recorded(EvidenceOf(u))
    BY <1>1 DEF Recorded
  <1>3. \A u \in Version : u # v => StandingOf(u)' = StandingOf(u)
    <2>1. \A u \in Version : u # v => status'[u] = status[u]
      BY <1>0 DEF Begins, TablesTyped
    <2> QED BY <1>1, <1>2, <2>1, StandingStays
  <1>4. StandingOf(v)' = "open"
    <2>1. status'[v] = "evaluating"
      BY <1>0 DEF Begins, TablesTyped
    <2> QED BY <2>1 DEF StandingOf
  <1>5. CASE StandingOf(v) = "open"
    <2>1. \A u \in Version : StandingOf(u)' = StandingOf(u)
      BY <1>3, <1>4, <1>5
    <2> QED BY <1>1, <2>1, GateStutter
  <1>6. CASE StandingOf(v) # "open"
    <2>1. Gate!Stand(v, "open")
      BY <1>3, <1>4, GateStand
    <2>2. Gate!Reopen(v)
      BY <1>1, <1>6, <2>1 DEF Gate!Reopen
    <2> QED BY <2>2 DEF Gate!GateNext
  <1> QED BY <1>5, <1>6

\* The commit of a run judges its version, on a run nobody has decided on.
LEMMA CommitsJudge ==
  ASSUME GateInv, EvaluationInv', EvidenceIsNewest', UNCHANGED records,
         NEW w \in Worker, NEW v \in Version, NEW o \in Outcome, Commits(w, v, o)
  PROVE  Gate!GateNext
  <1>0. EvaluationInv /\ NewestInv /\ TablesTyped
    BY TypeParts DEF GateInv, VersionInv, EvaluationInv
  <1>1. PICK n : n = NewRun(w, o)
    OBVIOUS
  <1>2. /\ RunsOn(v)' = RunsOn(v) \cup {n} /\ IsLatestRun(n)'
        /\ \A u \in Version : u # v => RunsOn(u)' = RunsOn(u)
        /\ n \notin runs /\ n \in runs' /\ n.outcome = o
    BY <1>0, <1>1, CommitIsNewest
  <1>3. EvidenceOf(v)' = n
    BY <1>2 DEF EvidenceIsNewest
  <1>4. \A u \in Version : u # v => EvidenceOf(u)' = EvidenceOf(u)
    BY <1>2, EvidenceStays
  <1>5. \A a \in records : a.run # n
    BY <1>2 DEF GateInv, AdjudicationTypeOK, AdjudicationRecord
  <1>6. EvidenceOf(v) # n
    <2>1. n # NoRun
      <3>1. n.intent = job[w] /\ job[w] # NoIntent
        BY <1>1 DEF NewRun, Commits, Running, OnVersion
      <3> QED BY <3>1 DEF NoRun
    <2> QED BY <1>2, <2>1, EvidenceOfVersion
  <1>7. \A u \in Version : u # v => StandingOf(u)' = StandingOf(u)
    <2>1. \A u \in Version : u # v => status'[u] = status[u]
      BY <1>0 DEF Commits, TablesTyped
    <2>2. \A u \in Version : u # v =>
            (Recorded(EvidenceOf(u))' <=> Recorded(EvidenceOf(u)))
      BY <1>4 DEF Recorded
    <2> QED BY <1>4, <2>1, <2>2, StandingStays
  <1>8. StandingOf(v) = "open"
    BY DEF Commits, StandingOf
  <1>9. StandingOf(v)' \in {"open", "passed", "failed", "flagged"}
    <2>1. ~Recorded(EvidenceOf(v))'
      BY <1>3, <1>5 DEF Recorded
    <2> QED BY <2>1 DEF StandingOf
  <1>10. \E at \in {"open", "passed", "failed", "flagged"} : Gate!Stand(v, at)
    BY <1>7, <1>9, GateStand
  <1>11. Gate!Judge(v)
    BY <1>3, <1>4, <1>5, <1>6, <1>8, <1>10 DEF Gate!Judge
  <1> QED BY <1>11 DEF Gate!GateNext

\* A decision is the gate's, on the newest evidence of a flagged version.
LEMMA DecisionIsGates ==
  ASSUME PromptEnvironment, GateInv, EvidenceIsNewest', NEW q \in requests, Decide(q)
  PROVE  Gate!GateNext
  <1> DEFINE v == CaseOf(q.run)
             a == [run |-> q.run, decision |-> q.decision]
  <1>0. EvaluationInv /\ TablesTyped
    BY TypeParts DEF GateInv, VersionInv, EvaluationInv
  <1>1. /\ v \in Version /\ q.run \in RunsOn(v) /\ IsLatestRun(q.run)
        /\ status[v] = "pending_adjudication"
        /\ status' = [status EXCEPT ![v] = ApplyAdjudication(q.decision)]
        /\ UNCHANGED <<runs, starts, lineage>>
    BY DecisionFinds
  <1>2. records' = records \cup {a}
    BY DEF Decide
  <1>3. \A u \in Version : EvidenceOf(u)' = EvidenceOf(u)
    <2>1. \A u \in Version : RunsOn(u)' = RunsOn(u)
      BY <1>1, RunsUntouched
    <2> QED BY <2>1, EvidenceStays
  <1>4. EvidenceOf(v) = q.run
    BY <1>1, NewestIsEvidence DEF EvidenceIsNewest
  <1>5. \A u \in Version : u # v => StandingOf(u)' = StandingOf(u)
    <2> SUFFICES ASSUME NEW u \in Version, u # v PROVE StandingOf(u)' = StandingOf(u)
      OBVIOUS
    <2>1. status'[u] = status[u]
      BY <1>0, <1>1 DEF TablesTyped
    <2>2. EvidenceOf(u) # q.run
      <3>1. q.run \in runs /\ VersionOf(q.run.intent) = v
        BY <1>1 DEF RunsOn
      <3>2. q.run # NoRun
        BY <1>0, <3>1, RunsAreNoNoRun
      <3> QED BY <3>1, <3>2, EvidenceOfVersion
    <2>3. Recorded(EvidenceOf(u))' <=> Recorded(EvidenceOf(u))
      BY <1>2, <1>3, <2>2 DEF Recorded
    <2> QED BY <1>3, <2>1, <2>3, StandingStays
  <1>6. StandingOf(v) = "flagged"
    BY <1>1 DEF StandingOf
  <1>7. Recorded(EvidenceOf(v))'
    <2>1. a \in records' /\ a.run = q.run
      BY <1>2
    <2> QED BY <1>1, <1>3, <1>4, <2>1 DEF Recorded
  <1>8. StandingOf(v)' = IF q.decision = "approve" THEN "granted" ELSE "denied"
    <2>1. status'[v] = ApplyAdjudication(q.decision)
      BY <1>0, <1>1 DEF TablesTyped
    <2> QED BY <1>7, <2>1 DEF StandingOf, ApplyAdjudication
  <1>9. Gate!Stand(v, IF q.decision = "approve" THEN "granted" ELSE "denied")
    BY <1>1, <1>5, <1>8, GateStand
  <1>10. q.decision \in {"approve", "reject", "request_changes"}
    BY AdjudicationAssumption DEF GateInv, AdjudicationTypeOK
  <1>11. Gate!Decide(v)
    BY <1>1, <1>2, <1>3, <1>4, <1>6, <1>9, <1>10 DEF Gate!Decide
  <1> QED BY <1>1, <1>11 DEF Gate!GateNext

\* Every step of workers, reviewers, dispatcher and time is a step of the gate,
\* or a stutter.
LEMMA StepGate ==
  ASSUME PromptEnvironment, GateInv, GateInv', EvidenceIsNewest', [AdjudicationNext]_gateVars
  PROVE  [Gate!GateNext]_(Gate!gate)
  <1>0. SoloEnvironment /\ VersionInv /\ EvaluationInv'
    BY DEF PromptEnvironment, GateInv, VersionInv
  <1>1. ASSUME KeepsJudgements, UNCHANGED records PROVE UNCHANGED Gate!gate
    <2>1. \A v \in Version : EvidenceOf(v)' = EvidenceOf(v)
      <3>1. \A v \in Version : RunsOn(v)' = RunsOn(v)
        BY <1>1, RunsUntouched DEF KeepsJudgements
      <3> QED BY <3>1, EvidenceStays
    <2>2. \A v \in Version : Recorded(EvidenceOf(v))' <=> Recorded(EvidenceOf(v))
      BY <1>1, <2>1 DEF Recorded
    <2>3. \A v \in Version : StandingOf(v)' = StandingOf(v)
      BY <1>1, <2>1, <2>2, StandingStays DEF KeepsJudgements
    <2> QED BY <1>1, <2>1, <2>3, GateStutter
  <1>2. UNCHANGED allVars => KeepsJudgements
    BY DEF allVars, tableVars, KeepsJudgements
  <1>3. ASSUME [EvaluationNext]_allVars, UNCHANGED records PROVE [Gate!GateNext]_(Gate!gate)
    <2>1. ASSUME NEW w \in Worker, NEW v \in Version, Begins(w, v)
          PROVE  [Gate!GateNext]_(Gate!gate)
      BY <1>3, <2>1, BeginsReopens
    <2>2. ASSUME NEW w \in Worker, NEW v \in Version, NEW o \in Outcome, Commits(w, v, o)
          PROVE  [Gate!GateNext]_(Gate!gate)
      BY <1>0, <1>3, <2>2, CommitsJudge
    <2> QED BY <1>0, <1>1, <1>3, <2>1, <2>2, EvaluationShape
  <1>4. ASSUME NEW q \in requests, Decide(q) PROVE [Gate!GateNext]_(Gate!gate)
    BY <1>4, DecisionIsGates
  <1>5. ASSUME UNCHANGED allVars, UNCHANGED records PROVE [Gate!GateNext]_(Gate!gate)
    BY <1>1, <1>2, <1>5
  <1>6. CASE [EvaluationNext]_allVars /\ RecordLineage /\ UNCHANGED <<requests, records>>
    BY <1>3, <1>6
  <1>7. CASE UNCHANGED <<allVars, reviewVars>>
    BY <1>5, <1>7 DEF reviewVars
  <1>8. CASE UNCHANGED <<allVars, lineage, records>>
    BY <1>5, <1>8
  <1> QED BY <1>4, <1>6, <1>7, <1>8, GateSteps

\* Workers, reviewers and the dispatcher implement the gate: a flagged version is
\* approved by a decision recorded on its newest run and by nothing else.
THEOREM GateIsImplemented ==
  PromptEnvironment => (AdjudicationSpec /\ []OneOpenIntent => ImplementsGate)
  <1> SUFFICES ASSUME PromptEnvironment
               PROVE  AdjudicationSpec /\ []OneOpenIntent => ImplementsGate
    OBVIOUS
  <1>1. OneOpenIntent /\ GateInv /\ [AdjudicationNext]_gateVars => GateInv'
    BY StepGateInv
  <1>2. GateInv /\ GateInv' /\ EvidenceIsNewest' /\ [AdjudicationNext]_gateVars
          => [Gate!GateNext]_(Gate!gate)
    BY StepGate
  <1>3. AdjudicationInit => Gate!GateInit
    BY DEF AdjudicationInit, EvaluationInit, Gate!GateInit, StandingOf, EvidenceOf, RunsOn
  <1>4. GateInv => EvidenceIsNewest
    BY NewestIsEvidence
  <1> QED BY <1>1, <1>2, <1>3, <1>4, InitGateInv, PTL
        DEF AdjudicationSpec, ImplementsGate, Gate!GateSpec

-----------------------------------------------------------------------------
(* The smallest installation                                                 *)

\* A decision and a request leave the outbox, the runs and the workers alone.
LEMMA DecisionKeepsOutbox ==
  ASSUME NEW q \in requests, Decide(q)
  PROVE  UNCHANGED <<intentVars, queue, dispatcherVars, workerVars, runs, stage>>
  BY DEF Decide, runVars

\* Reviewers beside the workers give a version no second open intent.
LEMMA OneIntentBesideDecisions ==
  CleanEnvironment /\ MaxGolden <= 1 /\ MaxRetries = 0
    => (AdjudicationSpec => []OneOpenIntent)
  <1> SUFFICES ASSUME CleanEnvironment, MaxGolden <= 1, MaxRetries = 0
               PROVE  AdjudicationSpec => []OneOpenIntent
    OBVIOUS
  <1> DEFINE I == /\ EvaluationInv /\ AdjudicationTypeOK /\ OwnershipInv
                  /\ RunsAreCommitted /\ SecondAfterFirst
  <1>1. AdjudicationInit => I
    <2>1. EvaluationInit => RunsAreCommitted
      BY DEF EvaluationInit, RunsAreCommitted
    <2>2. EvaluationInit => SecondAfterFirst
      BY KeysOfVersion DEF EvaluationInit, Init, SecondAfterFirst
    <2> QED BY <2>1, <2>2, InitEvaluation, InitAdjudication
          DEF EvaluationInv, AdjudicationInit
  <1>2. I /\ [AdjudicationNext]_gateVars => I'
    <2> SUFFICES ASSUME I, [AdjudicationNext]_gateVars PROVE I'
      OBVIOUS
    <2> DEFINE Kept == OwnershipInv' /\ RunsAreCommitted' /\ SecondAfterFirst'
    <2>1. EvaluationInv' /\ AdjudicationTypeOK'
      BY StepAdjudicationType
    <2>2. ASSUME [EvaluationNext]_allVars PROVE Kept
      BY <2>2, StepKeepsOutbox, StepRunsAreCommitted, StepSecondAfterFirst
        DEF EvaluationInv
    <2>3. ASSUME NEW q \in requests, Decide(q) PROVE Kept
      <3>1. UNCHANGED <<intentVars, queue, dispatcherVars, workerVars, runs, stage>>
        BY <2>3, DecisionKeepsOutbox
      <3>2. OwnershipInv'
        BY <3>1 DEF OwnershipInv, HolderOwnsRow, SingleHolder, AtMostOneRun,
          CompletedRowClosesIntent, OpenClaimIsCurrent, KnownOnly, Holds, Held,
          NumberTaken, intentVars, dispatcherVars, workerVars
      <3>3. RunsAreCommitted'
        BY <3>1 DEF RunsAreCommitted, intentVars, workerVars
      <3>4. SecondAfterFirst'
        BY <3>1 DEF SecondAfterFirst, intentVars
      <3> QED BY <3>2, <3>3, <3>4
    <2> QED BY <2>1, <2>2, <2>3, GateSteps
  <1>3. I => OneOpenIntent
    BY SecondIsAlone
  <1> QED BY <1>1, <1>2, <1>3, PTL DEF AdjudicationSpec

\* With one golden set and no operator retries nothing is assumed of the
\* behaviours: reviewers and workers implement the gate, and every status is
\* accounted for, for any number of versions, workers and reviewers and any
\* number of crashes and failing runs.
THEOREM SmallestInstallationGate ==
  PromptEnvironment /\ MaxGolden <= 1 /\ MaxRetries = 0
    => (AdjudicationSpec => ImplementsGate /\ []StatusIsAccounted)
  <1> SUFFICES ASSUME PromptEnvironment, MaxGolden <= 1, MaxRetries = 0
               PROVE  AdjudicationSpec => ImplementsGate /\ []StatusIsAccounted
    OBVIOUS
  <1>1. AdjudicationSpec => []OneOpenIntent
    BY OneIntentBesideDecisions DEF PromptEnvironment, SoloEnvironment
  <1>2. AdjudicationSpec /\ []OneOpenIntent => ImplementsGate
    BY GateIsImplemented
  <1>3. AdjudicationSpec /\ []OneOpenIntent => []StatusIsAccounted
    BY StatusAccounted
  <1> QED BY <1>1, <1>2, <1>3, PTL

=============================================================================
