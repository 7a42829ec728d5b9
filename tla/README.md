# Benchmarking harness: TLA+ specification and proofs

The harness takes computer-vision models, evaluates each version in three tiers
in a sandbox, and gates it: approved, rejected, or put before a human reviewer.
What is hard in it is not the arithmetic of a metric but the life of an
evaluation request: an API that commits, a dispatcher that publishes, a broker
that loses and repeats, workers that race and die, and golden sets that change
under running evaluations. This directory models that life, checks it with TLC
on small instances, and proves what matters most for every instance with TLAPS.

Paths below are relative to the repository; `services/` is
`backend/app/services/`.

## 1. Inventory

### The parts that carry state

| part | state | operations | interacts with |
|---|---|---|---|
| Job outbox (`services/jobs.py`, `db/models.py`) | `JobIntent` rows (state, lease, backoff, attempt count), `JobAttempt` ledger | `create_intent`, `claim_intent`, `complete_intent`, `fail_intent` | called inside the transactions of the API and the orchestrator, and by the dispatcher |
| Dispatcher (`services/dispatcher.py`) | a batch of leased intents while it publishes | `reclaim_expired_leases`, `dispatch_pending`, `_mark_dispatched`, `run_once` | reads and writes intents, resets versions, publishes to Redis/RQ |
| Worker (`worker/main.py`) and transport | the message in hand | boot recovery, `evaluate_intent` | RQ delivers at least once |
| Orchestrator (`services/orchestrator.py`) | `EvaluationRun`, `TierResult`, `ReevaluationClaim`, `ModelCard`; a run in memory | `enqueue_evaluation`, `evaluate_version`, `reevaluate_for_golden_set`, `recover_orphaned_reevaluations` | everything above; engine, evidence store |
| State machine (`services/state_machine.py`) | none (`ModelVersion.status` is its subject) | `assert_transition`, `decide_verdict`, `status_for_verdict`, `apply_adjudication` | orchestrator, adjudication |
| Submission API (`api/models.py`), ingest, janitor | `Model`, `ModelVersion`, `ArtifactReceipt`, `.part` and final files | `submit_model`, `stage_upload`, `finalize`, `sweep_abandoned` | outbox, file system |
| Golden-set API (`api/golden_sets.py`) | `GoldenTestSet` | `register` | flags versions through the orchestrator |
| Adjudication API (`api/adjudication.py`) | `AdjudicationRecord` | `queue`, `decide` | `ModelVersion.status`, latest run, card |
| Evidence store (`services/evidence_store.py`) | staged and published files | `stage`, `publish`, `discard` | completion transaction |
| Reconciliation, audit, readiness | none / appended events | counts, reports | reads all of the above |
| Authentication, configuration | none | principals, roles, path containment | every endpoint |
| Runner service and client, sandbox (`runner/main.py`, `services/runner_client.py`, `engine/sandbox/`) | one job: container or process, its result file | `run_remote`, `run_inference`, `job.run` | tiers; container daemon |
| Tiers and scoring (`engine/tiers/`, `engine/scoring.py`) | outcomes of the run in memory | `run_tier1`, `run_tier2`, `run_tier3`, `score_run` | sandbox, metrics; orchestrator |
| Metrics (`engine/metrics/`) | none | coverage, three scorers, grounding, floors | tiers; ground truth |
| Adapters, datasets, perturbations | none | load and predict, validate, perturb | inside the sandbox; registration |
| Model cards (`engine/cards/`) | text of a card | `generate`, `split_human_sections` | completion and decision transactions |
| Frontend, scripts | session token | views, seeding | the API |

### What is hard, and what correct means

* **Outbox.** Four transactions (`claim_intent`, `_mark_dispatched`,
  `reclaim_expired_leases`, `fail_intent`) read rows without a lock and write them
  later; messages are lost, repeated, and published by two different parties;
  workers and dispatchers die between transactions; leases run out. Correct: one
  worker holds an intent at a time; one run answers it; completed is final; the
  ledger is exact and append-only; nothing is stranded.
* **Orchestrator and state machine.** `ModelVersion.status` doubles as the mutex
  between evaluations of a version, yet it is written by paths that do not call
  `assert_transition` (infra failure, reset, reclaim), and a version can have
  several open intents. Correct: a running evaluation keeps the mutex, no
  version is stranded in `evaluating`, a decided status is what the newest run
  says, only legal transitions happen.
* **Golden sets.** A registration commits first and flags versions second;
  candidates come from committed runs, so a running evaluation is invisible and
  must recheck at its end. Correct: a version judged on an old set is on its way
  to be judged on the new one, and a claim, which can be made only once, ends in
  a run or in a parked intent.
* **Adjudication.** A decision reads status and latest run, then writes; another
  reviewer or a re-evaluation may come between. Correct: no approval without a
  recorded decision on the current evidence.
* **Evidence and artifacts.** File moves happen before commits. Correct: a
  committed row never lacks its file; what a failure leaves behind is what could
  not be removed, and it is reported or swept.
* **Sandbox and tiers.** Jobs hang, clients give up on a job that goes on, daemons
  fail a call they have carried out, output is torn or malformed. Correct: every
  evaluation ends; no job is judged while it runs; a pass is earned on every tier, a
  fail is the model's and not the infrastructure's, whatever is in doubt goes to a
  human.
* **Metrics and intake.** Boundaries of accounting: duplicates, silence, values that
  are none, bounded lists of examples, overlaps decided by order. Correct: saying
  less never helps, nothing hides from validity, and what registration accepts
  can be scored.
* **Views and cards.** One rule written in several places, one card filled in two
  ways. Correct: they agree.

The line-by-line list of hazards, with the property that would catch each, is in
`PROJECT.json`.

## 2. Plan

| module | what | state |
|---|---|---|
| `JobIntents` | outbox, dispatcher, transport, claims | done; proved |
| `RunContract` | abstract promise of the outbox, refined by `JobIntents` | done; proved |
| `JobIntentsProofs` | theorems about both | done |
| `Evaluation` | versions, runs, golden sets, recovery; composes `JobIntents` | done; proved |
| `Adjudication` | `decide` beside re-evaluations and other reviewers; composes `Evaluation` | done; proved |
| `ApprovalGate` | Constitution I as an abstract specification, refined by `Adjudication` | done; proved |
| `EvaluationProofs`, `AdjudicationProofs` | the mutex, the moves, the claims, the gate | done |
| `EvidenceStage` | stage, publish, commit, discard, crash, orphan report | done; proved |
| `ArtifactIngest` | upload, finalise, commit, uniqueness races, janitor | done; proved |
| `EvidenceStageProofs`, `ArtifactIngestProofs` | files and rows, for any number of runs and submissions | done |
| `Sandbox`, `TierPipeline` | one job; one evaluation through its tiers | done; proved |
| `TierPipelineProofs` | containment and verdicts, for any list of conditions | done |
| `Cases` and `Coverage`, `Scores`, `Grounding`, `Intake`, `Access`, `Adapters`, `ModelCards` | the pure decisions, checked over all small inputs by `MCRules` | done |
| `RuleProofs` | four of the nine rules, for inputs of any size | done |
| `MetricProofs` | the other five rules, for inputs of any size, and all nine together | done |
| `CleanEnvironment` without `lost_update` or `late_mark`, if the code closes those windows | stronger versions of the theorems of `JobIntentsProofs` | open |
| wider hypotheses in `EvaluationProofs` | several golden sets without assuming `OneOpenIntent`, if a weaker condition carries the mutex | open |
| golden data that drifts in the middle of a run, `HARNESS_EVAL_MODE=inline` | extensions of `TierPipeline` and `Evaluation` | open |

No module contains a `RECURSIVE` operator: folds of the community modules take
their place, so that everything can be proved about.

## 3. The models

### JobIntents

Four transactions of the code read rows without a lock and write them later, so
that others may commit in between:

| transaction | in one step: nobody touches the row under it | in two: it is overtaken |
|---|---|---|
| `claim_intent` | never | `Deliver`, then `ClaimCommit`, `DuplicateCommit` or `ClaimConflict` |
| `_mark_dispatched` | `MarkDispatched` | `MarkReads`, `MarkCommits` (kind `late_mark`) |
| `reclaim_expired_leases` | `Reclaim` | `ReclaimReads`, `ReclaimCommits` or `ReclaimDies` (kind `late_reclaim`) |
| `fail_intent`, of a worker | `Fail` | `FailReads`, `FailCommits` (kind `late_fail`) |
| `fail_intent`, of a dispatcher | `DispatchFails` | `DispatchFailReads`, `DispatchFailCommits` (kind `late_fail`) |

The second step writes what the first one decided, whatever has become of the row,
but only the columns whose value differs from the one that was read, as
SQLAlchemy's unit of work does (`Write`): `ClaimCommit` after reading `claimed` does
not write `state` again. Two transactions stay one step in any environment.
`dispatch_pending` takes its rows with `FOR UPDATE`, which PostgreSQL honours (SQLite
is for tests, `config.py:218`). `complete_intent` writes the state unless it read
`completed`, so what commits under it is overwritten; only a second run of the same
intent could make it skip the write.

| code | model |
|---|---|
| `JobIntent.state`, `leased_until`, `available_at`, `attempt_count` | `state`, `lease` (none, live, expired), `waiting` (backoff not over), `count` |
| `JobAttempt` rows | `attempts`, a set of (intent, number, outcome) |
| messages in RQ | `queue`, a number per intent: messages are unordered |
| `to_publish` in `dispatch_pending`; the publish under way; its exception | `batch`, `inHand`, `raised` |
| what an overtaken transaction read | `marking` (dispatcher), `failing` (worker), `reclaiming` (the rows found overdue) |
| a worker inside `evaluate_intent` | `pc`, `job`, `seen` (what the claim read), `number` |
| `create_intent` | `Create`, `CreateIntents` |
| `dispatch_intent` | `Enqueue`, used by `Publish` and `PublishDirectly` |
| `reclaim_expired_leases` | `Reclaim` and its overtaken form |
| `dispatch_pending` | `LeaseDue`, then per intent `MarkDispatched`, `Publish` or `PublishRaises` and `DispatchFails`, or the overtaken forms |
| `complete_intent`, `fail_intent` | `Complete`, `FailIntent` and `FailWrite` |
| leases and backoffs running out | `LeaseRunsOut`, `BackoffEnds` |

Everything the environment does is of a named kind and spends one unit of
`MaxFaults`; the header of the module lists the kinds. `CleanEnvironment` leaves
out five of them, and the code prevents none of the five: a publish that raises
although accepted (`publish_error`), a reclaim that commits within the read-commit
window of a claim (`lost_update`), a commit of another process within the windows
of `_mark_dispatched` and of the reclaim (`late_mark`, `late_reclaim`), and a lease that
runs out under the worker that holds it (`overrun`). A worker's overtaken
`fail_intent` stays in.

`RunContract` says what the caller is promised, without leases, attempts or
messages: a request is owed until one run answers it, it may be parked and
taken up again, and it never gets a second answer. `ImplementsContract` is the
refinement (`RequestOf` and `RunsOf` are the mapping).

### Evaluation

Extends `JobIntents`; each outbox step happens together with what it means for
versions. Idempotency keys name the intents: `<<v, 0>>` the submission, `<<v, g>>`
the re-evaluation for golden set `g`, larger numbers operator retries.

| code | model |
|---|---|
| `ModelVersion.status` | `status` |
| `GoldenTestSet` rows of the class | `golden`, the number of the latest set |
| `EvaluationRun` rows | `runs` (intent, golden set, start, outcome) |
| `started_at`, `ReevaluationClaim.created_at` | `began`, `claimedAt`, on the clock `starts` |
| `ReevaluationClaim` rows | `claims` |
| `submit_model` | `Submit` |
| golden `register`, then `reevaluate_for_golden_set`, then its enqueues | `RegisterGolden`, `FlagForReevaluation`, `EnqueueFlagged`, `MintFlagged` |
| `evaluate_version` | `Claim`, `ReadStatus`, `Start` or `StartRefused`, `SettleInfra` / `SettleScored` / `SettleRefused` / `PersistFails`, or `PersistFailsLate` and `FailureLands`, `ResetToPending`, `Recheck`, `EnqueueStale`, `MintStale` |
| `recover_orphaned_reevaluations` | `RecoverOrphans` |
| the version reset in `reclaim_expired_leases` | `VersionsReclaimed`, `Freed`, `ReclaimLeases`, or `ReclaimLeasesReads` and `ReclaimLeasesCommits`, with the versions it read in `freeing` |

What is abstracted: the tiers are a choice of outcome (a scored verdict or an infra
failure; without a golden set Tier 1 alone decides and cannot pass). The commit that
sets `evaluating`, the read of the latest golden set after it and `started_at` are
one step. `enqueue_evaluation` that finds an intent in flight publishes it in the
same step (`Republish`; which of several pending ones is left open); one that finds
none goes on to `MintFlagged` or `MintStale` and commits its operator retry later,
so two callers may both mint one. All leases are equally long and no run is longer
than a lease unless the kind `overrun` is enabled, so a claim granted while a worker
was at work cannot run out before that worker is done (`outlives`).
`HARNESS_EVAL_MODE=inline` (development) is not modelled.

The start of an evaluation reads the status without a lock (`ReadStatus`) and
writes it later (`Start`); a start on a version that has become `evaluating` in
between is the fault kind `stale_start`. The failure of an evaluation and the reclaim
come in one step or, overtaken, in two, as in `JobIntents`; the reclaim then resets
the versions it had read as `evaluating`. The completion and `_reset_to_pending` are
one step each: for somebody else to write the version under them takes a second
evaluation of it or a late decision, and `stale_start`, `overrun`, `late_decision` and
the reclaim of a live version bring these about already. A death of the API
between its transactions is a kind of its own (`api_crash`, `ApiDies`), so that it can
be told from a worker's.

### Adjudication

Extends `Evaluation` with the reviewers. `Review` is everything `decide` reads and
checks (verdict, status, latest run, tier results), `Decide` what it writes: the
`AdjudicationRecord`, guarded by its unique `run_id`, and the status, guarded by
nothing. A decision that commits after an evaluation of its version began is the
fault kind `late_decision`. `DecisionRefused` is the 409 of the slower of two
reviewers, or a commit that fails. `lineage` says which runs have results for all
three tiers, the condition for approval; whether a flagged run was halted is
left open, but a run without a golden set never has them all.

`ApprovalGate` says what the gate promises, with no worker, intent or request in
sight: new evidence is judged once, and a flagged version leaves that standing
only by a decision recorded on that very evidence or by a new evaluation.
`ImplementsGate` is the refinement: `StandingOf` maps the status, and whether a
record on the newest run exists, to a standing; `EvidenceOf` is the newest run.

### EvidenceStage

A run is one worker in `evaluate_version` after its tiers; every file operation
is a step, and the worker may die between any two.

| code | model |
|---|---|
| `staging/<run>/`, `runs/<run>/` and their files | `staging`, `stagingDir`, `final`, `finalDir` |
| the `TierResult` rows of a run | `rows` |
| `evidence/<digest>.json` | `artifact` (absent, torn, whole) |
| `_persist_tier_results`, `_write_content_addressed` | `BeginPersist`, `WriteArtifact`, `ArtifactWritten`, `StageFile` |
| `publish`, one `os.replace` per file; the commit | `BeginPublish`, `PublishFile`, `EndPublish`, `Commit` |
| the except branch with `discard` | `PersistRaises`, `UnlinkPublished` or `UnlinkRefused`, `RemoveFinalDir`, `RemoveStaging` |
| what `discard` and `publish` could not remove | `refused` (published files), `stubborn` (directories) |
| `orphaned_evidence` and the sweep recovery.md prescribes | `ReportOrphans`, `SweepReported` |

Any removal may be refused by the file system. `discard` swallows the error and
goes on, and `rmtree(ignore_errors=True)` may leave any part of a staging directory.
The operator may sweep a directory the report named long ago, that of a run
which is still alive included. A commit that raises is taken as not applied.

### ArtifactIngest

Each submission is a request in an API process of its own. A key flushed by an
open transaction makes another insert of it wait, a committed one makes it raise.

| code | model |
|---|---|
| `submit_model`, top to bottom | `Receive`, `FindModel`, `InsertModel`, `CheckVersion`, `BeginUpload`, `EndUpload`, `InsertVersion`, `Finalize`, `Commit`, `CommitRefused` |
| rollback, `staged.discard()`, the answer | `Compensate`, `Discard` |
| an artifact directory `rmtree` did not remove | `stuck` |
| rows flushed and committed | `flushed`, `models`, `versions` |
| `.part` file, its mtime against the threshold, the finalised artifact | `part`, `aged`, `artifact` |
| `sweep_abandoned`: the look and the unlink | `JanitorLooks`, `JanitorUnlinks`, `doomed` |
| death of the API process | `ApiCrashes` |

Errors `submit_model` does not name are answered 500 by the framework and nothing of
the submission is compensated: an insert that fails for another reason than its
key, the `mkdir` of the staging directory or of the destination and the test of its
name (`artifact_ingest.py:86,129,132`), the stream, a commit that fails for another
reason than a constraint, and the unlink of the compensation itself. The `.part`
file, or after a commit the artifact, stays where it was.

`Slow` says whether a live upload may outlast the janitor's threshold; the run
sets it, so the janitor may unlink what is being written.

### Sandbox and TierPipeline

`Sandbox` is `run_inference`, one job at a time: the caller (`call`, `answer`) and
the executor (`executor`, `container`, `outcome`) are separate, since with
`HARNESS_RUNNER_URL` the executor is a handler of the runner service, and goes on
when its client gives up. `setting` ranges over every deployment: remote or
local, docker or subprocess, token or none, safe framework or not, unsandboxed
execution allowed or not.

Docker may fail a call it has carried out. `containers.run(detach=True)` creates and
starts the container in front of the `try` whose `finally` removes it
(`runner.py:287-291`), so a start that raises (`StartRaises`) may leave a container,
created or running, that nobody waits for and nobody removes; so may a removal
that fails (`RemoveFails`). `left` keeps such containers; one that runs may end by
itself (`StrayExits`) or never. A wait that times out leaves the container running
until `Collect` removes it by force.

`TierPipeline` extends it with one evaluation: `Tier1`, `Tier2` (one condition at
a time, `clean` first), `Tier3`, `AdapterFails`, `InfraFailure`, and `VerdictOf`,
which is `score_run` with `decide_verdict`. `subject` ranges over golden set
present or not, every set of ratified thresholds, sources declared or not, and
classes that localize or not. What predictions are worth is three facts: the
gated metric absent, below or at its minimum; the accounting valid or not; a
safety floor breached or not.

### The pure decisions

They keep no state. `Cases` has one variable, the input, and each module states
its properties of one input; `MCRules` enumerates the inputs.

| module | code | reference it is checked against |
|---|---|---|
| `Coverage` | `compute_coverage`, `canonicalize` | validity and counts stated on the raw predictions |
| `Scores` | `evaluate_classification`, `_match_counts`, `reduce_instances_to_semantic`, mean IoU | monotonicity under omission; ownership of a pixel by maximal score |
| `Grounding` | `evaluate_grounding`, `_grounding_evidence` | silence never helps; a measured score names its evidence |
| `Intake` | `register_golden_set`, `validate_dataset`, `perturb_dataset`, floors | what a faithful model scores on the set later, by `Coverage` |
| `Access` | the scopes of `api/auth.py` in list, page, history, run, queue and status | the endpoints against each other |
| `Adapters` | `submit_model`'s checks, the support tables, the three adapters, `job.run` | the table against what artifacts yield |
| `ModelCards` | `split_human_sections`, `generate`, `_upsert_card`, `_regenerate_card` | the two ways to fill a card against each other |

Numbers are percentages or multiples of 1/60 (`Scale`), so that sums of ratios are
exact; rounding to four digits is left out. Boxes are a matrix of overlaps, masks
are sets of pixels.

## 4. The runs

Passing runs:

| run | shows | bounds |
|---|---|---|
| `outbox_once` | `SingleHolder`, `AtMostOneRun`, `CompletedIsFinal`, `ImplementsContract` in a clean environment, overtaken failures of workers included | 2 intents, 2 workers, 1 dispatcher, 2 attempts, 4 faults |
| `outbox_any_fault` | `TypeOK`, `LedgerExact`, `FinishedAttemptsFrozen` under every fault, and `Settles` under fairness | 1 intent, 2 workers, 1 dispatcher, 2 attempts, all kinds, 4 faults |
| `adjudication_gate` | `StatusIsAccounted`, `OneDecisionPerRun`, `ImplementsGate`; `RunnerHoldsMutex`, `EvaluatingIsOwned`, `LegalMovesOnly` with reviewers at work | 1 version, 2 workers, 2 reviewers, dispatcher, 1 golden set, 2 faults |
| `evaluation_current` | `CurrentEvidence`, overlapping evaluations, doubled retries, overrun leases, overtaken reclaims and failures included | 2 workers, direct publishes only, 2 golden sets, 2 retries, 2 faults |
| `evaluation_served` | `SubmissionIsEvaluated`, `ClaimIsServed` under fairness | 2 workers, 1 golden set, 2 attempts, 2 faults |
| `evidence_files` | `CommittedKeepsEvidence`, `FailureLeavesOnlyRefused`, refused removals included | 2 runs, up to 2 outcomes each, one shared artifact; any number of faults |
| `artifact_intake` | `FilesMatchRows` and unique rows (`IngestTypeOK`); `AbandonedIsSwept`, `EveryoneIsAnswered` under fairness, uncaught errors included | one submission that may have been accepted before and two concurrent ones, 1 name, 2 versions; any number of faults |
| `tier_gate` | `PassIsEarned`, `FailIsTheModels`, `NothingSkipped`, `JobsAreContained`; `EvaluationEnds` under fairness, daemons that fail half way included | one evaluation, `clean` and one perturbed condition, every setting and subject |
| `rules` | the properties of the pure decisions (below) | every input of the sets in `MCRules` |

What `rules` shows:

* `AccountingIsExact`: output is trusted exactly when it is, on the raw
  predictions, free of duplicates, strangers, bad values, boxes and masks,
  whatever the bound on kept examples and the label map hide; and every image
  and prediction is counted once. Up to 3 predictions, 2 images and a stranger,
  and a bound of one example, so that every list overflows.
* `OmissionNeverHelps`, `RecallIsNotInflated`, `OwnerIsMostConfident`: leaving
  predictions out lifts neither accuracies nor recalls; greedy matching finds no
  more objects than there are and no fewer with more boxes; a pixel is its most
  confident instance's. Up to 3 predictions, boxes or masks of 2 labels.
* `GroundingIsEvidence`: silence is never better grounded, and a measured score
  rests on an approved method, samples enough and valid values.
* `RegistrationIsSound`: data that registration accepts are scorable, clean and
  perturbed, and its floors decide. It assumes readable images with distinct
  stems and no null box, see section 6.
* `ReadersAgree`: list, page, history, run, queue and status apply one rule. Two
  versions of one model or of two, two runs, every set of roles.
* `AdmittedRunsAsDeclared`: a pair of class and framework is admitted if and only
  if something can run it, and no PyTorch checkpoint is scored as what it is not.
* `CardKeepsItsWord`: human text survives regeneration, and the card a decision
  rebuilds from rows says what the run's card said.

Why the bounds are enough. Every race in the code is between two parties over one
row or file, so two workers, runs or submissions show it; a dispatcher, a reclaim,
the API, the janitor or an earlier submission is the third party. Two intents let
one worker be busy elsewhere (`outbox_once`); `outbox_any_fault` has one, so that it
can afford four faults without symmetry, which liveness needs. Two attempts are
enough for a retry and for the last attempt; two golden sets for an old and a new
one; two retries for two callers that mint one at once; four faults allow a crash, a
loss and a redelivery around one retry, and are one more than it takes to strand a
row (a message beside the dispatcher's, an overtaken mark, a crash). Two outcomes of
a run are enough for a move that fails between two. One perturbed condition after
`clean` gives tier 2 a first, a last and something to break between; the tier reads
its conditions one by one and keeps nothing of them but outcomes and one breach
flag.

`MaxAttempts` is 5 in the safety runs of `Evaluation` and `Adjudication`, so that
there retries do not run out within the bound on faults (section 6, stuck
version). In `adjudication_gate` the kinds `lost` and `abandon` are left out
because dying with a message or a claim in hand has the same effect; it has one
golden set because with two, and two workers, a version can have two open intents
and `RunnerHoldsMutex` fails (section 6, reclaim). The mutex fails by definition
under `stale_start` and `overrun`, and under `late_reclaim`, where the reset lands on a
claim made after its read; a doubled run that dies then leaves its version
`evaluating` too, so `EvaluatingIsOwned` and `SubmissionIsEvaluated` are not claimed
there. `evaluation_current` includes all these kinds to show what still holds.
`crash` and `api_crash` break `CurrentEvidence` (section 6), so they are in
`evaluation_served` and, the first, in `adjudication_gate`. Deadlock is not checked,
because the system may stop: when everything is settled and the budget of faults
is spent nothing is left to do.

`Settles` allows one row to stay unsettled: one that an overtaken `_mark_dispatched`
left `dispatched` without a lease (`Stranded`). The code has no way out of it, see
section 6; in a clean environment no row gets there (`LeasesAreHeld`).

Runs that find a statement of the repository violated by the code:

| run | statement | what happens |
|---|---|---|
| `outbox_twice` | recovery.md: no duplicate logical run from at-least-once delivery | a worker takes the API's own message and claims the intent inside the window of `_mark_dispatched`; the claim is overwritten with `dispatched`, the dispatcher publishes, a second worker claims the intent, both commit a run |
| `evaluation_registration_lost` | threat-model.md: a committed action never lacks its intent | the API dies between registering a golden set and flagging; nothing flags later |
| `evidence_torn` | orchestrator.py: a content-addressed artifact is a real file, written once | a write raises half way and its torn file stays; another run with the same evidence takes it for a whole one and commits |

### Fairness

`Fairness` and `EvaluationFairness` assume: the dispatcher's steps are taken when
they stay possible, and so is an overtaken transaction's commit (`worker/main.py`
runs `run_once` at boot and asks production to run it on a timer), queued messages
are delivered, leases and backoffs run out, and a worker inside `evaluate_version`
goes on (the sandbox has a timeout and RQ a job timeout). Faults are never assumed
to happen or to stop, but their number is bounded. Submissions, registrations, the
API's own calls after a commit and boot passes are not assumed to happen. All of it
is weak.

`IngestFairness`: a request that runs goes on, which for an insert that waits on
another transaction means as soon as it may; a file left alone ages; the janitor
is run periodically (artifact_janitor.py:8). The janitor's look is strongly fair
for each file, since one sweep looks at every file, while another file may be
in its hand at any one moment.

`PipelineFairness`: worker and executor go on, and the wall clock of a job its
executor waits for runs out (`TIMEOUT_S`). Nothing assumes that a job exits by
itself, that a client gives up, or that the daemon removes a container (`RemoveFails`,
which leaks it, may be taken instead). `EvaluationEnds` is about the evaluation and
its executor: a container a raised start left has no wall clock, and its evaluation
ends without it, as infra.

## 5. The proofs

Eight modules hold theorems. None is about a bounded instance: sets of intents,
workers, versions, reviewers, runs, files, requests, conditions, images, predictions
and boxes are arbitrary, and so are the numbers that TLC bounds. Every safety
invariant and every action property of the passing runs has a theorem.

### JobIntentsProofs

* `TypeCorrect`: `Spec => []TypeOK`.
* `LedgerIsExact`: `Spec => []LedgerExact`, under every fault kind. `LedgerExact`
  is not inductive: a claim in flight carries a number read earlier. `LedgerInv`
  adds that no number in use is above the counter and that a claim in flight
  plans at most the next number; with the unique constraint the two give
  exactness.
* `FinishedRowsStay`: `Spec => FinishedAttemptsFrozen`, under every fault kind, also
  those that let two workers hold one intent. `RowOwner` carries it: every worker
  past its claim owns a ledger row that is still open, and no other worker owns
  that row, so a late settlement reaches only its own; a failed publish carries no
  row number at all.
* `ExactlyOnce`: `CleanEnvironment => (Spec => []AtMostOneRun /\ []SingleHolder)`.
  The invariant is `IInv == TypeOK /\ LedgerInv /\ OwnershipInv`. At its heart
  are `HolderOwnsRow` (a holder has the live lease and an open ledger row) and
  `OpenClaimIsCurrent`: the decision a claim read stays good for as long as the
  number it read is still free, because whoever changes the row to make it
  stale (another claim, or a duplicate) takes that number.
* `CompletedStays`: `CleanEnvironment => (Spec => CompletedIsFinal)`. A worker's
  overtaken `fail_intent` cannot undo a completion: what it read it read under its
  own claim, and while it holds that nobody else completes the intent.
* `LeasesAreHeld`: `CleanEnvironment => (Spec => []LeasedRowsHoldLease)`: a row that is
  out for work has a lease, by which alone the reclaim can find it.
* `OutboxImplementsContract`: `CleanEnvironment => (Spec => ImplementsContract)`,
  from the same invariant, one lemma for each action.

`CleanEnvironment` (no `publish_error`, `lost_update`, `overrun`, `late_mark` or
`late_reclaim`) is a hypothesis about the environment and not something the code
provides. It is necessary: `outbox_twice` and section 6 show two runs of one intent
under `late_mark`, `publish_error` and `lost_update`; an overtaken reclaim overwrites a
new claim in the same way; a run longer than its lease is what `overrun` is. What
holds without it are `TypeCorrect`, `LedgerIsExact` and `FinishedRowsStay`.

### EvaluationProofs

The composition adds rows, messages and releases to the outbox (`Addition`,
`Refusal`); that these keep the invariants of `JobIntentsProofs` is proved once,
and every step of `Evaluation` is shown to be a step of the outbox with an
addition, or a refusal. That gives, besides `EvaluationTypeCorrect`:

* `EvaluationLedgerExact`, in any environment, and `EvaluationExactlyOnce`, in a
  clean one: the promises of the outbox survive the composition, where an
  evaluation may fail late and the recheck adds rows.
* `MutexIsHeld` and `MovesAreLegal`:
  `SoloEnvironment => (EvaluationSpec /\ []OneOpenIntent => ...)`. A run in progress has its
  version `evaluating` and to itself, and every status write is legal, also those
  that skip `assert_transition`. `MutexInv` strengthens: workers between the start
  of a run and the end of its status writes hold the mutex (`BusyHoldsMutex`) and
  are alone (`BusyAlone`); a claim granted beside a reset outlives it, so that the
  reclaim does not free a version somebody has just taken (`ResetNotOvertaken`);
  rows are about versions there are (`KnownVersions`).
* `EvaluatingHasOwner`: in a clean environment an `evaluating` version has an intent
  that is not completed; while none is parked, one that a lease, a retry or a
  worker frees (`EvaluatingIsOwned`).
* `OneIntentAtATime` and `SmallestInstallation`: with `MaxGolden <= 1` and
  `MaxRetries = 0`, `[]OneOpenIntent` follows, and the mutex and the legal moves
  are consequences of the constants alone. `SecondAfterFirst` and
  `RunsAreCommitted` carry it: the intent of the golden set is minted only once
  the submission's is completed, and a completed one is never reopened.
* `ClaimIsNeverLost` and `RunsInOrder` (`ClaimsServed`, `EntriesInOrder`), in any
  environment: until a run on a claimed
  golden set or on a newer one is committed, the intent that claimed it is open
  or parked; and of two runs of a version the later saw no older set.
  `RegistrationInv` has the order (`EntriesInOrder`), its bounds (`EntriesBounded`),
  which set a run serves (`RunServesItsSet`), and that intents of sets exist only
  for registered ones (`GoldenRegistered`).
* `EvidenceStaysCurrent`: `{"crash", "api_crash"} \cap FaultKinds = {} =>
  (EvaluationSpec /\ []NoneParked => []CurrentEvidence)`, from `RegistrationInv` and
  `ClaimedOrChecked`: for a version judged on an older set either the claim stands
  or somebody is still to check.

### AdjudicationProofs

* `AdjudicationTypeCorrect` and `DecidedOnce`, in any environment: however many
  reviewers read a run open, one decision is recorded on it.
* `DecisionsStrandNothing`, in a clean environment, late decisions included.
* `StatusAccounted`, `DecisionsRespectMutex` and `GateIsImplemented`:
  `PromptEnvironment => (AdjudicationSpec /\ []OneOpenIntent => ...)`. The last is the
  refinement `AdjudicationSpec => ApprovalGate`, one lemma for starts, commits and
  decisions and one for all the steps that stutter. `GateInv` adds to `VersionInv`
  that the newest run of a version is what its status rests on (`NewestInv`),
  that a request that is still good is about that run (`RequestsStand`), and
  `StatusIsAccounted` itself.
* `SmallestInstallationGate`: with `MaxGolden <= 1` and `MaxRetries = 0` the refinement
  and `StatusIsAccounted` need nothing of the behaviours.

### EvidenceStageProofs and ArtifactIngestProofs

* `EvidenceTypeCorrect`, `CommittedEvidenceKept`, `DiscardIsThorough`: neither file
  property is inductive; `EvidenceInv` says for each place of a worker what is
  published, and that this is what `discard` will find recorded or has been refused
  (`OnlyRefused`). The last theorem says that a refused removal stops no other: what
  is left of a run whose failure was handled is exactly what the file system would
  not remove. The orphan sweep touches only staging directories, which nothing in
  it rests on.
* `IngestTypeCorrect`, `FilesAndRowsMatch`: `IngestInv` says what files and flushed
  rows a request has at each place, and, for two requests, that flushed and stored
  rows share no key; the latter is what makes the unique constraints decide
  between two commits. A step is shown to touch its own request only. What is
  proved of a refused submission is that it has no row, and that no file is left
  unless an error was not caught (500) or `rmtree` would not remove the artifact; of
  the former, that not both files are left.

### TierPipelineProofs

* `JobsContained` from `SandboxInv` and `StrayInv`: an executor that is idle has no job
  of its own, also when the client of a remote one has given up; a container left
  by a start or a removal that raised is never that of an evaluation that is
  judged, unless it has stopped; untrusted weights run outside a container only
  where the operator allowed it.
* `PipelineTypeCorrect`, `NoTierSkipped`, `PassIsDeserved` from `TiersInv`: the
  outcome at place `i` of a run is of the tier and condition that belong there, and
  what it says is earned by the golden set, the ratified thresholds and the weights.
* `FailIsEarned` needs in addition `NoneUndecided`: what scoring produces is decided;
  only an infra failure leaves an outcome open, and it is never judged.

### RuleProofs

* `ReadersAlwaysAgree`: for any callers, roles, versions and runs. Runs are listed in
  the order of their starts (`AccessCase`), as the table returns them.
* `OmittingNeverHelps`: for any finite data set and list of predictions.
* `AdmittedCanRun`: for every declared class and framework.
* `CardsKeepTheirWord`: for any text and runs that are lists (`TextCase`, `CardCase`).

### MetricProofs

The metrics walk through lists and sets; the models say so with folds. The
library's induction theorems take a predicate as a parameter, which the provers
cannot instantiate, so induction is stated here of a set of numbers (`Steps`) or a
set of sets (`Shrinking`, `Growing`), which can be any set and needs no operator. A
fold is then replaced by the list of its intermediate results (`FoldUnrolls`,
`SetFoldExists`), and what the program keeps in a loop is an invariant of that
list.

* `AccountingAlwaysExact`: for any finite set of images and list of predictions,
  any label map and any bound on the examples kept. The counters are sums over
  images, the issues found come from each prediction in turn, and relabelling can
  neither make a score finite nor unmake one (`CanonicalKeeps`, `MergedIsNaN`).
* `RegistrationIsAlwaysSound`: for any files, annotations and manifest. A faithful
  model answers every image once with the objects in the data (`FaithfulIsTrusted`),
  their masks have the size of the image (`MasksFit`), and perturbing keeps names
  and sizes. It rests on `AccountingAlwaysExact`'s lemmas.
* `GroundingIsAlwaysEvidence`: for any number of images, objects and attributions.
  The pointing game divides by all objects that can be pointed at, so where it is
  the method, a list with one attribution less scores no higher (`SilenceTells`);
  a measured score, by either method, rests on valid values (`MeasuredTells`).
* `OwnerIsAlwaysMostConfident`: `Semantic` paints by falling score. That the order
  exists and is the only one is proved too (`ByScoreRanks`): the number of entries
  ahead of an entry is its place. A pixel goes to the first that covers it
  (`PaintedByTheFirst`).
* `RecallIsNeverInflated`: greedy matching is not monotone box by box: without a
  box, others take other objects. What is invariant is that the objects taken so
  far without it are those taken with it, or all of those but one (`Behind`); each
  later box keeps that (`TakeBehind`), since without the box it takes the same object
  as with it, or the one that was missing.
* `RulesAlwaysHold`: any set of proper inputs, taken one after the other, keeps all
  nine rules: `Proper(c)` is the conjunction of the hypotheses below.

The hypotheses say what kind of thing an input is, never how large: `CoverageCase`
(finitely many images, a list of predictions), `IntakeCase` (lists of files and of
objects), `GroundingCase` (finitely many images with lists of objects, energies from
0 to 100 percent, missing or invalid), `MasksCase` (instances of pixels of the
image), `DetectionCase` (boxes, objects, and an overlap for each of both),
`ClassificationCase`, `AccessCase`, `TextCase`, `CardCase`. TLC finds each of them
true of every input of the run `rules`.

### Hypotheses and assumptions

* `SoloEnvironment` is `CleanEnvironment` without `stale_start`, `PromptEnvironment` is
  `SoloEnvironment` without `late_decision`: the two windows between a read and a
  commit that nothing in the code closes (sections 3 and 6).
* `[]OneOpenIntent`, that a version has one open intent at a time, is a condition on
  behaviours. It cannot be dropped: of two open intents, one's lease may run out
  after a refused start while the other is being run, and the reclaim frees the
  version under it (section 6). It is met where evaluations of a version finish
  before the next golden set is registered; the two theorems on the smallest
  installation show that configurations exist in which it always is.
* `[]NoneParked` excludes intents that failed for good. It cannot be dropped either:
  a worker that dies between the last `fail_intent` and `_reset_to_pending` leaves
  the version `evaluating` (section 6), and a parked intent waits for an operator.
* That no process dies between its transactions, in `EvidenceStaysCurrent`, cannot be
  dropped: the API's death is the run `evaluation_registration_lost`, the worker's is
  in section 6 (recheck).
* On constants: `ConstantsAssumption`, `EvaluationAssumption`, `AdjudicationAssumption`,
  `OutcomesAssumption`, `BodyAssumption`, `EarlierAssumption`, `NoFileAssumption`,
  `SlowAssumption`, `PerturbedAssumption`, `IssuesAssumption`, `NaNAssumption`,
  `InvalidAssumption`, `NoMethodAssumption`. They say that bounds are numbers, that
  placeholders are no members, and that perturbed conditions are a list.

TLC checked `EvidenceInv`, `IngestInv`, `SandboxInv` and `TiersInv` on the instances
of the runs before they were proved.

### Only model-checked

* Liveness (`Settles`, `SubmissionIsEvaluated`, `ClaimIsServed`, `AbandonedIsSwept`,
  `EveryoneIsAnswered`, `EvaluationEnds`) and fairness: outside the prover's reach.
  `ClaimIsNeverLost` and `EvaluatingHasOwner` are the safety they rest on.
* The three runs that find a statement violated, which are counterexamples.

## 6. Where code and text disagree

Besides the three violation runs, modelling met the following. Each of the first
group can be seen by changing a configuration as described.

* *Duplicate run.* `recovery.md:109` promises no duplicate logical run. Besides the
  window of `_mark_dispatched` (`outbox_twice`), a publish that raises although the
  broker accepted it makes `dispatcher.py:113` put the intent back to pending while a
  worker holds it: `outbox_twice` with the one kind `publish_error` violates
  `AtMostOneRun`. The reclaim overwrites a claim made after its read, or forgets that a
  claim is being made: kinds `late_reclaim` and `lost_update`.
* *Stranded intent.* `dispatcher.py:80-81` says a crash between lease and publish is
  reclaimed. A completion inside the window of `_mark_dispatched` clears the lease, the
  row becomes `dispatched` without one, and when the dispatcher dies before its publish
  nothing finds the row: `dispatcher.py:45-46` asks for `leased_until`. `outbox_any_fault`
  without the second disjunct of `Settles` violates it.
* *Reclaim of a live version.* `dispatcher.py:61-62` says the reset only fires for a
  dead worker. The lease is the intent's, the status the version's: a claim left open
  by a dead worker or a refused start runs out while another worker runs the
  version, and the reset takes its status. `MCEvaluation` with two workers, one
  dispatcher, `MaxGolden = 2`, `MaxFaults = 2` and the kinds `work_error`, `abandon`, `crash`
  violates `RunnerHoldsMutex`.
* *Lost recheck.* A golden set registered while a version is in its first run cannot
  flag it (`orchestrator.py:419-424`), so the worker rechecks after its run, in a
  transaction of its own (`:425`). When it dies between the two the version stays
  decided on the old set with nothing open. `evaluation_registration_lost` with the
  kind `crash` instead of `api_crash` violates `CurrentEvidence` so.
* *Stuck version.* `orchestrator.py:408-410` says a version is never left `evaluating`
  with no run. After the last attempt, a death between `fail_intent` and
  `_reset_to_pending` leaves it so. `MCEvaluation` with one worker, `MaxGolden = 0`,
  `MaxAttempts = 1`, `MaxFaults = 2` and the kinds `crash`, `work_error` violates
  `EvaluatingIsOwned`.
* *Late decision.* `adjudication.py:90-91` and `state_machine.py:94` ask that a decision
  meet the current case; nothing compares at the commit. `MCAdjudication` with one
  worker, one reviewer, `MaxGolden = 2` and the kind `late_decision` violates
  `ImplementsGate`.
* *Evidence left.* `evidence_store.py:84-85` says a rolled-back run leaves no evidence
  behind; removals that fail are ignored (`:86-97`). `evidence_files` violates
  `RolledBackLeavesNothing`.
* *Evidence not reported.* `evidence_store.py:18-19` says files published before a crash
  that prevents the commit are swept by way of `orphaned_evidence`, which looks at staging
  directories only (`reconciliation.py:62`). `evidence_files` violates
  `OrphansAreReported`.
* *Upload left.* `artifact_ingest.py:126-127` says a failed `finalize` is compensated. The
  `mkdir` of the destination (`:129`) and the unsupported type (`:132`) are not caught
  (`api/models.py:169-174`): the answer is 500 and the `.part` file waits for the janitor.
  `artifact_intake` violates the property `FailedFinalizeIsCompensated`.
* *Job left.* `runner.py:302` says nothing survives the run. `containers.run` is outside
  the `try` (`:287-291`), so what it started before it raised runs on. `tier_gate` violates
  `NothingOutlivesItsRun`.
* *Omission improves.* `coverage.py:3-5` says omitting predictions can never improve a
  score. A wrong answer left out raises macro F1 (`classification.py:60`) and mean IoU
  (`segmentation.py:213`). `rules` violates `OmissionNeverImproves`.
* *Doubled retry.* `orchestrator.py:96-97` says a duplicate is never minted. Two callers,
  say the boot passes of two workers, both find nothing in flight and both mint
  an operator retry. In `evaluation_current` two retries of one version are in
  flight at once; `CurrentEvidence` holds all the same.
* *Infra failure.* `recovery.md:95-96` says an infra failure is retried by the intent;
  `orchestrator.py:369` completes the intent. `ClaimIsServed` counts an infra run.
* *Retries cut short.* `recovery.md:67-68` parks an intent after `MAX_ATTEMPTS`
  failures; duplicate deliveries advance the same counter (`jobs.py:153`).

Smaller ones, from reading:

* A finalised artifact left by a crash or by a 500 has no sweep.
* `datasets.py:121-122` promises that what it accepts is scorable. Unreadable images
  and `"bbox": null` pass and end every evaluation as infra; `a.png` beside `a.jpg`
  passes and gives duplicate predictions. The premises of `RegisteredIsScorable`
  name these; without them TLC finds each.
* A safety class that the data do not contain breaches for every model. That is
  fail-closed, and permanent.
* `coverage.py:82-85` says malformed lists are reported and not scored; the scorer
  reads them and raises (`detection.py:61`), which ends the run as infra.
* Only the stub emits attributions, so a real framework never has its grounding
  measured and is never approved without a human.
* Detection checks neither the task nor the names of a PyTorch checkpoint; a raw
  module gets numeric labels; an ONNX detector submitted as a classifier is scored.
* Malformed ONNX metadata, and a stub artifact that is a JSON array, end the job
  with an exception that is no `AdapterError`.
* A machine-block marker typed into a card's human text cuts the text there. The
  card names tier 1's isolation mode only.
* `runner.sandbox_mode()` defaults to `auto` while the configuration's default is
  `docker`. Tier 3 applies neither label map nor coverage.
* `adjudication.py:115` stores the bare subject as reviewer; the docstring of
  `auth.py` says never to.
* An `IntegrityError` at the flush of a new `Model` (`api/models.py:110`) is not caught
  and is answered 500 (`InsertModel`).

## 7. Not modelled

`PROJECT.json` lists each part with its reason. In short: configuration and audit
are guards and appends without state of their own; tokens and keys are PyJWT's;
COCO AP is pycocotools'; networks, images, RLE and pixel arithmetic are numerics
without protocol; the frontend and the scripts make no decision. Left out of
modelled parts: `HARNESS_EVAL_MODE=inline` (development), the race of two
registrations of one golden set (one unique constraint decides it), golden data
that change between the checksum test and the jobs of tier 2 (`orchestrator.py:291`),
a worker killed in the middle of a job, whose container nobody removes, the
append-only guard, and the migrations.
