----------------------------- MODULE Evaluation -----------------------------
(***************************************************************************)
(* The life of a ModelVersion under evaluation: submission, the evaluation *)
(* a worker runs under its claim, the re-evaluations a golden set causes,  *)
(* and the recovery passes (backend/app/services/orchestrator.py,          *)
(* state_machine.py, and the calls of api/models.py and api/golden_sets.py *)
(* into them).  It composes module JobIntents: every outbox step is a step *)
(* of that module, conjoined with what it means for the versions.          *)
(*                                                                         *)
(* ModelVersion.status is also the only mutex between evaluations of one   *)
(* version: a run may start unless the version is `evaluating`.            *)
(*                                                                         *)
(* There is one model class.  Golden sets are numbered in the order of     *)
(* their registration, so the number of sets is the latest set, and 0      *)
(* stands for "no golden set".  An intent is named by its idempotency key: *)
(*   <<v, 0>>           the submission of v                                *)
(*   <<v, g>>           the re-evaluation of v for golden set g            *)
(*   <<v, n>>, n > MaxGolden   an operator retry                           *)
(* The tiers themselves are a choice of outcome (Verdicts, infra).         *)
(*                                                                         *)
(* Of the transactions of one worker, the start is two steps (ReadStatus,  *)
(* Start), and so are the failure and the reclaim when they are overtaken  *)
(* (JobIntents).  The completion and _reset_to_pending are one step each:  *)
(* what they write of the version while somebody else writes it too takes  *)
(* a second evaluation or a late decision, which stale_start, overrun,     *)
(* late_decision and the reclaim of a live version bring about already.    *)
(***************************************************************************)
EXTENDS JobIntents

CONSTANTS
  Version,     \* identities of ModelVersion rows
  Verdicts,    \* bound: verdicts a scored run may have
  MaxGolden,   \* bound: golden sets registered in one behaviour
  MaxRetries   \* bound: operator_retry intents per version

ASSUME EvaluationAssumption ==
  /\ Verdicts \subseteq {"pass", "fail", "pending_adjudication"}
  /\ MaxGolden \in Nat /\ MaxRetries \in Nat
  /\ Intent = Version \X (0..(MaxGolden + MaxRetries))

VARIABLES
  status,     \* ModelVersion.status, or "absent"
  golden,     \* number of the latest golden set
  runs,       \* the EvaluationRun table
  starts,     \* evaluations of a version begun so far: the clock of started_at
  claims,     \* the ReevaluationClaim table
  claimedAt,  \* the clock when the latest claim of a version was made
  toFlag,     \* registered sets whose reevaluate_for_golden_set has yet to run
  toEnqueue,  \* versions an API or booting process will enqueue next
  minting,    \* how many of them found nothing in flight and mint a retry
  freeing,    \* the versions an overtaken reclaim read as `evaluating`
  stage,      \* where a worker stands between its claim and its return
  captured,   \* the golden set its run is bound to
  began,      \* its run's started_at
  outlives    \* the workers that were at work when an intent was claimed

outboxVars == vars
tableVars == <<status, golden, runs, starts, claims, claimedAt>>
apiVars == <<toFlag, toEnqueue, minting, freeing>>
runVars == <<stage, captured, began>>
allVars == <<outboxVars, tableVars, apiVars, runVars, outlives>>

Decided == {"approved", "rejected", "pending_adjudication"}
Outcome == Verdicts \cup {"infra"}
VersionOf(i) == i[1]
IntentsOf(v) == {i \in Intent : VersionOf(i) = v}
OnVersion(w, v) == job[w] # NoIntent /\ VersionOf(job[w]) = v
Running(w, v) == stage[w] = "running" /\ OnVersion(w, v)

EvaluationTypeOK ==
  /\ status \in [Version -> Decided \cup {"absent", "pending", "evaluating"}]
  /\ golden \in 0..MaxGolden
  /\ runs \subseteq [intent : Intent, golden : 0..MaxGolden, started : Nat,
                     outcome : Outcome]
  /\ starts \in [Version -> Nat]
  /\ claims \subseteq Version \X (1..MaxGolden)
  /\ claimedAt \in [Version -> Nat]
  /\ toFlag \subseteq 1..golden
  /\ toEnqueue \subseteq Version
  /\ minting \in [Version -> Nat]
  /\ freeing \subseteq Version
  /\ stage \in [Worker -> {"none", "claimed", "starting", "running", "resetting",
                           "recheck", "enqueue", "minting"}]
  /\ \A w \in Worker :
       /\ stage[w] \in {"claimed", "starting", "running"} <=> pc[w] = "held"
       /\ stage[w] \in {"resetting", "recheck", "enqueue", "minting"} <=> pc[w] = "tail"
  /\ captured \in [Worker -> 0..MaxGolden]
  /\ began \in [Worker -> Nat]
  /\ outlives \in [Intent -> SUBSET Worker]

EvaluationInit ==
  /\ Init
  /\ status = [v \in Version |-> "absent"]
  /\ golden = 0
  /\ runs = {}
  /\ starts = [v \in Version |-> 0]
  /\ claims = {}
  /\ claimedAt = [v \in Version |-> 0]
  /\ toFlag = {}
  /\ toEnqueue = {}
  /\ minting = [v \in Version |-> 0]
  /\ freeing = {}
  /\ stage = [w \in Worker |-> "none"]
  /\ captured = [w \in Worker |-> 0]
  /\ began = [w \in Worker |-> 0]
  /\ outlives = [i \in Intent |-> {}]

-----------------------------------------------------------------------------
(* state_machine.py *)

Transitions ==
  {"pending", "approved", "rejected", "pending_adjudication"} \X {"evaluating"}
  \cup {"evaluating"} \X {"approved", "rejected", "pending_adjudication", "pending"}
  \cup {"pending_adjudication"} \X {"approved", "rejected"}

StatusForVerdict ==
  [pass |-> "approved", fail |-> "rejected",
   pending_adjudication |-> "pending_adjudication"]

MayMove(v, to) == <<status[v], to>> \in Transitions

SetStatus(v, to) == status' = [status EXCEPT ![v] = to]

-----------------------------------------------------------------------------
(* Enqueueing *)

NonTerminal == {"pending", "dispatching", "dispatched", "claimed"}
InFlight(v) == {i \in IntentsOf(v) : state[i] \in NonTerminal}
Retries(v) == {<<v, n>> : n \in (MaxGolden + 1)..(MaxGolden + MaxRetries)}

\* enqueue_evaluation where it finds an intent in flight: a pending one is
\* published again, any other is left to whoever has it
Republish(v) ==
  \/ \E i \in InFlight(v) : state[i] = "pending" /\ Enqueue(i) /\ UNCHANGED intentVars
  \/ /\ InFlight(v) # {}
     /\ \A i \in InFlight(v) : state[i] # "pending"
     /\ UNCHANGED <<intentVars, queue>>

\* where it finds none, it will mint a fresh operator retry (bound: MaxRetries)
NothingInFlight(v) ==
  /\ InFlight(v) = {}
  /\ \E i \in Retries(v) : state[i] = "absent"
  /\ UNCHANGED <<intentVars, queue>>

\* the commit and publish of the retry, whatever is in flight by then; retries
\* are told apart by a random occasion, here by their turn
MintRetry(v) ==
  \E i \in Retries(v) :
    /\ \A j \in Retries(v) : j[2] < i[2] => state[j] # "absent"
    /\ CreateIntents({i})
    /\ Enqueue(i)

\* api/models.py submit: version and intent in one transaction, then one
\* publish whose failure is swallowed
Submit(v) ==
  /\ status[v] = "absent"
  /\ SetStatus(v, "pending")
  /\ CreateIntents({<<v, 0>>})
  /\ Enqueue(<<v, 0>>) \/ UNCHANGED queue
  /\ NoFault
  /\ UNCHANGED <<dispatcherVars, workerVars, golden, runs, starts, claims,
                 claimedAt, apiVars, runVars>>

\* api/golden_sets.py register: the set commits on its own
RegisterGolden ==
  /\ golden < MaxGolden
  /\ golden' = golden + 1
  /\ toFlag' = toFlag \cup {golden + 1}
  /\ UNCHANGED <<outboxVars, status, runs, starts, claims, claimedAt, toEnqueue,
                 minting, freeing, runVars>>

RunsOn(v) == {r \in runs : VersionOf(r.intent) = v}

IsLatestRun(r) ==
  \A s \in RunsOn(VersionOf(r.intent)) : s.started <= r.started

\* mutant: cases awaiting adjudication keep their stale evidence
EligibleUnlessFlagged(g) ==
  {v \in Version :
     \/ /\ \E r \in RunsOn(v) : r.golden \in (1..golden) \ {g}
        /\ status[v] \in {"approved", "rejected"}
     \/ /\ \E r \in RunsOn(v) : r.golden = 0 /\ r.outcome = "infra"
        /\ status[v] = "pending"}

\* the versions a new set g sends back to evaluation
Eligible(g) ==
  {v \in Version :
     \/ /\ \E r \in RunsOn(v) : r.golden \in (1..golden) \ {g}
        /\ status[v] \in Decided
     \/ /\ \E r \in RunsOn(v) : r.golden = 0 /\ r.outcome = "infra"
        /\ status[v] = "pending"}

\* mutant: the claim commits without its intent
ClaimWithoutIntent(S, g) ==
  /\ claims' = claims \cup (S \X {g})
  /\ claimedAt' = [v \in Version |-> IF v \in S THEN starts[v] ELSE claimedAt[v]]
  /\ UNCHANGED intentVars

\* _claim_reevaluation for every v of S, with its intent
ClaimReevaluation(S, g) ==
  /\ claims' = claims \cup (S \X {g})
  /\ claimedAt' = [v \in Version |-> IF v \in S THEN starts[v] ELSE claimedAt[v]]
  /\ CreateIntents(S \X {g})

Unclaimed(S, g) == {v \in S : <<v, g>> \notin claims}

\* reevaluate_for_golden_set's transaction; the enqueues follow
FlagForReevaluation(g) ==
  /\ g \in toFlag
  /\ toFlag' = toFlag \ {g}
  /\ LET flagged == Unclaimed(Eligible(g), g)
     IN  ClaimReevaluation(flagged, g) /\ toEnqueue' = toEnqueue \cup flagged
  /\ NoFault
  /\ UNCHANGED <<queue, dispatcherVars, workerVars, status, golden, runs, starts,
                 minting, freeing, runVars>>

EnqueueFlagged(v) ==
  /\ v \in toEnqueue
  /\ toEnqueue' = toEnqueue \ {v}
  /\ \/ Republish(v) /\ UNCHANGED minting
     \/ NothingInFlight(v) /\ minting' = [minting EXCEPT ![v] = @ + 1]
  /\ NoFault
  /\ UNCHANGED <<dispatcherVars, workerVars, tableVars, toFlag, freeing, runVars>>

MintFlagged(v) ==
  /\ minting[v] > 0
  /\ minting' = [minting EXCEPT ![v] = @ - 1]
  /\ MintRetry(v)
  /\ NoFault
  /\ UNCHANGED <<dispatcherVars, workerVars, tableVars, toFlag, toEnqueue, freeing,
                 runVars>>

\* the API dies before one of its remaining calls
ApiDies ==
  /\ Fault("api_crash")
  /\ \/ \E g \in toFlag : toFlag' = toFlag \ {g} /\ UNCHANGED <<toEnqueue, minting>>
     \/ \E v \in toEnqueue : toEnqueue' = toEnqueue \ {v} /\ UNCHANGED <<toFlag, minting>>
     \/ \E v \in Version : /\ minting[v] > 0
                          /\ minting' = [minting EXCEPT ![v] = @ - 1]
                          /\ UNCHANGED <<toFlag, toEnqueue>>
  /\ UNCHANGED <<intentVars, queue, dispatcherVars, workerVars, tableVars, freeing,
                 runVars>>

\* the latest claim of v is newer than every run of v
Unserved(v) ==
  /\ \E g \in 1..golden : <<v, g>> \in claims
  /\ \A r \in RunsOn(v) : r.started <= claimedAt[v]

\* recover_orphaned_reevaluations, when a process boots
RecoverOrphans ==
  /\ Fault("boot")
  /\ toEnqueue' = toEnqueue \cup
       {v \in Version : Unserved(v) /\ status[v] # "evaluating"}
  /\ UNCHANGED <<intentVars, queue, dispatcherVars, workerVars, tableVars, toFlag,
                 minting, freeing, runVars>>

-----------------------------------------------------------------------------
(* evaluate_version, for the worker w that holds job[w] *)

Leave(w) ==
  /\ stage' = [stage EXCEPT ![w] = "none"]
  /\ captured' = [captured EXCEPT ![w] = 0]
  /\ began' = [began EXCEPT ![w] = 0]

At(w, from, to) ==
  /\ stage[w] = from
  /\ stage' = [stage EXCEPT ![w] = to]
  /\ UNCHANGED <<captured, began>>

Claim(w) ==
  /\ ClaimCommit(w)
  /\ At(w, "none", "claimed")
  /\ UNCHANGED <<tableVars, apiVars>>

\* the start transaction reads the status, without a lock, and may go on
ReadStatus(w) ==
  /\ At(w, "claimed", "starting")
  /\ MayMove(VersionOf(job[w]), "evaluating")
  /\ UNCHANGED <<outboxVars, tableVars, apiVars>>

\* it commits: the version becomes `evaluating`, whatever it is by now, and the
\* run captures the latest golden set
Start(w) ==
  LET v == VersionOf(job[w]) IN
  /\ stage[w] = "starting"
  /\ IF status[v] = "evaluating" THEN Fault("stale_start") ELSE NoFault
  /\ SetStatus(v, "evaluating")
  /\ starts' = [starts EXCEPT ![v] = @ + 1]
  /\ stage' = [stage EXCEPT ![w] = "running"]
  /\ captured' = [captured EXCEPT ![w] = golden]
  /\ began' = [began EXCEPT ![w] = starts[v] + 1]
  /\ UNCHANGED <<intentVars, queue, dispatcherVars, workerVars, golden, runs, claims,
                 claimedAt, apiVars>>

\* IllegalTransition leaves evaluate_version outside its try block: no
\* fail_intent, the claim stays open until its lease runs out
StartRefused(w) ==
  /\ stage[w] = "claimed"
  /\ ~MayMove(VersionOf(job[w]), "evaluating")
  /\ Release(w)
  /\ Leave(w)
  /\ NoFault
  /\ UNCHANGED <<intentVars, queue, dispatcherVars, tableVars, apiVars>>

\* without a golden set Tier 1 alone can decide, and only against the model
VerdictsWith(g) == IF g = 0 THEN Verdicts \ {"pass"} ELSE Verdicts

RecordRun(w, outcome) ==
  runs' = runs \cup {[intent |-> job[w], golden |-> captured[w],
                      started |-> began[w], outcome |-> outcome]}

\* mutant: an infra failure leaves the version `evaluating`
SettleInfraKeepingStatus(w) ==
  /\ At(w, "running", "recheck")
  /\ RecordRun(w, "infra")
  /\ Complete(w)
  /\ UNCHANGED <<status, golden, starts, claims, claimedAt, apiVars>>

\* the completion transaction of an infra failure: no guard on the status
SettleInfra(w) ==
  /\ At(w, "running", "recheck")
  /\ RecordRun(w, "infra")
  /\ SetStatus(VersionOf(job[w]), "pending")
  /\ Complete(w)
  /\ UNCHANGED <<golden, starts, claims, claimedAt, apiVars>>

\* the completion transaction of a scored run
SettleScored(w, verdict) ==
  LET v == VersionOf(job[w]) IN
  /\ At(w, "running", "recheck")
  /\ verdict \in VerdictsWith(captured[w])
  /\ MayMove(v, StatusForVerdict[verdict])
  /\ RecordRun(w, verdict)
  /\ SetStatus(v, StatusForVerdict[verdict])
  /\ Complete(w)
  /\ UNCHANGED <<golden, starts, claims, claimedAt, apiVars>>

\* the same transaction, refused by assert_transition or failing to persist
SettleRefused(w, verdict) ==
  /\ At(w, "running", "resetting")
  /\ verdict \in VerdictsWith(captured[w])
  /\ ~MayMove(VersionOf(job[w]), StatusForVerdict[verdict])
  /\ SettleFailed(w, TRUE)
  /\ NoFault
  /\ UNCHANGED <<tableVars, apiVars>>

PersistFails(w) ==
  /\ At(w, "running", "resetting")
  /\ Fail(w, TRUE)
  /\ UNCHANGED <<tableVars, apiVars>>

\* either of them with a fail_intent that is overtaken
PersistFailsLate(w) ==
  /\ stage[w] = "running"
  /\ FailReads(w, TRUE)
  /\ UNCHANGED <<tableVars, apiVars, runVars>>

FailureLands(w) ==
  /\ At(w, "running", "resetting")
  /\ FailCommits(w)
  /\ UNCHANGED <<tableVars, apiVars>>

\* _reset_to_pending, a transaction of its own after fail_intent's
ResetToPending(w) ==
  LET v == VersionOf(job[w]) IN
  /\ stage[w] = "resetting"
  /\ SetStatus(v, IF status[v] = "evaluating" THEN "pending" ELSE status[v])
  /\ Return(w)
  /\ Leave(w)
  /\ UNCHANGED <<golden, runs, starts, claims, claimedAt, apiVars>>

\* after the run: was a newer golden set registered meanwhile?
Recheck(w) ==
  LET v == VersionOf(job[w])
      mine == IF golden # captured[w] THEN Unclaimed({v}, golden) ELSE {}
  IN
  /\ stage[w] = "recheck"
  /\ \/ /\ mine = {}
        /\ Return(w)
        /\ Leave(w)
        /\ UNCHANGED <<claims, claimedAt>>
     \/ /\ mine = {v}
        /\ ClaimReevaluation({v}, golden)
        /\ At(w, "recheck", "enqueue")
        /\ NoFault
        /\ UNCHANGED <<queue, dispatcherVars, workerVars>>
  /\ UNCHANGED <<status, golden, runs, starts, apiVars>>

EnqueueStale(w) ==
  LET v == VersionOf(job[w]) IN
  /\ stage[w] = "enqueue"
  /\ \/ Republish(v) /\ Release(w) /\ Leave(w)
     \/ NothingInFlight(v) /\ At(w, "enqueue", "minting") /\ UNCHANGED workerVars
  /\ NoFault
  /\ UNCHANGED <<dispatcherVars, tableVars, apiVars>>

MintStale(w) ==
  /\ stage[w] = "minting"
  /\ MintRetry(VersionOf(job[w]))
  /\ Release(w)
  /\ Leave(w)
  /\ NoFault
  /\ UNCHANGED <<dispatcherVars, tableVars, apiVars>>

\* an exception outside the try blocks, or the death of the worker
Vanish(w) ==
  /\ WorkerDies(w) \/ Abandon(w)
  /\ Leave(w)
  /\ UNCHANGED <<tableVars, apiVars>>

-----------------------------------------------------------------------------
(* The outbox around it *)

\* mutant: a lost message frees the version too
VersionsOfOverdue == {VersionOf(i) : i \in Overdue}

\* versions whose worker is taken for dead: it let its claim run out
VersionsReclaimed == {VersionOf(i) : i \in {j \in Overdue : state[j] = "claimed"}}

\* mutant: the status is not looked at
FreedBlindly(v) == IF v \in VersionsReclaimed THEN "pending" ELSE status[v]

Freed(v) ==
  IF v \in VersionsReclaimed /\ status[v] = "evaluating" THEN "pending" ELSE status[v]

\* the reclaim also releases the versions of the claims it takes back
ReclaimLeases ==
  /\ Reclaim
  /\ status' = [v \in Version |-> Freed(v)]
  /\ UNCHANGED <<golden, runs, starts, claims, claimedAt, apiVars, runVars>>

\* the overtaken reclaim: the rows and the versions it read, it writes
ReclaimLeasesReads ==
  /\ ReclaimReads
  /\ freeing' = {v \in VersionsReclaimed : status[v] = "evaluating"}
  /\ UNCHANGED <<tableVars, toFlag, toEnqueue, minting, runVars>>

ReclaimLeasesCommits ==
  /\ ReclaimCommits
  /\ status' = [v \in Version |-> IF v \in freeing THEN "pending" ELSE status[v]]
  /\ freeing' = {}
  /\ UNCHANGED <<golden, runs, starts, claims, claimedAt, toFlag, toEnqueue, minting,
                 runVars>>

ReclaimLeasesDies ==
  /\ ReclaimDies
  /\ freeing' = {}
  /\ UNCHANGED <<tableVars, toFlag, toEnqueue, minting, runVars>>

LateReclaim == ReclaimLeasesReads \/ ReclaimLeasesCommits \/ ReclaimLeasesDies

\* every lease is LEASE_SECONDS long and no run is longer: a claim granted while
\* u was at work cannot run out before u is done
LeaseEnds(i) ==
  /\ outlives[i] = {} \/ "overrun" \in FaultKinds
  /\ LeaseRunsOut(i)

OutboxStep ==
  \/ \E d \in Dispatcher : DispatcherStep(d)
  \/ \E i \in Intent :
       PublishDirectly(i) \/ LoseMessage(i) \/ LeaseEnds(i) \/ BackoffEnds(i)
  \/ \E w \in Worker :
       \/ \E i \in Intent : Deliver(w, i)
       \/ DuplicateCommit(w)
       \/ ClaimConflict(w)

AtWork == {"held", "tail"}

TrackClaims ==
  outlives' = [i \in Intent |->
    {u \in Worker :
       /\ pc[u] \in AtWork /\ pc'[u] \in AtWork
       /\ u \in outlives[i] \/ \E w \in Worker : Claiming(w, i) /\ pc'[w] = "held"}]

\* an outbox step touches no version and no run
Aside == TrackClaims /\ UNCHANGED <<tableVars, apiVars, runVars>>

Settle(w) ==
  \/ SettleInfra(w)
  \/ \E verdict \in Verdicts : SettleScored(w, verdict) \/ SettleRefused(w, verdict)

EvaluateStep(w) ==
  \/ Claim(w)
  \/ ReadStatus(w)
  \/ Start(w)
  \/ StartRefused(w)
  \/ Settle(w)
  \/ PersistFails(w)
  \/ PersistFailsLate(w)
  \/ FailureLands(w)
  \/ ResetToPending(w)
  \/ Recheck(w)
  \/ EnqueueStale(w)
  \/ MintStale(w)
  \/ Vanish(w)

EvaluationNext ==
  /\ \/ \E v \in Version : Submit(v) \/ EnqueueFlagged(v) \/ MintFlagged(v)
     \/ RegisterGolden
     \/ \E g \in 1..MaxGolden : FlagForReevaluation(g)
     \/ ApiDies
     \/ RecoverOrphans
     \/ ReclaimLeases
     \/ LateReclaim
     \/ OutboxStep /\ UNCHANGED <<tableVars, apiVars, runVars>>
     \/ \E w \in Worker : EvaluateStep(w)
  /\ TrackClaims

EvaluationSpec == EvaluationInit /\ [][EvaluationNext]_allVars
-----------------------------------------------------------------------------
(* Properties *)

\* The status is a mutex: while a worker runs an evaluation its version stays
\* `evaluating` (dispatcher.py: the reset "only fires for a genuinely dead
\* worker"), so nobody else can start one.
RunnerHoldsMutex ==
  \A w \in Worker, v \in Version : Running(w, v) => status[v] = "evaluating"

\* A version is never left `evaluating` for good: a worker is still on it, or an
\* intent of it is still open, whose lease and retry will free it
\* (orchestrator.py: "never leave the version stuck `evaluating` with no run").
EvaluatingIsOwned ==
  \A v \in Version : status[v] = "evaluating" =>
    \/ InFlight(v) # {}
    \/ \E w \in Worker : stage[w] \in {"running", "resetting"} /\ OnVersion(w, v)

\* A version that was judged on an older golden set than the latest one is on
\* its way to be judged again (FR-004; threat-model.md: "a committed action never
\* lacks its evaluation intent").
CurrentEvidence ==
  \A v \in Version :
    /\ status[v] \in Decided
    /\ \E r \in RunsOn(v) : IsLatestRun(r) /\ r.golden \in 1..(golden - 1)
    => \/ golden \in toFlag
       \/ InFlight(v) # {}
       \/ \E w \in Worker : stage[w] = "recheck" /\ OnVersion(w, v)

\* the runs of a version and those in progress, by their start and golden set
Entries(v) ==
  {<<r.started, r.golden>> : r \in RunsOn(v)}
    \cup {<<began[w], captured[w]>> : w \in {u \in Worker : Running(u, v)}}

\* Of two runs of a version the later one saw no older golden set, so the newest
\* run is the one whose evidence is current, even while doubled runs settle in any
\* order (orchestrator: the golden set is captured where the version starts).
EntriesInOrder ==
  \A v \in Version : \A e, f \in Entries(v) : e[1] <= f[1] => e[2] <= f[2]

\* A claim, which nothing can make twice, has an intent that is open or parked, or
\* a run on its set or a newer one, whatever overtakes the transactions around it
\* (orchestrator.py: "SAME transaction as the claim (T055) so a lost publish is
\* recoverable").
ClaimsServed ==
  \A v \in Version, g \in 1..MaxGolden : <<v, g>> \in claims =>
    \/ state[<<v, g>>] \notin {"absent", "completed"}
    \/ \E r \in RunsOn(v) : g <= r.golden

\* Every status change is a legal transition of the state machine, those that
\* skip assert_transition (infra failure, reset, reclaim) included.
LegalMovesOnly ==
  [][\A v \in Version :
       \/ status'[v] = status[v]
       \/ status[v] = "absent" /\ status'[v] = "pending"
       \/ <<status[v], status'[v]>> \in Transitions]_status

\* The processes keep going: the dispatcher's timer, the transport, time, and
\* every worker inside evaluate_version.  Registrations, submissions, crashes
\* and the API's own calls are not assumed to happen.
EvaluationFairness ==
  /\ WF_allVars(ReclaimLeases /\ TrackClaims)
  /\ WF_allVars(ReclaimLeasesCommits /\ TrackClaims)
  /\ \A d \in Dispatcher :
       /\ WF_allVars(LeaseDue(d) /\ Aside)
       /\ WF_allVars((MarkCommits(d) \/ Publish(d)) /\ Aside)
       /\ WF_allVars((DispatchFails(d) \/ DispatchFailCommits(d)) /\ Aside)
       /\ \A i \in Intent : WF_allVars(MarkDispatched(d, i) /\ Aside)
  /\ \A i \in Intent :
       /\ WF_allVars(LeaseEnds(i) /\ Aside)
       /\ WF_allVars(BackoffEnds(i) /\ Aside)
       /\ WF_allVars((\E w \in Worker : Deliver(w, i)) /\ Aside)
  /\ \A w \in Worker :
       /\ WF_allVars((DuplicateCommit(w) \/ ClaimConflict(w)) /\ Aside)
       /\ WF_allVars(Claim(w) /\ TrackClaims)
       /\ WF_allVars((ReadStatus(w) \/ Start(w) \/ StartRefused(w)) /\ TrackClaims)
       /\ WF_allVars((Settle(w) \/ FailureLands(w)) /\ TrackClaims)
       /\ WF_allVars((ResetToPending(w) \/ Recheck(w) \/ EnqueueStale(w) \/ MintStale(w))
                       /\ TrackClaims)

FairEvaluationSpec == EvaluationSpec /\ EvaluationFairness

\* Every submission is evaluated in the end, or its intent is parked for an
\* operator: no crash, refused start or stale mutex starves it (recovery.md:
\* "the re-dispatch re-runs it cleanly - no poison loop").
SubmissionIsEvaluated ==
  \A v \in Version :
    status[v] = "pending" ~> RunsOn(v) # {} \/ state[<<v, 0>>] = "failed"

\* A re-evaluation that was claimed for a golden set ends in a run on that set
\* or a newer one, or in a parked intent: the claim, which nothing can make
\* twice, is never wasted.
ClaimIsServed ==
  \A v \in Version, g \in 1..MaxGolden :
    <<v, g>> \in claims ~>
      (\E r \in RunsOn(v) : r.golden >= g) \/ state[<<v, g>>] = "failed"

=============================================================================
