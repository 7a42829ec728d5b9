----------------------------- MODULE JobIntents -----------------------------
(***************************************************************************)
(* The durable dispatch of evaluation work: the JobIntent outbox, the      *)
(* JobAttempt ledger, the dispatcher that publishes intents, the transport *)
(* that carries them and the workers that claim and settle them            *)
(* (backend/app/services/jobs.py, dispatcher.py and the claim, completion  *)
(* and failure calls of orchestrator.evaluate_version).                    *)
(*                                                                         *)
(* What an evaluation does between its claim and its end is left to module *)
(* Evaluation, which composes this one with versions and golden sets.      *)
(*                                                                         *)
(* Four transactions read rows without a lock and write them later:        *)
(*   claim_intent            Deliver, then ClaimCommit, DuplicateCommit or *)
(*                           ClaimConflict, always in two steps: the       *)
(*                           unique (intent, attempt_number) pair of the   *)
(*                           ledger decides a race                         *)
(*   _mark_dispatched        MarkDispatched, or MarkReads then MarkCommits *)
(*   reclaim_expired_leases  Reclaim, or ReclaimReads then ReclaimCommits  *)
(*   fail_intent             FailIntent, or FailReads then FailCommits     *)
(* The one-step form is the transaction nobody touches the row under; the  *)
(* two-step form is the one that others overtake, and it counts as an      *)
(* event of the environment.  The session writes the columns whose value   *)
(* differs from the one it read (Write) and no others.  dispatch_pending   *)
(* is one step, for it holds FOR UPDATE locks on PostgreSQL (SQLite is     *)
(* for tests: config.py:218).  So is complete_intent: it writes the state  *)
(* unless it read `completed`, which takes two runs of one intent.         *)
(*                                                                         *)
(* Everything the environment may do to the system spends one unit of the  *)
(* budget MaxFaults and must be of a kind in FaultKinds:                   *)
(*   crash          a worker or a dispatcher dies                          *)
(*   lost           a published message disappears (broker outage)         *)
(*   extra_publish  a message beside the dispatcher's (the API's direct    *)
(*                  publish, enqueue_evaluation, a redelivery)             *)
(*   work_error     a worker reports a failure through fail_intent         *)
(*   abandon        an exception leaves evaluate_version with no           *)
(*                  fail_intent call                                       *)
(*   backlog        a dispatch lease runs out while the message is still   *)
(*                  on its way                                             *)
(*   publish_error  q.enqueue raises, with or without the message accepted *)
(*   lost_update    the reclaim commits between the read and the commit of *)
(*                  a claim of the same row                                *)
(*   late_mark      _mark_dispatched is overtaken between its read and its *)
(*                  commit                                                 *)
(*   late_reclaim   so is reclaim_expired_leases, or its process dies      *)
(*   late_fail      so is fail_intent, of a worker or of a dispatcher      *)
(*   overrun        a lease runs out under the worker that holds it:       *)
(*                  LEASE_SECONDS equals the job_timeout of the transport, *)
(*                  whose exception evaluate_version catches; it persists  *)
(*                  an infra run after it                                  *)
(*   api_crash      the API dies between its transactions (Evaluation)     *)
(*   boot           a process starts and runs its recovery pass            *)
(*                  (Evaluation)                                           *)
(*   stale_start    an evaluation starts on a version that another worker  *)
(*                  started since it read the status (Evaluation)          *)
(*   late_decision  a reviewer's decision commits after an evaluation of   *)
(*                  its version has begun (Adjudication)                   *)
(***************************************************************************)
EXTENDS Naturals, FiniteSets

CONSTANTS
  Intent,       \* identities of JobIntent rows
  Worker,       \* worker processes
  Dispatcher,   \* processes that may run dispatcher.run_once
  MaxAttempts,  \* jobs.MAX_ATTEMPTS
  MaxFaults,    \* bound: environment events in one behaviour
  FaultKinds,   \* which environment events may happen
  NoIntent      \* not an Intent: "no intent in hand"

AllFaultKinds ==
  {"crash", "lost", "extra_publish", "work_error", "abandon", "backlog",
   "publish_error", "lost_update", "late_mark", "late_reclaim", "late_fail",
   "overrun", "api_crash", "boot", "stale_start", "late_decision"}

ASSUME ConstantsAssumption ==
  /\ MaxAttempts \in Nat \ {0}
  /\ MaxFaults \in Nat
  /\ FaultKinds \subseteq AllFaultKinds
  /\ NoIntent \notin Intent

VARIABLES
  state,     \* JobIntent.state, or "absent" before the row is created
  lease,     \* JobIntent.leased_until: none, in the future, in the past
  waiting,   \* JobIntent.available_at is still in the future (backoff)
  count,     \* JobIntent.attempt_count
  attempts,  \* the JobAttempt table
  queue,     \* messages for each intent in the transport
  batch,     \* to_publish of a running dispatch_pending
  inHand,    \* the intent whose publish the dispatcher is executing
  raised,    \* the publish of inHand raised; fail_intent comes next
  marking,   \* what a dispatcher's overtaken transaction read of inHand
  reclaiming, \* the rows an overtaken reclaim read as overdue
  pc,        \* where a worker stands in evaluate_version
  job,       \* the intent the worker was given
  seen,      \* what claim_intent's read of the row decided
  number,    \* attempt_number the worker's ledger row has or will get
  failing,   \* what the worker's overtaken fail_intent read of the row
  faults     \* environment events so far

intentVars == <<state, lease, waiting, count, attempts>>
dispatcherVars == <<batch, inHand, raised, marking, reclaiming>>
workerVars == <<pc, job, seen, number, failing>>
vars == <<intentVars, queue, dispatcherVars, workerVars, faults>>

JobState == {"pending", "dispatching", "dispatched", "claimed", "completed",
             "failed"}
JobOutcome == {"claimed", "duplicate", "completed", "retryable_failure",
               "terminal_failure"}
\* mutant: the reclaim forgets intents that died before a worker took them
LeasedStatesClaimedOnly == {"claimed"}
LeasedStates == {"dispatching", "dispatched", "claimed"}
JobAttempt == [intent : Intent, number : Nat, outcome : JobOutcome]
Lease == {"none", "live", "expired"}

\* what a transaction keeps of the row it read: the columns it may write, and
\* whether a failure will be retried
RowRead == [state : JobState \cup {"absent"}, lease : Lease, retry : BOOLEAN]
NoRow == [state |-> "absent", lease |-> "none", retry |-> FALSE]

TypeOK ==
  /\ state \in [Intent -> JobState \cup {"absent"}]
  /\ lease \in [Intent -> Lease]
  /\ waiting \in [Intent -> BOOLEAN]
  /\ count \in [Intent -> Nat]
  /\ attempts \subseteq JobAttempt
  /\ queue \in [Intent -> Nat]
  /\ batch \in [Dispatcher -> SUBSET Intent]
  /\ inHand \in [Dispatcher -> Intent \cup {NoIntent}]
  /\ raised \in [Dispatcher -> BOOLEAN]
  /\ marking \in [Dispatcher -> RowRead]
  /\ \A d \in Dispatcher : raised[d] \/ marking[d] # NoRow => inHand[d] \in Intent
  /\ reclaiming \subseteq Intent
  /\ pc \in [Worker -> {"idle", "claiming", "held", "tail"}]
  /\ job \in [Worker -> Intent \cup {NoIntent}]
  /\ \A w \in Worker : pc[w] # "idle" => job[w] \in Intent
  /\ seen \in [Worker -> {"open", "overdue", "duplicate"}]
  /\ number \in [Worker -> Nat]
  /\ failing \in [Worker -> RowRead]
  /\ \A w \in Worker : failing[w] # NoRow => pc[w] = "held"
  /\ faults \in Nat

Init ==
  /\ state = [i \in Intent |-> "absent"]
  /\ lease = [i \in Intent |-> "none"]
  /\ waiting = [i \in Intent |-> FALSE]
  /\ count = [i \in Intent |-> 0]
  /\ attempts = {}
  /\ queue = [i \in Intent |-> 0]
  /\ batch = [d \in Dispatcher |-> {}]
  /\ inHand = [d \in Dispatcher |-> NoIntent]
  /\ raised = [d \in Dispatcher |-> FALSE]
  /\ marking = [d \in Dispatcher |-> NoRow]
  /\ reclaiming = {}
  /\ pc = [w \in Worker |-> "idle"]
  /\ job = [w \in Worker |-> NoIntent]
  /\ seen = [w \in Worker |-> "open"]
  /\ number = [w \in Worker |-> 0]
  /\ failing = [w \in Worker |-> NoRow]
  /\ faults = 0

Fault(kind) ==
  /\ kind \in FaultKinds
  /\ faults < MaxFaults
  /\ faults' = faults + 1

NoFault == UNCHANGED faults

Holds(w, i) == pc[w] = "held" /\ job[w] = i
Claiming(w, i) == pc[w] = "claiming" /\ job[w] = i
Held(i) == \E w \in Worker : Holds(w, i)

-----------------------------------------------------------------------------
(* Creating and announcing intents *)

\* create_intent of fresh keys, as part of the caller's transaction
CreateIntents(S) ==
  /\ \A i \in S : state[i] = "absent"
  /\ state' = [i \in Intent |-> IF i \in S THEN "pending" ELSE state[i]]
  /\ UNCHANGED <<lease, waiting, count, attempts>>

Create(i) ==
  /\ CreateIntents({i})
  /\ NoFault
  /\ UNCHANGED <<queue, dispatcherVars, workerVars>>

\* q.enqueue: one more message that names the intent
Enqueue(i) == queue' = [queue EXCEPT ![i] = @ + 1]

\* a publish that does not go through the dispatcher and leases nothing
PublishDirectly(i) ==
  /\ state[i] # "absent"
  /\ Fault("extra_publish")
  /\ Enqueue(i)
  /\ UNCHANGED <<intentVars, dispatcherVars, workerVars>>

LoseMessage(i) ==
  /\ queue[i] > 0
  /\ Fault("lost")
  /\ queue' = [queue EXCEPT ![i] = @ - 1]
  /\ UNCHANGED <<intentVars, dispatcherVars, workerVars>>

-----------------------------------------------------------------------------
(* Failing an intent: the transaction both dispatcher and workers use *)

\* mutant: every row of the intent is finalized, not only the worker's own
FinalizedWholeIntent(i, n, outcome) ==
  {IF a.intent = i THEN [a EXCEPT !.outcome = outcome] ELSE a : a \in attempts}

\* the ledger with the outcome of row (i, n) overwritten
Finalized(i, n, outcome) ==
  {IF a.intent = i /\ a.number = n THEN [a EXCEPT !.outcome = outcome] ELSE a
     : a \in attempts}

\* a column is written when its new value differs from the one that was read
Write(current, read, new) == IF new = read THEN current ELSE new

\* the row as fail_intent reads it, with its decision to retry or to park
ToFail(i, retryable) ==
  [state |-> state[i], lease |-> lease[i],
   retry |-> retryable /\ count[i] < MaxAttempts]

\* what fail_intent commits; n = 0 stands for attempt_id None: attempt numbers
\* start at 1
FailWrite(i, n, read) ==
  /\ state' = [state EXCEPT ![i] =
                 Write(@, read.state, IF read.retry THEN "pending" ELSE "failed")]
  /\ lease' = [lease EXCEPT ![i] = Write(@, read.lease, "none")]
  /\ waiting' = [waiting EXCEPT ![i] = read.retry \/ @]
  /\ attempts' = Finalized(i, n, IF read.retry THEN "retryable_failure"
                                               ELSE "terminal_failure")
  /\ UNCHANGED count

Terminal == {"completed", "failed"}

FailIntent(i, n, retryable) ==
  IF state[i] \in Terminal
  THEN UNCHANGED intentVars
  ELSE FailWrite(i, n, ToFail(i, retryable))

-----------------------------------------------------------------------------
(* The dispatcher *)

Overdue == {i \in Intent : state[i] \in LeasedStates /\ lease[i] = "expired"}

\* what reclaim_expired_leases commits for the rows it read as overdue
ReclaimRows(S) ==
  /\ state' = [i \in Intent |-> IF i \in S THEN "pending" ELSE state[i]]
  /\ lease' = [i \in Intent |-> IF i \in S THEN "none" ELSE lease[i]]
  /\ UNCHANGED <<waiting, count, attempts>>

ReclaimFault ==
  IF \E w \in Worker, i \in Overdue : Claiming(w, i)
  THEN Fault("lost_update")
  ELSE NoFault

Reclaim ==
  /\ Overdue # {}
  /\ ReclaimRows(Overdue)
  /\ ReclaimFault
  /\ UNCHANGED <<queue, dispatcherVars, workerVars>>

ReclaimReads ==
  /\ reclaiming = {} /\ Overdue # {}
  /\ Fault("late_reclaim")
  /\ reclaiming' = Overdue
  /\ UNCHANGED <<intentVars, queue, batch, inHand, raised, marking, workerVars>>

ReclaimCommits ==
  /\ reclaiming # {}
  /\ ReclaimRows(reclaiming)
  /\ reclaiming' = {}
  /\ NoFault
  /\ UNCHANGED <<queue, batch, inHand, raised, marking, workerVars>>

\* the process dies before the commit, and its transaction is rolled back
ReclaimDies ==
  /\ reclaiming # {}
  /\ Fault("late_reclaim")
  /\ reclaiming' = {}
  /\ UNCHANGED <<intentVars, queue, batch, inHand, raised, marking, workerVars>>

Due == {i \in Intent : state[i] = "pending" /\ ~waiting[i]}

\* dispatch_pending's transaction; its limit of 50 exceeds every instance
LeaseDue(d) ==
  /\ batch[d] = {} /\ inHand[d] = NoIntent
  /\ Due # {}
  /\ state' = [i \in Intent |-> IF i \in Due THEN "dispatching" ELSE state[i]]
  /\ lease' = [i \in Intent |-> IF i \in Due THEN "live" ELSE lease[i]]
  /\ batch' = [batch EXCEPT ![d] = Due]
  /\ NoFault
  /\ UNCHANGED <<waiting, count, attempts, queue, inHand, raised, marking, reclaiming,
                 workerVars>>

\* mutant: the state is not read again before it is written
MarkDispatchedBlindly(d, i) ==
  /\ i \in batch[d] /\ inHand[d] = NoIntent
  /\ batch' = [batch EXCEPT ![d] = @ \ {i}]
  /\ inHand' = [inHand EXCEPT ![d] = i]
  /\ state' = [state EXCEPT ![i] = "dispatched"]
  /\ NoFault
  /\ UNCHANGED <<lease, waiting, count, attempts, queue, raised, marking, reclaiming,
                 workerVars>>

MarkDispatched(d, i) ==
  /\ i \in batch[d] /\ inHand[d] = NoIntent
  /\ batch' = [batch EXCEPT ![d] = @ \ {i}]
  /\ inHand' = [inHand EXCEPT ![d] = i]
  /\ state' = [state EXCEPT ![i] = IF @ = "dispatching" THEN "dispatched" ELSE @]
  /\ NoFault
  /\ UNCHANGED <<lease, waiting, count, attempts, queue, raised, marking, reclaiming,
                 workerVars>>

\* _mark_dispatched reads `dispatching`; what it commits, it commits blindly
MarkReads(d, i) ==
  /\ i \in batch[d] /\ inHand[d] = NoIntent
  /\ state[i] = "dispatching"
  /\ Fault("late_mark")
  /\ batch' = [batch EXCEPT ![d] = @ \ {i}]
  /\ inHand' = [inHand EXCEPT ![d] = i]
  /\ marking' = [marking EXCEPT ![d] =
                   [state |-> state[i], lease |-> lease[i], retry |-> FALSE]]
  /\ UNCHANGED <<intentVars, queue, raised, reclaiming, workerVars>>

MarkCommits(d) ==
  /\ marking[d] # NoRow /\ ~raised[d]
  /\ state' = [state EXCEPT ![inHand[d]] = "dispatched"]
  /\ marking' = [marking EXCEPT ![d] = NoRow]
  /\ NoFault
  /\ UNCHANGED <<lease, waiting, count, attempts, queue, batch, inHand, raised,
                 reclaiming, workerVars>>

Publish(d) ==
  /\ inHand[d] # NoIntent /\ ~raised[d] /\ marking[d] = NoRow
  /\ Enqueue(inHand[d])
  /\ inHand' = [inHand EXCEPT ![d] = NoIntent]
  /\ NoFault
  /\ UNCHANGED <<intentVars, batch, raised, marking, reclaiming, workerVars>>

\* enqueue raises: the broker refused the message, or took it and the
\* connection broke before the reply
PublishRaises(d) ==
  /\ inHand[d] # NoIntent /\ ~raised[d] /\ marking[d] = NoRow
  /\ Fault("publish_error")
  /\ Enqueue(inHand[d]) \/ UNCHANGED queue
  /\ raised' = [raised EXCEPT ![d] = TRUE]
  /\ UNCHANGED <<intentVars, batch, inHand, marking, reclaiming, workerVars>>

DispatchFails(d) ==
  /\ raised[d] /\ marking[d] = NoRow
  /\ FailIntent(inHand[d], 0, TRUE)
  /\ inHand' = [inHand EXCEPT ![d] = NoIntent]
  /\ raised' = [raised EXCEPT ![d] = FALSE]
  /\ NoFault
  /\ UNCHANGED <<queue, batch, marking, reclaiming, workerVars>>

\* the same fail_intent, overtaken
DispatchFailReads(d) ==
  /\ raised[d] /\ marking[d] = NoRow
  /\ state[inHand[d]] \notin Terminal \cup {"absent"}
  /\ Fault("late_fail")
  /\ marking' = [marking EXCEPT ![d] = ToFail(inHand[d], TRUE)]
  /\ UNCHANGED <<intentVars, queue, batch, inHand, raised, reclaiming, workerVars>>

DispatchFailCommits(d) ==
  /\ raised[d] /\ marking[d] # NoRow
  /\ FailWrite(inHand[d], 0, marking[d])
  /\ inHand' = [inHand EXCEPT ![d] = NoIntent]
  /\ raised' = [raised EXCEPT ![d] = FALSE]
  /\ marking' = [marking EXCEPT ![d] = NoRow]
  /\ NoFault
  /\ UNCHANGED <<queue, batch, reclaiming, workerVars>>

DispatcherDies(d) ==
  /\ batch[d] # {} \/ inHand[d] # NoIntent
  /\ Fault("crash")
  /\ batch' = [batch EXCEPT ![d] = {}]
  /\ inHand' = [inHand EXCEPT ![d] = NoIntent]
  /\ raised' = [raised EXCEPT ![d] = FALSE]
  /\ marking' = [marking EXCEPT ![d] = NoRow]
  /\ UNCHANGED <<intentVars, queue, reclaiming, workerVars>>

-----------------------------------------------------------------------------
(* Time *)

InTransit(i) ==
  \/ queue[i] > 0
  \/ \E w \in Worker : Claiming(w, i)
  \/ \E d \in Dispatcher : i \in batch[d] \/ inHand[d] = i

LeaseFault(i) ==
  \/ Held(i) /\ Fault("overrun")
  \/ ~Held(i) /\ InTransit(i) /\ Fault("backlog")
  \/ ~Held(i) /\ ~InTransit(i) /\ NoFault

LeaseRunsOut(i) ==
  /\ lease[i] = "live"
  /\ LeaseFault(i)
  /\ lease' = [lease EXCEPT ![i] = "expired"]
  /\ UNCHANGED <<state, waiting, count, attempts, queue, dispatcherVars, workerVars>>

BackoffEnds(i) ==
  /\ waiting[i]
  /\ waiting' = [waiting EXCEPT ![i] = FALSE]
  /\ NoFault
  /\ UNCHANGED <<state, lease, count, attempts, queue, dispatcherVars, workerVars>>

-----------------------------------------------------------------------------
(* The worker's claim *)

\* mutant: a live lease does not stop a second claim
ClaimDecisionIgnoringLease(i) ==
  IF state[i] = "completed" THEN "duplicate" ELSE "open"

\* mutant: a completed intent can be claimed again
ClaimDecisionIgnoringCompletion(i) ==
  CASE state[i] = "claimed" /\ lease[i] = "live"   -> "duplicate"
    [] state[i] = "claimed" /\ lease[i] # "live"   -> "overdue"
    [] OTHER                                       -> "open"

\* the branch claim_intent takes on the row it reads
ClaimDecision(i) ==
  CASE state[i] = "completed"                      -> "duplicate"
    [] state[i] = "claimed" /\ lease[i] = "live"   -> "duplicate"
    [] state[i] = "claimed" /\ lease[i] # "live"   -> "overdue"
    [] OTHER                                       -> "open"

\* a message is taken and claim_intent reads the row
Deliver(w, i) ==
  /\ pc[w] = "idle" /\ queue[i] > 0
  /\ queue' = [queue EXCEPT ![i] = @ - 1]
  /\ pc' = [pc EXCEPT ![w] = "claiming"]
  /\ job' = [job EXCEPT ![w] = i]
  /\ seen' = [seen EXCEPT ![w] = ClaimDecision(i)]
  /\ number' = [number EXCEPT ![w] = count[i] + 1]
  /\ NoFault
  /\ UNCHANGED <<intentVars, dispatcherVars, failing>>

\* mutant: the ledger has no unique constraint
NumberNeverTaken(i, n) == FALSE

\* unique (job_intent_id, attempt_number)
NumberTaken(i, n) == \E a \in attempts : a.intent = i /\ a.number = n

\* insert the ledger row and write attempt_count back
Record(w, outcome) ==
  /\ ~NumberTaken(job[w], number[w])
  /\ attempts' = attempts \cup
       {[intent |-> job[w], number |-> number[w], outcome |-> outcome]}
  /\ count' = [count EXCEPT ![job[w]] = number[w]]

\* the UPDATE carries only columns whose value changed since the read: a claim
\* that read `claimed` (an overdue one) does not write the state again
ClaimCommit(w) ==
  /\ pc[w] = "claiming" /\ seen[w] # "duplicate"
  /\ Record(w, "claimed")
  /\ state' = [state EXCEPT ![job[w]] = IF seen[w] = "open" THEN "claimed" ELSE @]
  /\ lease' = [lease EXCEPT ![job[w]] = "live"]
  /\ pc' = [pc EXCEPT ![w] = "held"]
  /\ NoFault
  /\ UNCHANGED <<waiting, queue, dispatcherVars, job, seen, number, failing>>

\* mutant: the worker forgets its intent but not its place
ReleaseKeepingPlace(w) ==
  /\ job' = [job EXCEPT ![w] = NoIntent]
  /\ seen' = [seen EXCEPT ![w] = "open"]
  /\ number' = [number EXCEPT ![w] = 0]
  /\ failing' = [failing EXCEPT ![w] = NoRow]
  /\ UNCHANGED pc

Release(w) ==
  /\ pc' = [pc EXCEPT ![w] = "idle"]
  /\ job' = [job EXCEPT ![w] = NoIntent]
  /\ seen' = [seen EXCEPT ![w] = "open"]
  /\ number' = [number EXCEPT ![w] = 0]
  /\ failing' = [failing EXCEPT ![w] = NoRow]

DuplicateCommit(w) ==
  /\ pc[w] = "claiming" /\ seen[w] = "duplicate"
  /\ Record(w, "duplicate")
  /\ Release(w)
  /\ NoFault
  /\ UNCHANGED <<state, lease, waiting, queue, dispatcherVars>>

\* IntegrityError: another delivery inserted this attempt number first
ClaimConflict(w) ==
  /\ pc[w] = "claiming"
  /\ NumberTaken(job[w], number[w])
  /\ Release(w)
  /\ NoFault
  /\ UNCHANGED <<intentVars, queue, dispatcherVars>>

-----------------------------------------------------------------------------
(* The worker settles its claim *)

ToTail(w) ==
  /\ pc' = [pc EXCEPT ![w] = "tail"]
  /\ failing' = [failing EXCEPT ![w] = NoRow]
  /\ UNCHANGED <<job, seen, number>>

\* complete_intent, inside the transaction that commits the EvaluationRun
CompleteIntent(w) ==
  /\ pc[w] = "held" /\ failing[w] = NoRow
  /\ state' = [state EXCEPT ![job[w]] = "completed"]
  /\ lease' = [lease EXCEPT ![job[w]] = "none"]
  /\ attempts' = Finalized(job[w], number[w], "completed")
  /\ ToTail(w)
  /\ UNCHANGED <<waiting, count>>

Complete(w) ==
  /\ CompleteIntent(w)
  /\ NoFault
  /\ UNCHANGED <<queue, dispatcherVars>>

SettleFailed(w, retryable) ==
  /\ pc[w] = "held" /\ failing[w] = NoRow
  /\ FailIntent(job[w], number[w], retryable)
  /\ ToTail(w)
  /\ UNCHANGED <<queue, dispatcherVars>>

Fail(w, retryable) ==
  /\ SettleFailed(w, retryable)
  /\ Fault("work_error")

\* the same fail_intent, overtaken
FailReads(w, retryable) ==
  /\ pc[w] = "held" /\ failing[w] = NoRow
  /\ state[job[w]] \notin Terminal \cup {"absent"}
  /\ Fault("late_fail")
  /\ failing' = [failing EXCEPT ![w] = ToFail(job[w], retryable)]
  /\ UNCHANGED <<intentVars, queue, dispatcherVars, pc, job, seen, number>>

FailCommits(w) ==
  /\ failing[w] # NoRow
  /\ FailWrite(job[w], number[w], failing[w])
  /\ ToTail(w)
  /\ NoFault
  /\ UNCHANGED <<queue, dispatcherVars>>

\* evaluate_version returns: what follows the settlement is over
Return(w) ==
  /\ pc[w] = "tail"
  /\ Release(w)
  /\ NoFault
  /\ UNCHANGED <<intentVars, queue, dispatcherVars>>

\* an exception leaves evaluate_version between the claim and the try block
Abandon(w) ==
  /\ pc[w] = "held" /\ failing[w] = NoRow
  /\ Fault("abandon")
  /\ Release(w)
  /\ UNCHANGED <<intentVars, queue, dispatcherVars>>

WorkerDies(w) ==
  /\ pc[w] # "idle"
  /\ Fault("crash")
  /\ Release(w)
  /\ UNCHANGED <<intentVars, queue, dispatcherVars>>

-----------------------------------------------------------------------------
DispatcherStep(d) ==
  \/ LeaseDue(d)
  \/ \E i \in Intent : MarkDispatched(d, i) \/ MarkReads(d, i)
  \/ MarkCommits(d)
  \/ Publish(d)
  \/ PublishRaises(d)
  \/ DispatchFails(d)
  \/ DispatchFailReads(d)
  \/ DispatchFailCommits(d)
  \/ DispatcherDies(d)

WorkerStep(w) ==
  \/ \E i \in Intent : Deliver(w, i)
  \/ ClaimCommit(w)
  \/ DuplicateCommit(w)
  \/ ClaimConflict(w)
  \/ Complete(w)
  \/ \E retryable \in BOOLEAN : Fail(w, retryable) \/ FailReads(w, retryable)
  \/ FailCommits(w)
  \/ Return(w)
  \/ Abandon(w)
  \/ WorkerDies(w)

IntentStep(i) ==
  \/ Create(i)
  \/ PublishDirectly(i)
  \/ LoseMessage(i)
  \/ LeaseRunsOut(i)
  \/ BackoffEnds(i)

Next ==
  \/ \E i \in Intent : IntentStep(i)
  \/ Reclaim \/ ReclaimReads \/ ReclaimCommits \/ ReclaimDies
  \/ \E d \in Dispatcher : DispatcherStep(d)
  \/ \E w \in Worker : WorkerStep(w)

Spec == Init /\ [][Next]_vars
-----------------------------------------------------------------------------
(* Properties *)

\* The environment the exactly-once claims are made for: enqueue never raises,
\* no lease runs out under a worker that is still persisting, no reclaim commits
\* inside the read-commit window of a claim, and nobody commits inside the
\* windows of the dispatcher's own transactions; the code prevents none of these.
\* A worker's fail_intent may be overtaken.
CleanEnvironment ==
  FaultKinds \cap {"publish_error", "lost_update", "overrun", "late_mark",
                   "late_reclaim"} = {}

\* Two workers never evaluate under the same intent: a claim is granted only
\* when nobody alive holds it (jobs.claim_intent, the live-lease check and the
\* unique attempt number together).
SingleHolder ==
  \A v, w \in Worker, i \in Intent : Holds(v, i) /\ Holds(w, i) => v = w

\* At most one attempt of an intent ever commits an EvaluationRun, whatever is
\* delivered twice, retried, reclaimed or crashed (recovery.md: "No duplicate
\* logical evaluation run from at-least-once delivery").
AtMostOneRun ==
  \A a, b \in attempts :
    /\ a.intent = b.intent
    /\ a.outcome = "completed" /\ b.outcome = "completed"
    => a = b

\* attempt_count is exactly the number of ledger rows and the rows are numbered
\* 1, 2, ... without gap or repetition, even when deliveries race between the
\* read and the commit of claim_intent.
LedgerExact ==
  \A i \in Intent :
    /\ {a.number : a \in {b \in attempts : b.intent = i}} = 1..count[i]
    /\ \A a, b \in attempts :
         a.intent = i /\ b.intent = i /\ a.number = b.number => a = b

\* `completed` is terminal: no late failure, reclaim or redelivery moves an
\* intent out of it (data-model.md: "`completed` is terminal").
CompletedIsFinal ==
  [][\A i \in Intent : state[i] = "completed" => state'[i] = "completed"]_vars

\* A row that is out for work always has a lease, so whatever becomes of its
\* message, its dispatcher and its worker, the reclaim finds it (dispatcher.py:
\* "Non-terminal states that hold a lease").
LeasedRowsHoldLease ==
  \A i \in Intent : state[i] \in LeasedStates => lease[i] # "none"

\* A ledger row is written at most twice: once a row has an outcome other than
\* `claimed` nothing changes or removes it (JobAttempt: "then treated
\* append-only").
FinishedAttemptsFrozen ==
  [][\A a \in attempts : a.outcome # "claimed" => a \in attempts']_vars

\* The dispatcher is run on a timer, workers take messages, and time passes.
\* Nothing is assumed of the environment events.
Fairness ==
  /\ WF_vars(Reclaim)
  /\ WF_vars(ReclaimCommits)
  /\ \A d \in Dispatcher :
       /\ WF_vars(LeaseDue(d))
       /\ WF_vars(MarkCommits(d) \/ Publish(d))
       /\ WF_vars(DispatchFails(d) \/ DispatchFailCommits(d))
       /\ \A i \in Intent : WF_vars(MarkDispatched(d, i))
  /\ \A i \in Intent :
       /\ WF_vars(LeaseRunsOut(i))
       /\ WF_vars(BackoffEnds(i))
       /\ WF_vars(\E w \in Worker : Deliver(w, i))
  /\ \A w \in Worker :
       /\ WF_vars(ClaimCommit(w) \/ DuplicateCommit(w) \/ ClaimConflict(w))
       /\ WF_vars(Complete(w) \/ FailCommits(w))
       /\ WF_vars(Return(w))

FairSpec == Spec /\ Fairness

\* a row on which _mark_dispatched wrote after its lease was cleared: no reclaim
\* finds it (dispatcher.py:45-46)
Stranded(i) == state[i] = "dispatched" /\ lease[i] = "none"

\* Every intent that was created is, in the end, completed or parked in
\* `failed` for good: no crash, lost message, abandoned claim or overtaken
\* transaction strands it, but a _mark_dispatched overtaken by what cleared the
\* lease (recovery.md: "most faults self-heal").
Settles ==
  \A i \in Intent : state[i] # "absent" ~>
    [](state[i] \in {"completed", "failed"} \/ Stranded(i))

(* The inductive strengthening behind LedgerExact: the numbers in use are    *)
(* below the counter, none repeats, none is skipped, and a claim in flight   *)
(* never plans to write a number beyond the next one.                        *)
LedgerInv ==
  /\ \A a \in attempts : a.number \in 1..count[a.intent]
  /\ \A a, b \in attempts :
       a.intent = b.intent /\ a.number = b.number => a = b
  /\ \A i \in Intent : \A n \in 1..count[i] : NumberTaken(i, n)
  /\ \A w \in Worker :
       pc[w] = "claiming" => number[w] \in 1..(count[job[w]] + 1)

(* What makes FinishedAttemptsFrozen inductive, in any environment: a worker *)
(* past its claim owns a row that is still open, and owns it alone.          *)
RowOwner ==
  /\ \A w \in Worker :
       pc[w] = "held" =>
         [intent |-> job[w], number |-> number[w], outcome |-> "claimed"]
           \in attempts
  /\ \A v, w \in Worker :
       /\ pc[v] = "held" /\ pc[w] = "held"
       /\ job[v] = job[w] /\ number[v] = number[w]
       => v = w

(* What makes AtMostOneRun inductive in a clean environment.                 *)
HolderOwnsRow ==
  \A w \in Worker :
    pc[w] = "held" =>
      /\ state[job[w]] = "claimed" /\ lease[job[w]] = "live"
      /\ [intent |-> job[w], number |-> number[w], outcome |-> "claimed"]
           \in attempts

CompletedRowClosesIntent ==
  \A a \in attempts : a.outcome = "completed" => state[a.intent] = "completed"

\* the read of a claim is still good as long as its number is free
OpenClaimIsCurrent ==
  \A w \in Worker :
    /\ pc[w] = "claiming" /\ seen[w] # "duplicate"
    /\ ~NumberTaken(job[w], number[w])
    => /\ state[job[w]] \notin {"absent", "completed"}
       /\ ~Held(job[w])
       /\ seen[w] = "overdue" => state[job[w]] = "claimed"

KnownOnly ==
  /\ \A d \in Dispatcher : ~raised[d] /\ marking[d] = NoRow
  /\ reclaiming = {}
  /\ \A w \in Worker : failing[w] # NoRow =>
       failing[w].state = "claimed" /\ failing[w].lease = "live"
  /\ \A i \in Intent : queue[i] > 0 => state[i] # "absent"
  /\ \A d \in Dispatcher, i \in Intent :
       i \in batch[d] \/ inHand[d] = i => state[i] # "absent"
  /\ \A w \in Worker : pc[w] # "idle" => state[job[w]] # "absent"

OwnershipInv ==
  /\ HolderOwnsRow
  /\ SingleHolder
  /\ AtMostOneRun
  /\ CompletedRowClosesIntent
  /\ OpenClaimIsCurrent
  /\ KnownOnly

\* The outbox implements the contract: an intent is the request, an attempt
\* that completed is the run that answers it.
RequestOf(i) ==
  IF state[i] \in {"pending"} \cup LeasedStates THEN "owed"
  ELSE [absent |-> "absent", completed |-> "answered", failed |-> "parked"][state[i]]

RunsOf(i) ==
  {a.number : a \in {b \in attempts : b.intent = i /\ b.outcome = "completed"}}

Contract == INSTANCE RunContract WITH
  Request <- Intent,
  request <- [i \in Intent |-> RequestOf(i)],
  runs    <- [i \in Intent |-> RunsOf(i)]

ImplementsContract == Contract!Spec
=============================================================================
