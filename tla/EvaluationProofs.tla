--------------------------- MODULE EvaluationProofs ---------------------------
(***************************************************************************)
(* Proofs about the composition of the outbox with versions, evaluations   *)
(* and golden sets, for every number of versions, workers, dispatchers,    *)
(* golden sets and retries.                                                *)
(*                                                                         *)
(* The guarantees of the outbox alone (JobIntentsProofs) are not inherited *)
(* for free: a submission, a re-evaluation and a retry create rows and     *)
(* publish them in one transaction, and an evaluation lets go of its       *)
(* intent in the middle of other writes.  The first part shows that those  *)
(* steps too keep the outbox's inductive invariant.                        *)
(***************************************************************************)
EXTENDS Evaluation, JobIntentsProofs

-----------------------------------------------------------------------------
(* What a step of the composition does to the outbox *)

\* rows and messages added, at most one worker let go
Addition ==
  /\ UNCHANGED intentVars \/ \E S \in SUBSET Intent : CreateIntents(S)
  /\ queue' \in [Intent -> Nat]
  /\ \A i \in Intent : queue'[i] > 0 => queue[i] > 0 \/ state'[i] # "absent"
  /\ UNCHANGED workerVars \/ \E w \in Worker : Release(w)
  /\ UNCHANGED dispatcherVars
  /\ faults' \in Nat

\* the settlement of a run whose verdict the state machine refuses
Refusal == \E w \in Worker : SettleFailed(w, TRUE) /\ NoFault

\* An addition keeps the tables of the outbox in their types.
LEMMA AdditionType ==
  ASSUME TypeOK, Addition
  PROVE  TypeOK'
  <1>1. state' \in [Intent -> JobState \cup {"absent"}]
    BY DEF Addition, TypeOK, intentVars, CreateIntents, JobState
  <1>2. UNCHANGED <<lease, waiting, count, attempts, batch, inHand, raised, marking,
                    reclaiming>>
    BY DEF Addition, intentVars, CreateIntents, dispatcherVars
  <1>3. /\ pc' \in [Worker -> {"idle", "claiming", "held", "tail"}]
        /\ job' \in [Worker -> Intent \cup {NoIntent}]
        /\ \A w \in Worker : pc'[w] # "idle" => job'[w] \in Intent
        /\ seen' \in [Worker -> {"open", "overdue", "duplicate"}]
        /\ number' \in [Worker -> Nat]
        /\ failing' \in [Worker -> RowRead]
        /\ \A w \in Worker : failing'[w] # NoRow => pc'[w] = "held"
    <2>1. NoRow \in RowRead
      BY DEF NoRow, RowRead, Lease
    <2>2. CASE UNCHANGED workerVars
      BY <2>2 DEF TypeOK, workerVars
    <2>3. ASSUME NEW w \in Worker, Release(w)
          PROVE  /\ pc' \in [Worker -> {"idle", "claiming", "held", "tail"}]
                 /\ job' \in [Worker -> Intent \cup {NoIntent}]
                 /\ \A u \in Worker : pc'[u] # "idle" => job'[u] \in Intent
                 /\ seen' \in [Worker -> {"open", "overdue", "duplicate"}]
                 /\ number' \in [Worker -> Nat]
                 /\ failing' \in [Worker -> RowRead]
                 /\ \A u \in Worker : failing'[u] # NoRow => pc'[u] = "held"
      BY <2>1, <2>3 DEF TypeOK, Release
    <2> QED BY <2>2, <2>3 DEF Addition
  <1> QED BY <1>1, <1>2, <1>3 DEF Addition, TypeOK

\* What is common to every addition: rows only become pending, and a worker
\* that is still there has not moved.
LEMMA AdditionShape ==
  ASSUME TypeOK, Addition
  PROVE  /\ UNCHANGED <<lease, waiting, count, attempts, dispatcherVars>>
         /\ \A i \in Intent : \/ state'[i] = state[i]
                              \/ state[i] = "absent" /\ state'[i] = "pending"
         /\ \A w \in Worker : pc'[w] # "idle" =>
              /\ pc'[w] = pc[w] /\ job'[w] = job[w]
              /\ seen'[w] = seen[w] /\ number'[w] = number[w]
         /\ \A w \in Worker : failing'[w] \in {failing[w], NoRow}
         /\ \A i \in Intent : queue'[i] > 0 => queue[i] > 0 \/ state'[i] # "absent"
  <1>1. UNCHANGED <<lease, waiting, count, attempts>>
    BY DEF Addition, intentVars, CreateIntents
  <1>2. \A i \in Intent : \/ state'[i] = state[i]
                          \/ state[i] = "absent" /\ state'[i] = "pending"
    BY DEF Addition, intentVars, CreateIntents
  <1>3. \A w \in Worker : pc'[w] # "idle" =>
          /\ pc'[w] = pc[w] /\ job'[w] = job[w]
          /\ seen'[w] = seen[w] /\ number'[w] = number[w]
    BY DEF Addition, TypeOK, workerVars, Release
  <1>4. \A w \in Worker : failing'[w] \in {failing[w], NoRow}
    BY DEF Addition, TypeOK, workerVars, Release
  <1> QED BY <1>1, <1>2, <1>3, <1>4 DEF Addition

\* An addition writes no ledger row and starts no claim.
LEMMA AdditionLedger ==
  ASSUME TypeOK, LedgerInv, Addition
  PROVE  LedgerInv'
  <1>1. count' = count /\ attempts' = attempts
    BY AdditionShape
  <1>2. \A w \in Worker : pc'[w] = "claiming" =>
          pc[w] = "claiming" /\ job'[w] = job[w] /\ number'[w] = number[w]
    BY AdditionShape
  <1>3. \A j, m : NumberTaken(j, m)' <=> NumberTaken(j, m)
    BY <1>1 DEF NumberTaken
  <1> QED BY <1>1, <1>2, <1>3, LedgerKept DEF LedgerInv

\* An addition takes no claim from its holder and names no unknown intent.
LEMMA AdditionOwnership ==
  ASSUME TypeOK, LedgerInv, OwnershipInv, Addition
  PROVE  OwnershipInv'
  <1>1. /\ UNCHANGED <<lease, attempts, batch, inHand, raised, marking, reclaiming>>
        /\ \A i \in Intent : \/ state'[i] = state[i]
                             \/ state[i] = "absent" /\ state'[i] = "pending"
        /\ \A w \in Worker : pc'[w] # "idle" =>
             /\ pc'[w] = pc[w] /\ job'[w] = job[w]
             /\ seen'[w] = seen[w] /\ number'[w] = number[w]
        /\ \A w \in Worker : failing'[w] \in {failing[w], NoRow}
        /\ \A i \in Intent : queue'[i] > 0 => queue[i] > 0 \/ state'[i] # "absent"
    BY AdditionShape DEF dispatcherVars
  <1>2. \A w \in Worker : pc[w] # "idle" => job[w] \in Intent
    BY DEF TypeOK
  <1>3. HolderOwnsRow'
    BY <1>1, <1>2 DEF OwnershipInv, HolderOwnsRow
  <1>4. SingleHolder'
    BY <1>1 DEF OwnershipInv, SingleHolder, Holds
  <1>5. AtMostOneRun'
    BY <1>1 DEF OwnershipInv, AtMostOneRun
  <1>6. CompletedRowClosesIntent'
    BY <1>1 DEF OwnershipInv, CompletedRowClosesIntent, TypeOK, JobAttempt
  <1>7. OpenClaimIsCurrent'
    <2> SUFFICES ASSUME NEW w \in Worker, pc'[w] = "claiming", seen'[w] # "duplicate",
                        ~NumberTaken(job[w], number[w])'
                 PROVE  /\ state'[job'[w]] \notin {"absent", "completed"}
                        /\ ~Held(job[w])'
                        /\ seen'[w] = "overdue" => state'[job'[w]] = "claimed"
      BY DEF OpenClaimIsCurrent
    <2>1. pc[w] = "claiming" /\ job'[w] = job[w] /\ seen'[w] = seen[w]
          /\ number'[w] = number[w] /\ job[w] \in Intent
      BY <1>1, <1>2
    <2>2. ~NumberTaken(job[w], number[w])
      BY <1>1, <2>1 DEF NumberTaken
    <2>3. /\ state[job[w]] \notin {"absent", "completed"}
          /\ ~Held(job[w])
          /\ seen[w] = "overdue" => state[job[w]] = "claimed"
      BY <2>1, <2>2 DEF OwnershipInv, OpenClaimIsCurrent
    <2>4. ~Held(job[w])'
      BY <1>1, <2>1, <2>3 DEF Held, Holds
    <2> QED BY <1>1, <2>1, <2>3, <2>4
  <1>8. KnownOnly'
    BY <1>1, <1>2 DEF OwnershipInv, KnownOnly, TypeOK
  <1> QED BY <1>3, <1>4, <1>5, <1>6, <1>7, <1>8 DEF OwnershipInv

\* A refused verdict settles the claim as any failure does.
LEMMA RefusalKeeps ==
  ASSUME TypeOK, LedgerInv, Refusal
  PROVE  TypeOK' /\ LedgerInv' /\ (OwnershipInv => OwnershipInv')
  <1> PICK w \in Worker : SettleFailed(w, TRUE) /\ NoFault
    BY DEF Refusal
  <1>1. /\ pc[w] = "held" /\ job[w] \in Intent
        /\ FailIntent(job[w], number[w], TRUE) /\ ToTail(w)
        /\ UNCHANGED <<queue, dispatcherVars, faults>>
    BY DEF SettleFailed, TypeOK, NoFault
  <1>2. TypeOK'
    <2> NoRow \in RowRead
      BY DEF NoRow, RowRead, Lease
    <2> QED BY <1>1, FailIntentType DEF ToTail, TypeOK, dispatcherVars
  <1>3. LedgerInv'
    <2>1. \A v \in Worker : pc'[v] = "claiming" =>
            pc[v] = "claiming" /\ job'[v] = job[v] /\ number'[v] = number[v]
      BY <1>1 DEF ToTail, TypeOK
    <2> QED BY <1>1, <2>1, FailIntentLedger, LedgerKept
  <1>4. ASSUME OwnershipInv PROVE OwnershipInv'
    <2>1. /\ pc[w] = "held" /\ ToTail(w) /\ UNCHANGED <<queue, dispatcherVars>>
          /\ \E t \in {"pending", "failed"},
                o \in {"retryable_failure", "terminal_failure"} :
               /\ state' = [state EXCEPT ![job[w]] = t]
               /\ lease' = [lease EXCEPT ![job[w]] = "none"]
               /\ attempts' = Finalized(job[w], number[w], o)
      BY <1>4, FailureWrites
    <2> QED BY <1>4, <2>1, SettleOwnership DEF JobOutcome
  <1> QED BY <1>2, <1>3, <1>4

-----------------------------------------------------------------------------
(* Every step of the composition is a step of the outbox, an addition or a   *)
(* refusal.                                                                  *)

\* Keys of one version.
LEMMA KeysOfVersion ==
  /\ \A i \in Intent : VersionOf(i) \in Version
  /\ \A v \in Version : <<v, 0>> \in Intent /\ Retries(v) \subseteq Intent
  /\ \A v \in Version : \A g \in 1..MaxGolden : <<v, g>> \in Intent
  /\ \A v \in Version : \A n : VersionOf(<<v, n>>) = v
  BY EvaluationAssumption DEF VersionOf, Retries

\* A worker past its claim has an intent, and so has its version.
LEMMA WorkerHasVersion ==
  ASSUME TypeOK, EvaluationTypeOK, NEW w \in Worker, stage[w] # "none"
  PROVE  /\ pc[w] \in {"held", "tail"}
         /\ job[w] \in Intent /\ VersionOf(job[w]) \in Version
  <1>1. pc[w] \in {"held", "tail"}
    BY DEF EvaluationTypeOK
  <1> QED BY <1>1, KeysOfVersion DEF TypeOK

\* Publishing again what is pending, or nothing.
LEMMA RepublishQueue ==
  ASSUME TypeOK, NEW v \in Version, Republish(v) \/ NothingInFlight(v)
  PROVE  /\ UNCHANGED intentVars
         /\ queue' \in [Intent -> Nat]
         /\ \A i \in Intent : queue'[i] > 0 => queue[i] > 0 \/ state'[i] # "absent"
  <1>1. CASE UNCHANGED <<intentVars, queue>>
    BY <1>1 DEF TypeOK
  <1>2. ASSUME NEW i \in InFlight(v), state[i] = "pending", Enqueue(i),
               UNCHANGED intentVars
        PROVE  /\ queue' \in [Intent -> Nat]
               /\ \A j \in Intent : queue'[j] > 0 =>
                    queue[j] > 0 \/ state'[j] # "absent"
    BY <1>2 DEF Enqueue, TypeOK, intentVars, InFlight, IntentsOf
  <1> QED BY <1>1, <1>2 DEF Republish, NothingInFlight

\* Creating an intent and, perhaps, publishing it at once.
LEMMA CreateAndPublish ==
  ASSUME TypeOK, NEW i \in Intent, CreateIntents({i}), Enqueue(i) \/ UNCHANGED queue
  PROVE  /\ \E S \in SUBSET Intent : CreateIntents(S)
         /\ queue' \in [Intent -> Nat]
         /\ \A j \in Intent : queue'[j] > 0 => queue[j] > 0 \/ state'[j] # "absent"
  <1>1. state'[i] = "pending"
    BY DEF CreateIntents
  <1>2. /\ queue' \in [Intent -> Nat]
        /\ \A j \in Intent : j # i => queue'[j] = queue[j]
    BY DEF Enqueue, TypeOK
  <1>3. \A j \in Intent : queue'[j] > 0 => queue[j] > 0 \/ state'[j] # "absent"
    BY <1>1, <1>2
  <1> QED BY <1>2, <1>3

\* Minting a retry: one row, one message that names it.
LEMMA MintAdds ==
  ASSUME TypeOK, NEW v \in Version, MintRetry(v)
  PROVE  /\ \E S \in SUBSET Intent : CreateIntents(S)
         /\ queue' \in [Intent -> Nat]
         /\ \A i \in Intent : queue'[i] > 0 => queue[i] > 0 \/ state'[i] # "absent"
  BY CreateAndPublish, KeysOfVersion DEF MintRetry

\* The budget of environment events stays a number.
LEMMA FaultsCount ==
  ASSUME TypeOK, NoFault \/ \E kind \in AllFaultKinds : Fault(kind)
  PROVE  faults' \in Nat
  BY DEF TypeOK, NoFault, Fault

\* What the API and the recovery passes do to the outbox is an addition.
LEMMA ApiStepAdds ==
  ASSUME TypeOK, EvaluationTypeOK,
         \/ \E v \in Version : Submit(v) \/ EnqueueFlagged(v) \/ MintFlagged(v)
         \/ \E g \in 1..MaxGolden : FlagForReevaluation(g)
         \/ ApiDies
         \/ RecoverOrphans
  PROVE  Addition
  <1>1. ASSUME NEW v \in Version, Submit(v) PROVE Addition
    <2>1. /\ CreateIntents({<<v, 0>>})
          /\ Enqueue(<<v, 0>>) \/ UNCHANGED queue
          /\ NoFault /\ UNCHANGED <<dispatcherVars, workerVars>>
      BY <1>1 DEF Submit
    <2>2. <<v, 0>> \in Intent
      BY KeysOfVersion
    <2> QED BY <2>1, <2>2, CreateAndPublish, FaultsCount DEF Addition
  <1>2. ASSUME NEW v \in Version, EnqueueFlagged(v) PROVE Addition
    BY <1>2, RepublishQueue, FaultsCount DEF EnqueueFlagged, Addition
  <1>3. ASSUME NEW v \in Version, MintFlagged(v) PROVE Addition
    BY <1>3, MintAdds, FaultsCount DEF MintFlagged, Addition
  <1>4. ASSUME NEW g \in 1..MaxGolden, FlagForReevaluation(g) PROVE Addition
    <2> DEFINE S == Unclaimed(Eligible(g), g) \X {g}
    <2>1. CreateIntents(S) /\ NoFault /\ UNCHANGED <<queue, dispatcherVars, workerVars>>
      BY <1>4 DEF FlagForReevaluation, ClaimReevaluation
    <2>2. S \in SUBSET Intent
      BY KeysOfVersion DEF Unclaimed, Eligible
    <2> HIDE DEF S
    <2> QED BY <2>1, <2>2, FaultsCount DEF Addition, TypeOK
  <1>5. CASE ApiDies \/ RecoverOrphans
    <2>1. UNCHANGED <<intentVars, queue, dispatcherVars, workerVars>>
      BY <1>5 DEF ApiDies, RecoverOrphans
    <2>2. faults' \in Nat
      BY <1>5, FaultsCount DEF ApiDies, RecoverOrphans, AllFaultKinds
    <2> QED BY <2>1, <2>2 DEF Addition, TypeOK
  <1> QED BY <1>1, <1>2, <1>3, <1>4, <1>5

\* What a worker does to the outbox inside evaluate_version.
LEMMA EvaluateStepOutbox ==
  ASSUME TypeOK, EvaluationTypeOK, NEW w \in Worker, EvaluateStep(w)
  PROVE  [Next]_vars \/ Addition \/ Refusal
  <1> USE DEF At
  <1>1. CASE Claim(w)
    BY <1>1 DEF Claim, Next, WorkerStep
  <1>2. CASE ReadStatus(w)
    BY <1>2 DEF ReadStatus, outboxVars
  <1>3. CASE Start(w)
    <2>1. UNCHANGED <<intentVars, queue, dispatcherVars, workerVars>>
      BY <1>3 DEF Start
    <2>2. faults' \in Nat
      BY <1>3, FaultsCount DEF Start, AllFaultKinds
    <2> QED BY <2>1, <2>2 DEF Addition, TypeOK
  <1>4. CASE StartRefused(w)
    BY <1>4, FaultsCount DEF StartRefused, Addition, TypeOK
  <1>5. CASE SettleInfra(w) \/ \E verdict \in Verdicts : SettleScored(w, verdict)
    BY <1>5 DEF SettleInfra, SettleScored, Next, WorkerStep
  <1>6. CASE \E verdict \in Verdicts : SettleRefused(w, verdict)
    BY <1>6 DEF SettleRefused, Refusal
  <1>7. CASE PersistFails(w) \/ PersistFailsLate(w) \/ FailureLands(w)
    BY <1>7 DEF PersistFails, PersistFailsLate, FailureLands, Next, WorkerStep
  <1>8. CASE ResetToPending(w)
    BY <1>8 DEF ResetToPending, Next, WorkerStep
  <1>9. CASE Recheck(w)
    <2>1. CASE Return(w)
      BY <2>1 DEF Next, WorkerStep
    <2>2. CASE ~Return(w)
      <3> DEFINE v == VersionOf(job[w])
                 mine == IF golden # captured[w] THEN Unclaimed({v}, golden) ELSE {}
      <3>1. /\ mine = {v} /\ CreateIntents({v} \X {golden})
            /\ NoFault /\ UNCHANGED <<queue, dispatcherVars, workerVars>>
        BY <1>9, <2>2 DEF Recheck, ClaimReevaluation
      <3>2. v \in Version
        BY <1>9, WorkerHasVersion DEF Recheck
      <3>3. golden \in 0..MaxGolden
        BY DEF EvaluationTypeOK
      <3>4. {v} \X {golden} \in SUBSET Intent
        <4>1. golden = 0 \/ golden \in 1..MaxGolden
          BY <3>3, EvaluationAssumption
        <4>2. <<v, golden>> \in Intent
          BY <3>2, <4>1, KeysOfVersion
        <4> QED BY <4>2
      <3> HIDE DEF v, mine
      <3> QED BY <3>1, <3>4, FaultsCount DEF Addition, TypeOK
    <2> QED BY <2>1, <2>2
  <1>10. CASE EnqueueStale(w)
    <2>1. VersionOf(job[w]) \in Version
      BY <1>10, WorkerHasVersion DEF EnqueueStale
    <2>2. /\ Republish(VersionOf(job[w])) \/ NothingInFlight(VersionOf(job[w]))
          /\ UNCHANGED workerVars \/ Release(w)
          /\ NoFault /\ UNCHANGED dispatcherVars
      BY <1>10 DEF EnqueueStale
    <2>3. /\ UNCHANGED intentVars
          /\ queue' \in [Intent -> Nat]
          /\ \A i \in Intent : queue'[i] > 0 => queue[i] > 0 \/ state'[i] # "absent"
      BY <2>1, <2>2, RepublishQueue
    <2> QED BY <2>2, <2>3, FaultsCount DEF Addition
  <1>11. CASE MintStale(w)
    <2>1. VersionOf(job[w]) \in Version
      BY <1>11, WorkerHasVersion DEF MintStale
    <2>2. MintRetry(VersionOf(job[w])) /\ Release(w) /\ NoFault /\ UNCHANGED dispatcherVars
      BY <1>11 DEF MintStale
    <2>3. /\ \E S \in SUBSET Intent : CreateIntents(S)
          /\ queue' \in [Intent -> Nat]
          /\ \A i \in Intent : queue'[i] > 0 => queue[i] > 0 \/ state'[i] # "absent"
      BY <2>1, <2>2, MintAdds
    <2> QED BY <2>2, <2>3, FaultsCount DEF Addition
  <1>12. CASE Vanish(w)
    BY <1>12 DEF Vanish, Next, WorkerStep
  <1> QED BY <1>1, <1>2, <1>3, <1>4, <1>5, <1>6, <1>7, <1>8, <1>9, <1>10, <1>11, <1>12
        DEF EvaluateStep, Settle

\* No step of the composition does anything else to the outbox.
LEMMA StepIsOutboxStep ==
  ASSUME TypeOK, EvaluationTypeOK, [EvaluationNext]_allVars
  PROVE  [Next]_vars \/ Addition \/ Refusal
  <1>1. CASE UNCHANGED allVars \/ RegisterGolden
    BY <1>1 DEF allVars, outboxVars, RegisterGolden
  <1>2. CASE ReclaimLeases \/ LateReclaim
    BY <1>2 DEF ReclaimLeases, LateReclaim, ReclaimLeasesReads, ReclaimLeasesCommits,
      ReclaimLeasesDies, Next
  <1>3. CASE OutboxStep
    BY <1>3 DEF OutboxStep, Next, WorkerStep, IntentStep, LeaseEnds
  <1>4. CASE \E w \in Worker : EvaluateStep(w)
    BY <1>4, EvaluateStepOutbox
  <1> QED BY <1>1, <1>2, <1>3, <1>4, ApiStepAdds DEF EvaluationNext

\* So the outbox keeps its types and its ledger, and in a clean environment its
\* ownership.
LEMMA StepKeepsOutbox ==
  ASSUME TypeOK, LedgerInv, EvaluationTypeOK, [EvaluationNext]_allVars
  PROVE  /\ TypeOK' /\ LedgerInv'
         /\ CleanEnvironment /\ OwnershipInv => OwnershipInv'
  <1>1. CASE [Next]_vars
    BY <1>1, StepType, StepLedger, StepOwnership
  <1>2. CASE Addition
    BY <1>2, AdditionType, AdditionLedger, AdditionOwnership
  <1>3. CASE Refusal
    BY <1>3, RefusalKeeps
  <1> QED BY <1>1, <1>2, <1>3, StepIsOutboxStep

-----------------------------------------------------------------------------
(* Type correctness of the composition *)

\* The tables and the API's pending calls.
TablesTyped ==
  /\ status \in [Version -> Decided \cup {"absent", "pending", "evaluating"}]
  /\ golden \in 0..MaxGolden
  /\ runs \subseteq [intent : Intent, golden : 0..MaxGolden, started : Nat,
                     outcome : Outcome]
  /\ starts \in [Version -> Nat]
  /\ claims \subseteq Version \X (1..MaxGolden)
  /\ claimedAt \in [Version -> Nat]
  /\ toFlag \subseteq 1..golden
  /\ toEnqueue \subseteq Version
  /\ minting \in [Version -> Nat]
  /\ freeing \subseteq Version

RunStages == {"claimed", "starting", "running"}
TailStages == {"resetting", "recheck", "enqueue", "minting"}

\* Where the workers stand.
RunsTyped ==
  /\ stage \in [Worker -> {"none"} \cup RunStages \cup TailStages]
  /\ \A w \in Worker :
       /\ stage[w] \in RunStages <=> pc[w] = "held"
       /\ stage[w] \in TailStages <=> pc[w] = "tail"
  /\ captured \in [Worker -> 0..MaxGolden]
  /\ began \in [Worker -> Nat]

\* A run is bound to a set that has been registered: what makes the type of
\* the claims inductive, as Recheck claims the latest set when it is another.
CapturedKnown == \A w \in Worker : captured[w] <= golden

\* The type invariant is the two together with the record of the claims.
LEMMA TypeParts ==
  EvaluationTypeOK <=>
    TablesTyped /\ RunsTyped /\ outlives \in [Intent -> SUBSET Worker]
  BY DEF EvaluationTypeOK, TablesTyped, RunsTyped, RunStages, TailStages

\* A golden set that is claimed or captured has been registered.
LEMMA GoldenBounds ==
  ASSUME EvaluationTypeOK
  PROVE  /\ golden \in Nat /\ golden \in 0..MaxGolden /\ MaxGolden \in Nat
         /\ \A w \in Worker : captured[w] \in 0..MaxGolden
  BY EvaluationAssumption DEF EvaluationTypeOK

\* Writing a status of the state machine.
LEMMA SetStatusType ==
  ASSUME TablesTyped, NEW v \in Version,
         NEW to \in Decided \cup {"absent", "pending", "evaluating"},
         SetStatus(v, to)
  PROVE  status' \in [Version -> Decided \cup {"absent", "pending", "evaluating"}]
  BY DEF TablesTyped, SetStatus

\* The verdict of a scored run is one the table of runs and the statuses know.
LEMMA VerdictType ==
  ASSUME NEW verdict \in Verdicts
  PROVE  verdict \in Outcome /\ StatusForVerdict[verdict] \in Decided
  BY EvaluationAssumption DEF Outcome, StatusForVerdict, Decided

\* The API and the recovery passes keep the tables typed.
LEMMA ApiStepTables ==
  ASSUME TypeOK, EvaluationTypeOK,
         \/ \E v \in Version : Submit(v) \/ EnqueueFlagged(v) \/ MintFlagged(v)
         \/ RegisterGolden
         \/ \E g \in 1..MaxGolden : FlagForReevaluation(g)
         \/ ApiDies
         \/ RecoverOrphans
         \/ ReclaimLeases \/ LateReclaim
  PROVE  TablesTyped' /\ UNCHANGED runVars
  <1>0. TablesTyped
    BY TypeParts
  <1>1. ASSUME NEW v \in Version, Submit(v) PROVE TablesTyped' /\ UNCHANGED runVars
    BY <1>0, <1>1, SetStatusType DEF Submit, TablesTyped, apiVars
  <1>2. ASSUME NEW v \in Version, EnqueueFlagged(v)
        PROVE  TablesTyped' /\ UNCHANGED runVars
    BY <1>0, <1>2 DEF EnqueueFlagged, TablesTyped, tableVars
  <1>3. ASSUME NEW v \in Version, MintFlagged(v)
        PROVE  TablesTyped' /\ UNCHANGED runVars
    BY <1>0, <1>3 DEF MintFlagged, TablesTyped, tableVars
  <1>4. CASE RegisterGolden
    <2>1. golden' \in 0..MaxGolden /\ toFlag' \subseteq 1..golden'
      BY <1>0, <1>4, GoldenBounds DEF RegisterGolden, TablesTyped
    <2> QED BY <1>0, <1>4, <2>1 DEF RegisterGolden, TablesTyped
  <1>5. ASSUME NEW g \in 1..MaxGolden, FlagForReevaluation(g)
        PROVE  TablesTyped' /\ UNCHANGED runVars
    <2> DEFINE S == Unclaimed(Eligible(g), g)
    <2>1. S \subseteq Version
      BY DEF Unclaimed, Eligible
    <2>2. /\ claims' = claims \cup (S \X {g})
          /\ claimedAt' = [v \in Version |-> IF v \in S THEN starts[v] ELSE claimedAt[v]]
          /\ toFlag' = toFlag \ {g} /\ toEnqueue' = toEnqueue \cup S
          /\ UNCHANGED <<status, golden, runs, starts, minting, freeing, runVars>>
      BY <1>5 DEF FlagForReevaluation, ClaimReevaluation
    <2> HIDE DEF S
    <2>3. claims' \subseteq Version \X (1..MaxGolden)
      BY <1>0, <2>1, <2>2 DEF TablesTyped
    <2>4. claimedAt' \in [Version -> Nat]
      BY <1>0, <2>2 DEF TablesTyped
    <2> QED BY <1>0, <2>1, <2>2, <2>3, <2>4 DEF TablesTyped
  <1>6. CASE ApiDies
    <2>1. toFlag' \subseteq toFlag /\ toEnqueue' \subseteq toEnqueue
      BY <1>6 DEF ApiDies
    <2>2. minting' \in [Version -> Nat]
      <3>1. CASE minting' = minting
        BY <1>0, <3>1 DEF TablesTyped
      <3>2. ASSUME NEW v \in Version, minting[v] > 0,
                   minting' = [minting EXCEPT ![v] = @ - 1]
            PROVE  minting' \in [Version -> Nat]
        BY <1>0, <3>2 DEF TablesTyped
      <3> QED BY <1>6, <3>1, <3>2 DEF ApiDies
    <2> QED BY <1>0, <1>6, <2>1, <2>2 DEF ApiDies, TablesTyped, tableVars
  <1>7. CASE RecoverOrphans
    BY <1>0, <1>7 DEF RecoverOrphans, TablesTyped, tableVars
  <1>8. CASE ReclaimLeases
    <2>1. \A v \in Version : Freed(v) \in Decided \cup {"absent", "pending", "evaluating"}
      BY <1>0 DEF Freed, TablesTyped
    <2> QED BY <1>0, <1>8, <2>1 DEF ReclaimLeases, TablesTyped, apiVars
  <1>9. CASE LateReclaim
    <2>1. freeing' \subseteq Version
      <3>1. VersionsReclaimed \subseteq Version
        BY KeysOfVersion DEF VersionsReclaimed, Overdue
      <3> QED BY <1>9, <3>1 DEF LateReclaim, ReclaimLeasesReads, ReclaimLeasesCommits,
            ReclaimLeasesDies
    <2>2. status' \in [Version -> Decided \cup {"absent", "pending", "evaluating"}]
      BY <1>0, <1>9 DEF LateReclaim, ReclaimLeasesReads, ReclaimLeasesCommits,
        ReclaimLeasesDies, TablesTyped, tableVars
    <2> QED BY <1>0, <1>9, <2>1, <2>2 DEF LateReclaim, ReclaimLeasesReads,
          ReclaimLeasesCommits, ReclaimLeasesDies, TablesTyped, tableVars
  <1> QED BY <1>1, <1>2, <1>3, <1>4, <1>5, <1>6, <1>7, <1>8, <1>9

\* A worker that settles its run leaves a typed row behind.
LEMMA RecordRunType ==
  ASSUME TypeOK, EvaluationTypeOK, NEW w \in Worker, stage[w] = "running",
         NEW o \in Outcome, RecordRun(w, o)
  PROVE  runs' \subseteq [intent : Intent, golden : 0..MaxGolden, started : Nat,
                          outcome : Outcome]
  <1>1. job[w] \in Intent
    BY WorkerHasVersion
  <1>2. captured[w] \in 0..MaxGolden /\ began[w] \in Nat
    BY DEF EvaluationTypeOK
  <1> QED BY <1>1, <1>2 DEF RecordRun, EvaluationTypeOK

\* What a worker does inside evaluate_version keeps the tables typed.
LEMMA EvaluateStepTables ==
  ASSUME TypeOK, EvaluationTypeOK, CapturedKnown, NEW w \in Worker, EvaluateStep(w)
  PROVE  TablesTyped'
  <1>0. TablesTyped
    BY TypeParts
  <1> DEFINE v == VersionOf(job[w])
  <1>1. CASE UNCHANGED <<tableVars, apiVars>>
    BY <1>0, <1>1 DEF TablesTyped, tableVars, apiVars
  <1>2. CASE Start(w)
    <2>1. v \in Version
      BY <1>2, WorkerHasVersion DEF Start
    <2>2. /\ SetStatus(v, "evaluating")
          /\ starts' = [starts EXCEPT ![v] = @ + 1]
          /\ UNCHANGED <<golden, runs, claims, claimedAt, apiVars>>
      BY <1>2 DEF Start
    <2>3. status' \in [Version -> Decided \cup {"absent", "pending", "evaluating"}]
      BY <1>0, <2>1, <2>2, SetStatusType
    <2>4. starts' \in [Version -> Nat]
      BY <1>0, <2>1, <2>2 DEF TablesTyped
    <2> QED BY <1>0, <2>2, <2>3, <2>4 DEF TablesTyped, apiVars
  <1>3. CASE SettleInfra(w)
    <2>1. v \in Version /\ stage[w] = "running"
      BY <1>3, WorkerHasVersion DEF SettleInfra, At
    <2>2. /\ SetStatus(v, "pending") /\ RecordRun(w, "infra")
          /\ UNCHANGED <<golden, starts, claims, claimedAt, apiVars>>
      BY <1>3 DEF SettleInfra
    <2>3. status' \in [Version -> Decided \cup {"absent", "pending", "evaluating"}]
      BY <1>0, <2>1, <2>2, SetStatusType
    <2>4. "infra" \in Outcome
      BY DEF Outcome
    <2> QED BY <1>0, <2>1, <2>2, <2>3, <2>4, RecordRunType DEF TablesTyped, apiVars
  <1>4. ASSUME NEW verdict \in Verdicts, SettleScored(w, verdict) PROVE TablesTyped'
    <2>1. v \in Version /\ stage[w] = "running"
      BY <1>4, WorkerHasVersion DEF SettleScored, At
    <2>2. /\ SetStatus(v, StatusForVerdict[verdict]) /\ RecordRun(w, verdict)
          /\ UNCHANGED <<golden, starts, claims, claimedAt, apiVars>>
      BY <1>4 DEF SettleScored
    <2>3. verdict \in Outcome /\ StatusForVerdict[verdict] \in Decided
      BY VerdictType
    <2>4. status' \in [Version -> Decided \cup {"absent", "pending", "evaluating"}]
      BY <1>0, <2>1, <2>2, <2>3, SetStatusType
    <2> QED BY <1>0, <2>1, <2>2, <2>3, <2>4, RecordRunType DEF TablesTyped, apiVars
  <1>5. CASE ResetToPending(w)
    <2>1. v \in Version
      BY <1>5, WorkerHasVersion DEF ResetToPending
    <2>2. /\ SetStatus(v, IF status[v] = "evaluating" THEN "pending" ELSE status[v])
          /\ UNCHANGED <<golden, runs, starts, claims, claimedAt, apiVars>>
      BY <1>5 DEF ResetToPending
    <2>3. (IF status[v] = "evaluating" THEN "pending" ELSE status[v])
            \in Decided \cup {"absent", "pending", "evaluating"}
      BY <1>0, <2>1 DEF TablesTyped
    <2>4. status' \in [Version -> Decided \cup {"absent", "pending", "evaluating"}]
      BY <1>0, <2>1, <2>2, <2>3, SetStatusType
    <2> QED BY <1>0, <2>2, <2>4 DEF TablesTyped, apiVars
  <1>6. CASE Recheck(w)
    <2>1. v \in Version
      BY <1>6, WorkerHasVersion DEF Recheck
    <2>2. UNCHANGED <<status, golden, runs, starts, apiVars>>
      BY <1>6 DEF Recheck
    <2>3. CASE UNCHANGED <<claims, claimedAt>>
      BY <1>0, <2>2, <2>3 DEF TablesTyped, apiVars
    <2>4. CASE ~UNCHANGED <<claims, claimedAt>>
      <3>1. golden # captured[w] /\ <<v, golden>> \notin claims
            /\ ClaimReevaluation({v}, golden)
            /\ stage[w] = "recheck"
        BY <1>6, <2>4 DEF Recheck, Unclaimed
      <3>2. golden \in 0..MaxGolden
        BY GoldenBounds
      <3>3. golden \in 1..MaxGolden
        BY <3>1, <3>2, GoldenBounds DEF CapturedKnown
      <3> QED BY <1>0, <2>1, <2>2, <3>1, <3>3 DEF ClaimReevaluation, TablesTyped, apiVars
    <2> QED BY <2>3, <2>4
  <1> QED BY <1>1, <1>2, <1>3, <1>4, <1>5, <1>6
        DEF EvaluateStep, Settle, Claim, ReadStatus, StartRefused, SettleRefused,
          PersistFails, PersistFailsLate, FailureLands, EnqueueStale, MintStale, Vanish,
          tableVars, apiVars

\* Every step of a worker moves it between places that agree with its claim.
LEMMA EvaluateStepRuns ==
  ASSUME TypeOK, EvaluationTypeOK, CapturedKnown, NEW w \in Worker, EvaluateStep(w)
  PROVE  RunsTyped' /\ CapturedKnown'
  <1>0. RunsTyped
    BY TypeParts
  <1>1. /\ golden \in Nat /\ golden \in 0..MaxGolden /\ MaxGolden \in Nat
        /\ golden' = golden
    BY GoldenBounds DEF EvaluateStep, Claim, ReadStatus, Start, StartRefused, Settle,
      SettleInfra, SettleScored, SettleRefused, PersistFails, PersistFailsLate,
      FailureLands, ResetToPending, Recheck, EnqueueStale, MintStale, Vanish, tableVars
  <1> USE DEF RunsTyped, RunStages, TailStages, CapturedKnown
  <1>2. ASSUME Leave(w), Release(w) PROVE RunsTyped' /\ CapturedKnown'
    BY <1>0, <1>1, <1>2 DEF Leave, Release, TypeOK
  <1>3. CASE Claim(w)
    BY <1>0, <1>1, <1>3 DEF Claim, ClaimCommit, At, TypeOK
  <1>4. CASE ReadStatus(w)
    BY <1>0, <1>1, <1>4 DEF ReadStatus, At, TypeOK, outboxVars, vars, workerVars
  <1>5. CASE Start(w)
    <2>1. /\ stage[w] = "starting"
          /\ stage' = [stage EXCEPT ![w] = "running"]
          /\ captured' = [captured EXCEPT ![w] = golden]
          /\ pc' = pc
      BY <1>5 DEF Start, workerVars
    <2>2. began' = [began EXCEPT ![w] = starts[VersionOf(job[w])] + 1]
      BY <1>5 DEF Start
    <2>3. VersionOf(job[w]) \in Version
      BY <2>1, WorkerHasVersion
    <2>4. began' \in [Worker -> Nat]
      BY <1>0, <2>2, <2>3, TypeParts DEF TablesTyped
    <2>5. captured' \in [Worker -> 0..MaxGolden]
      BY <1>0, <1>1, <2>1
    <2>6. CapturedKnown'
      BY <1>0, <1>1, <2>1
    <2>7. /\ stage' \in [Worker -> {"none"} \cup RunStages \cup TailStages]
          /\ \A u \in Worker : /\ stage'[u] \in RunStages <=> pc'[u] = "held"
                               /\ stage'[u] \in TailStages <=> pc'[u] = "tail"
      BY <1>0, <2>1
    <2> QED BY <2>4, <2>5, <2>6, <2>7
  <1>6. CASE StartRefused(w)
    BY <1>2, <1>6 DEF StartRefused
  <1>7. ASSUME At(w, "running", "recheck") \/ At(w, "running", "resetting"), ToTail(w)
        PROVE  RunsTyped' /\ CapturedKnown'
    BY <1>0, <1>1, <1>7 DEF At, ToTail, TypeOK
  <1>8. CASE Settle(w) \/ PersistFails(w) \/ FailureLands(w)
    BY <1>7, <1>8 DEF Settle, SettleInfra, SettleScored, SettleRefused, PersistFails,
      PersistFailsLate, FailureLands, Complete, CompleteIntent, Fail, FailReads,
      FailCommits, SettleFailed
  <1>9. CASE ResetToPending(w)
    BY <1>2, <1>9 DEF ResetToPending, Return
  <1>10. CASE Recheck(w)
    <2>1. CASE Return(w) /\ Leave(w)
      BY <1>2, <2>1 DEF Return
    <2>2. CASE At(w, "recheck", "enqueue") /\ UNCHANGED workerVars
      BY <1>0, <1>1, <2>2 DEF At, workerVars
    <2> QED BY <1>10, <2>1, <2>2 DEF Recheck
  <1>11. CASE EnqueueStale(w)
    BY <1>0, <1>1, <1>2, <1>11 DEF EnqueueStale, At, workerVars
  <1>12. CASE MintStale(w)
    BY <1>2, <1>12 DEF MintStale
  <1>13. CASE Vanish(w)
    BY <1>2, <1>13 DEF Vanish, WorkerDies, Abandon
  <1>14. CASE PersistFailsLate(w)
    BY <1>0, <1>1, <1>14 DEF PersistFailsLate, FailReads, runVars
  <1> QED BY <1>3, <1>4, <1>5, <1>6, <1>8, <1>9, <1>10, <1>11, <1>12, <1>13, <1>14
        DEF EvaluateStep

\* A step of the outbox around the evaluations starts or ends none of them.
LEMMA OutboxStepRuns ==
  ASSUME TypeOK, EvaluationTypeOK, OutboxStep
  PROVE  \A w \in Worker : /\ pc'[w] = "held" <=> pc[w] = "held"
                           /\ pc'[w] = "tail" <=> pc[w] = "tail"
                           /\ pc[w] \in {"held", "tail"} => job'[w] = job[w]
  <1>1. CASE UNCHANGED workerVars
    BY <1>1 DEF workerVars
  <1>2. ASSUME NEW w \in Worker, NEW i \in Intent, Deliver(w, i)
        PROVE  \A u \in Worker : /\ pc'[u] = "held" <=> pc[u] = "held"
                                 /\ pc'[u] = "tail" <=> pc[u] = "tail"
                                 /\ pc[u] \in {"held", "tail"} => job'[u] = job[u]
    BY <1>2 DEF Deliver, TypeOK
  <1>3. ASSUME NEW w \in Worker, DuplicateCommit(w) \/ ClaimConflict(w)
        PROVE  \A u \in Worker : /\ pc'[u] = "held" <=> pc[u] = "held"
                                 /\ pc'[u] = "tail" <=> pc[u] = "tail"
                                 /\ pc[u] \in {"held", "tail"} => job'[u] = job[u]
    BY <1>3 DEF DuplicateCommit, ClaimConflict, Release, TypeOK
  <1> QED BY <1>1, <1>2, <1>3 DEF OutboxStep, DispatcherStep, LeaseDue, MarkDispatched,
    MarkReads, MarkCommits, Publish, PublishRaises, DispatchFails, DispatchFailReads,
    DispatchFailCommits, DispatcherDies, PublishDirectly, LoseMessage, LeaseEnds,
    LeaseRunsOut, BackoffEnds

\* Every step keeps the whole state typed.
LEMMA StepEvaluationType ==
  ASSUME TypeOK, EvaluationTypeOK, CapturedKnown, [EvaluationNext]_allVars
  PROVE  EvaluationTypeOK' /\ CapturedKnown'
  <1>0. TablesTyped /\ RunsTyped /\ outlives \in [Intent -> SUBSET Worker]
    BY TypeParts
  <1>9. TablesTyped' /\ RunsTyped' /\ outlives' \in [Intent -> SUBSET Worker]
          => EvaluationTypeOK'
    BY DEF EvaluationTypeOK, TablesTyped, RunsTyped, RunStages, TailStages
  <1>1. outlives' \in [Intent -> SUBSET Worker]
    BY <1>0 DEF EvaluationNext, TrackClaims, allVars
  <1>2. ASSUME UNCHANGED runVars, golden' \in Nat, golden' >= golden,
               \A w \in Worker : /\ pc'[w] = "held" <=> pc[w] = "held"
                                 /\ pc'[w] = "tail" <=> pc[w] = "tail"
        PROVE  RunsTyped' /\ CapturedKnown'
    <2>1. RunsTyped'
      BY <1>0, <1>2 DEF RunsTyped, runVars
    <2>2. golden \in Nat /\ \A w \in Worker : captured[w] \in Nat
      BY <1>0, GoldenBounds DEF RunsTyped
    <2> QED BY <1>2, <2>1, <2>2 DEF CapturedKnown, runVars
  <1>3. CASE \/ \E v \in Version : Submit(v) \/ EnqueueFlagged(v) \/ MintFlagged(v)
             \/ RegisterGolden
             \/ \E g \in 1..MaxGolden : FlagForReevaluation(g)
             \/ ApiDies
             \/ RecoverOrphans
             \/ ReclaimLeases \/ LateReclaim
    <2>1. TablesTyped' /\ UNCHANGED runVars
      BY <1>3, ApiStepTables
    <2>2. golden' \in Nat /\ golden' >= golden
      <3>1. golden' = golden \/ golden' = golden + 1
        BY <1>3 DEF Submit, EnqueueFlagged, MintFlagged, RegisterGolden,
          FlagForReevaluation, ApiDies, RecoverOrphans, ReclaimLeases, LateReclaim,
          ReclaimLeasesReads, ReclaimLeasesCommits, ReclaimLeasesDies, tableVars
      <3> QED BY <3>1, GoldenBounds
    <2>3. UNCHANGED workerVars
      BY <1>3 DEF Submit, EnqueueFlagged, MintFlagged, RegisterGolden, ReclaimLeases,
        LateReclaim, ReclaimLeasesReads, ReclaimLeasesCommits, ReclaimLeasesDies,
        FlagForReevaluation, ApiDies, RecoverOrphans, Reclaim, ReclaimReads,
        ReclaimCommits, ReclaimDies, outboxVars, vars
    <2> QED BY <1>1, <1>2, <1>9, <2>1, <2>2, <2>3 DEF workerVars
  <1>4. CASE OutboxStep /\ UNCHANGED <<tableVars, apiVars, runVars>>
    <2>1. TablesTyped' /\ golden' = golden
      BY <1>0, <1>4 DEF TablesTyped, tableVars, apiVars
    <2> QED BY <1>1, <1>2, <1>4, <1>9, <2>1, OutboxStepRuns, GoldenBounds
  <1>5. ASSUME NEW w \in Worker, EvaluateStep(w)
        PROVE  EvaluationTypeOK' /\ CapturedKnown'
    BY <1>1, <1>5, <1>9, EvaluateStepTables, EvaluateStepRuns
  <1>6. CASE UNCHANGED allVars
    BY <1>6 DEF allVars, outboxVars, vars, workerVars, tableVars, apiVars, runVars,
      EvaluationTypeOK, CapturedKnown
  <1> QED BY <1>3, <1>4, <1>5, <1>6 DEF EvaluationNext

\* Nothing has begun in the initial state.
LEMMA InitEvaluation ==
  EvaluationInit => TypeOK /\ LedgerInv /\ OwnershipInv /\ EvaluationTypeOK /\ CapturedKnown
  <1> SUFFICES ASSUME EvaluationInit
               PROVE  /\ TypeOK /\ LedgerInv /\ OwnershipInv
                      /\ EvaluationTypeOK /\ CapturedKnown
    OBVIOUS
  <1>1. TypeOK /\ LedgerInv /\ OwnershipInv
    BY InitOwnership DEF EvaluationInit
  <1>2. EvaluationTypeOK
    BY EvaluationAssumption DEF EvaluationInit, Init, EvaluationTypeOK
  <1>3. CapturedKnown
    BY DEF EvaluationInit, CapturedKnown
  <1> QED BY <1>1, <1>2, <1>3

\* The part of the strengthening that holds in every environment.
EvaluationInv == TypeOK /\ LedgerInv /\ EvaluationTypeOK /\ CapturedKnown

\* It is inductive.
LEMMA StepEvaluationInv == EvaluationInv /\ [EvaluationNext]_allVars => EvaluationInv'
  BY StepKeepsOutbox, StepEvaluationType DEF EvaluationInv

\* Whatever happens, a worker inside evaluate_version has a claim or its tail, a
\* run is bound to a golden set that exists, and every row names a version, a
\* set and an outcome there are.
THEOREM EvaluationTypeCorrect == EvaluationSpec => []EvaluationTypeOK
  <1>1. EvaluationInit => EvaluationInv
    BY InitEvaluation DEF EvaluationInv
  <1>2. EvaluationInv => EvaluationTypeOK
    BY DEF EvaluationInv
  <1> QED BY <1>1, <1>2, StepEvaluationInv, PTL DEF EvaluationSpec

\* The attempt ledger of JobIntents is exact in the composition too, where rows
\* are created and published by submissions, re-evaluations and retries.
THEOREM EvaluationLedgerExact == EvaluationSpec => []LedgerExact
  <1>1. EvaluationInit => EvaluationInv
    BY InitEvaluation DEF EvaluationInv
  <1>2. EvaluationInv => LedgerExact
    BY LedgerInvExact DEF EvaluationInv
  <1> QED BY <1>1, <1>2, StepEvaluationInv, PTL DEF EvaluationSpec

\* And so is the promise of one run per intent and one holder per claim: no
\* submission, re-evaluation, retry, refusal or recovery pass breaks it.
THEOREM EvaluationExactlyOnce ==
  CleanEnvironment => (EvaluationSpec => []AtMostOneRun /\ []SingleHolder)
  <1> SUFFICES ASSUME CleanEnvironment
               PROVE  EvaluationSpec => []AtMostOneRun /\ []SingleHolder
    OBVIOUS
  <1>1. EvaluationInit => EvaluationInv /\ OwnershipInv
    BY InitEvaluation DEF EvaluationInv
  <1>2. EvaluationInv /\ OwnershipInv /\ [EvaluationNext]_allVars
          => EvaluationInv' /\ OwnershipInv'
    BY StepKeepsOutbox, StepEvaluationInv DEF EvaluationInv
  <1>3. OwnershipInv => AtMostOneRun
    BY DEF OwnershipInv
  <1>4. OwnershipInv => SingleHolder
    BY DEF OwnershipInv
  <1> QED BY <1>1, <1>2, <1>3, <1>4, PTL DEF EvaluationSpec

-----------------------------------------------------------------------------
(* The status as a mutex                                                     *)
(*                                                                           *)
(* It is one only as long as a version has one open intent at a time: with   *)
(* two, the claim of one may run out while the other is evaluated, and the   *)
(* reclaim frees the version under its runner.                               *)

OneOpenIntent ==
  \A i, j \in Intent :
    /\ VersionOf(i) = VersionOf(j)
    /\ state[i] \in NonTerminal /\ state[j] \in NonTerminal
    => i = j

\* In addition no start commits on a status that has changed since it was read.
SoloEnvironment == CleanEnvironment /\ "stale_start" \notin FaultKinds

\* between the start of a run and the end of its status writes
Busy(w) == stage[w] \in {"running", "resetting"}

BusyHoldsMutex ==
  \A w \in Worker : Busy(w) => status[VersionOf(job[w])] = "evaluating"

BusyAlone ==
  \A u, w \in Worker :
    Busy(u) /\ Busy(w) /\ VersionOf(job[u]) = VersionOf(job[w]) => u = w

\* a claim granted beside a reset outlives it, so its end frees nothing
ResetNotOvertaken ==
  \A w \in Worker, i \in Intent :
    /\ stage[w] = "resetting" /\ VersionOf(i) = VersionOf(job[w])
    /\ state[i] = "claimed"
    => lease[i] = "live" /\ w \in outlives[i]

\* intents, claims and pending calls are about versions there are
KnownVersions ==
  /\ \A i \in Intent : state[i] # "absent" => status[VersionOf(i)] # "absent"
  /\ \A v \in toEnqueue : status[v] # "absent"
  /\ \A v \in Version : minting[v] > 0 => status[v] # "absent"
  /\ \A c \in claims : status[c[1]] # "absent"

MutexInv ==
  /\ BusyHoldsMutex
  /\ BusyAlone
  /\ ResetNotOvertaken
  /\ KnownVersions

\* Only seven steps write a status.
LEMMA StatusWriters ==
  ASSUME EvaluationInv, [EvaluationNext]_allVars
  PROVE  \/ status' = status
         \/ ReclaimLeases \/ ReclaimLeasesCommits
         \/ \E v \in Version : Submit(v)
         \/ \E w \in Worker :
              /\ stage[w] # "none" /\ VersionOf(job[w]) \in Version
              /\ \/ Start(w) \/ SettleInfra(w) \/ ResetToPending(w)
                 \/ \E verdict \in Verdicts : SettleScored(w, verdict)
  <1>1. ASSUME NEW w \in Worker, EvaluateStep(w), status' # status
        PROVE  /\ stage[w] # "none" /\ VersionOf(job[w]) \in Version
               /\ \/ Start(w) \/ SettleInfra(w) \/ ResetToPending(w)
                  \/ \E verdict \in Verdicts : SettleScored(w, verdict)
    <2>1. \/ Start(w) \/ SettleInfra(w) \/ ResetToPending(w)
          \/ \E verdict \in Verdicts : SettleScored(w, verdict)
      BY <1>1 DEF EvaluateStep, Settle, Claim, ReadStatus, StartRefused, SettleRefused,
        PersistFails, PersistFailsLate, FailureLands, Recheck, EnqueueStale, MintStale,
        Vanish, tableVars
    <2>2. stage[w] # "none"
      BY <2>1 DEF Start, SettleInfra, ResetToPending, SettleScored, At
    <2> QED BY <2>1, <2>2, WorkerHasVersion DEF EvaluationInv
  <1>2. \/ status' = status \/ ReclaimLeases \/ ReclaimLeasesCommits
        \/ \E v \in Version : Submit(v)
        \/ \E w \in Worker : EvaluateStep(w)
    BY DEF EvaluationNext, EnqueueFlagged, MintFlagged, RegisterGolden,
      FlagForReevaluation, ApiDies, RecoverOrphans, LateReclaim, ReclaimLeasesReads,
      ReclaimLeasesDies, tableVars, allVars
  <1> QED BY <1>1, <1>2

\* A version that exists goes on existing.
LEMMA StatusStays ==
  ASSUME EvaluationInv, [EvaluationNext]_allVars, NEW v \in Version,
         status[v] # "absent"
  PROVE  status'[v] # "absent"
  <1>0. TablesTyped
    BY TypeParts DEF EvaluationInv
  <1>1. ASSUME NEW u \in Version, NEW to, to # "absent", SetStatus(u, to)
        PROVE  status'[v] # "absent"
    BY <1>0, <1>1 DEF SetStatus, TablesTyped
  <1>2. CASE ReclaimLeases \/ ReclaimLeasesCommits
    BY <1>2 DEF ReclaimLeases, ReclaimLeasesCommits, Freed
  <1>3. CASE \E u \in Version : Submit(u)
    BY <1>1, <1>3 DEF Submit
  <1>4. ASSUME NEW w \in Worker, VersionOf(job[w]) \in Version,
               Start(w) \/ SettleInfra(w)
        PROVE  status'[v] # "absent"
    BY <1>1, <1>4 DEF Start, SettleInfra
  <1>5. ASSUME NEW w \in Worker, VersionOf(job[w]) \in Version,
               NEW verdict \in Verdicts, SettleScored(w, verdict)
        PROVE  status'[v] # "absent"
    BY <1>1, <1>5, VerdictType DEF SettleScored, Decided
  <1>6. ASSUME NEW w \in Worker, VersionOf(job[w]) \in Version, ResetToPending(w)
        PROVE  status'[v] # "absent"
    BY <1>0, <1>6 DEF ResetToPending, SetStatus, TablesTyped
  <1> QED BY <1>2, <1>3, <1>4, <1>5, <1>6, StatusWriters

\* Messages, leased batches and workers name intents that exist.
AllKnown ==
  /\ \A i \in Intent : queue[i] > 0 => state[i] # "absent"
  /\ \A d \in Dispatcher, i \in Intent :
       i \in batch[d] \/ inHand[d] = i => state[i] # "absent"
  /\ \A i \in reclaiming : state[i] # "absent"
  /\ \A w \in Worker : pc[w] # "idle" => state[job[w]] # "absent"

\* A step of the outbox around the evaluations creates no row.
LEMMA OutboxStepCreatesNothing ==
  ASSUME TypeOK, AllKnown, OutboxStep, NEW i \in Intent, state'[i] # "absent"
  PROVE  state[i] # "absent"
  <1>1. CASE UNCHANGED state
    BY <1>1
  <1>2. ASSUME NEW d \in Dispatcher, LeaseDue(d) PROVE state[i] # "absent"
    BY <1>2 DEF LeaseDue, Due
  <1>3. ASSUME NEW d \in Dispatcher, NEW j \in Intent, MarkDispatched(d, j)
        PROVE  state[i] # "absent"
    BY <1>3 DEF MarkDispatched, TypeOK
  <1>4. ASSUME NEW d \in Dispatcher, DispatchFails(d) \/ DispatchFailCommits(d)
        PROVE  state[i] # "absent"
    <2>1. inHand[d] \in Intent /\ state[inHand[d]] # "absent"
      BY <1>4 DEF DispatchFails, DispatchFailCommits, TypeOK, AllKnown
    <2>2. UNCHANGED intentVars \/ \E n, read : FailWrite(inHand[d], n, read)
      BY <1>4 DEF DispatchFails, DispatchFailCommits, FailIntent
    <2>3. ASSUME NEW n, NEW read, FailWrite(inHand[d], n, read)
          PROVE  state[i] # "absent"
      BY <2>1, <2>3 DEF FailWrite, TypeOK
    <2> QED BY <2>2, <2>3 DEF intentVars
  <1>5. ASSUME NEW d \in Dispatcher, MarkCommits(d) PROVE state[i] # "absent"
    <2>1. inHand[d] \in Intent
      BY <1>5 DEF MarkCommits, TypeOK
    <2> QED BY <1>5, <2>1 DEF MarkCommits, AllKnown, TypeOK
  <1> QED BY <1>1, <1>2, <1>3, <1>4, <1>5 DEF OutboxStep, DispatcherStep, Publish,
        PublishRaises, MarkReads, DispatchFailReads, DispatcherDies, PublishDirectly,
        LoseMessage, LeaseEnds, LeaseRunsOut, BackoffEnds, Deliver, DuplicateCommit,
        ClaimConflict, intentVars

\* What a worker does to the rows: it creates none but the next evaluation of
\* its own version.
LEMMA EvaluateStepCreates ==
  ASSUME TypeOK, OwnershipInv, EvaluationTypeOK, NEW w \in Worker, EvaluateStep(w)
  PROVE  /\ \A i \in Intent : state'[i] # "absent" => state[i] # "absent" \/
              (stage[w] # "none" /\ VersionOf(i) = VersionOf(job[w]))
         /\ \A c \in claims' : c \in claims \/
              (stage[w] # "none" /\ c[1] = VersionOf(job[w]))
         /\ UNCHANGED apiVars
  <1> DEFINE v == VersionOf(job[w])
             Rows == \A i \in Intent : state'[i] # "absent" => state[i] # "absent" \/
                       (stage[w] # "none" /\ VersionOf(i) = v)
  <1>0. \A u \in Worker : pc[u] # "idle" => job[u] \in Intent /\ state[job[u]] # "absent"
    BY DEF OwnershipInv, KnownOnly, TypeOK
  <1>1. UNCHANGED apiVars
    BY DEF EvaluateStep, Settle, Claim, ReadStatus, Start, StartRefused, SettleInfra,
      SettleScored, SettleRefused, PersistFails, PersistFailsLate, FailureLands,
      ResetToPending, Recheck, EnqueueStale, MintStale, Vanish
  <1>2. \A c \in claims' : c \in claims \/ (stage[w] # "none" /\ c[1] = v)
    <2>1. claims' = claims \/ (Recheck(w) /\ ClaimReevaluation({v}, golden))
      BY DEF EvaluateStep, Settle, Claim, ReadStatus, Start, StartRefused, SettleInfra,
        SettleScored, SettleRefused, PersistFails, PersistFailsLate, FailureLands,
        ResetToPending, Recheck, EnqueueStale, MintStale, Vanish, tableVars
    <2> QED BY <2>1 DEF Recheck, ClaimReevaluation
  <1>3. CASE UNCHANGED state
    BY <1>1, <1>2, <1>3
  <1>4. ASSUME ClaimCommit(w) PROVE Rows
    BY <1>0, <1>4 DEF ClaimCommit, TypeOK
  <1>5. ASSUME CompleteIntent(w) PROVE Rows
    BY <1>0, <1>5 DEF CompleteIntent, TypeOK
  <1>6. ASSUME SettleFailed(w, TRUE) \/ FailCommits(w) PROVE Rows
    BY <1>0, <1>6 DEF SettleFailed, FailCommits, FailIntent, FailWrite, TypeOK, intentVars
  <1>7. ASSUME stage[w] = "recheck", ClaimReevaluation({v}, golden) PROVE Rows
    BY <1>7 DEF ClaimReevaluation, CreateIntents, VersionOf
  <1>8. ASSUME stage[w] = "minting", MintRetry(v) PROVE Rows
    BY <1>8 DEF MintRetry, CreateIntents, Retries, VersionOf
  <1>9. \/ UNCHANGED state \/ ClaimCommit(w) \/ CompleteIntent(w)
        \/ SettleFailed(w, TRUE) \/ FailCommits(w)
        \/ stage[w] = "recheck" /\ ClaimReevaluation({v}, golden)
        \/ stage[w] = "minting" /\ MintRetry(v)
    BY DEF EvaluateStep, Settle, Claim, ReadStatus, Start, StartRefused, At,
      SettleInfra, SettleScored, SettleRefused, PersistFails, PersistFailsLate,
      FailureLands, ResetToPending, Recheck, EnqueueStale, MintStale, Vanish, Complete,
      Fail, FailReads, Return, Abandon, WorkerDies, Republish, NothingInFlight,
      intentVars, outboxVars, vars
  <1> QED BY <1>1, <1>2, <1>3, <1>4, <1>5, <1>6, <1>7, <1>8, <1>9

\* Where nobody overtakes them, the dispatcher's transactions have no second half.
LEMMA NothingLate ==
  ASSUME OwnershipInv
  PROVE  /\ ~ReclaimCommits
         /\ \A d \in Dispatcher : /\ ~MarkCommits(d) /\ ~DispatchFails(d)
                                 /\ ~DispatchFailReads(d) /\ ~DispatchFailCommits(d)
  BY DEF OwnershipInv, KnownOnly, ReclaimCommits, MarkCommits, DispatchFails,
    DispatchFailReads, DispatchFailCommits

\* What exists is about versions that exist: rows, claims and pending calls come
\* from a submission, an eligible version or a worker's own.
LEMMA StepKnownVersions ==
  ASSUME EvaluationInv, OwnershipInv, KnownVersions, [EvaluationNext]_allVars
  PROVE  KnownVersions'
  <1>0. TablesTyped /\ TypeOK /\ EvaluationTypeOK
    BY TypeParts DEF EvaluationInv
  <1>1. \A v \in Version : status[v] # "absent" => status'[v] # "absent"
    BY StatusStays
  <1> DEFINE Kept == /\ \A i \in Intent : state'[i] # "absent" =>
                          state[i] # "absent" \/ status'[VersionOf(i)] # "absent"
                     /\ \A v \in toEnqueue' : v \in toEnqueue \/ status'[v] # "absent"
                     /\ \A v \in Version : minting'[v] > 0 =>
                          minting[v] > 0 \/ status'[v] # "absent"
                     /\ \A c \in claims' : c \in claims \/ status'[c[1]] # "absent"
  <1>2. ASSUME Kept PROVE KnownVersions'
    <2>1. \A i \in Intent : VersionOf(i) \in Version
      BY KeysOfVersion
    <2>2. \A c \in claims : c[1] \in Version
      BY <1>0 DEF TablesTyped
    <2>3. \A v \in toEnqueue : v \in Version
      BY <1>0 DEF TablesTyped
    <2> QED BY <1>1, <1>2, <2>1, <2>2, <2>3 DEF KnownVersions
  <1>3. \A i \in Intent : \A S : CreateIntents(S) /\ state'[i] # "absent" =>
          state[i] # "absent" \/ i \in S
    BY DEF CreateIntents
  <1>4. ASSUME NEW v \in Version, Submit(v) PROVE Kept
    <2>1. status'[v] = "pending"
      BY <1>0, <1>4 DEF Submit, SetStatus, TablesTyped
    <2>2. VersionOf(<<v, 0>>) = v
      BY KeysOfVersion
    <2> QED BY <1>3, <1>4, <2>1, <2>2 DEF Submit, apiVars
  <1>5. ASSUME NEW v \in Version, EnqueueFlagged(v) PROVE Kept
    <2>1. status'[v] # "absent" /\ UNCHANGED <<intentVars, claims>>
          /\ toEnqueue' \subseteq toEnqueue
      BY <1>1, <1>5 DEF EnqueueFlagged, KnownVersions, Republish, NothingInFlight, tableVars
    <2>2. \A u \in Version : u # v => minting'[u] = minting[u]
      BY <1>0, <1>5 DEF EnqueueFlagged, TablesTyped
    <2> QED BY <2>1, <2>2 DEF intentVars
  <1>6. ASSUME NEW v \in Version, MintRetry(v), status[v] # "absent",
               UNCHANGED <<claims, toEnqueue>>,
               \A u \in Version : minting'[u] > 0 => minting[u] > 0
        PROVE  Kept
    <2>1. PICK j \in Retries(v) : CreateIntents({j})
      BY <1>6 DEF MintRetry
    <2>2. VersionOf(j) = v
      BY <2>1 DEF Retries, VersionOf
    <2> QED BY <1>1, <1>3, <1>6, <2>1, <2>2
  <1>7. ASSUME NEW v \in Version, MintFlagged(v) PROVE Kept
    <2>1. \A u \in Version : minting'[u] > 0 => minting[u] > 0
      BY <1>0, <1>7 DEF MintFlagged, TablesTyped
    <2> QED BY <1>6, <1>7, <2>1 DEF MintFlagged, KnownVersions, tableVars
  <1>8. ASSUME NEW g \in 1..MaxGolden, FlagForReevaluation(g) PROVE Kept
    <2> DEFINE S == Unclaimed(Eligible(g), g)
    <2>1. \A v \in S : v \in Version /\ status[v] # "absent"
      BY DEF Unclaimed, Eligible, Decided
    <2>2. /\ claims' = claims \cup (S \X {g}) /\ CreateIntents(S \X {g})
          /\ toEnqueue' = toEnqueue \cup S /\ UNCHANGED minting
      BY <1>8 DEF FlagForReevaluation, ClaimReevaluation
    <2> HIDE DEF S
    <2>3. \A c \in S \X {g} : status'[c[1]] # "absent" /\ status'[VersionOf(c)] # "absent"
      BY <1>1, <2>1 DEF VersionOf
    <2> QED BY <1>1, <1>3, <2>1, <2>2, <2>3
  <1>9. ASSUME ApiDies PROVE Kept
    <2>1. UNCHANGED <<intentVars, claims>> /\ toEnqueue' \subseteq toEnqueue
      BY <1>9 DEF ApiDies, tableVars
    <2>2. \A u \in Version : minting'[u] > 0 => minting[u] > 0
      BY <1>0, <1>9 DEF ApiDies, TablesTyped
    <2> QED BY <2>1, <2>2 DEF intentVars
  <1>10. ASSUME RecoverOrphans PROVE Kept
    <2>1. \A v \in Version : Unserved(v) => status'[v] # "absent"
      <3> SUFFICES ASSUME NEW v \in Version, Unserved(v) PROVE status'[v] # "absent"
        OBVIOUS
      <3>1. PICK g \in 1..golden : <<v, g>> \in claims
        BY DEF Unserved
      <3>2. status[v] # "absent"
        BY <3>1 DEF KnownVersions
      <3> QED BY <1>1, <3>2
    <2> QED BY <1>10, <2>1 DEF RecoverOrphans, intentVars, tableVars
  <1>11. ASSUME ReclaimLeases PROVE Kept
    <2>1. \A i \in Intent : state'[i] # "absent" => state[i] # "absent"
      BY <1>11 DEF ReclaimLeases, Reclaim, ReclaimRows, Overdue, LeasedStates
    <2>2. UNCHANGED <<claims, toEnqueue, minting>>
      BY <1>11 DEF ReclaimLeases, apiVars
    <2> QED BY <2>1, <2>2
  <1>12. ASSUME \A i \in Intent : state'[i] # "absent" => state[i] # "absent",
                UNCHANGED <<claims, apiVars>>
         PROVE  Kept
    BY <1>12 DEF apiVars
  <1>13. ASSUME OutboxStep, UNCHANGED <<tableVars, apiVars, runVars>> PROVE Kept
    <2>1. \A i \in Intent : state'[i] # "absent" => state[i] # "absent"
      <3>1. AllKnown
        BY DEF AllKnown, OwnershipInv, KnownOnly
      <3> QED BY <1>0, <1>13, <3>1, OutboxStepCreatesNothing
    <2>2. UNCHANGED <<claims, apiVars>>
      BY <1>13 DEF tableVars
    <2> QED BY <1>12, <2>1, <2>2
  <1>14. ASSUME NEW w \in Worker, EvaluateStep(w) PROVE Kept
    <2> DEFINE v == VersionOf(job[w])
    <2>1. stage[w] # "none" => v \in Version /\ status'[v] # "absent"
      <3> SUFFICES ASSUME stage[w] # "none" PROVE v \in Version /\ status'[v] # "absent"
        OBVIOUS
      <3>1. pc[w] # "idle" /\ job[w] \in Intent /\ v \in Version
        BY <1>0, WorkerHasVersion
      <3>2. state[job[w]] # "absent"
        BY <3>1 DEF OwnershipInv, KnownOnly
      <3> QED BY <1>1, <3>1, <3>2 DEF KnownVersions
    <2>2. /\ \A i \in Intent : state'[i] # "absent" => state[i] # "absent" \/
               (stage[w] # "none" /\ VersionOf(i) = v)
          /\ \A c \in claims' : c \in claims \/ (stage[w] # "none" /\ c[1] = v)
          /\ UNCHANGED apiVars
      BY <1>0, <1>14, EvaluateStepCreates
    <2> QED BY <2>1, <2>2 DEF apiVars
  <1>15. ASSUME RegisterGolden \/ UNCHANGED allVars PROVE Kept
    BY <1>15 DEF RegisterGolden, allVars, outboxVars, vars, intentVars, tableVars, apiVars
  <1>16. ASSUME LateReclaim PROVE Kept
    BY <1>16, NothingLate DEF LateReclaim, ReclaimLeasesReads, ReclaimLeasesCommits,
      ReclaimLeasesDies, ReclaimReads, ReclaimDies, intentVars, tableVars
  <1> HIDE DEF Kept
  <1> QED BY <1>2, <1>4, <1>5, <1>7, <1>8, <1>9, <1>10, <1>11, <1>13, <1>14, <1>15, <1>16
        DEF EvaluationNext

\* fail_intent commits for a worker, overtaken or not
Failure(w) == SettleFailed(w, TRUE) \/ FailCommits(w)

\* A failure touches one row and leaves it as it was, open or parked.
LEMMA FailureMoves ==
  ASSUME TypeOK, NEW w \in Worker, Failure(w)
  PROVE  /\ pc[w] = "held" /\ job[w] \in Intent /\ ToTail(w)
         /\ UNCHANGED <<queue, dispatcherVars, count>>
         /\ \A i \in Intent : i # job[w] => state'[i] = state[i] /\ lease'[i] = lease[i]
         /\ state'[job[w]] \in {state[job[w]], "pending", "failed"}
  <1>1. pc[w] = "held" /\ job[w] \in Intent
    BY DEF Failure, SettleFailed, FailCommits, TypeOK
  <1>2. ToTail(w) /\ UNCHANGED <<queue, dispatcherVars>>
    BY DEF Failure, SettleFailed, FailCommits
  <1>3. \/ UNCHANGED intentVars
        \/ \E read : FailWrite(job[w], number[w], read)
    BY DEF Failure, SettleFailed, FailCommits, FailIntent
  <1>4. CASE UNCHANGED intentVars
    BY <1>1, <1>2, <1>4 DEF intentVars
  <1>5. ASSUME NEW read, FailWrite(job[w], number[w], read)
        PROVE  /\ \A i \in Intent : i # job[w] =>
                    state'[i] = state[i] /\ lease'[i] = lease[i]
               /\ state'[job[w]] \in {state[job[w]], "pending", "failed"}
               /\ UNCHANGED count
    BY <1>1, <1>5 DEF FailWrite, Write, TypeOK
  <1> QED BY <1>1, <1>2, <1>3, <1>4, <1>5

\* In a clean environment it does not leave it as it was.
LEMMA FailureOpens ==
  ASSUME TypeOK, OwnershipInv, NEW w \in Worker, Failure(w)
  PROVE  state'[job[w]] \in {"pending", "failed"}
  <1>1. job[w] \in Intent
    BY FailureMoves
  <1>2. \E s \in {"pending", "failed"} : state' = [state EXCEPT ![job[w]] = s]
    BY FailureWrites DEF Failure
  <1> QED BY <1>1, <1>2 DEF TypeOK

\* So does one the dispatcher reports.
LEMMA DispatchFailureMoves ==
  ASSUME TypeOK, NEW d \in Dispatcher, DispatchFails(d) \/ DispatchFailCommits(d)
  PROVE  \A i \in Intent : state'[i] \in {state[i], "pending", "failed"}
  <1>1. inHand[d] \in Intent
    BY DEF DispatchFails, DispatchFailCommits, TypeOK
  <1>2. UNCHANGED intentVars \/ \E n, read : FailWrite(inHand[d], n, read)
    BY DEF DispatchFails, DispatchFailCommits, FailIntent
  <1>3. ASSUME NEW n, NEW read, FailWrite(inHand[d], n, read)
        PROVE  \A i \in Intent : state'[i] \in {state[i], "pending", "failed"}
    BY <1>1, <1>3 DEF FailWrite, Write, TypeOK
  <1> QED BY <1>2, <1>3 DEF intentVars

\* The ways through evaluate_version.
LEMMA StageMoves ==
  ASSUME NEW w \in Worker, EvaluateStep(w)
  PROVE  \/ Leave(w) \/ Start(w)
         \/ At(w, "none", "claimed") \/ At(w, "claimed", "starting")
         \/ At(w, "running", "recheck")
         \/ At(w, "running", "resetting") /\ Failure(w)
         \/ At(w, "recheck", "enqueue") \/ At(w, "enqueue", "minting")
         \/ PersistFailsLate(w)
  BY DEF EvaluateStep, Settle, Claim, ReadStatus, StartRefused, SettleInfra,
    SettleScored, SettleRefused, PersistFails, FailureLands, ResetToPending, Recheck,
    EnqueueStale, MintStale, Vanish, Fail, Failure

\* A worker moves no other worker.
LEMMA OthersStay ==
  ASSUME RunsTyped, NEW u \in Worker, NEW w \in Worker, u # w, EvaluateStep(u)
  PROVE  stage'[w] = stage[w] /\ captured'[w] = captured[w] /\ began'[w] = began[w]
  <1>1. CASE Leave(u)
    BY <1>1 DEF Leave, RunsTyped
  <1>2. CASE Start(u)
    BY <1>2 DEF Start, RunsTyped
  <1>3. CASE PersistFailsLate(u)
    BY <1>3 DEF PersistFailsLate, runVars
  <1>4. ASSUME NEW from, NEW to, At(u, from, to)
        PROVE  stage'[w] = stage[w] /\ captured'[w] = captured[w] /\ began'[w] = began[w]
    BY <1>4 DEF At, RunsTyped
  <1> QED BY <1>1, <1>2, <1>3, <1>4, StageMoves

\* A worker is busy because it was, or because it starts a run now; and it comes
\* to a reset by a failed settlement.
LEMMA BusyFrom ==
  ASSUME EvaluationInv, [EvaluationNext]_allVars, NEW w \in Worker, Busy(w)'
  PROVE  /\ job'[w] = job[w] /\ job[w] \in Intent /\ VersionOf(job[w]) \in Version
         /\ Busy(w) \/ (Start(w) /\ stage'[w] = "running")
         /\ stage'[w] = "resetting" => \/ stage[w] = "resetting"
                                       \/ stage[w] = "running" /\ Failure(w)
         /\ pc'[w] \in AtWork /\ pc[w] \in AtWork
  <1>0. TypeOK /\ EvaluationTypeOK /\ EvaluationTypeOK'
    BY StepEvaluationInv DEF EvaluationInv
  <1>1. pc'[w] \in AtWork
    BY <1>0 DEF EvaluationTypeOK, Busy, AtWork
  <1> DEFINE Goal == /\ stage[w] # "none" /\ job'[w] = job[w]
                     /\ Busy(w) \/ (Start(w) /\ stage'[w] = "running")
                     /\ stage'[w] = "resetting" =>
                          \/ stage[w] = "resetting"
                          \/ stage[w] = "running" /\ Failure(w)
  <1>2. ASSUME stage'[w] = stage[w], job'[w] = job[w] PROVE Goal
    BY <1>2 DEF Busy
  <1>3. ASSUME UNCHANGED <<stage, job>> PROVE Goal
    BY <1>2, <1>3
  <1>4. ASSUME OutboxStep, UNCHANGED <<tableVars, apiVars, runVars>> PROVE Goal
    <2>1. stage'[w] = stage[w]
      BY <1>4 DEF runVars
    <2>2. pc[w] \in {"held", "tail"}
      BY <1>0, <2>1 DEF EvaluationTypeOK, Busy
    <2>3. job'[w] = job[w]
      BY <1>0, <1>4, <2>2, OutboxStepRuns
    <2> QED BY <1>2, <2>1, <2>3
  <1>5. ASSUME NEW u \in Worker, u # w, EvaluateStep(u) PROVE Goal
    <2>1. stage'[w] = stage[w]
      BY <1>0, <1>5, OthersStay, TypeParts
    <2>2. UNCHANGED job \/ Release(u)
      BY <1>5 DEF EvaluateStep, Settle, Claim, ReadStatus, Start, StartRefused,
        SettleInfra, SettleScored, SettleRefused, PersistFails, PersistFailsLate,
        FailureLands, ResetToPending, Recheck, EnqueueStale, MintStale, Vanish,
        ClaimCommit, Complete, CompleteIntent, SettleFailed, Fail, FailReads,
        FailCommits, Return, Abandon, WorkerDies, ToTail, workerVars, vars, outboxVars
    <2>3. job'[w] = job[w]
      BY <1>0, <1>5, <2>2 DEF Release, TypeOK
    <2> QED BY <1>2, <2>1, <2>3
  <1>6. ASSUME EvaluateStep(w) PROVE Goal
    <2> USE <1>0 DEF EvaluationTypeOK, Busy
    <2>1. CASE Leave(w)
      BY <2>1 DEF Leave
    <2>2. CASE Start(w)
      BY <2>2 DEF Start, workerVars
    <2>3. CASE \/ At(w, "none", "claimed") \/ At(w, "claimed", "starting")
               \/ At(w, "running", "recheck")
               \/ At(w, "recheck", "enqueue") \/ At(w, "enqueue", "minting")
      BY <2>3 DEF At
    <2>4. ASSUME At(w, "running", "resetting"), Failure(w) PROVE Goal
      <3>1. ToTail(w)
        BY <2>4, FailureMoves
      <3> QED BY <2>4, <3>1 DEF At, ToTail
    <2>5. ASSUME PersistFailsLate(w) PROVE Goal
      BY <2>5 DEF PersistFailsLate, FailReads, runVars
    <2> QED BY <1>6, <2>1, <2>2, <2>3, <2>4, <2>5, StageMoves
  <1>7. Goal
    <2> HIDE DEF Goal
    <2>1. \/ UNCHANGED <<stage, job>>
          \/ OutboxStep /\ UNCHANGED <<tableVars, apiVars, runVars>>
          \/ \E u \in Worker : EvaluateStep(u)
      BY DEF EvaluationNext, Submit, EnqueueFlagged, MintFlagged, RegisterGolden,
        FlagForReevaluation, ApiDies, RecoverOrphans, ReclaimLeases, LateReclaim,
        ReclaimLeasesReads, ReclaimLeasesCommits, ReclaimLeasesDies, Reclaim,
        ReclaimReads, ReclaimCommits, ReclaimDies, allVars, outboxVars, vars,
        workerVars, runVars
    <2> QED BY <1>3, <1>4, <1>5, <1>6, <2>1
  <1>8. pc[w] \in {"held", "tail"} /\ job[w] \in Intent /\ VersionOf(job[w]) \in Version
    BY <1>0, <1>7, WorkerHasVersion
  <1> QED BY <1>1, <1>7, <1>8 DEF AtWork

\* A running worker holds its claim, and in a clean environment its intent is
\* claimed and its lease runs.
LEMMA RunnerIsLive ==
  ASSUME EvaluationInv, OwnershipInv, NEW w \in Worker, stage[w] = "running"
  PROVE  /\ pc[w] = "held" /\ job[w] \in Intent
         /\ state[job[w]] = "claimed" /\ lease[job[w]] = "live"
  <1>1. pc[w] = "held"
    BY DEF EvaluationInv, EvaluationTypeOK
  <1> QED BY <1>1 DEF EvaluationInv, TypeOK, OwnershipInv, HolderOwnsRow

\* The starting worker was not busy and, as no status changes under it, finds
\* its version free.
LEMMA StartFindsFree ==
  ASSUME SoloEnvironment, NEW w \in Worker, Start(w)
  PROVE  stage[w] = "starting" /\ status[VersionOf(job[w])] # "evaluating"
  BY DEF Start, SoloEnvironment, Fault

\* Nobody becomes busy on a version that somebody is busy on.
LEMMA StepBusyAlone ==
  ASSUME SoloEnvironment, EvaluationInv, MutexInv, [EvaluationNext]_allVars
  PROVE  BusyAlone'
  <1> SUFFICES ASSUME NEW u \in Worker, NEW w \in Worker, Busy(u)', Busy(w)',
                      VersionOf(job'[u]) = VersionOf(job'[w])
               PROVE  u = w
    BY DEF BusyAlone, VersionOf
  <1>1. /\ VersionOf(job[u]) = VersionOf(job[w])
        /\ Busy(u) \/ (Start(u) /\ stage'[u] = "running")
        /\ Busy(w) \/ (Start(w) /\ stage'[w] = "running")
    BY BusyFrom DEF VersionOf
  <1>2. CASE Busy(u) /\ Busy(w)
    BY <1>1, <1>2 DEF MutexInv, BusyAlone
  <1>3. CASE Start(u) /\ Busy(w)
    BY <1>1, <1>3, StartFindsFree DEF MutexInv, BusyHoldsMutex
  <1>4. CASE Start(w) /\ Busy(u)
    BY <1>1, <1>4, StartFindsFree DEF MutexInv, BusyHoldsMutex
  <1>5. CASE Start(u) /\ Start(w) /\ stage'[w] = "running"
    <2>1. stage[w] = "starting" /\ stage' = [stage EXCEPT ![u] = "running"]
      BY <1>5, StartFindsFree DEF Start
    <2> QED BY <1>5, <2>1 DEF EvaluationInv, EvaluationTypeOK
  <1> QED BY <1>1, <1>2, <1>3, <1>4, <1>5

\* No step takes the status away from a busy worker but its own last one.
LEMMA StepBusyHoldsMutex ==
  ASSUME SoloEnvironment, EvaluationInv, OwnershipInv, OneOpenIntent, MutexInv,
         [EvaluationNext]_allVars
  PROVE  BusyHoldsMutex'
  <1> SUFFICES ASSUME NEW w \in Worker, Busy(w)'
               PROVE  status'[VersionOf(job[w])] = "evaluating"
    BY BusyFrom DEF BusyHoldsMutex, VersionOf
  <1> DEFINE v == VersionOf(job[w])
  <1>0. /\ TablesTyped /\ v \in Version /\ job[w] \in Intent
        /\ Busy(w) \/ (Start(w) /\ stage'[w] = "running")
    BY BusyFrom, TypeParts DEF EvaluationInv
  <1>1. CASE Start(w)
    BY <1>0, <1>1 DEF Start, SetStatus, TablesTyped
  <1>2. CASE Busy(w)
    <2>1. status[v] = "evaluating"
      BY <1>2 DEF MutexInv, BusyHoldsMutex
    <2>2. CASE status' = status
      BY <2>1, <2>2
    <2>3. CASE ReclaimLeases
      <3>1. ASSUME NEW i \in Overdue, state[i] = "claimed", VersionOf(i) = v
            PROVE  FALSE
        <4>1. i \in Intent /\ lease[i] = "expired"
          BY <3>1 DEF Overdue
        <4>2. CASE stage[w] = "running"
          <5>1. job[w] \in Intent /\ state[job[w]] = "claimed" /\ lease[job[w]] = "live"
            BY <4>2, RunnerIsLive
          <5>2. i = job[w]
            BY <3>1, <4>1, <5>1 DEF OneOpenIntent, NonTerminal
          <5> QED BY <4>1, <5>1, <5>2
        <4>3. CASE stage[w] = "resetting"
          BY <3>1, <4>1, <4>3 DEF MutexInv, ResetNotOvertaken
        <4> QED BY <1>2, <4>2, <4>3 DEF Busy
      <3>2. v \notin VersionsReclaimed
        BY <3>1 DEF VersionsReclaimed
      <3> QED BY <1>0, <2>1, <2>3, <3>2 DEF ReclaimLeases, Freed
    <2>4. ASSUME NEW u \in Version, Submit(u) PROVE status'[v] = "evaluating"
      BY <1>0, <2>1, <2>4 DEF Submit, SetStatus, TablesTyped
    <2>5. ASSUME NEW u \in Worker, VersionOf(job[u]) \in Version, Start(u)
          PROVE  status'[v] = "evaluating"
      BY <1>0, <2>1, <2>5 DEF Start, SetStatus, TablesTyped
    <2>6. ASSUME NEW u \in Worker, VersionOf(job[u]) \in Version, NEW to,
                 Busy(u), ~Busy(u)', SetStatus(VersionOf(job[u]), to)
          PROVE  status'[v] = "evaluating"
      <3>1. VersionOf(job[u]) # v
        BY <1>2, <2>6 DEF MutexInv, BusyAlone
      <3> QED BY <1>0, <2>1, <2>6, <3>1 DEF SetStatus, TablesTyped
    <2>7. ASSUME NEW u \in Worker, VersionOf(job[u]) \in Version,
                 \/ SettleInfra(u) \/ ResetToPending(u)
                 \/ \E verdict \in Verdicts : SettleScored(u, verdict)
          PROVE  status'[v] = "evaluating"
      <3>1. stage \in [Worker -> {"none"} \cup RunStages \cup TailStages]
        BY TypeParts DEF EvaluationInv, RunsTyped
      <3>2. Busy(u) /\ ~Busy(u)'
        BY <2>7, <3>1 DEF SettleInfra, ResetToPending, SettleScored, At, Leave, Busy
      <3>3. \E to : SetStatus(VersionOf(job[u]), to)
        BY <2>7 DEF SettleInfra, ResetToPending, SettleScored
      <3> QED BY <2>6, <2>7, <3>2, <3>3
    <2> QED BY <2>2, <2>3, <2>4, <2>5, <2>7, StatusWriters, NothingLate
          DEF ReclaimLeasesCommits
  <1> QED BY <1>0, <1>1, <1>2

\* What can have happened to an intent that is claimed now, when enqueue is
\* clean and no lease runs out under work.
LEMMA ClaimedFrom ==
  ASSUME CleanEnvironment, EvaluationInv, OwnershipInv, [EvaluationNext]_allVars,
         NEW i \in Intent, state'[i] = "claimed"
  PROVE  \/ \E x \in Worker : Claiming(x, i) /\ pc'[x] = "held" /\ lease'[i] = "live"
         \/ state[i] = "claimed" /\ (lease'[i] = lease[i] \/ outlives[i] = {})
  <1> DEFINE Goal ==
        \/ \E x \in Worker : Claiming(x, i) /\ pc'[x] = "held" /\ lease'[i] = "live"
        \/ state[i] = "claimed" /\ (lease'[i] = lease[i] \/ outlives[i] = {})
  <1>0. TypeOK /\ EvaluationTypeOK
    BY DEF EvaluationInv
  <1>1. ASSUME state'[i] = state[i], lease'[i] = lease[i] PROVE Goal
    BY <1>1
  <1>2. ASSUME NEW x \in Worker, ClaimCommit(x) PROVE Goal
    BY <1>0, <1>2 DEF ClaimCommit, Claiming, TypeOK
  <1>3. ASSUME Reclaim PROVE Goal
    BY <1>3 DEF Reclaim, ReclaimRows
  <1>4. ASSUME NEW d \in Dispatcher, LeaseDue(d) PROVE Goal
    BY <1>4 DEF LeaseDue
  <1>5. ASSUME NEW d \in Dispatcher, NEW j \in Intent, MarkDispatched(d, j) PROVE Goal
    BY <1>0, <1>5 DEF MarkDispatched, TypeOK
  <1>6. ASSUME NEW d \in Dispatcher,
               MarkCommits(d) \/ DispatchFails(d) \/ DispatchFailCommits(d)
        PROVE  Goal
    BY <1>6, NothingLate
  <1>7. ASSUME NEW j \in Intent, LeaseEnds(j) PROVE Goal
    BY <1>0, <1>7 DEF LeaseEnds, LeaseRunsOut, CleanEnvironment, TypeOK
  <1>8. ASSUME NEW x \in Worker, CompleteIntent(x) PROVE Goal
    BY <1>0, <1>8 DEF CompleteIntent, TypeOK
  <1>9. ASSUME NEW x \in Worker, Failure(x) PROVE Goal
    <2>1. \/ i # job[x] /\ state'[i] = state[i] /\ lease'[i] = lease[i]
          \/ i = job[x] /\ state'[i] \in {"pending", "failed"}
      BY <1>0, <1>9, FailureMoves, FailureOpens
    <2> QED BY <2>1
  <1>10. ASSUME Addition PROVE Goal
    BY <1>0, <1>1, <1>10, AdditionShape
  <1>11. ASSUME UNCHANGED <<state, lease>> PROVE Goal
    BY <1>1, <1>11
  <1> HIDE DEF Goal
  <1>12. ASSUME OutboxStep PROVE Goal
    BY <1>4, <1>5, <1>6, <1>7, <1>11, <1>12 DEF OutboxStep, DispatcherStep, Publish,
      PublishRaises, MarkReads, DispatchFailReads, DispatcherDies, PublishDirectly,
      LoseMessage, BackoffEnds, Deliver, DuplicateCommit, ClaimConflict, intentVars
  <1>13. ASSUME NEW w \in Worker, EvaluateStep(w) PROVE Goal
    <2>1. \/ ClaimCommit(w) \/ CompleteIntent(w) \/ Failure(w)
          \/ \E S : CreateIntents(S)
          \/ UNCHANGED <<state, lease>>
      BY <1>13 DEF EvaluateStep, Settle, Claim, ReadStatus, Start, StartRefused, At,
        SettleInfra, SettleScored, SettleRefused, PersistFails, PersistFailsLate,
        FailureLands, ResetToPending, Recheck, EnqueueStale, MintStale, Vanish,
        Complete, Fail, FailReads, Failure, Return, Abandon, WorkerDies, Republish,
        NothingInFlight, intentVars, outboxVars, vars, MintRetry, ClaimReevaluation
    <2>2. ASSUME NEW S, CreateIntents(S) PROVE Goal
      <3>1. state'[i] = state[i] /\ lease'[i] = lease[i]
        BY <2>2 DEF CreateIntents
      <3> QED BY <1>1, <3>1
    <2> QED BY <1>2, <1>8, <1>9, <1>11, <2>1, <2>2
  <1>14. Goal
    <2>1. \/ ReclaimLeases \/ LateReclaim
          \/ OutboxStep \/ \E w \in Worker : EvaluateStep(w)
          \/ RegisterGolden \/ UNCHANGED allVars \/ Addition
      BY <1>0, ApiStepAdds DEF EvaluationNext
    <2>2. RegisterGolden \/ UNCHANGED allVars \/ LateReclaim => UNCHANGED <<state, lease>>
      BY NothingLate DEF RegisterGolden, LateReclaim, ReclaimLeasesReads, ReclaimReads,
        ReclaimLeasesCommits, ReclaimLeasesDies, ReclaimDies, allVars, outboxVars, vars,
        intentVars
    <2> QED BY <1>3, <1>10, <1>11, <1>12, <1>13, <2>1, <2>2 DEF ReclaimLeases
  <1> QED BY <1>14 DEF Goal

\* A claim granted while a worker resets its version lasts until the reset is
\* done, and none is open when the reset begins.
LEMMA StepResetNotOvertaken ==
  ASSUME CleanEnvironment, EvaluationInv, OwnershipInv, OneOpenIntent, MutexInv,
         [EvaluationNext]_allVars
  PROVE  ResetNotOvertaken'
  <1> SUFFICES ASSUME NEW w \in Worker, NEW i \in Intent, stage'[w] = "resetting",
                      VersionOf(i) = VersionOf(job'[w]), state'[i] = "claimed"
               PROVE  lease'[i] = "live" /\ w \in outlives'[i]
    BY DEF ResetNotOvertaken, VersionOf
  <1>1. /\ VersionOf(i) = VersionOf(job[w]) /\ job[w] \in Intent
        /\ \/ stage[w] = "resetting"
           \/ stage[w] = "running" /\ Failure(w)
        /\ pc[w] \in AtWork /\ pc'[w] \in AtWork
    BY BusyFrom DEF Busy, VersionOf
  <1>2. \/ UNCHANGED allVars
        \/ \A x \in Worker :
             w \in outlives[i] \/ (Claiming(x, i) /\ pc'[x] = "held")
               => w \in outlives'[i]
    BY <1>1 DEF EvaluationNext, TrackClaims
  <1>3. ASSUME NEW x \in Worker, Claiming(x, i), pc'[x] = "held", lease'[i] = "live"
        PROVE  lease'[i] = "live" /\ w \in outlives'[i]
    BY <1>2, <1>3 DEF Claiming, allVars, outboxVars, vars, workerVars
  <1>4. ASSUME state[i] = "claimed", lease'[i] = lease[i] \/ outlives[i] = {}
        PROVE  lease'[i] = "live" /\ w \in outlives'[i]
    <2>1. CASE stage[w] = "resetting"
      <3>1. lease[i] = "live" /\ w \in outlives[i]
        BY <1>1, <1>4, <2>1 DEF MutexInv, ResetNotOvertaken
      <3> QED BY <1>2, <1>4, <3>1 DEF allVars
    <2>2. CASE stage[w] = "running" /\ Failure(w)
      <3>1. state[job[w]] = "claimed"
        BY <2>2, RunnerIsLive
      <3>2. i = job[w]
        BY <1>1, <1>4, <3>1 DEF OneOpenIntent, NonTerminal
      <3>3. state'[i] # "claimed"
        BY <2>2, <3>2, FailureOpens DEF EvaluationInv
      <3> QED BY <3>3
    <2> QED BY <1>1, <2>1, <2>2
  <1> QED BY <1>3, <1>4, ClaimedFrom

\* Together: the mutex is inductive as long as one intent at most is open.
LEMMA StepMutexInv ==
  ASSUME SoloEnvironment, EvaluationInv, OwnershipInv, OneOpenIntent, MutexInv,
         [EvaluationNext]_allVars
  PROVE  MutexInv'
  <1>1. CleanEnvironment
    BY DEF SoloEnvironment
  <1> QED BY <1>1, StepBusyAlone, StepBusyHoldsMutex, StepResetNotOvertaken,
        StepKnownVersions DEF MutexInv

\* While nobody is busy and nothing exists, nothing can be wrong.
LEMMA InitMutexInv == EvaluationInit => MutexInv
  BY DEF EvaluationInit, Init, MutexInv, BusyHoldsMutex, BusyAlone, Busy,
    ResetNotOvertaken, KnownVersions

\* Every write of a status is a transition of the state machine.
LEMMA StepLegal ==
  ASSUME EvaluationInv, OwnershipInv, MutexInv, [EvaluationNext]_allVars,
         NEW v \in Version
  PROVE  \/ status'[v] = status[v]
         \/ status[v] = "absent" /\ status'[v] = "pending"
         \/ <<status[v], status'[v]>> \in Transitions
  <1> DEFINE Legal == \/ status'[v] = status[v]
                      \/ status[v] = "absent" /\ status'[v] = "pending"
                      \/ <<status[v], status'[v]>> \in Transitions
  <1>0. TablesTyped /\ TypeOK /\ EvaluationTypeOK
    BY TypeParts DEF EvaluationInv
  <1>1. ASSUME NEW u \in Version, NEW to, SetStatus(u, to),
               \/ to = status[u]
               \/ status[u] = "absent" /\ to = "pending"
               \/ <<status[u], to>> \in Transitions
        PROVE  Legal
    <2>1. status' = [status EXCEPT ![u] = to]
      BY <1>1 DEF SetStatus
    <2>2. CASE u = v
      BY <1>0, <1>1, <2>1, <2>2 DEF TablesTyped
    <2>3. CASE u # v
      BY <1>0, <2>1, <2>3 DEF TablesTyped
    <2> QED BY <2>2, <2>3
  <1>2. ASSUME ReclaimLeases \/ ReclaimLeasesCommits PROVE Legal
    BY <1>2, NothingLate DEF ReclaimLeases, ReclaimLeasesCommits, Freed, Transitions
  <1>3. ASSUME NEW u \in Version, Submit(u) PROVE Legal
    BY <1>1, <1>3 DEF Submit
  <1>4. ASSUME NEW w \in Worker, stage[w] # "none", VersionOf(job[w]) \in Version
        PROVE  /\ Start(w) => Legal
               /\ SettleInfra(w) => Legal
               /\ ResetToPending(w) => Legal
               /\ \A verdict \in Verdicts : SettleScored(w, verdict) => Legal
    <2> DEFINE u == VersionOf(job[w])
    <2>1. ASSUME Start(w) PROVE Legal
      <3>1. job[w] \in Intent /\ pc[w] # "idle"
        BY <1>0, <1>4, WorkerHasVersion
      <3>2. status[u] # "absent"
        BY <3>1 DEF OwnershipInv, KnownOnly, MutexInv, KnownVersions
      <3>3. status[u] = "evaluating" \/ <<status[u], "evaluating">> \in Transitions
        BY <1>0, <1>4, <3>2 DEF TablesTyped, Transitions, Decided
      <3> QED BY <1>1, <1>4, <2>1, <3>3 DEF Start
    <2>2. ASSUME SettleInfra(w) PROVE Legal
      <3>1. status[u] = "evaluating"
        BY <2>2 DEF SettleInfra, At, MutexInv, BusyHoldsMutex, Busy
      <3>2. <<status[u], "pending">> \in Transitions
        BY <3>1 DEF Transitions
      <3> QED BY <1>1, <1>4, <2>2, <3>2 DEF SettleInfra
    <2>3. ASSUME ResetToPending(w) PROVE Legal
      <3>1. CASE status[u] = "evaluating"
        <4>1. <<status[u], "pending">> \in Transitions
          BY <3>1 DEF Transitions
        <4> QED BY <1>1, <1>4, <2>3, <3>1, <4>1 DEF ResetToPending
      <3>2. CASE status[u] # "evaluating"
        BY <1>1, <1>4, <2>3, <3>2 DEF ResetToPending
      <3> QED BY <3>1, <3>2
    <2>4. ASSUME NEW verdict \in Verdicts, SettleScored(w, verdict) PROVE Legal
      BY <1>1, <1>4, <2>4 DEF SettleScored, MayMove
    <2> QED BY <2>1, <2>2, <2>3, <2>4
  <1>5. CASE status' = status
    BY <1>5
  <1> HIDE DEF Legal
  <1>6. Legal
    BY <1>2, <1>3, <1>4, <1>5, StatusWriters DEF Legal
  <1> QED BY <1>6 DEF Legal

\* The parts the theorems about versions share.
VersionInv == EvaluationInv /\ OwnershipInv /\ MutexInv

\* They are inductive where the mutex is.
LEMMA StepVersionInv ==
  SoloEnvironment /\ VersionInv /\ OneOpenIntent /\ [EvaluationNext]_allVars
    => VersionInv'
  <1> SUFFICES ASSUME SoloEnvironment, VersionInv, OneOpenIntent,
                      [EvaluationNext]_allVars
               PROVE  VersionInv'
    OBVIOUS
  <1> USE DEF VersionInv
  <1>1. CleanEnvironment
    BY DEF SoloEnvironment
  <1>2. EvaluationInv'
    BY StepEvaluationInv
  <1>3. OwnershipInv'
    BY <1>1, StepKeepsOutbox DEF EvaluationInv
  <1>4. MutexInv'
    BY StepMutexInv
  <1> QED BY <1>2, <1>3, <1>4

\* They hold before the first step.
LEMMA InitVersionInv == EvaluationInit => VersionInv
  BY InitEvaluation, InitMutexInv DEF EvaluationInv, VersionInv

\* A worker that runs an evaluation has the version to itself, as long as the
\* version has one open intent at a time: no refused start, expired lease,
\* reset or reclaim frees the version under it.
THEOREM MutexIsHeld ==
  SoloEnvironment => (EvaluationSpec /\ []OneOpenIntent => []RunnerHoldsMutex)
  <1> SUFFICES ASSUME SoloEnvironment
               PROVE  EvaluationSpec /\ []OneOpenIntent => []RunnerHoldsMutex
    OBVIOUS
  <1>1. VersionInv /\ OneOpenIntent /\ [EvaluationNext]_allVars => VersionInv'
    BY StepVersionInv
  <1>2. VersionInv => RunnerHoldsMutex
    BY DEF VersionInv, MutexInv, BusyHoldsMutex, Busy, RunnerHoldsMutex, Running,
      OnVersion
  <1> QED BY <1>1, <1>2, InitVersionInv, PTL DEF EvaluationSpec

\* In the same circumstances the writes that skip assert_transition (the infra
\* settlement, the reset, the reclaim) are legal moves too.
THEOREM MovesAreLegal ==
  SoloEnvironment => (EvaluationSpec /\ []OneOpenIntent => LegalMovesOnly)
  <1> SUFFICES ASSUME SoloEnvironment
               PROVE  EvaluationSpec /\ []OneOpenIntent => LegalMovesOnly
    OBVIOUS
  <1>1. VersionInv /\ OneOpenIntent /\ [EvaluationNext]_allVars => VersionInv'
    BY StepVersionInv
  <1>2. VersionInv /\ [EvaluationNext]_allVars =>
          [\A v \in Version :
             \/ status'[v] = status[v]
             \/ status[v] = "absent" /\ status'[v] = "pending"
             \/ <<status[v], status'[v]>> \in Transitions]_status
    BY StepLegal DEF VersionInv
  <1> QED BY <1>1, <1>2, InitVersionInv, PTL DEF EvaluationSpec, LegalMovesOnly

-----------------------------------------------------------------------------
(* Nobody is left `evaluating`                                               *)

\* An intent that was open or parked is settled by the commit of a run only.
LEMMA ClosedByRun ==
  ASSUME EvaluationInv, [EvaluationNext]_allVars,
         NEW i \in Intent, state[i] \notin {"absent", "completed"},
         state'[i] \in {"absent", "completed"}
  PROVE  \E w \in Worker :
           /\ stage[w] = "running" /\ job[w] = i
           /\ SettleInfra(w) \/ \E verdict \in Verdicts : SettleScored(w, verdict)
  <1> DEFINE Stays == state'[i] \notin {"absent", "completed"}
  <1>0. TypeOK /\ EvaluationTypeOK
    BY DEF EvaluationInv
  <1>1. ASSUME UNCHANGED state PROVE Stays
    BY <1>1
  <1>2. ASSUME Addition PROVE Stays
    BY <1>2, AdditionShape, <1>0
  <1>3. ASSUME Reclaim \/ ReclaimCommits PROVE Stays
    BY <1>3 DEF Reclaim, ReclaimCommits, ReclaimRows
  <1>4. ASSUME NEW d \in Dispatcher, LeaseDue(d) PROVE Stays
    BY <1>4 DEF LeaseDue
  <1>5. ASSUME NEW d \in Dispatcher, NEW j \in Intent, MarkDispatched(d, j) PROVE Stays
    BY <1>0, <1>5 DEF MarkDispatched, TypeOK
  <1>6. ASSUME NEW d \in Dispatcher,
               DispatchFails(d) \/ DispatchFailCommits(d) \/ MarkCommits(d)
        PROVE  Stays
    <2>1. CASE MarkCommits(d)
      BY <1>0, <2>1 DEF MarkCommits, TypeOK
    <2> QED BY <1>0, <1>6, <2>1, DispatchFailureMoves
  <1>7. ASSUME OutboxStep PROVE Stays
    BY <1>1, <1>4, <1>5, <1>6, <1>7 DEF OutboxStep, DispatcherStep, Publish,
      PublishRaises, MarkReads, DispatchFailReads, DispatcherDies, PublishDirectly,
      LoseMessage, LeaseEnds, LeaseRunsOut, BackoffEnds, Deliver, DuplicateCommit,
      ClaimConflict, intentVars
  <1>8. ASSUME NEW w \in Worker, EvaluateStep(w)
        PROVE  \/ Stays
               \/ /\ stage[w] = "running" /\ job[w] = i
                  /\ SettleInfra(w) \/ \E verdict \in Verdicts : SettleScored(w, verdict)
    <2>1. ASSUME ClaimCommit(w) PROVE Stays
      BY <1>0, <2>1 DEF ClaimCommit, TypeOK
    <2>2. ASSUME Failure(w) PROVE Stays
      BY <1>0, <2>2, FailureMoves
    <2>3. ASSUME NEW S, CreateIntents(S) PROVE Stays
      BY <2>3 DEF CreateIntents
    <2>4. ASSUME SettleInfra(w) \/ \E verdict \in Verdicts : SettleScored(w, verdict)
          PROVE  stage[w] = "running" /\ (Stays \/ job[w] = i)
      BY <1>0, <2>4 DEF SettleInfra, SettleScored, At, Complete, CompleteIntent, TypeOK
    <2>5. \/ ClaimCommit(w) \/ Failure(w) \/ UNCHANGED state
          \/ \E S : CreateIntents(S)
          \/ SettleInfra(w) \/ \E verdict \in Verdicts : SettleScored(w, verdict)
      BY <1>8 DEF EvaluateStep, Settle, Claim, ReadStatus, Start, StartRefused, At,
        SettleRefused, PersistFails, PersistFailsLate, FailureLands, ResetToPending,
        Recheck, EnqueueStale, MintStale, Vanish, Fail, FailReads, Failure, Return,
        Abandon, WorkerDies, Republish, NothingInFlight, intentVars, outboxVars, vars,
        MintRetry, ClaimReevaluation
    <2> QED BY <1>1, <2>1, <2>2, <2>3, <2>4, <2>5
  <1> QED
    <2>1. \/ ReclaimLeases \/ ReclaimLeasesCommits
          \/ ReclaimLeasesReads \/ ReclaimLeasesDies
          \/ OutboxStep \/ \E w \in Worker : EvaluateStep(w)
          \/ RegisterGolden \/ UNCHANGED allVars \/ Addition
      BY <1>0, ApiStepAdds DEF EvaluationNext, LateReclaim
    <2>2. \/ RegisterGolden \/ UNCHANGED allVars
          \/ ReclaimLeasesReads \/ ReclaimLeasesDies
          => UNCHANGED state
      BY DEF RegisterGolden, ReclaimLeasesReads, ReclaimReads, ReclaimLeasesDies,
        ReclaimDies, allVars, outboxVars, vars, intentVars
    <2> QED BY <1>1, <1>2, <1>3, <1>7, <1>8, <2>1, <2>2
          DEF ReclaimLeases, ReclaimLeasesCommits

\* An evaluating version has an intent that is open or parked.
EvaluatingUnsettled ==
  \A v \in Version : status[v] = "evaluating" =>
    \E i \in IntentsOf(v) : state[i] \notin {"absent", "completed"}

\* The start of a run has a claimed intent, and the commit of the run that
\* completes it also moves the version on.
LEMMA StepEvaluatingUnsettled ==
  ASSUME EvaluationInv, OwnershipInv, EvaluatingUnsettled, [EvaluationNext]_allVars
  PROVE  EvaluatingUnsettled'
  <1>0. TablesTyped /\ TypeOK /\ EvaluationTypeOK
    BY TypeParts DEF EvaluationInv
  <1> SUFFICES ASSUME NEW v \in Version, status'[v] = "evaluating"
               PROVE  \E i \in IntentsOf(v) : state'[i] \notin {"absent", "completed"}
    BY DEF EvaluatingUnsettled, IntentsOf, VersionOf
  <1>1. CASE status[v] = "evaluating"
    <2>1. PICK i \in IntentsOf(v) : state[i] \notin {"absent", "completed"}
      BY <1>1 DEF EvaluatingUnsettled
    <2>2. i \in Intent /\ VersionOf(i) = v
      BY DEF IntentsOf
    <2>3. ASSUME NEW w \in Worker, stage[w] = "running", job[w] = i,
                 SettleInfra(w) \/ \E verdict \in Verdicts : SettleScored(w, verdict)
          PROVE  status'[v] # "evaluating"
      BY <1>0, <2>2, <2>3, VerdictType
        DEF SettleInfra, SettleScored, SetStatus, TablesTyped, Decided
    <2> QED BY <2>1, <2>2, <2>3, ClosedByRun
  <1>2. CASE status[v] # "evaluating"
    <2>1. ASSUME NEW u \in Version, NEW to, to # "evaluating", SetStatus(u, to)
          PROVE  FALSE
      BY <1>0, <1>2, <2>1 DEF SetStatus, TablesTyped
    <2>2. ASSUME ReclaimLeases \/ ReclaimLeasesCommits PROVE FALSE
      BY <1>2, <2>2 DEF ReclaimLeases, ReclaimLeasesCommits, Freed
    <2>3. ASSUME NEW w \in Worker, VersionOf(job[w]) \in Version,
                 \/ SettleInfra(w) \/ ResetToPending(w)
                 \/ \E verdict \in Verdicts : SettleScored(w, verdict)
          PROVE  FALSE
      BY <2>1, <2>3, VerdictType DEF SettleInfra, SettleScored, ResetToPending, Decided
    <2>4. PICK w \in Worker : stage[w] # "none" /\ VersionOf(job[w]) \in Version /\ Start(w)
      BY <1>2, <2>1, <2>2, <2>3, StatusWriters DEF Submit
    <2>5. VersionOf(job[w]) = v
      BY <1>0, <1>2, <2>4 DEF Start, SetStatus, TablesTyped
    <2>6. pc[w] = "held" /\ job[w] \in Intent
      BY <1>0, <2>4, WorkerHasVersion DEF Start, EvaluationTypeOK
    <2>7. state'[job[w]] = "claimed"
      BY <2>4, <2>6 DEF Start, intentVars, OwnershipInv, HolderOwnsRow
    <2> QED BY <2>5, <2>6, <2>7 DEF IntentsOf
  <1> QED BY <1>1, <1>2

\* no intent has used up its attempts
NoneParked == \A i \in Intent : state[i] # "failed"

\* An intent that is neither settled nor parked is one the dispatcher or a
\* worker will still take up.
LEMMA UnsettledIsOwned ==
  ASSUME TypeOK, EvaluatingUnsettled, NoneParked
  PROVE  EvaluatingIsOwned
  <1> SUFFICES ASSUME NEW v \in Version, status[v] = "evaluating" PROVE InFlight(v) # {}
    BY DEF EvaluatingIsOwned
  <1>1. PICK i \in IntentsOf(v) : state[i] \notin {"absent", "completed"}
    BY DEF EvaluatingUnsettled
  <1>2. state[i] \in NonTerminal
    BY <1>1 DEF NoneParked, NonTerminal, IntentsOf, TypeOK, JobState
  <1> QED BY <1>1, <1>2 DEF InFlight

\* A version is never left `evaluating` with nothing to free it, unless an
\* intent of it is parked: dead workers, refused starts, lost messages and
\* failed settlements all leave an intent whose lease or retry will.
THEOREM EvaluatingHasOwner ==
  CleanEnvironment =>
    /\ EvaluationSpec => []EvaluatingUnsettled
    /\ EvaluationSpec /\ []NoneParked => []EvaluatingIsOwned
  <1> SUFFICES ASSUME CleanEnvironment
               PROVE  /\ EvaluationSpec => []EvaluatingUnsettled
                      /\ EvaluationSpec /\ []NoneParked => []EvaluatingIsOwned
    OBVIOUS
  <1> DEFINE I == EvaluationInv /\ OwnershipInv /\ EvaluatingUnsettled
  <1>1. EvaluationInit => I
    BY InitEvaluation DEF EvaluationInv, EvaluatingUnsettled, EvaluationInit
  <1>2. I /\ [EvaluationNext]_allVars => I'
    BY StepKeepsOutbox, StepEvaluationInv, StepEvaluatingUnsettled DEF EvaluationInv
  <1>3. I /\ NoneParked => EvaluatingIsOwned
    BY UnsettledIsOwned DEF EvaluationInv
  <1>4. I => EvaluatingUnsettled
    OBVIOUS
  <1> QED BY <1>1, <1>2, <1>3, <1>4, PTL DEF EvaluationSpec

-----------------------------------------------------------------------------
(* One open intent at a time                                                 *)

\* A committed run is never taken back in the composition either.
LEMMA CompletedKept ==
  ASSUME CleanEnvironment, EvaluationInv, OwnershipInv, [EvaluationNext]_allVars,
         NEW i \in Intent, state[i] = "completed"
  PROVE  state'[i] = "completed"
  <1> DEFINE Stays == state'[i] = "completed"
  <1>0. TypeOK /\ EvaluationTypeOK
    BY DEF EvaluationInv
  <1>1. ASSUME UNCHANGED state PROVE Stays
    BY <1>1
  <1>2. ASSUME Addition PROVE Stays
    BY <1>2, AdditionShape, <1>0
  <1>3. ASSUME Reclaim \/ ReclaimCommits PROVE Stays
    BY <1>3, NothingLate DEF Reclaim, ReclaimRows, Overdue, LeasedStates
  <1>4. ASSUME NEW d \in Dispatcher, LeaseDue(d) PROVE Stays
    BY <1>4 DEF LeaseDue, Due
  <1>5. ASSUME NEW d \in Dispatcher, NEW j \in Intent, MarkDispatched(d, j) PROVE Stays
    BY <1>0, <1>5 DEF MarkDispatched, TypeOK
  <1>6. ASSUME NEW d \in Dispatcher,
               DispatchFails(d) \/ DispatchFailCommits(d) \/ MarkCommits(d)
        PROVE  Stays
    BY <1>6, NothingLate
  <1>7. ASSUME OutboxStep PROVE Stays
    BY <1>1, <1>4, <1>5, <1>6, <1>7 DEF OutboxStep, DispatcherStep, Publish,
      PublishRaises, MarkReads, DispatchFailReads, DispatcherDies, PublishDirectly,
      LoseMessage, LeaseEnds, LeaseRunsOut, BackoffEnds, Deliver, DuplicateCommit,
      ClaimConflict, intentVars
  <1>8. ASSUME NEW w \in Worker, EvaluateStep(w) PROVE Stays
    <2>1. ASSUME ClaimCommit(w) PROVE Stays
      <3>1. state[job[w]] # "completed"
        BY <2>1 DEF ClaimCommit, Record, OwnershipInv, OpenClaimIsCurrent
      <3> QED BY <1>0, <2>1, <3>1 DEF ClaimCommit, TypeOK
    <2>2. ASSUME Failure(w) PROVE Stays
      <3>1. state[job[w]] = "claimed"
        BY <1>0, <2>2, FailureMoves DEF OwnershipInv, HolderOwnsRow
      <3> QED BY <1>0, <2>2, <3>1, FailureMoves
    <2>3. ASSUME NEW S, CreateIntents(S) PROVE Stays
      BY <2>3 DEF CreateIntents
    <2>4. ASSUME CompleteIntent(w) PROVE Stays
      BY <1>0, <2>4 DEF CompleteIntent, TypeOK
    <2>5. \/ ClaimCommit(w) \/ Failure(w) \/ UNCHANGED state
          \/ \E S : CreateIntents(S)
          \/ CompleteIntent(w)
      BY <1>8 DEF EvaluateStep, Settle, Claim, ReadStatus, Start, StartRefused, At,
        SettleRefused, PersistFails, PersistFailsLate, FailureLands, ResetToPending,
        Recheck, EnqueueStale, MintStale, Vanish, Fail, FailReads, Failure, Return,
        Abandon, WorkerDies, Republish, NothingInFlight, intentVars, outboxVars, vars,
        MintRetry, ClaimReevaluation, SettleInfra, SettleScored, Complete
    <2> QED BY <1>1, <2>1, <2>2, <2>3, <2>4, <2>5
  <1> QED
    <2>1. \/ ReclaimLeases \/ ReclaimLeasesCommits
          \/ ReclaimLeasesReads \/ ReclaimLeasesDies
          \/ OutboxStep \/ \E w \in Worker : EvaluateStep(w)
          \/ RegisterGolden \/ UNCHANGED allVars \/ Addition
      BY <1>0, ApiStepAdds DEF EvaluationNext, LateReclaim
    <2>2. \/ RegisterGolden \/ UNCHANGED allVars
          \/ ReclaimLeasesReads \/ ReclaimLeasesDies
          => UNCHANGED state
      BY DEF RegisterGolden, ReclaimLeasesReads, ReclaimReads, ReclaimLeasesDies,
        ReclaimDies, allVars, outboxVars, vars, intentVars
    <2> QED BY <1>1, <1>2, <1>3, <1>7, <1>8, <2>1, <2>2
          DEF ReclaimLeases, ReclaimLeasesCommits

\* A worker that stays inside evaluate_version keeps its intent.
LEMMA JobKept ==
  ASSUME EvaluationInv, [EvaluationNext]_allVars, NEW w \in Worker,
         stage'[w] # "none"
  PROVE  /\ job'[w] = job[w]
         /\ stage'[w] = stage[w] \/ EvaluateStep(w)
  <1> DEFINE Goal == /\ job'[w] = job[w]
                     /\ stage'[w] = stage[w] \/ EvaluateStep(w)
  <1>0. TypeOK /\ EvaluationTypeOK
    BY DEF EvaluationInv
  <1>1. stage \in [Worker -> {"none"} \cup RunStages \cup TailStages]
    BY <1>0, TypeParts DEF RunsTyped
  <1>2. ASSUME UNCHANGED <<stage, job>> PROVE Goal
    BY <1>2
  <1>3. ASSUME OutboxStep, UNCHANGED <<tableVars, apiVars, runVars>> PROVE Goal
    <2>1. stage'[w] = stage[w]
      BY <1>3 DEF runVars
    <2>2. pc[w] \in {"held", "tail"}
      BY <1>0, <2>1, WorkerHasVersion
    <2> QED BY <1>0, <1>3, <2>1, <2>2, OutboxStepRuns
  <1>4. ASSUME NEW u \in Worker, EvaluateStep(u) PROVE Goal
    <2>1. u # w => stage'[w] = stage[w]
      BY <1>0, <1>4, OthersStay, TypeParts
    <2>2. UNCHANGED job \/ (Release(u) /\ Leave(u))
      BY <1>4 DEF EvaluateStep, Settle, Claim, ReadStatus, Start, StartRefused,
        SettleInfra, SettleScored, SettleRefused, PersistFails, PersistFailsLate,
        FailureLands, ResetToPending, Recheck, EnqueueStale, MintStale, Vanish,
        ClaimCommit, Complete, CompleteIntent, SettleFailed, Fail, FailReads,
        FailCommits, Return, Abandon, WorkerDies, ToTail, workerVars, vars, outboxVars
    <2>3. u = w => UNCHANGED job
      BY <1>1, <2>2 DEF Leave
    <2>4. job'[w] = job[w]
      BY <1>0, <2>2, <2>3 DEF Release, TypeOK
    <2> QED BY <1>1, <1>4, <2>1, <2>4
  <1> QED
    <2> HIDE DEF Goal
    <2>1. \/ UNCHANGED <<stage, job>>
          \/ OutboxStep /\ UNCHANGED <<tableVars, apiVars, runVars>>
          \/ \E u \in Worker : EvaluateStep(u)
      BY DEF EvaluationNext, Submit, EnqueueFlagged, MintFlagged, RegisterGolden,
        FlagForReevaluation, ApiDies, RecoverOrphans, ReclaimLeases, LateReclaim,
        ReclaimLeasesReads, ReclaimLeasesCommits, ReclaimLeasesDies, Reclaim,
        ReclaimReads, ReclaimCommits, ReclaimDies, allVars, outboxVars, vars,
        workerVars, runVars
    <2>2. Goal
      BY <1>2, <1>3, <1>4, <2>1
    <2> QED BY <2>2 DEF Goal

\* Who creates an intent.
LEMMA CreatedBy ==
  ASSUME EvaluationInv, AllKnown, [EvaluationNext]_allVars,
         NEW i \in Intent, state[i] = "absent", state'[i] # "absent"
  PROVE  \/ \E v \in Version : Submit(v) /\ i = <<v, 0>>
         \/ \E g \in toFlag : i \in Eligible(g) \X {g}
         \/ \E w \in Worker : stage[w] = "recheck" /\ i = <<VersionOf(job[w]), golden>>
         \/ \E v \in Version : i \in Retries(v)
  <1> DEFINE Goal == \/ \E v \in Version : Submit(v) /\ i = <<v, 0>>
                     \/ \E g \in toFlag : i \in Eligible(g) \X {g}
                     \/ \E w \in Worker :
                          stage[w] = "recheck" /\ i = <<VersionOf(job[w]), golden>>
                     \/ \E v \in Version : i \in Retries(v)
  <1>0. TypeOK /\ EvaluationTypeOK
    BY DEF EvaluationInv
  <1>1. \A S : CreateIntents(S) => i \in S
    BY DEF CreateIntents
  <1>2. ASSUME NEW v \in Version, Submit(v) PROVE Goal
    BY <1>1, <1>2 DEF Submit
  <1>3. ASSUME NEW g \in 1..MaxGolden, FlagForReevaluation(g) PROVE Goal
    <2>1. i \in Unclaimed(Eligible(g), g) \X {g}
      BY <1>1, <1>3 DEF FlagForReevaluation, ClaimReevaluation
    <2>2. i \in Eligible(g) \X {g}
      BY <2>1 DEF Unclaimed
    <2> QED BY <1>3, <2>2 DEF FlagForReevaluation
  <1>4. ASSUME NEW v \in Version, MintRetry(v) PROVE Goal
    BY <1>1, <1>4 DEF MintRetry
  <1>5. ASSUME UNCHANGED state PROVE Goal
    BY <1>5
  <1>6. ASSUME OutboxStep PROVE Goal
    BY <1>0, <1>6, OutboxStepCreatesNothing
  <1>7. ASSUME Reclaim \/ ReclaimCommits PROVE Goal
    BY <1>7 DEF Reclaim, ReclaimCommits, ReclaimRows, Overdue, LeasedStates, AllKnown
  <1>8. ASSUME NEW w \in Worker, EvaluateStep(w) PROVE Goal
    <2> DEFINE v == VersionOf(job[w])
    <2>0. stage[w] # "none" => v \in Version
      BY <1>0, WorkerHasVersion
    <2>1. ASSUME ClaimCommit(w) PROVE FALSE
      BY <1>0, <2>1 DEF ClaimCommit, TypeOK, AllKnown
    <2>2. ASSUME CompleteIntent(w) PROVE FALSE
      BY <1>0, <2>2 DEF CompleteIntent, TypeOK, AllKnown
    <2>3. ASSUME Failure(w) PROVE FALSE
      BY <1>0, <2>3, FailureMoves DEF AllKnown
    <2>4. ASSUME stage[w] = "recheck", ClaimReevaluation({v}, golden) PROVE Goal
      BY <1>1, <2>4 DEF ClaimReevaluation
    <2>5. \/ UNCHANGED state \/ ClaimCommit(w) \/ CompleteIntent(w) \/ Failure(w)
          \/ stage[w] = "recheck" /\ ClaimReevaluation({v}, golden)
          \/ stage[w] = "minting" /\ MintRetry(v)
      BY <1>8 DEF EvaluateStep, Settle, Claim, ReadStatus, Start, StartRefused, At,
        SettleInfra, SettleScored, SettleRefused, PersistFails, PersistFailsLate,
        FailureLands, ResetToPending, Recheck, EnqueueStale, MintStale, Vanish,
        Complete, Fail, FailReads, Failure, Return, Abandon, WorkerDies, Republish,
        NothingInFlight, intentVars, outboxVars, vars
    <2> QED BY <1>4, <1>5, <2>0, <2>1, <2>2, <2>3, <2>4, <2>5
  <1>9. \/ \E v \in Version : Submit(v)
        \/ \E g \in 1..MaxGolden : FlagForReevaluation(g)
        \/ \E v \in Version : MintRetry(v)
        \/ UNCHANGED state \/ OutboxStep \/ Reclaim \/ ReclaimCommits
        \/ \E w \in Worker : EvaluateStep(w)
    BY DEF EvaluationNext, EnqueueFlagged, MintFlagged, RegisterGolden, ApiDies,
      RecoverOrphans, ReclaimLeases, LateReclaim, ReclaimLeasesReads, ReclaimReads,
      ReclaimLeasesCommits, ReclaimLeasesDies, ReclaimDies, Republish, NothingInFlight,
      allVars, outboxVars, vars, intentVars
  <1> HIDE DEF Goal
  <1>10. Goal
    BY <1>2, <1>3, <1>4, <1>5, <1>6, <1>7, <1>8, <1>9
  <1> QED BY <1>10 DEF Goal

\* With one golden set and no retries a re-evaluation follows a committed run,
\* and so does a worker that checks for a newer set.
RunsAreCommitted ==
  /\ \A r \in runs : r.intent \in Intent /\ state[r.intent] = "completed"
  /\ \A w \in Worker : stage[w] = "recheck" => state[job[w]] = "completed"

SecondAfterFirst ==
  \A v \in Version, g \in 1..MaxGolden :
    state[<<v, g>>] # "absent" => state[<<v, 0>>] = "completed"

\* A run and its intent are committed by one transaction.
LEMMA StepRunsAreCommitted ==
  ASSUME CleanEnvironment, EvaluationInv, OwnershipInv, RunsAreCommitted,
         [EvaluationNext]_allVars
  PROVE  RunsAreCommitted'
  <1>0. TypeOK /\ EvaluationTypeOK /\ TablesTyped
    BY TypeParts DEF EvaluationInv
  <1>1. \A i \in Intent : state[i] = "completed" => state'[i] = "completed"
    BY CompletedKept
  <1>2. ASSUME NEW w \in Worker,
               SettleInfra(w) \/ \E verdict \in Verdicts : SettleScored(w, verdict)
        PROVE  job[w] \in Intent /\ state'[job[w]] = "completed"
    <2>1. stage[w] = "running" /\ CompleteIntent(w)
      BY <1>2 DEF SettleInfra, SettleScored, At, Complete
    <2>2. job[w] \in Intent
      BY <1>0, <2>1, WorkerHasVersion
    <2> QED BY <1>0, <2>1, <2>2 DEF CompleteIntent, TypeOK
  <1>3. runs' = runs \/ \E w \in Worker :
          /\ SettleInfra(w) \/ \E verdict \in Verdicts : SettleScored(w, verdict)
          /\ \E o : RecordRun(w, o)
    BY DEF EvaluationNext, Submit, EnqueueFlagged, MintFlagged, RegisterGolden,
      FlagForReevaluation, ApiDies, RecoverOrphans, ReclaimLeases, LateReclaim,
      ReclaimLeasesReads, ReclaimLeasesCommits, ReclaimLeasesDies, EvaluateStep, Settle,
      Claim, ReadStatus, Start, StartRefused, SettleInfra, SettleScored, SettleRefused,
      PersistFails, PersistFailsLate, FailureLands, ResetToPending, Recheck,
      EnqueueStale, MintStale, Vanish, tableVars, allVars
  <1>4. ASSUME NEW r \in runs' PROVE r.intent \in Intent /\ state'[r.intent] = "completed"
    <2>1. CASE r \in runs
      BY <1>1, <2>1 DEF RunsAreCommitted
    <2>2. CASE r \notin runs
      <3>1. PICK w \in Worker :
              /\ SettleInfra(w) \/ \E verdict \in Verdicts : SettleScored(w, verdict)
              /\ \E o : RecordRun(w, o)
        BY <1>3, <2>2
      <3>2. r.intent = job[w]
        BY <2>2, <3>1 DEF RecordRun
      <3> QED BY <1>2, <3>1, <3>2
    <2> QED BY <2>1, <2>2
  <1>5. ASSUME NEW w \in Worker, stage'[w] = "recheck"
        PROVE  state'[job'[w]] = "completed"
    <2>1. job'[w] = job[w] /\ (stage'[w] = stage[w] \/ EvaluateStep(w))
      BY <1>5, JobKept
    <2>2. CASE stage[w] = "recheck"
      <3>1. state[job[w]] = "completed" /\ job[w] \in Intent
        BY <1>0, <2>2, WorkerHasVersion DEF RunsAreCommitted
      <3> QED BY <1>1, <2>1, <3>1
    <2>3. CASE stage[w] # "recheck"
      <3>1. EvaluateStep(w) /\ stage \in [Worker -> {"none"} \cup RunStages \cup TailStages]
        BY <1>0, <1>5, <2>1, <2>3, TypeParts DEF RunsTyped
      <3>2. At(w, "running", "recheck")
        BY <1>5, <2>3, <3>1, StageMoves DEF At, Leave, Start, PersistFailsLate, runVars
      <3>3. SettleInfra(w) \/ \E verdict \in Verdicts : SettleScored(w, verdict)
        BY <3>1, <3>2 DEF EvaluateStep, Settle, Claim, ReadStatus, Start, StartRefused,
          At, Leave, SettleRefused, PersistFails, PersistFailsLate, FailureLands,
          ResetToPending, Recheck, EnqueueStale, MintStale, Vanish, RunsTyped, runVars
      <3> QED BY <1>2, <2>1, <3>3
    <2> QED BY <2>2, <2>3
  <1> QED BY <1>4, <1>5 DEF RunsAreCommitted

\* The intent of a golden set is created for a version that has a run.
LEMMA StepSecondAfterFirst ==
  ASSUME MaxGolden <= 1, MaxRetries = 0, CleanEnvironment, EvaluationInv, OwnershipInv,
         RunsAreCommitted, SecondAfterFirst, [EvaluationNext]_allVars
  PROVE  SecondAfterFirst'
  <1> SUFFICES ASSUME NEW v \in Version, NEW g \in 1..MaxGolden, state'[<<v, g>>] # "absent"
               PROVE  state'[<<v, 0>>] = "completed"
    BY DEF SecondAfterFirst
  <1>0. TypeOK /\ EvaluationTypeOK
    BY DEF EvaluationInv
  <1>1. g = 1 /\ MaxGolden = 1 /\ <<v, g>> \in Intent /\ <<v, 0>> \in Intent
    BY EvaluationAssumption
  <1>2. SUFFICES state[<<v, 0>>] = "completed"
    BY <1>1, CompletedKept
  <1>3. CASE state[<<v, g>>] # "absent"
    BY <1>3 DEF SecondAfterFirst
  <1>4. CASE state[<<v, g>>] = "absent"
    <2>1. ASSUME NEW i \in Intent, VersionOf(i) = v, state[i] = "completed"
          PROVE  state[<<v, 0>>] = "completed"
      <3>1. i = <<v, 0>> \/ i = <<v, 1>>
        BY <1>1, <2>1, EvaluationAssumption DEF VersionOf
      <3> QED BY <1>1, <1>4, <2>1, <3>1
    <2>2. ~(\E u \in Version : <<v, g>> = <<u, 0>>)
      BY <1>1
    <2>3. ~(\E u \in Version : <<v, g>> \in Retries(u))
      BY <1>1 DEF Retries
    <2>4. CASE \E h \in toFlag : <<v, g>> \in Eligible(h) \X {h}
      <3>1. \E r \in runs : VersionOf(r.intent) = v
        BY <2>4 DEF Eligible, RunsOn
      <3> QED BY <2>1, <3>1 DEF RunsAreCommitted
    <2>5. CASE \E w \in Worker :
                 stage[w] = "recheck" /\ <<v, g>> = <<VersionOf(job[w]), golden>>
      <3>1. PICK w \in Worker :
              stage[w] = "recheck" /\ <<v, g>> = <<VersionOf(job[w]), golden>>
        BY <2>5
      <3>2. job[w] \in Intent /\ VersionOf(job[w]) = v
        BY <1>0, <3>1, WorkerHasVersion, KeysOfVersion
      <3> QED BY <2>1, <3>1, <3>2 DEF RunsAreCommitted
    <2>6. AllKnown
      BY DEF AllKnown, OwnershipInv, KnownOnly
    <2> QED BY <1>1, <1>4, <2>2, <2>3, <2>4, <2>5, <2>6, CreatedBy
  <1> QED BY <1>3, <1>4

\* With at most two keys a version, an intent that waits for the other to
\* complete is the only open one.
LEMMA SecondIsAlone ==
  ASSUME MaxGolden <= 1, MaxRetries = 0, SecondAfterFirst
  PROVE  OneOpenIntent
  <1> SUFFICES ASSUME NEW i \in Intent, NEW j \in Intent,
                      VersionOf(i) = VersionOf(j), i # j,
                      state[i] \in NonTerminal, state[j] \in NonTerminal
               PROVE  FALSE
    BY DEF OneOpenIntent
  <1>1. PICK v \in Version, a \in 0..MaxGolden, b \in 0..MaxGolden :
          i = <<v, a>> /\ j = <<v, b>> /\ a # b
    BY EvaluationAssumption DEF VersionOf
  <1>2. (a = 0 /\ b \in 1..MaxGolden) \/ (b = 0 /\ a \in 1..MaxGolden)
    BY <1>1, EvaluationAssumption
  <1> QED BY <1>1, <1>2 DEF SecondAfterFirst, NonTerminal

\* One golden set and no operator retries are enough for a version to have one
\* open intent at a time: the submission's, or after its run the set's.
THEOREM OneIntentAtATime ==
  CleanEnvironment /\ MaxGolden <= 1 /\ MaxRetries = 0
    => (EvaluationSpec => []OneOpenIntent)
  <1> SUFFICES ASSUME CleanEnvironment, MaxGolden <= 1, MaxRetries = 0
               PROVE  EvaluationSpec => []OneOpenIntent
    OBVIOUS
  <1> DEFINE I == EvaluationInv /\ OwnershipInv /\ RunsAreCommitted /\ SecondAfterFirst
  <1>1. EvaluationInit => I
    <2>1. EvaluationInit => RunsAreCommitted
      BY DEF EvaluationInit, RunsAreCommitted
    <2>2. EvaluationInit => SecondAfterFirst
      BY KeysOfVersion DEF EvaluationInit, Init, SecondAfterFirst
    <2> QED BY <2>1, <2>2, InitEvaluation DEF EvaluationInv
  <1>2. I /\ [EvaluationNext]_allVars => I'
    BY StepKeepsOutbox, StepEvaluationInv, StepRunsAreCommitted, StepSecondAfterFirst
      DEF EvaluationInv
  <1>3. I => OneOpenIntent
    BY SecondIsAlone
  <1> QED BY <1>1, <1>2, <1>3, PTL DEF EvaluationSpec

-----------------------------------------------------------------------------
(* Evidence stays current                                                    *)

\* No step of the outbox takes a row away.
LEMMA RowsStay ==
  ASSUME TypeOK, [Next]_vars \/ Addition \/ Refusal, NEW i \in Intent,
         state[i] # "absent"
  PROVE  state'[i] # "absent"
  <1> DEFINE Stays == state'[i] # "absent"
  <1>1. ASSUME NEW j \in Intent, NEW n,
               \/ \E r \in BOOLEAN : FailIntent(j, n, r)
               \/ \E read : FailWrite(j, n, read)
        PROVE  Stays
    <2>1. ASSUME NEW read, FailWrite(j, n, read) PROVE Stays
      BY <2>1 DEF FailWrite, Write, TypeOK
    <2> QED BY <1>1, <2>1 DEF FailIntent, intentVars
  <1>2. ASSUME NEW j \in Intent, IntentStep(j) PROVE Stays
    BY <1>2 DEF IntentStep, Create, CreateIntents, PublishDirectly, LoseMessage,
      LeaseRunsOut, BackoffEnds, intentVars
  <1>3. ASSUME NEW d \in Dispatcher, DispatcherStep(d) PROVE Stays
    <2>1. ASSUME DispatchFails(d) \/ DispatchFailCommits(d) PROVE Stays
      BY <2>1, DispatchFailureMoves
    <2>2. ASSUME NEW j \in Intent, MarkDispatched(d, j) PROVE Stays
      BY <2>2 DEF MarkDispatched, TypeOK
    <2>3. ASSUME MarkCommits(d) PROVE Stays
      BY <2>3 DEF MarkCommits, TypeOK
    <2> QED BY <1>3, <2>1, <2>2, <2>3 DEF DispatcherStep, LeaseDue, MarkReads, Publish,
          PublishRaises, DispatchFailReads, DispatcherDies, intentVars
  <1>4. ASSUME NEW w \in Worker, WorkerStep(w) PROVE Stays
    <2>1. ASSUME ClaimCommit(w) \/ Complete(w) PROVE Stays
      BY <2>1 DEF ClaimCommit, Complete, CompleteIntent, TypeOK
    <2>2. ASSUME NEW r \in BOOLEAN, Fail(w, r) PROVE Stays
      BY <1>1, <2>2 DEF Fail, SettleFailed, TypeOK
    <2>3. ASSUME FailCommits(w) PROVE Stays
      BY <1>1, <2>3 DEF FailCommits, TypeOK
    <2> QED BY <1>4, <2>1, <2>2, <2>3 DEF WorkerStep, Deliver, DuplicateCommit,
          ClaimConflict, FailReads, Return, Abandon, WorkerDies, intentVars
  <1>5. ASSUME Reclaim \/ ReclaimReads \/ ReclaimCommits \/ ReclaimDies PROVE Stays
    BY <1>5 DEF Reclaim, ReclaimReads, ReclaimCommits, ReclaimDies, ReclaimRows, intentVars
  <1>6. ASSUME UNCHANGED vars PROVE Stays
    BY <1>6 DEF vars, intentVars
  <1>7. ASSUME Addition PROVE Stays
    BY <1>7, AdditionShape
  <1>8. ASSUME Refusal PROVE Stays
    BY <1>1, <1>8 DEF Refusal, SettleFailed, TypeOK
  <1> QED BY <1>2, <1>3, <1>4, <1>5, <1>6, <1>7, <1>8 DEF Next

\* A message, a batch or a claim is made of what exists.
LEMMA StepAllKnown ==
  ASSUME TypeOK, AllKnown, [Next]_vars \/ Addition \/ Refusal
  PROVE  AllKnown'
  <1>1. \A i \in Intent : state[i] # "absent" => state'[i] # "absent"
    BY RowsStay
  <1>2. ASSUME \A i \in Intent : queue'[i] > 0 => queue[i] > 0 \/ state'[i] # "absent",
               \A d \in Dispatcher, i \in Intent : i \in batch'[d] \/ inHand'[d] = i =>
                 i \in batch[d] \/ inHand[d] = i \/ state[i] # "absent",
               \A i \in reclaiming' : i \in Intent /\ state[i] # "absent",
               \A w \in Worker : pc'[w] # "idle" =>
                 job'[w] \in Intent /\ (state[job'[w]] # "absent")
        PROVE  AllKnown'
    BY <1>1, <1>2 DEF AllKnown
  <1> DEFINE Messages == \A i \in Intent :
               queue'[i] > 0 => queue[i] > 0 \/ state'[i] # "absent"
             Batches == \A d \in Dispatcher, i \in Intent :
               i \in batch'[d] \/ inHand'[d] = i =>
                 i \in batch[d] \/ inHand[d] = i \/ state[i] # "absent"
             Claims == \A w \in Worker : pc'[w] # "idle" =>
               job'[w] \in Intent /\ (state[job'[w]] # "absent")
  <1>3. \A w \in Worker : pc[w] # "idle" => job[w] \in Intent /\ state[job[w]] # "absent"
    BY DEF AllKnown, TypeOK
  <1>4. UNCHANGED workerVars => Claims
    BY <1>3 DEF workerVars
  <1>5. UNCHANGED queue => Messages
    OBVIOUS
  <1>6. UNCHANGED dispatcherVars => Batches
    BY DEF dispatcherVars
  <1>14. \A i \in reclaiming' : i \in Intent /\ state[i] # "absent"
    <2>1. \A i \in reclaiming : i \in Intent /\ state[i] # "absent"
      BY DEF AllKnown, TypeOK
    <2>2. \/ reclaiming' = reclaiming \/ reclaiming' = {} \/ reclaiming' = Overdue
      BY AdditionShape DEF Next, IntentStep, Create, PublishDirectly, LoseMessage,
        LeaseRunsOut, BackoffEnds, Reclaim, ReclaimReads, ReclaimCommits, ReclaimDies,
        DispatcherStep, LeaseDue, MarkDispatched, MarkReads, MarkCommits, Publish,
        PublishRaises, DispatchFails, DispatchFailReads, DispatchFailCommits,
        DispatcherDies, WorkerStep, Deliver, ClaimCommit, DuplicateCommit,
        ClaimConflict, Complete, Fail, FailReads, FailCommits, SettleFailed, Return,
        Abandon, WorkerDies, Refusal, vars, dispatcherVars
    <2> QED BY <2>1, <2>2 DEF Overdue, LeasedStates
  <1>7. ASSUME NEW i \in Intent, IntentStep(i) PROVE Messages /\ Batches /\ Claims
    <2>1. Messages
      BY <1>1, <1>7 DEF IntentStep, Create, PublishDirectly, LoseMessage, LeaseRunsOut,
        BackoffEnds, Enqueue, TypeOK
    <2> QED BY <1>4, <1>6, <1>7, <2>1 DEF IntentStep, Create, PublishDirectly,
          LoseMessage, LeaseRunsOut, BackoffEnds
  <1>8. ASSUME NEW d \in Dispatcher, DispatcherStep(d) PROVE Messages /\ Batches /\ Claims
    <2>1. Claims
      BY <1>4, <1>8 DEF DispatcherStep, LeaseDue, MarkDispatched, MarkReads,
        MarkCommits, Publish, PublishRaises, DispatchFails, DispatchFailReads,
        DispatchFailCommits, DispatcherDies
    <2>2. Messages
      <3>1. inHand[d] # NoIntent => inHand[d] \in Intent /\ state[inHand[d]] # "absent"
        BY DEF AllKnown, TypeOK
      <3>2. ASSUME inHand[d] # NoIntent, Enqueue(inHand[d]) PROVE Messages
        BY <1>1, <3>1, <3>2 DEF Enqueue, TypeOK
      <3> QED BY <1>5, <1>8, <3>2 DEF DispatcherStep, LeaseDue, MarkDispatched,
        MarkReads, MarkCommits, Publish, PublishRaises, DispatchFails,
        DispatchFailReads, DispatchFailCommits, DispatcherDies
    <2>3. Batches
      <3>1. CASE LeaseDue(d)
        BY <3>1 DEF LeaseDue, Due, TypeOK
      <3>2. ASSUME NEW i \in Intent, MarkDispatched(d, i) PROVE Batches
        BY <3>2 DEF MarkDispatched, TypeOK
      <3>3. CASE \/ Publish(d) \/ DispatchFails(d) \/ DispatchFailCommits(d)
                 \/ DispatcherDies(d)
        <4>1. /\ inHand' = [inHand EXCEPT ![d] = NoIntent]
              /\ batch' = batch \/ batch' = [batch EXCEPT ![d] = {}]
          BY <3>3 DEF Publish, DispatchFails, DispatchFailCommits, DispatcherDies
        <4> QED BY <4>1, ConstantsAssumption DEF TypeOK
      <3>4. CASE PublishRaises(d) \/ MarkCommits(d) \/ DispatchFailReads(d)
        BY <3>4 DEF PublishRaises, MarkCommits, DispatchFailReads
      <3>5. ASSUME NEW i \in Intent, MarkReads(d, i) PROVE Batches
        BY <3>5 DEF MarkReads, TypeOK
      <3> QED BY <1>8, <3>1, <3>2, <3>3, <3>4, <3>5 DEF DispatcherStep
    <2> QED BY <2>1, <2>2, <2>3
  <1>9. ASSUME NEW w \in Worker, WorkerStep(w) PROVE Messages /\ Batches /\ Claims
    <2>1. Batches
      BY <1>6, <1>9 DEF WorkerStep, Deliver, ClaimCommit, DuplicateCommit,
        ClaimConflict, Complete, Fail, FailReads, FailCommits, SettleFailed, Return,
        Abandon, WorkerDies
    <2>2. ASSUME NEW i \in Intent, Deliver(w, i) PROVE Messages /\ Claims
      <3>1. queue[i] > 0 /\ state[i] # "absent"
        BY <2>2 DEF Deliver, AllKnown
      <3> QED BY <1>3, <2>2, <3>1 DEF Deliver, TypeOK
    <2>3. ASSUME Release(w) PROVE Claims
      BY <1>3, <2>3 DEF Release, TypeOK
    <2>4. ASSUME UNCHANGED job, pc[w] # "idle",
                 pc' = [pc EXCEPT ![w] = "tail"] \/ pc' = [pc EXCEPT ![w] = "held"]
          PROVE  Claims
      BY <1>3, <2>4 DEF TypeOK
    <2>7. failing[w] # NoRow => pc[w] # "idle"
      BY DEF TypeOK
    <2>5. CASE \E i \in Intent : Deliver(w, i)
      BY <2>1, <2>2, <2>5
    <2>6. CASE ~(\E i \in Intent : Deliver(w, i))
      <3>1. Messages
        BY <1>5, <1>9, <2>6 DEF WorkerStep, ClaimCommit, DuplicateCommit, ClaimConflict,
          Complete, Fail, FailReads, FailCommits, SettleFailed, Return, Abandon,
          WorkerDies
      <3>2. \/ Release(w)
            \/ UNCHANGED <<pc, job>>
            \/ /\ UNCHANGED job /\ pc[w] # "idle"
               /\ pc' = [pc EXCEPT ![w] = "tail"] \/ pc' = [pc EXCEPT ![w] = "held"]
        <4> HIDE DEF Claims, Messages, Batches
        <4> QED BY <1>9, <2>6, <2>7 DEF WorkerStep, ClaimCommit, DuplicateCommit,
              ClaimConflict, Complete, CompleteIntent, Fail, FailReads, FailCommits,
              SettleFailed, Return, Abandon, WorkerDies, ToTail
      <3>3. Claims
        BY <1>3, <2>3, <2>4, <3>2
      <3> QED BY <2>1, <3>1, <3>3
    <2> QED BY <2>5, <2>6
  <1>10. ASSUME \/ Reclaim \/ ReclaimReads \/ ReclaimCommits \/ ReclaimDies
                \/ UNCHANGED vars
         PROVE  Messages /\ Batches /\ Claims
    BY <1>4, <1>5, <1>6, <1>10 DEF Reclaim, ReclaimReads, ReclaimCommits, ReclaimDies,
      vars, dispatcherVars
  <1>11. ASSUME Addition PROVE Messages /\ Batches /\ Claims
    <2>1. Claims
      BY <1>3, <1>11, AdditionShape
    <2>2. Messages /\ Batches
      BY <1>6, <1>11 DEF Addition
    <2> QED BY <2>1, <2>2
  <1>12. ASSUME Refusal PROVE Messages /\ Batches /\ Claims
    BY <1>3, <1>5, <1>6, <1>12 DEF Refusal, SettleFailed, ToTail, TypeOK
  <1> HIDE DEF Messages, Batches, Claims
  <1>13. Messages /\ Batches /\ Claims
    BY <1>7, <1>8, <1>9, <1>10, <1>11, <1>12 DEF Next
  <1> QED BY <1>2, <1>13, <1>14 DEF Messages, Batches, Claims

\* Golden sets are registered one by one, and only there does the latest change.
LEMMA GoldenGrows ==
  ASSUME EvaluationInv, [EvaluationNext]_allVars
  PROVE  /\ golden \in Nat /\ golden' \in Nat /\ golden <= golden'
         /\ golden' = golden \/ RegisterGolden
  <1>1. golden' = golden \/ RegisterGolden
    BY DEF EvaluationNext, Submit, EnqueueFlagged, MintFlagged, FlagForReevaluation,
      ApiDies, RecoverOrphans, ReclaimLeases, LateReclaim, ReclaimLeasesReads,
      ReclaimLeasesCommits, ReclaimLeasesDies, EvaluateStep, Settle, Claim, ReadStatus,
      Start, StartRefused, SettleInfra, SettleScored, SettleRefused, PersistFails,
      PersistFailsLate, FailureLands, ResetToPending, Recheck, EnqueueStale, MintStale,
      Vanish, tableVars, allVars
  <1>2. golden \in Nat
    BY EvaluationAssumption DEF EvaluationInv, EvaluationTypeOK
  <1> QED BY <1>1, <1>2 DEF RegisterGolden

\* the intent of a golden set is created after the set
GoldenRegistered ==
  \A v \in Version, g \in 1..MaxGolden : state[<<v, g>>] # "absent" => g <= golden

\* Intents of golden sets are minted under the latest set.
LEMMA StepGoldenRegistered ==
  ASSUME EvaluationInv, AllKnown, GoldenRegistered, [EvaluationNext]_allVars
  PROVE  GoldenRegistered'
  <1> SUFFICES ASSUME NEW v \in Version, NEW g \in 1..MaxGolden,
                      state'[<<v, g>>] # "absent"
               PROVE  g <= golden'
    BY DEF GoldenRegistered
  <1>1. <<v, g>> \in Intent /\ MaxGolden \in Nat
    BY EvaluationAssumption
  <1>2. golden \in Nat /\ golden' \in Nat /\ golden <= golden'
    BY GoldenGrows
  <1>3. toFlag \subseteq 1..golden
    BY DEF EvaluationInv, EvaluationTypeOK
  <1>4. CASE state[<<v, g>>] # "absent"
    BY <1>1, <1>2, <1>4 DEF GoldenRegistered
  <1>5. CASE state[<<v, g>>] = "absent"
    <2>1. ~(\E u \in Version : <<v, g>> = <<u, 0>>)
      BY <1>1
    <2>2. ~(\E u \in Version : <<v, g>> \in Retries(u))
      BY <1>1, EvaluationAssumption DEF Retries
    <2>3. \/ \E h \in toFlag : <<v, g>> \in Eligible(h) \X {h}
          \/ \E w \in Worker : stage[w] = "recheck" /\ <<v, g>> = <<VersionOf(job[w]), golden>>
      BY <1>1, <1>5, <2>1, <2>2, CreatedBy
    <2>4. g <= golden
      BY <1>1, <1>2, <1>3, <2>3
    <2> QED BY <1>1, <1>2, <2>4
  <1> QED BY <1>4, <1>5

\* What a step of a worker does to its run and to the records of runs.
LEMMA EvaluateStepRecords ==
  ASSUME NEW w \in Worker, EvaluateStep(w)
  PROVE  /\ UNCHANGED golden
         /\ \/ UNCHANGED <<runs, starts>>
            \/ Start(w) /\ UNCHANGED runs
            \/ /\ At(w, "running", "recheck") /\ UNCHANGED starts
               /\ SettleInfra(w) \/ \E verdict \in Verdicts : SettleScored(w, verdict)
  BY DEF EvaluateStep, Settle, Claim, ReadStatus, Start, StartRefused, SettleInfra,
    SettleScored, SettleRefused, PersistFails, PersistFailsLate, FailureLands,
    ResetToPending, Recheck, EnqueueStale, MintStale, Vanish, tableVars

\* No one but a worker starts or records a run.
LEMMA StepRecords ==
  ASSUME [EvaluationNext]_allVars
  PROVE  \/ UNCHANGED <<runs, starts, runVars>>
         \/ \E w \in Worker : EvaluateStep(w)
  BY DEF EvaluationNext, Submit, EnqueueFlagged, MintFlagged, RegisterGolden,
    FlagForReevaluation, ApiDies, RecoverOrphans, ReclaimLeases, LateReclaim,
    ReclaimLeasesReads, ReclaimLeasesCommits, ReclaimLeasesDies, tableVars, allVars

\* A run in progress is the one it was, or starts now.
LEMMA RunFrom ==
  ASSUME EvaluationInv, [EvaluationNext]_allVars, NEW w \in Worker,
         stage'[w] = "running"
  PROVE  /\ job'[w] = job[w] /\ job[w] \in Intent
         /\ \/ Start(w)
            \/ /\ stage[w] = "running"
               /\ captured'[w] = captured[w] /\ began'[w] = began[w]
  <1>0. TypeOK /\ EvaluationTypeOK /\ RunsTyped
    BY TypeParts DEF EvaluationInv
  <1>1. job'[w] = job[w]
    BY <1>0, JobKept
  <1>2. CASE UNCHANGED runVars
    <2>1. stage[w] = "running" /\ captured'[w] = captured[w] /\ began'[w] = began[w]
      BY <1>2 DEF runVars
    <2> QED BY <1>0, <1>1, <2>1, WorkerHasVersion
  <1>3. ASSUME NEW u \in Worker, EvaluateStep(u), u # w
        PROVE  stage[w] = "running" /\ captured'[w] = captured[w] /\ began'[w] = began[w]
    BY <1>0, <1>3, OthersStay
  <1>4. ASSUME EvaluateStep(w) PROVE Start(w) \/ UNCHANGED runVars
    BY <1>0, <1>4, StageMoves DEF Leave, At, RunsTyped, PersistFailsLate
  <1>5. Start(w) => stage[w] = "starting"
    BY DEF Start
  <1> QED BY <1>0, <1>1, <1>2, <1>3, <1>4, <1>5, StepRecords, WorkerHasVersion

EntriesBounded ==
  \A v \in Version : \A e \in Entries(v) : e[1] <= starts[v] /\ e[2] <= golden

\* Starts and golden sets are numbers.
LEMMA EntriesTyped ==
  ASSUME EvaluationInv, NEW v \in Version, NEW e \in Entries(v)
  PROVE  e[1] \in Nat /\ e[2] \in Nat
  BY EvaluationAssumption DEF EvaluationInv, EvaluationTypeOK, Entries, RunsOn

\* A run is recorded under the start and golden set it has had all along.
LEMMA EntriesFrom ==
  ASSUME EvaluationInv, [EvaluationNext]_allVars, NEW v \in Version
  PROVE  \/ Entries(v)' \subseteq Entries(v) /\ starts'[v] = starts[v]
         \/ /\ Entries(v)' \subseteq Entries(v) \cup {<<starts[v] + 1, golden>>}
            /\ starts'[v] = starts[v] + 1 /\ golden' = golden
  <1>0. TypeOK /\ EvaluationTypeOK /\ RunsTyped /\ TablesTyped
    BY TypeParts DEF EvaluationInv
  <1> DEFINE Started(w) == Start(w) /\ VersionOf(job[w]) = v /\ VersionOf(job[w]) \in Version
  <1>1. ASSUME NEW w \in Worker, Started(w)
        PROVE  starts'[v] = starts[v] + 1 /\ golden' = golden /\ UNCHANGED runs
    BY <1>0, <1>1 DEF Start, TablesTyped
  <1>2. ASSUME NEW w \in Worker, Started(w)
        PROVE  began'[w] = starts[v] + 1 /\ captured'[w] = golden
    BY <1>0, <1>2 DEF Start, RunsTyped
  <1>3. ASSUME NEW w \in Worker, Running(w, v)'
        PROVE  \/ Started(w)
               \/ /\ Running(w, v) /\ began'[w] = began[w] /\ captured'[w] = captured[w]
    <2>1. stage'[w] = "running" /\ VersionOf(job'[w]) = v
      BY <1>3 DEF Running, OnVersion, VersionOf
    <2>2. /\ job'[w] = job[w] /\ job[w] \in Intent
          /\ \/ Start(w)
             \/ /\ stage[w] = "running"
                /\ captured'[w] = captured[w] /\ began'[w] = began[w]
      BY <2>1, RunFrom
    <2>3. job[w] # NoIntent
      BY <2>2, ConstantsAssumption
    <2>4. VersionOf(job[w]) = v
      BY <2>1, <2>2
    <2> QED BY <2>2, <2>3, <2>4 DEF Running, OnVersion
  <1>4. ASSUME NEW r \in RunsOn(v)', r \notin RunsOn(v)
        PROVE  \E w \in Worker : Running(w, v) /\ r.started = began[w] /\ r.golden = captured[w]
    <2>1. r \in runs' /\ r \notin runs /\ VersionOf(r.intent) = v
      BY <1>4 DEF RunsOn, VersionOf
    <2>2. PICK w \in Worker : EvaluateStep(w)
      BY <2>1, StepRecords
    <2>3. /\ stage[w] = "running"
          /\ SettleInfra(w) \/ \E verdict \in Verdicts : SettleScored(w, verdict)
      BY <2>1, <2>2, EvaluateStepRecords DEF Start, At
    <2>4. r.intent = job[w] /\ r.started = began[w] /\ r.golden = captured[w]
      BY <2>1, <2>3 DEF SettleInfra, SettleScored, RecordRun
    <2>5. job[w] # NoIntent
      BY <1>0, <2>3, WorkerHasVersion, ConstantsAssumption
    <2> QED BY <2>1, <2>3, <2>4, <2>5 DEF Running, OnVersion
  <1>5. ASSUME NEW e \in Entries(v)'
        PROVE  e \in Entries(v) \/ \E w \in Worker : Started(w) /\ e = <<starts[v] + 1, golden>>
    <2>1. CASE \E r \in RunsOn(v)' : e = <<r.started, r.golden>>
      BY <1>4, <2>1 DEF Entries
    <2>2. CASE \E w \in Worker : Running(w, v)' /\ e = <<began'[w], captured'[w]>>
      <3>1. PICK w \in Worker : Running(w, v)' /\ e = <<began'[w], captured'[w]>>
        BY <2>2
      <3>2. CASE Started(w)
        BY <1>2, <3>1, <3>2
      <3>3. CASE Running(w, v) /\ began'[w] = began[w] /\ captured'[w] = captured[w]
        BY <3>1, <3>3 DEF Entries
      <3> QED BY <1>3, <3>1, <3>2, <3>3
    <2> QED BY <1>5, <2>1, <2>2 DEF Entries
  <1>6. starts'[v] = starts[v] \/ \E w \in Worker : Started(w)
    <2>1. ASSUME NEW w \in Worker, EvaluateStep(w), starts' # starts
          PROVE  Start(w) /\ VersionOf(job[w]) \in Version
      <3>1. Start(w)
        BY <2>1, EvaluateStepRecords
      <3> QED BY <1>0, <3>1, WorkerHasVersion DEF Start
    <2>2. ASSUME NEW w \in Worker, Start(w), VersionOf(job[w]) \in Version, VersionOf(job[w]) # v
          PROVE  starts'[v] = starts[v]
      BY <1>0, <2>2 DEF Start, TablesTyped
    <2> QED BY <2>1, <2>2, StepRecords
  <1> HIDE DEF Started
  <1> QED BY <1>1, <1>5, <1>6

\* A run starts after all others, with the latest golden set there is.
LEMMA StepEntries ==
  ASSUME EvaluationInv, EntriesBounded, EntriesInOrder, [EvaluationNext]_allVars
  PROVE  EntriesBounded' /\ EntriesInOrder'
  <1> SUFFICES ASSUME NEW v \in Version
               PROVE  /\ \A e \in Entries(v)' : e[1] <= starts'[v] /\ e[2] <= golden'
                      /\ \A e, f \in Entries(v)' : e[1] <= f[1] => e[2] <= f[2]
    BY DEF EntriesBounded, EntriesInOrder
  <1>1. golden \in Nat /\ golden' \in Nat /\ golden <= golden'
    BY GoldenGrows
  <1>2. starts[v] \in Nat
    BY DEF EvaluationInv, EvaluationTypeOK
  <1>3. \A e \in Entries(v) : e[1] \in Nat /\ e[2] \in Nat
    BY EntriesTyped
  <1>4. /\ \A e \in Entries(v) : e[1] <= starts[v] /\ e[2] <= golden
        /\ \A e, f \in Entries(v) : e[1] <= f[1] => e[2] <= f[2]
    BY DEF EntriesBounded, EntriesInOrder
  <1>5. CASE Entries(v)' \subseteq Entries(v) /\ starts'[v] = starts[v]
    BY <1>1, <1>2, <1>3, <1>4, <1>5
  <1>6. CASE /\ Entries(v)' \subseteq Entries(v) \cup {<<starts[v] + 1, golden>>}
             /\ starts'[v] = starts[v] + 1 /\ golden' = golden
    BY <1>1, <1>2, <1>3, <1>4, <1>6
  <1> QED BY <1>5, <1>6, EntriesFrom

\* the commit of the run a worker has made of version v
CommitsRun(w, v) ==
  /\ stage[w] = "running" /\ OnVersion(w, v)
  /\ SettleInfra(w) \/ \E verdict \in Verdicts : SettleScored(w, verdict)

\* Such a commit adds that run, and nothing else changes the runs of a version.
LEMMA RunsFrom ==
  ASSUME EvaluationInv, [EvaluationNext]_allVars, NEW v \in Version
  PROVE  /\ runs \subseteq runs'
         /\ \A w \in Worker : CommitsRun(w, v) =>
              /\ \E r \in RunsOn(v)' : r.golden = captured[w] /\ r.started = began[w]
              /\ stage'[w] = "recheck" /\ captured'[w] = captured[w]
              /\ OnVersion(w, v)'
         /\ (\E w \in Worker : CommitsRun(w, v)) \/ RunsOn(v)' = RunsOn(v)
  <1>0. TypeOK /\ EvaluationTypeOK /\ RunsTyped
    BY TypeParts DEF EvaluationInv
  <1>1. runs \subseteq runs'
    <2>1. ASSUME NEW w \in Worker, EvaluateStep(w) PROVE runs \subseteq runs'
      BY <2>1, EvaluateStepRecords DEF SettleInfra, SettleScored, RecordRun
    <2> QED BY <2>1, StepRecords
  <1>2. ASSUME NEW w \in Worker, CommitsRun(w, v)
        PROVE  /\ \E r \in RunsOn(v)' : r.golden = captured[w] /\ r.started = began[w]
               /\ stage'[w] = "recheck" /\ captured'[w] = captured[w]
               /\ OnVersion(w, v)'
    <2>1. PICK o \in Verdicts \cup {"infra"} : RecordRun(w, o)
      BY <1>2 DEF CommitsRun, SettleInfra, SettleScored
    <2>2. At(w, "running", "recheck") /\ UNCHANGED job
      BY <1>2 DEF CommitsRun, SettleInfra, SettleScored, Complete, CompleteIntent, ToTail
    <2>3. VersionOf(job[w]) = v /\ OnVersion(w, v)'
      BY <1>2, <2>2 DEF CommitsRun, OnVersion, VersionOf
    <2> DEFINE r == [intent |-> job[w], golden |-> captured[w], started |-> began[w],
                     outcome |-> o]
    <2>4. r \in RunsOn(v)'
      BY <2>1, <2>3 DEF RecordRun, RunsOn, VersionOf
    <2> QED BY <1>0, <2>2, <2>3, <2>4 DEF At, RunsTyped
  <1>3. ASSUME NEW r \in runs', r \notin runs, VersionOf(r.intent) = v
        PROVE  \E w \in Worker : CommitsRun(w, v)
    <2>1. PICK w \in Worker : EvaluateStep(w)
      BY <1>3, StepRecords
    <2>2. /\ stage[w] = "running"
          /\ SettleInfra(w) \/ \E verdict \in Verdicts : SettleScored(w, verdict)
      BY <1>3, <2>1, EvaluateStepRecords DEF Start, At
    <2>3. r.intent = job[w]
      BY <1>3, <2>2 DEF SettleInfra, SettleScored, RecordRun
    <2>4. job[w] # NoIntent
      BY <1>0, <2>2, WorkerHasVersion, ConstantsAssumption
    <2> QED BY <1>3, <2>2, <2>3, <2>4 DEF CommitsRun, OnVersion
  <1>4. (\E w \in Worker : CommitsRun(w, v)) \/ RunsOn(v)' = RunsOn(v)
    BY <1>1, <1>3 DEF RunsOn, VersionOf
  <1> QED BY <1>1, <1>2, <1>4

\* A version comes to be judged by the commit of a run on it only.
LEMMA DecidedFrom ==
  ASSUME EvaluationInv, [EvaluationNext]_allVars, NEW v \in Version,
         status'[v] \in Decided
  PROVE  status'[v] = status[v] \/ \E w \in Worker : CommitsRun(w, v)
  <1>0. TypeOK /\ EvaluationTypeOK /\ TablesTyped
    BY TypeParts DEF EvaluationInv
  <1> DEFINE Goal == status'[v] = status[v] \/ \E w \in Worker : CommitsRun(w, v)
  <1>1. ASSUME NEW u \in Version, NEW to, to \notin Decided, SetStatus(u, to)
        PROVE  Goal
    BY <1>0, <1>1 DEF SetStatus, TablesTyped
  <1>2. ASSUME ReclaimLeases \/ ReclaimLeasesCommits PROVE Goal
    BY <1>2 DEF ReclaimLeases, ReclaimLeasesCommits, Freed, Decided
  <1>3. ASSUME NEW u \in Version, Submit(u) PROVE Goal
    BY <1>1, <1>3 DEF Submit, Decided
  <1>4. ASSUME NEW w \in Worker, VersionOf(job[w]) \in Version,
               Start(w) \/ SettleInfra(w)
        PROVE  Goal
    BY <1>1, <1>4 DEF Start, SettleInfra, Decided
  <1>5. ASSUME NEW w \in Worker, VersionOf(job[w]) \in Version, ResetToPending(w)
        PROVE  Goal
    BY <1>0, <1>5 DEF ResetToPending, SetStatus, TablesTyped, Decided
  <1>6. ASSUME NEW w \in Worker, NEW verdict \in Verdicts, SettleScored(w, verdict),
               VersionOf(job[w]) = v
        PROVE  Goal
    <2>1. stage[w] = "running"
      BY <1>6 DEF SettleScored, At
    <2>2. job[w] # NoIntent
      BY <1>0, <2>1, WorkerHasVersion, ConstantsAssumption
    <2> QED BY <1>6, <2>1, <2>2 DEF CommitsRun, OnVersion
  <1>7. ASSUME NEW w \in Worker, NEW verdict \in Verdicts, SettleScored(w, verdict),
               VersionOf(job[w]) \in Version, VersionOf(job[w]) # v
        PROVE  Goal
    <2>1. SetStatus(VersionOf(job[w]), StatusForVerdict[verdict])
      BY <1>7 DEF SettleScored
    <2>2. status'[v] = status[v]
      BY <1>0, <1>7, <2>1 DEF SetStatus, TablesTyped
    <2> QED BY <2>2
  <1> HIDE DEF Goal
  <1>8. status' = status => Goal
    BY DEF Goal
  <1>9. ASSUME NEW w \in Worker, VersionOf(job[w]) \in Version,
               \E verdict \in Verdicts : SettleScored(w, verdict)
        PROVE  Goal
    BY <1>6, <1>7, <1>9
  <1>10. Goal
    BY <1>2, <1>3, <1>4, <1>5, <1>8, <1>9, StatusWriters
  <1> QED BY <1>10 DEF Goal

\* the run made under the intent of a golden set sees that set or a newer one
RunServesItsSet ==
  \A w \in Worker, v \in Version, g \in 1..MaxGolden :
    stage[w] = "running" /\ job[w] = <<v, g>> => g <= captured[w]

\* A run takes the latest set when it starts, and its intent was minted before.
LEMMA StepRunServesItsSet ==
  ASSUME EvaluationInv, AllKnown, GoldenRegistered, RunServesItsSet,
         [EvaluationNext]_allVars
  PROVE  RunServesItsSet'
  <1> SUFFICES ASSUME NEW w \in Worker, NEW v \in Version, NEW g \in 1..MaxGolden,
                      stage'[w] = "running", job'[w] = <<v, g>>
               PROVE  g <= captured'[w]
    BY DEF RunServesItsSet
  <1>0. TypeOK /\ EvaluationTypeOK /\ RunsTyped
    BY TypeParts DEF EvaluationInv
  <1>1. /\ job[w] = <<v, g>> /\ job[w] \in Intent
        /\ \/ Start(w)
           \/ stage[w] = "running" /\ captured'[w] = captured[w]
    BY RunFrom
  <1>2. CASE Start(w)
    <2>1. pc[w] = "held"
      BY <1>0, <1>2 DEF Start, EvaluationTypeOK
    <2>2. g <= golden
      BY <1>1, <2>1 DEF AllKnown, GoldenRegistered
    <2>3. captured'[w] = golden
      BY <1>0, <1>2 DEF Start, RunsTyped
    <2> QED BY <2>2, <2>3
  <1>3. CASE stage[w] = "running" /\ captured'[w] = captured[w]
    BY <1>1, <1>3 DEF RunServesItsSet
  <1> QED BY <1>1, <1>2, <1>3

\* Who makes a claim.
LEMMA ClaimsFrom ==
  ASSUME [EvaluationNext]_allVars
  PROVE  \/ UNCHANGED claims
         \/ \E g \in 1..MaxGolden : FlagForReevaluation(g)
         \/ \E w \in Worker : Recheck(w)
  BY DEF EvaluationNext, Submit, EnqueueFlagged, MintFlagged, RegisterGolden, ApiDies,
    RecoverOrphans, ReclaimLeases, LateReclaim, ReclaimLeasesReads,
    ReclaimLeasesCommits, ReclaimLeasesDies, EvaluateStep, Settle, Claim, ReadStatus,
    Start, StartRefused, SettleInfra, SettleScored, SettleRefused, PersistFails,
    PersistFailsLate, FailureLands, ResetToPending, EnqueueStale, MintStale, Vanish,
    tableVars, allVars

\* A claim is never taken back, and its transaction creates its intent.
LEMMA ClaimsGrow ==
  ASSUME EvaluationInv, [EvaluationNext]_allVars
  PROVE  /\ claims \subseteq claims'
         /\ \A c \in claims' : c \notin claims => state'[c] = "pending"
  <1> DEFINE Goal == /\ claims \subseteq claims'
                     /\ \A c \in claims' : c \notin claims => state'[c] = "pending"
  <1>1. ASSUME NEW S \in SUBSET Version, NEW g \in 1..MaxGolden, ClaimReevaluation(S, g)
        PROVE  Goal
    <2>1. S \X {g} \subseteq Intent
      BY EvaluationAssumption
    <2> QED BY <1>1, <2>1 DEF ClaimReevaluation, CreateIntents
  <1>2. ASSUME NEW g \in 1..MaxGolden, FlagForReevaluation(g) PROVE Goal
    <2>1. Unclaimed(Eligible(g), g) \in SUBSET Version
      BY DEF Unclaimed, Eligible
    <2>2. ClaimReevaluation(Unclaimed(Eligible(g), g), g)
      BY <1>2 DEF FlagForReevaluation
    <2> HIDE DEF Goal
    <2> QED BY <1>1, <2>1, <2>2
  <1>3. ASSUME NEW w \in Worker, Recheck(w), claims' # claims PROVE Goal
    <2>1. /\ ClaimReevaluation({VersionOf(job[w])}, golden)
          /\ golden # captured[w] /\ stage[w] = "recheck"
      BY <1>3 DEF Recheck
    <2>2. VersionOf(job[w]) \in Version
      BY <2>1, WorkerHasVersion DEF EvaluationInv
    <2>3. golden \in 1..MaxGolden
      BY <2>1, EvaluationAssumption DEF EvaluationInv, EvaluationTypeOK, CapturedKnown
    <2> HIDE DEF Goal
    <2> QED BY <1>1, <2>1, <2>2, <2>3
  <1>4. UNCHANGED claims => Goal
    OBVIOUS
  <1> HIDE DEF Goal
  <1>5. Goal
    BY <1>2, <1>3, <1>4, ClaimsFrom
  <1> QED BY <1>5 DEF Goal

\* The run that completes the intent of a claim is the one that serves it.
LEMMA StepClaimsServed ==
  ASSUME EvaluationInv, RunServesItsSet, ClaimsServed, [EvaluationNext]_allVars
  PROVE  ClaimsServed'
  <1> SUFFICES ASSUME NEW v \in Version, NEW g \in 1..MaxGolden, <<v, g>> \in claims'
               PROVE  \/ state'[<<v, g>>] \notin {"absent", "completed"}
                      \/ \E r \in RunsOn(v)' : g <= r.golden
    BY DEF ClaimsServed
  <1>0. <<v, g>> \in Intent /\ VersionOf(<<v, g>>) = v
    BY EvaluationAssumption DEF VersionOf
  <1>1. CASE <<v, g>> \notin claims
    BY <1>1, ClaimsGrow
  <1>2. CASE \E r \in RunsOn(v) : g <= r.golden
    <2>1. RunsOn(v) \subseteq RunsOn(v)'
      BY RunsFrom DEF RunsOn, VersionOf
    <2> QED BY <1>2, <2>1
  <1>3. CASE state[<<v, g>>] \notin {"absent", "completed"}
    <2> SUFFICES ASSUME state'[<<v, g>>] \in {"absent", "completed"}
                 PROVE  \E r \in RunsOn(v)' : g <= r.golden
      OBVIOUS
    <2>1. PICK w \in Worker :
            /\ stage[w] = "running" /\ job[w] = <<v, g>>
            /\ SettleInfra(w) \/ \E verdict \in Verdicts : SettleScored(w, verdict)
      BY <1>0, <1>3, ClosedByRun
    <2>2. CommitsRun(w, v)
      BY <1>0, <2>1, ConstantsAssumption DEF CommitsRun, OnVersion
    <2>3. \E r \in RunsOn(v)' : r.golden = captured[w]
      BY <2>2, RunsFrom
    <2>4. g <= captured[w]
      BY <2>1 DEF RunServesItsSet
    <2> QED BY <2>3, <2>4
  <1> QED BY <1>1, <1>2, <1>3 DEF ClaimsServed

\* The strengthening for claims and for the order of runs: intents are minted
\* after their set, runs take the latest set, and both only grow.
RegistrationInv ==
  /\ EvaluationInv /\ AllKnown /\ GoldenRegistered
  /\ EntriesBounded /\ EntriesInOrder
  /\ RunServesItsSet /\ ClaimsServed

\* The parts of the invariant together.
LEMMA StepRegistrationInv ==
  RegistrationInv /\ [EvaluationNext]_allVars => RegistrationInv'
  <1> SUFFICES ASSUME RegistrationInv, [EvaluationNext]_allVars
               PROVE  RegistrationInv'
    OBVIOUS
  <1>1. EvaluationInv' /\ AllKnown'
    BY StepEvaluationInv, StepIsOutboxStep, StepAllKnown
      DEF RegistrationInv, EvaluationInv
  <1>2. GoldenRegistered' /\ EntriesBounded' /\ EntriesInOrder'
    BY StepGoldenRegistered, StepEntries DEF RegistrationInv
  <1>3. RunServesItsSet' /\ ClaimsServed'
    BY StepRunServesItsSet, StepClaimsServed DEF RegistrationInv
  <1> QED BY <1>1, <1>2, <1>3 DEF RegistrationInv

\* Nothing is registered, claimed or run at first.
LEMMA InitRegistrationInv ==
  EvaluationInit => RegistrationInv
  <1> SUFFICES ASSUME EvaluationInit PROVE RegistrationInv
    OBVIOUS
  <1>1. EvaluationInv
    BY InitEvaluation DEF EvaluationInv
  <1>2. AllKnown
    BY ConstantsAssumption DEF EvaluationInit, Init, AllKnown
  <1>3. GoldenRegistered
    BY EvaluationAssumption DEF EvaluationInit, Init, GoldenRegistered
  <1>4. \A v \in Version : Entries(v) = {}
    BY DEF EvaluationInit, Entries, RunsOn, Running
  <1>5. RunServesItsSet /\ ClaimsServed
    BY DEF EvaluationInit, RunServesItsSet, ClaimsServed
  <1> QED BY <1>1, <1>2, <1>3, <1>4, <1>5
        DEF RegistrationInv, EntriesBounded, EntriesInOrder

\* A worker after its run does not leave before it has compared golden sets.
LEMMA RecheckKept ==
  ASSUME "crash" \notin FaultKinds, EvaluationInv, [EvaluationNext]_allVars,
         NEW w \in Worker, stage[w] = "recheck"
  PROVE  \/ Recheck(w)
         \/ stage'[w] = "recheck" /\ captured'[w] = captured[w] /\ UNCHANGED <<job[w]>>
  <1>0. TypeOK /\ EvaluationTypeOK /\ RunsTyped
    BY TypeParts DEF EvaluationInv
  <1>1. stage'[w] = "recheck" => job'[w] = job[w]
    BY JobKept
  <1>2. CASE UNCHANGED runVars
    BY <1>1, <1>2 DEF runVars
  <1>3. ASSUME NEW u \in Worker, EvaluateStep(u), u # w
        PROVE  stage'[w] = "recheck" /\ captured'[w] = captured[w]
    BY <1>0, <1>3, OthersStay
  <1>4. ASSUME EvaluateStep(w) PROVE Recheck(w)
    <2>1. pc[w] = "tail"
      BY <1>0 DEF EvaluationTypeOK
    <2> QED BY <1>4, <2>1 DEF EvaluateStep, Settle, Claim, ReadStatus, Start,
      StartRefused, SettleInfra, SettleScored, SettleRefused, PersistFails,
      PersistFailsLate, FailureLands, ResetToPending, EnqueueStale, MintStale, Vanish,
      At, Abandon, WorkerDies, Fault
  <1> QED BY <1>1, <1>2, <1>3, <1>4, StepRecords

\* a version judged on an older set than the latest has a claim for the latest,
\* or a worker that will compare the sets
ClaimedOrChecked ==
  \A v \in Version : \A r \in RunsOn(v) :
    /\ status[v] \in Decided /\ IsLatestRun(r) /\ r.golden \in 1..(golden - 1)
    /\ golden \notin toFlag
    => \/ <<v, golden>> \in claims
       \/ \E w \in Worker : stage[w] = "recheck" /\ OnVersion(w, v) /\ captured[w] # golden

\* The version is flagged when the set's turn comes, or was running then and
\* is compared afterwards.
LEMMA StepClaimedOrChecked ==
  ASSUME {"crash", "api_crash"} \cap FaultKinds = {}, RegistrationInv, ClaimedOrChecked,
         [EvaluationNext]_allVars
  PROVE  ClaimedOrChecked'
  <1> SUFFICES ASSUME NEW v \in Version, NEW r \in RunsOn(v)', status'[v] \in Decided,
                      IsLatestRun(r)', r.golden \in 1..(golden' - 1), golden' \notin toFlag'
               PROVE  \/ <<v, golden'>> \in claims'
                      \/ \E w \in Worker : /\ stage'[w] = "recheck" /\ OnVersion(w, v)'
                                           /\ captured'[w] # golden'
    BY DEF ClaimedOrChecked
  <1>0. EvaluationInv /\ RunsTyped /\ EntriesInOrder' /\ RegistrationInv'
    BY StepRegistrationInv, TypeParts DEF RegistrationInv, EvaluationInv
  <1>1. golden' = golden /\ golden \in Nat
    BY <1>0, GoldenGrows DEF RegisterGolden
  <1>2. r \in runs' /\ VersionOf(r.intent) = v
    BY DEF RunsOn, VersionOf
  <1>3. \A s \in RunsOn(v)' : s.started <= r.started
    BY <1>2 DEF IsLatestRun, VersionOf
  <1>4. CASE \E w \in Worker : CommitsRun(w, v)
    <2>1. PICK w \in Worker : CommitsRun(w, v)
      BY <1>4
    <2>2. /\ stage'[w] = "recheck" /\ captured'[w] = captured[w] /\ OnVersion(w, v)'
          /\ \E s \in RunsOn(v)' : s.golden = captured[w] /\ s.started = began[w]
      BY <1>0, <2>1, RunsFrom
    <2>3. PICK s \in RunsOn(v)' : s.golden = captured[w]
      BY <2>2
    <2>4. <<s.started, s.golden>> \in Entries(v)' /\ <<r.started, r.golden>> \in Entries(v)'
      BY DEF Entries
    <2>5. s.golden <= r.golden
      BY <1>0, <1>3, <2>4 DEF EntriesInOrder
    <2>6. captured[w] # golden
      BY <1>1, <2>3, <2>5
    <2> QED BY <1>1, <2>2, <2>6
  <1>5. CASE ~(\E w \in Worker : CommitsRun(w, v))
    <2>1. RunsOn(v)' = RunsOn(v) /\ status[v] \in Decided
      BY <1>0, <1>5, RunsFrom, DecidedFrom
    <2>2. IsLatestRun(r) /\ r \in RunsOn(v)
      BY <1>2, <1>3, <2>1 DEF IsLatestRun
    <2>3. CASE golden \in toFlag
      <3>1. FlagForReevaluation(golden)
        BY <1>1, <2>3 DEF EvaluationNext, Submit, EnqueueFlagged, MintFlagged,
          RegisterGolden, FlagForReevaluation, ApiDies, RecoverOrphans, ReclaimLeases,
          LateReclaim, ReclaimLeasesReads, ReclaimLeasesCommits, ReclaimLeasesDies,
          EvaluateStep, Settle, Claim, ReadStatus, Start, StartRefused, SettleInfra,
          SettleScored, SettleRefused, PersistFails, PersistFailsLate, FailureLands,
          ResetToPending, Recheck, EnqueueStale, MintStale, Vanish, apiVars, allVars,
          Fault
      <3>2. v \in Eligible(golden)
        BY <1>1, <2>1, <2>2 DEF Eligible
      <3>3. <<v, golden>> \in claims'
        BY <3>1, <3>2 DEF FlagForReevaluation, ClaimReevaluation, Unclaimed
      <3> QED BY <1>1, <3>3
    <2>4. CASE <<v, golden>> \in claims
      BY <1>0, <1>1, <2>4, ClaimsGrow
    <2>5. CASE \E w \in Worker : /\ stage[w] = "recheck" /\ OnVersion(w, v)
                                 /\ captured[w] # golden
      <3>1. PICK w \in Worker : /\ stage[w] = "recheck" /\ OnVersion(w, v)
                                /\ captured[w] # golden
        BY <2>5
      <3>2. CASE Recheck(w)
        BY <1>1, <3>1, <3>2 DEF Recheck, ClaimReevaluation, Unclaimed, OnVersion
      <3>3. CASE /\ stage'[w] = "recheck" /\ captured'[w] = captured[w]
                 /\ UNCHANGED <<job[w]>>
        BY <1>1, <3>1, <3>3 DEF OnVersion, VersionOf
      <3> QED BY <1>0, <3>1, <3>2, <3>3, RecheckKept
    <2> QED BY <1>1, <2>1, <2>2, <2>3, <2>4, <2>5 DEF ClaimedOrChecked
  <1> QED BY <1>4, <1>5

\* A claim for a golden set is never lost, in any environment: until a run on
\* that set or a newer one is committed its intent is open or parked (the safety
\* behind ClaimIsServed).
THEOREM ClaimIsNeverLost == EvaluationSpec => []ClaimsServed
  <1>1. RegistrationInv => ClaimsServed
    BY DEF RegistrationInv
  <1> QED BY <1>1, InitRegistrationInv, StepRegistrationInv, PTL DEF EvaluationSpec

\* Of two runs of a version the later one saw no older golden set, whatever is
\* registered while they run.
THEOREM RunsInOrder == EvaluationSpec => []EntriesInOrder
  <1>1. RegistrationInv => EntriesInOrder
    BY DEF RegistrationInv
  <1> QED BY <1>1, InitRegistrationInv, StepRegistrationInv, PTL DEF EvaluationSpec

\* A version judged on an older golden set than the latest is on its way to be
\* judged again, as long as no process dies between its transactions and no
\* intent is parked; leases may run out under a runner and starts may be stale.
THEOREM EvidenceStaysCurrent ==
  {"crash", "api_crash"} \cap FaultKinds = {}
    => (EvaluationSpec /\ []NoneParked => []CurrentEvidence)
  <1> SUFFICES ASSUME {"crash", "api_crash"} \cap FaultKinds = {}
               PROVE  EvaluationSpec /\ []NoneParked => []CurrentEvidence
    OBVIOUS
  <1> DEFINE I == RegistrationInv /\ ClaimedOrChecked
  <1>1. EvaluationInit => I
    <2>1. EvaluationInit => ClaimedOrChecked
      BY DEF EvaluationInit, ClaimedOrChecked, RunsOn
    <2> QED BY <2>1, InitRegistrationInv
  <1>2. I /\ [EvaluationNext]_allVars => I'
    BY StepRegistrationInv, StepClaimedOrChecked
  <1>3. I /\ NoneParked => CurrentEvidence
    <2> SUFFICES ASSUME RegistrationInv, ClaimedOrChecked, NoneParked, NEW v \in Version,
                        status[v] \in Decided, NEW r \in RunsOn(v), IsLatestRun(r),
                        r.golden \in 1..(golden - 1), golden \notin toFlag
                 PROVE  \/ InFlight(v) # {}
                        \/ \E w \in Worker : stage[w] = "recheck" /\ OnVersion(w, v)
      BY DEF CurrentEvidence
    <2>1. CASE \E w \in Worker : stage[w] = "recheck" /\ OnVersion(w, v)
      BY <2>1
    <2>2. CASE <<v, golden>> \in claims
      <3>1. golden \in 1..MaxGolden /\ golden \in Nat
        BY EvaluationAssumption DEF RegistrationInv, EvaluationInv, EvaluationTypeOK
      <3>2. <<v, golden>> \in Intent /\ VersionOf(<<v, golden>>) = v
        BY <3>1, EvaluationAssumption DEF VersionOf
      <3>3. ASSUME NEW s \in RunsOn(v), golden <= s.golden PROVE FALSE
        <4>1. s.started <= r.started
          BY DEF IsLatestRun, RunsOn
        <4>2. <<s.started, s.golden>> \in Entries(v) /\ <<r.started, r.golden>> \in Entries(v)
          BY DEF Entries
        <4>3. s.golden <= r.golden
          BY <4>1, <4>2 DEF RegistrationInv, EntriesInOrder
        <4>4. s.golden \in Nat
          BY EvaluationAssumption
            DEF RegistrationInv, EvaluationInv, EvaluationTypeOK, RunsOn
        <4> QED BY <3>1, <3>3, <4>3, <4>4
      <3>4. state[<<v, golden>>] \notin {"absent", "completed"}
        BY <2>2, <3>1, <3>3 DEF RegistrationInv, ClaimsServed
      <3>5. state[<<v, golden>>] \in NonTerminal
        BY <3>2, <3>4
          DEF RegistrationInv, EvaluationInv, TypeOK, JobState, NoneParked, NonTerminal
      <3> QED BY <3>2, <3>5 DEF InFlight, IntentsOf
    <2> QED BY <2>1, <2>2 DEF ClaimedOrChecked
  <1> QED BY <1>1, <1>2, <1>3, PTL DEF EvaluationSpec

-----------------------------------------------------------------------------
(* Constants alone                                                           *)

\* What holds of the status and its steps while a version has one open intent
\* holds outright with one golden set and no operator retries.
THEOREM SmallestInstallation ==
  SoloEnvironment /\ MaxGolden <= 1 /\ MaxRetries = 0
    => (EvaluationSpec => []RunnerHoldsMutex /\ LegalMovesOnly)
  <1> SUFFICES ASSUME SoloEnvironment, MaxGolden <= 1, MaxRetries = 0
               PROVE  EvaluationSpec => []RunnerHoldsMutex /\ LegalMovesOnly
    OBVIOUS
  <1>1. EvaluationSpec => []OneOpenIntent
    BY OneIntentAtATime DEF SoloEnvironment
  <1>2. EvaluationSpec /\ []OneOpenIntent => []RunnerHoldsMutex
    BY MutexIsHeld
  <1>3. EvaluationSpec /\ []OneOpenIntent => LegalMovesOnly
    BY MovesAreLegal
  <1> QED BY <1>1, <1>2, <1>3, PTL

=============================================================================
