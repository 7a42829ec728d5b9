-------------------------- MODULE JobIntentsProofs --------------------------
(***************************************************************************)
(* Proofs about the outbox for every set of intents, workers and           *)
(* dispatchers and every fault budget.                                     *)
(***************************************************************************)
EXTENDS JobIntents, TLAPS

-----------------------------------------------------------------------------
(* Type correctness *)

\* Finalized only rewrites outcomes.
LEMMA FinalizedType ==
  ASSUME TypeOK, NEW i \in Intent, NEW n, NEW o \in JobOutcome
  PROVE  Finalized(i, n, o) \subseteq JobAttempt
  BY DEF Finalized, TypeOK, JobAttempt

\* What a failure reads is a row.
LEMMA ToFailType ==
  ASSUME TypeOK, NEW i \in Intent, NEW r \in BOOLEAN
  PROVE  ToFail(i, r) \in RowRead
  <1>1. (r /\ count[i] < MaxAttempts) \in BOOLEAN
    OBVIOUS
  <1>2. state[i] \in JobState \cup {"absent"} /\ lease[i] \in Lease
    BY DEF TypeOK
  <1> QED BY <1>1, <1>2, Zenon DEF ToFail, RowRead

\* fail_intent's commit keeps the tables it writes well formed, whatever the row
\* has become since it was read.
LEMMA FailWriteType ==
  ASSUME TypeOK, NEW i \in Intent, NEW n, NEW read \in RowRead,
         FailWrite(i, n, read)
  PROVE  /\ state' \in [Intent -> JobState \cup {"absent"}]
         /\ lease' \in [Intent -> Lease]
         /\ waiting' \in [Intent -> BOOLEAN]
         /\ count' = count
         /\ attempts' \subseteq JobAttempt
  <1>1. read.retry \in BOOLEAN
    BY DEF RowRead
  <1>2. /\ waiting' = [waiting EXCEPT ![i] = read.retry \/ @]
        /\ attempts' = Finalized(i, n, IF read.retry THEN "retryable_failure"
                                                     ELSE "terminal_failure")
    BY DEF FailWrite
  <1>3. attempts' \subseteq JobAttempt
    BY <1>2, FinalizedType DEF JobOutcome
  <1>4. waiting' \in [Intent -> BOOLEAN]
    BY <1>1, <1>2, Zenon DEF TypeOK
  <1>5. Write(lease[i], read.lease, "none") \in Lease
    BY DEF Write, TypeOK, Lease
  <1>6. Write(state[i], read.state, IF read.retry THEN "pending" ELSE "failed")
          \in JobState \cup {"absent"}
    BY DEF Write, TypeOK, JobState
  <1> QED BY <1>3, <1>4, <1>5, <1>6 DEF FailWrite, TypeOK

LEMMA FailIntentType ==
  ASSUME TypeOK, NEW i \in Intent, NEW n, NEW r \in BOOLEAN, FailIntent(i, n, r)
  PROVE  /\ state' \in [Intent -> JobState \cup {"absent"}]
         /\ lease' \in [Intent -> Lease]
         /\ waiting' \in [Intent -> BOOLEAN]
         /\ count' = count
         /\ attempts' \subseteq JobAttempt
  BY ToFailType, FailWriteType DEF FailIntent, TypeOK, intentVars

\* The initial state and every step of the system keep every table and every
\* process in its type.
LEMMA StepType == TypeOK /\ [Next]_vars => TypeOK'
  <1> SUFFICES ASSUME TypeOK, [Next]_vars PROVE TypeOK'
    OBVIOUS
  <1> USE DEF NoFault, Fault
  <1>0. NoRow \in RowRead
    BY DEF NoRow, RowRead, JobState, Lease
  <1>1. ASSUME NEW i \in Intent, IntentStep(i) PROVE TypeOK'
    <2> USE DEF dispatcherVars, workerVars
    <2>1. CASE Create(i)
      BY <2>1 DEF Create, CreateIntents, TypeOK, JobState
    <2>2. CASE PublishDirectly(i) \/ LoseMessage(i)
      BY <2>2 DEF PublishDirectly, Enqueue, LoseMessage, TypeOK, intentVars
    <2>3. CASE LeaseRunsOut(i)
      <3>1. faults' \in Nat
        BY <2>3 DEF LeaseRunsOut, LeaseFault, TypeOK
      <3> QED BY <2>3, <3>1 DEF LeaseRunsOut, TypeOK, Lease
    <2>4. CASE BackoffEnds(i)
      BY <2>4 DEF BackoffEnds, TypeOK
    <2> QED BY <1>1, <2>1, <2>2, <2>3, <2>4 DEF IntentStep
  <1>2. CASE Reclaim \/ ReclaimReads \/ ReclaimCommits \/ ReclaimDies
    <2>1. CASE Reclaim
      BY <2>1 DEF Reclaim, ReclaimRows, ReclaimFault, TypeOK, dispatcherVars,
        workerVars, JobState, Lease
    <2>2. CASE ReclaimReads \/ ReclaimDies
      BY <2>2 DEF ReclaimReads, ReclaimDies, Overdue, TypeOK, intentVars, workerVars
    <2>3. CASE ReclaimCommits
      BY <2>3 DEF ReclaimCommits, ReclaimRows, TypeOK, workerVars, JobState, Lease
    <2> QED BY <1>2, <2>1, <2>2, <2>3
  <1>3. ASSUME NEW d \in Dispatcher, DispatcherStep(d) PROVE TypeOK'
    <2>1. CASE LeaseDue(d)
      BY <2>1 DEF LeaseDue, Due, TypeOK, workerVars, JobState, Lease
    <2>2. ASSUME NEW i \in Intent, MarkDispatched(d, i) PROVE TypeOK'
      BY <2>2 DEF MarkDispatched, TypeOK, workerVars, JobState
    <2>7. ASSUME NEW i \in Intent, MarkReads(d, i) PROVE TypeOK'
      <3>1. [state |-> state[i], lease |-> lease[i], retry |-> FALSE] \in RowRead
        BY DEF TypeOK, RowRead
      <3>2. inHand' = [inHand EXCEPT ![d] = i] /\ inHand' \in [Dispatcher -> Intent \cup {NoIntent}]
        BY <2>7 DEF MarkReads, TypeOK
      <3>3. marking' \in [Dispatcher -> RowRead]
        BY <2>7, <3>1 DEF MarkReads, TypeOK
      <3>4. \A e \in Dispatcher : raised'[e] \/ marking'[e] # NoRow => inHand'[e] \in Intent
        BY <2>7, <3>2 DEF MarkReads, TypeOK
      <3>5. batch' \in [Dispatcher -> SUBSET Intent]
        BY <2>7 DEF MarkReads, TypeOK
      <3> QED BY <2>7, <3>2, <3>3, <3>4, <3>5 DEF MarkReads, TypeOK, intentVars, workerVars
    <2>8. CASE MarkCommits(d)
      BY <2>8, <1>0 DEF MarkCommits, TypeOK, workerVars, JobState
    <2>3. CASE Publish(d)
      BY <2>3 DEF Publish, Enqueue, TypeOK, intentVars, workerVars
    <2>4. CASE PublishRaises(d)
      BY <2>4 DEF PublishRaises, Enqueue, TypeOK, intentVars, workerVars
    <2>5. CASE DispatchFails(d)
      <3>1. FailIntent(inHand[d], 0, TRUE) /\ inHand[d] \in Intent
        BY <2>5 DEF DispatchFails, TypeOK
      <3> QED BY <2>5, <3>1, FailIntentType DEF DispatchFails, TypeOK, workerVars
    <2>6. CASE DispatcherDies(d)
      BY <2>6, <1>0 DEF DispatcherDies, TypeOK, intentVars, workerVars
    <2>9. CASE DispatchFailReads(d)
      <3>1. ToFail(inHand[d], TRUE) \in RowRead
        BY <2>9, ToFailType DEF DispatchFailReads, TypeOK
      <3>2. marking' \in [Dispatcher -> RowRead]
        BY <2>9, <3>1 DEF DispatchFailReads, TypeOK
      <3>3. \A e \in Dispatcher : marking'[e] # NoRow => e = d \/ marking[e] # NoRow
        BY <2>9 DEF DispatchFailReads, TypeOK
      <3>4. raised[d] /\ faults' \in Nat
        BY <2>9 DEF DispatchFailReads, TypeOK
      <3>5. UNCHANGED <<intentVars, queue, batch, inHand, raised, reclaiming, workerVars>>
        BY <2>9 DEF DispatchFailReads
      <3> QED BY <3>2, <3>3, <3>4, <3>5 DEF TypeOK, intentVars, workerVars
    <2>10. CASE DispatchFailCommits(d)
      <3>1. /\ FailWrite(inHand[d], 0, marking[d])
            /\ inHand[d] \in Intent /\ marking[d] \in RowRead
        BY <2>10 DEF DispatchFailCommits, TypeOK
      <3> QED BY <1>0, <2>10, <3>1, FailWriteType
            DEF DispatchFailCommits, TypeOK, workerVars
    <2> QED BY <1>3, <2>1, <2>2, <2>3, <2>4, <2>5, <2>6, <2>7, <2>8, <2>9, <2>10
          DEF DispatcherStep
  <1>4. ASSUME NEW w \in Worker, WorkerStep(w) PROVE TypeOK'
    <2> USE DEF dispatcherVars
    <2>1. ASSUME NEW i \in Intent, Deliver(w, i) PROVE TypeOK'
      <3>1. ClaimDecision(i) \in {"open", "overdue", "duplicate"}
        BY DEF ClaimDecision
      <3> QED BY <2>1, <3>1 DEF Deliver, TypeOK, intentVars
    <2>2. CASE ClaimCommit(w)
      BY <2>2 DEF ClaimCommit, Record, TypeOK, JobAttempt, JobOutcome, JobState, Lease
    <2>3. CASE DuplicateCommit(w)
      BY <1>0, <2>3 DEF DuplicateCommit, Record, Release, TypeOK, JobAttempt, JobOutcome
    <2>4. CASE ClaimConflict(w)
      BY <1>0, <2>4 DEF ClaimConflict, Release, TypeOK, intentVars
    <2>5. CASE Complete(w)
      <3>1. job[w] \in Intent
        BY <2>5 DEF Complete, CompleteIntent, TypeOK
      <3>2. Finalized(job[w], number[w], "completed") \subseteq JobAttempt
        BY <3>1, FinalizedType DEF JobOutcome
      <3> QED BY <1>0, <2>5, <3>1, <3>2
        DEF Complete, CompleteIntent, ToTail, TypeOK, JobState, Lease
    <2>6. ASSUME NEW r \in BOOLEAN, Fail(w, r) PROVE TypeOK'
      <3>1. FailIntent(job[w], number[w], r) /\ job[w] \in Intent
        BY <2>6 DEF Fail, SettleFailed, TypeOK
      <3> QED BY <1>0, <2>6, <3>1, FailIntentType DEF Fail, SettleFailed, ToTail, TypeOK
    <2>7. CASE Return(w) \/ Abandon(w) \/ WorkerDies(w)
      BY <1>0, <2>7 DEF Return, Abandon, WorkerDies, Release, TypeOK, intentVars
    <2>8. ASSUME NEW r \in BOOLEAN, FailReads(w, r) PROVE TypeOK'
      <3>1. ToFail(job[w], r) \in RowRead
        BY <2>8, ToFailType DEF FailReads, TypeOK
      <3> QED BY <2>8, <3>1 DEF FailReads, TypeOK, intentVars
    <2>9. CASE FailCommits(w)
      <3>1. /\ FailWrite(job[w], number[w], failing[w])
            /\ job[w] \in Intent /\ failing[w] \in RowRead
        BY <2>9 DEF FailCommits, TypeOK
      <3> QED BY <1>0, <2>9, <3>1, FailWriteType DEF FailCommits, ToTail, TypeOK
    <2> QED BY <1>4, <2>1, <2>2, <2>3, <2>4, <2>5, <2>6, <2>7, <2>8, <2>9 DEF WorkerStep
  <1>5. CASE UNCHANGED vars
    BY <1>5 DEF TypeOK, vars, intentVars, dispatcherVars, workerVars
  <1> QED BY <1>1, <1>2, <1>3, <1>4, <1>5 DEF Next

\* The empty outbox is in its type.
LEMMA InitType == Init => TypeOK
  BY DEF Init, TypeOK, NoRow, RowRead, JobState, Lease

\* Whatever the environment does, every table keeps its type: in particular a
\* dispatcher whose publish raised still knows which intent to fail, and a
\* worker that has left `idle` still knows its intent.
THEOREM TypeCorrect == Spec => []TypeOK
  <1>1. Init => TypeOK
    BY InitType
  <1> QED BY <1>1, StepType, PTL DEF Spec
-----------------------------------------------------------------------------
(* The attempt ledger *)

\* Rewriting outcomes neither adds nor removes a numbered row.
LEMMA FinalizedNumbers ==
  ASSUME TypeOK, LedgerInv, NEW i, NEW n, NEW o
  PROVE  LET F == Finalized(i, n, o)
         IN  /\ \A a \in F : a.number \in 1..count[a.intent]
             /\ \A a, b \in F :
                  a.intent = b.intent /\ a.number = b.number => a = b
             /\ \A j, m : (\E a \in F : a.intent = j /\ a.number = m)
                            <=> NumberTaken(j, m)
  <1> DEFINE F == Finalized(i, n, o)
             g(a) == IF a.intent = i /\ a.number = n
                     THEN [a EXCEPT !.outcome = o] ELSE a
  <1>1. F = {g(a) : a \in attempts}
    BY DEF Finalized
  <1>2. \A a \in attempts : g(a).intent = a.intent /\ g(a).number = a.number
    BY DEF TypeOK, JobAttempt
  <1>3. \A a \in F : a.number \in 1..count[a.intent]
    BY <1>1, <1>2 DEF LedgerInv
  <1>4. ASSUME NEW a \in F, NEW b \in F,
               a.intent = b.intent, a.number = b.number
        PROVE  a = b
    <2>1. PICK c \in attempts : a = g(c)
      BY <1>1
    <2>2. PICK e \in attempts : b = g(e)
      BY <1>1
    <2>3. c.intent = e.intent /\ c.number = e.number
      BY <1>2, <1>4, <2>1, <2>2
    <2>4. c = e
      BY <2>3 DEF LedgerInv
    <2> QED BY <2>1, <2>2, <2>4
  <1>5. ASSUME NEW j, NEW m
        PROVE  (\E a \in F : a.intent = j /\ a.number = m) <=> NumberTaken(j, m)
    BY <1>1, <1>2 DEF NumberTaken
  <1> HIDE DEF F
  <1> QED BY <1>3, <1>4, <1>5 DEF F

\* Steps that leave the numbers alone and start no claim keep the ledger.
LEMMA LedgerKept ==
  ASSUME TypeOK, LedgerInv, count' = count,
         \A a \in attempts' : a.number \in 1..count[a.intent],
         \A a, b \in attempts' :
           a.intent = b.intent /\ a.number = b.number => a = b,
         \A j, m : NumberTaken(j, m)' <=> NumberTaken(j, m),
         \A w \in Worker : pc'[w] = "claiming" =>
           pc[w] = "claiming" /\ job'[w] = job[w] /\ number'[w] = number[w]
  PROVE  LedgerInv'
  BY DEF LedgerInv

\* fail_intent and complete_intent only finalize a row.
LEMMA FailIntentLedger ==
  ASSUME TypeOK, LedgerInv, NEW i \in Intent, NEW n,
         \/ \E r \in BOOLEAN : FailIntent(i, n, r)
         \/ \E read \in RowRead : FailWrite(i, n, read)
  PROVE  /\ count' = count
         /\ \A a \in attempts' : a.number \in 1..count[a.intent]
         /\ \A a, b \in attempts' :
              a.intent = b.intent /\ a.number = b.number => a = b
         /\ \A j, m : NumberTaken(j, m)' <=> NumberTaken(j, m)
  <1>1. CASE attempts' = attempts /\ count' = count
    BY <1>1 DEF LedgerInv, NumberTaken
  <1>2. CASE /\ count' = count
             /\ \E o : attempts' = Finalized(i, n, o)
    BY <1>2, FinalizedNumbers DEF NumberTaken
  <1> QED BY <1>1, <1>2 DEF FailIntent, FailWrite, intentVars

\* A claim or duplicate that commits takes exactly the next number.
LEMMA RecordLedger ==
  ASSUME TypeOK, LedgerInv, NEW w \in Worker, pc[w] = "claiming",
         NEW o \in JobOutcome, Record(w, o),
         pc'[w] # "claiming",
         \A v \in Worker : v # w =>
           pc'[v] = pc[v] /\ job'[v] = job[v] /\ number'[v] = number[v]
  PROVE  LedgerInv'
  <1> DEFINE i == job[w]
             n == number[w]
             row == [intent |-> i, number |-> n, outcome |-> o]
  <1>1. i \in Intent /\ n \in 1..(count[i] + 1) /\ ~NumberTaken(i, n)
    BY DEF TypeOK, LedgerInv, Record
  <1>2. n = count[i] + 1
    BY <1>1 DEF LedgerInv, TypeOK
  <1>3. /\ attempts' = attempts \cup {row}
        /\ count' = [count EXCEPT ![i] = n]
    BY DEF Record
  <1>4. \A j \in Intent : count'[j] = IF j = i THEN count[i] + 1 ELSE count[j]
    BY <1>2, <1>3 DEF TypeOK
  <1> HIDE DEF i, n
  <1>5. \A a \in attempts' : a.number \in 1..count'[a.intent]
    BY <1>1, <1>2, <1>3, <1>4 DEF LedgerInv, TypeOK, JobAttempt
  <1>6. \A a, b \in attempts' :
          a.intent = b.intent /\ a.number = b.number => a = b
    BY <1>1, <1>3 DEF LedgerInv, NumberTaken, TypeOK, JobAttempt
  <1>7. \A j \in Intent : \A m \in 1..count'[j] : NumberTaken(j, m)'
    <2> SUFFICES ASSUME NEW j \in Intent, NEW m \in 1..count'[j]
                 PROVE  \E a \in attempts' : a.intent = j /\ a.number = m
      BY DEF NumberTaken
    <2>1. CASE j = i /\ m = n
      <3>1. row \in attempts' /\ row.intent = i /\ row.number = n
        BY <1>3
      <3> QED BY <2>1, <3>1
    <2>2. CASE ~(j = i /\ m = n)
      <3>1. m \in 1..count[j]
        BY <2>2, <1>2, <1>4 DEF TypeOK
      <3> QED BY <3>1, <1>3 DEF LedgerInv, NumberTaken
    <2> QED BY <2>1, <2>2
  <1>8. \A v \in Worker :
          pc'[v] = "claiming" => number'[v] \in 1..(count'[job'[v]] + 1)
    <2> SUFFICES ASSUME NEW v \in Worker, pc'[v] = "claiming"
                 PROVE  number'[v] \in 1..(count'[job'[v]] + 1)
      OBVIOUS
    <2>1. v # w /\ pc[v] = "claiming" /\ job[v] \in Intent
      BY DEF TypeOK
    <2> QED BY <2>1, <1>1, <1>4 DEF LedgerInv, TypeOK
  <1> QED BY <1>5, <1>6, <1>7, <1>8 DEF LedgerInv

\* Every step keeps the ledger's rows numbered 1, 2, ... without gap or repetition.
LEMMA StepLedger == TypeOK /\ LedgerInv /\ [Next]_vars => LedgerInv'
  <1> SUFFICES ASSUME TypeOK, LedgerInv, [Next]_vars PROVE LedgerInv'
    OBVIOUS
  <1>1. CASE UNCHANGED <<attempts, count, workerVars>>
    BY <1>1 DEF LedgerInv, NumberTaken, workerVars
  <1>2. ASSUME NEW d \in Dispatcher, DispatchFails(d) \/ DispatchFailCommits(d)
        PROVE  LedgerInv'
    <2>1. /\ inHand[d] \in Intent /\ marking[d] \in RowRead
          /\ \/ FailIntent(inHand[d], 0, TRUE)
             \/ FailWrite(inHand[d], 0, marking[d])
      BY <1>2 DEF DispatchFails, DispatchFailCommits, TypeOK
    <2> QED BY <1>2, <2>1, FailIntentLedger, LedgerKept
          DEF DispatchFails, DispatchFailCommits, workerVars
  <1>3. ASSUME NEW w \in Worker, WorkerStep(w) PROVE LedgerInv'
    <2>1. ASSUME NEW i \in Intent, Deliver(w, i) PROVE LedgerInv'
      <3>1. \A v \in Worker : pc'[v] = "claiming" =>
              number'[v] \in 1..(count'[job'[v]] + 1)
        BY <2>1 DEF Deliver, LedgerInv, TypeOK, intentVars
      <3> QED BY <2>1, <3>1 DEF Deliver, LedgerInv, NumberTaken, intentVars
    <2>2. CASE ClaimCommit(w)
      BY <2>2, RecordLedger DEF ClaimCommit, TypeOK, JobOutcome
    <2>3. CASE DuplicateCommit(w)
      BY <2>3, RecordLedger DEF DuplicateCommit, Release, TypeOK, JobOutcome
    <2>4. CASE \/ ClaimConflict(w) \/ Return(w) \/ Abandon(w) \/ WorkerDies(w)
               \/ \E r \in BOOLEAN : FailReads(w, r)
      BY <2>4, LedgerKept DEF ClaimConflict, Return, Abandon, WorkerDies, FailReads,
        Release, intentVars, NumberTaken, LedgerInv, TypeOK
    <2>5. CASE Complete(w)
      <3>1. attempts' = Finalized(job[w], number[w], "completed") /\ count' = count
        BY <2>5 DEF Complete, CompleteIntent
      <3>2. \A v \in Worker : pc'[v] = "claiming" => pc[v] = "claiming" /\
              job'[v] = job[v] /\ number'[v] = number[v]
        BY <2>5 DEF Complete, CompleteIntent, ToTail, TypeOK
      <3> QED BY <3>1, <3>2, FinalizedNumbers, LedgerKept DEF NumberTaken
    <2>6. ASSUME NEW r \in BOOLEAN, Fail(w, r) PROVE LedgerInv'
      <3>1. job[w] \in Intent /\ FailIntent(job[w], number[w], r)
        BY <2>6 DEF Fail, SettleFailed, TypeOK
      <3>2. \A v \in Worker : pc'[v] = "claiming" => pc[v] = "claiming" /\
              job'[v] = job[v] /\ number'[v] = number[v]
        BY <2>6 DEF Fail, SettleFailed, ToTail, TypeOK
      <3> QED BY <3>1, <3>2, FailIntentLedger, LedgerKept
    <2>7. CASE FailCommits(w)
      <3>1. /\ job[w] \in Intent /\ failing[w] \in RowRead
            /\ FailWrite(job[w], number[w], failing[w])
        BY <2>7 DEF FailCommits, TypeOK
      <3>2. \A v \in Worker : pc'[v] = "claiming" => pc[v] = "claiming" /\
              job'[v] = job[v] /\ number'[v] = number[v]
        BY <2>7 DEF FailCommits, ToTail, TypeOK
      <3> QED BY <3>1, <3>2, FailIntentLedger, LedgerKept
    <2> QED BY <1>3, <2>1, <2>2, <2>3, <2>4, <2>5, <2>6, <2>7 DEF WorkerStep
  <1> QED BY <1>1, <1>2, <1>3
    DEF Next, vars, intentVars, dispatcherVars, workerVars, IntentStep,
      DispatcherStep, Create, CreateIntents, PublishDirectly, LoseMessage,
      LeaseRunsOut, BackoffEnds, Reclaim, ReclaimRows, ReclaimReads, ReclaimCommits,
      ReclaimDies, LeaseDue, MarkDispatched, MarkReads, MarkCommits, Publish,
      PublishRaises, DispatchFailReads, DispatcherDies

\* The strengthening says what LedgerExact says.
LEMMA LedgerInvExact == TypeOK /\ LedgerInv => LedgerExact
  <1> SUFFICES ASSUME TypeOK, LedgerInv, NEW i \in Intent
               PROVE  {a.number : a \in {b \in attempts : b.intent = i}} = 1..count[i]
    BY DEF LedgerExact, LedgerInv
  <1> QED BY DEF LedgerInv, NumberTaken, TypeOK

\* attempt_count and the JobAttempt rows of an intent never drift apart, however
\* deliveries race between the read and the commit of claim_intent and whatever
\* the environment does.
THEOREM LedgerIsExact == Spec => []LedgerExact
  <1>1. Init => LedgerInv
    BY DEF Init, LedgerInv, NumberTaken
  <1>2. Init => TypeOK
    BY InitType
  <1> QED BY <1>1, <1>2, LedgerInvExact, StepType, StepLedger, PTL DEF Spec
-----------------------------------------------------------------------------
(* Finished rows stay *)

\* Finalizing a row that is still open, or no row at all, rewrites no other row
\* and no finished one.
LEMMA FinalizedKeeps ==
  ASSUME TypeOK, LedgerInv, NEW i \in Intent, NEW n, NEW o,
         \/ n = 0
         \/ [intent |-> i, number |-> n, outcome |-> "claimed"] \in attempts
  PROVE  \A a \in attempts :
           a.outcome # "claimed" \/ a.intent # i \/ a.number # n
             => a \in Finalized(i, n, o)
  <1> SUFFICES ASSUME NEW a \in attempts,
                      a.outcome # "claimed" \/ a.intent # i \/ a.number # n
               PROVE  ~(a.intent = i /\ a.number = n)
    BY DEF Finalized
  <1>1. CASE n = 0
    <2>1. a.number \in 1..count[a.intent] /\ count[a.intent] \in Nat
      BY DEF LedgerInv, TypeOK, JobAttempt
    <2> QED BY <1>1, <2>1
  <1>2. CASE [intent |-> i, number |-> n, outcome |-> "claimed"] \in attempts
    <2>1. a.intent = i /\ a.number = n
            => a = [intent |-> i, number |-> n, outcome |-> "claimed"]
      BY <1>2 DEF LedgerInv
    <2> QED BY <2>1
  <1> QED BY <1>1, <1>2

\* fail_intent touches at most the row it is given.
LEMMA FailIntentKeeps ==
  ASSUME TypeOK, LedgerInv, NEW i \in Intent, NEW n,
         \/ \E r \in BOOLEAN : FailIntent(i, n, r)
         \/ \E read \in RowRead : FailWrite(i, n, read),
         \/ n = 0
         \/ [intent |-> i, number |-> n, outcome |-> "claimed"] \in attempts
  PROVE  \A a \in attempts :
           a.outcome # "claimed" \/ a.intent # i \/ a.number # n => a \in attempts'
  <1>1. CASE attempts' = attempts
    BY <1>1
  <1>2. CASE \E o : attempts' = Finalized(i, n, o)
    BY <1>2, FinalizedKeeps
  <1> QED BY <1>1, <1>2 DEF FailIntent, FailWrite, intentVars

\* What a step may do to the rows of the ledger: only the worker that holds an
\* open row rewrites it, and it lets go of it in the same step.
RowsKept(Settlers) ==
  /\ \A a \in attempts :
       \/ a \in attempts'
       \/ /\ a.outcome = "claimed"
          /\ \E w \in Settlers : a.intent = job[w] /\ a.number = number[w]
  /\ \A w \in Settlers : pc[w] = "held" /\ pc'[w] # "held"

\* Every step rewrites no row but the open row of the worker that settles.
LEMMA StepRows ==
  ASSUME TypeOK, LedgerInv, RowOwner, [Next]_vars
  PROVE  RowsKept({}) \/ \E w \in Worker : RowsKept({w})
  <1>1. CASE attempts \subseteq attempts'
    BY <1>1 DEF RowsKept
  <1>2. ASSUME NEW d \in Dispatcher, DispatchFails(d) \/ DispatchFailCommits(d)
        PROVE  attempts \subseteq attempts'
    <2>1. /\ inHand[d] \in Intent /\ marking[d] \in RowRead
          /\ \/ FailIntent(inHand[d], 0, TRUE)
             \/ FailWrite(inHand[d], 0, marking[d])
      BY <1>2 DEF DispatchFails, DispatchFailCommits, TypeOK
    <2>2. \A a \in attempts : a.number # 0
      BY DEF LedgerInv, TypeOK, JobAttempt
    <2>3. \A a \in attempts : a.outcome # "claimed" \/ a.intent # inHand[d]
            \/ a.number # 0 => a \in attempts'
      BY <2>1, FailIntentKeeps
    <2> QED BY <2>2, <2>3
  <1>3. ASSUME NEW w \in Worker,
               \/ Complete(w) \/ FailCommits(w)
               \/ \E r \in BOOLEAN : Fail(w, r)
        PROVE  RowsKept({w})
    <2>1. /\ pc[w] = "held" /\ job[w] \in Intent /\ pc'[w] # "held"
          /\ failing[w] \in RowRead
          /\ [intent |-> job[w], number |-> number[w], outcome |-> "claimed"]
               \in attempts
      BY <1>3 DEF Complete, CompleteIntent, Fail, SettleFailed, FailCommits, ToTail,
        TypeOK, RowOwner
    <2>2. \A a \in attempts :
            a.outcome # "claimed" \/ a.intent # job[w] \/ a.number # number[w]
              => a \in attempts'
      <3>1. CASE Complete(w)
        BY <2>1, <3>1, FinalizedKeeps DEF Complete, CompleteIntent
      <3>2. ASSUME NEW r \in BOOLEAN, Fail(w, r)
            PROVE  \A a \in attempts :
                     a.outcome # "claimed" \/ a.intent # job[w] \/ a.number # number[w]
                       => a \in attempts'
        BY <2>1, <3>2, FailIntentKeeps DEF Fail, SettleFailed
      <3>3. CASE FailCommits(w)
        BY <2>1, <3>3, FailIntentKeeps DEF FailCommits
      <3> QED BY <1>3, <3>1, <3>2, <3>3
    <2> QED BY <2>1, <2>2 DEF RowsKept
  <1> QED BY <1>1, <1>2, <1>3
    DEF Next, vars, intentVars, IntentStep, DispatcherStep, WorkerStep, Create,
      CreateIntents, PublishDirectly, LoseMessage, LeaseRunsOut, BackoffEnds,
      Reclaim, ReclaimRows, ReclaimReads, ReclaimCommits, ReclaimDies, LeaseDue,
      MarkDispatched, MarkReads, MarkCommits, Publish, PublishRaises,
      DispatchFailReads, DispatcherDies, Deliver, ClaimCommit, DuplicateCommit,
      ClaimConflict, Record, FailReads, Return, Abandon, WorkerDies

\* A worker enters `held` only by inserting its own open row.
LEMMA StepHolder ==
  ASSUME TypeOK, [Next]_vars, NEW w \in Worker, pc'[w] = "held"
  PROVE  /\ job'[w] = job[w] /\ number'[w] = number[w]
         /\ \/ pc[w] = "held"
            \/ /\ ~NumberTaken(job[w], number[w])
               /\ attempts' = attempts \cup
                    {[intent |-> job[w], number |-> number[w], outcome |-> "claimed"]}
               /\ \A v \in Worker : v # w => pc'[v] = pc[v]
               /\ pc[w] = "claiming"
  <1>1. CASE UNCHANGED workerVars
    BY <1>1 DEF workerVars
  <1>2. ASSUME NEW v \in Worker, WorkerStep(v), v # w
        PROVE  pc[w] = "held" /\ job'[w] = job[w] /\ number'[w] = number[w]
    BY <1>2 DEF WorkerStep, Deliver, ClaimCommit, DuplicateCommit, ClaimConflict,
      Complete, CompleteIntent, Fail, SettleFailed, FailReads, FailCommits, ToTail,
      Return, Abandon, WorkerDies, Release, TypeOK
  <1>3. CASE ClaimCommit(w)
    BY <1>3 DEF ClaimCommit, Record, TypeOK
  <1>4. CASE WorkerStep(w) /\ ~ClaimCommit(w)
    BY <1>4 DEF WorkerStep, Deliver, DuplicateCommit, ClaimConflict,
      Complete, CompleteIntent, Fail, SettleFailed, FailReads, FailCommits, ToTail,
      Return, Abandon, WorkerDies, Release, TypeOK
  <1> QED BY <1>1, <1>2, <1>3, <1>4
    DEF Next, vars, IntentStep, DispatcherStep, Create, PublishDirectly,
      LoseMessage, LeaseRunsOut, BackoffEnds, Reclaim, ReclaimReads, ReclaimCommits,
      ReclaimDies, LeaseDue, MarkDispatched, MarkReads, MarkCommits, Publish,
      PublishRaises, DispatchFails, DispatchFailReads, DispatchFailCommits,
      DispatcherDies

\* Every step keeps the open rows of the workers that hold one.
LEMMA StepRowOwner ==
  TypeOK /\ LedgerInv /\ RowOwner /\ [Next]_vars => RowOwner'
  <1> SUFFICES ASSUME TypeOK, LedgerInv, RowOwner, [Next]_vars PROVE RowOwner'
    OBVIOUS
  <1> DEFINE Row(w) == [intent |-> job[w], number |-> number[w], outcome |-> "claimed"]
  <1>1. ASSUME NEW w \in Worker, pc'[w] = "held" PROVE Row(w) \in attempts'
    <2>1. CASE pc[w] = "held"
      <3>1. Row(w) \in attempts
        BY <2>1 DEF RowOwner
      <3>2. \A u \in Worker : u # w /\ pc[u] = "held" =>
              ~(job[u] = job[w] /\ number[u] = number[w])
        BY <2>1 DEF RowOwner
      <3>3. Row(w).intent = job[w] /\ Row(w).number = number[w]
        OBVIOUS
      <3> HIDE DEF Row
      <3>4. ASSUME RowsKept({}) PROVE Row(w) \in attempts'
        BY <3>1, <3>4 DEF RowsKept
      <3>5. ASSUME NEW u \in Worker, RowsKept({u}) PROVE Row(w) \in attempts'
        <4>1. u # w /\ pc[u] = "held"
          BY <3>5, <1>1 DEF RowsKept
        <4> QED BY <3>1, <3>2, <3>3, <3>5, <4>1 DEF RowsKept
      <3> QED BY <3>4, <3>5, StepRows
    <2>2. CASE pc[w] # "held"
      BY <1>1, <2>2, StepHolder
    <2> QED BY <2>1, <2>2
  <1>2. ASSUME NEW v \in Worker, NEW w \in Worker, pc'[v] = "held", pc'[w] = "held",
               job'[v] = job'[w], number'[v] = number'[w], v # w
        PROVE  FALSE
    <2>1. job[v] = job[w] /\ number[v] = number[w]
      BY <1>2, StepHolder
    <2>2. CASE pc[v] = "held" /\ pc[w] = "held"
      BY <1>2, <2>1, <2>2 DEF RowOwner
    <2>3. ASSUME NEW x \in Worker, NEW y \in Worker, x # y, pc[x] = "held",
                 pc[y] # "held", pc'[y] = "held", job[x] = job[y], number[x] = number[y]
          PROVE  FALSE
      <3>1. ~NumberTaken(job[y], number[y])
        BY <2>3, StepHolder
      <3> QED BY <2>3, <3>1 DEF RowOwner, NumberTaken
    <2>4. CASE pc[v] # "held" /\ pc[w] # "held"
      BY <1>2, <2>4, StepHolder
    <2> QED BY <1>2, <2>1, <2>2, <2>3, <2>4
  <1>3. ASSUME NEW w \in Worker, pc'[w] = "held"
        PROVE  [intent |-> job'[w], number |-> number'[w], outcome |-> "claimed"]
                 \in attempts'
    BY <1>1, <1>3, StepHolder
  <1> QED BY <1>2, <1>3 DEF RowOwner

\* Whatever the environment does, no step changes or removes a ledger row whose
\* outcome is recorded: a late settlement, a failed publish and a redelivery
\* reach only the row that was opened for them.
THEOREM FinishedRowsStay == Spec => FinishedAttemptsFrozen
  <1>1. Init => TypeOK /\ LedgerInv /\ RowOwner
    BY InitType DEF Init, LedgerInv, NumberTaken, RowOwner
  <1>2. TypeOK /\ LedgerInv /\ RowOwner /\ [Next]_vars
          => [\A a \in attempts : a.outcome # "claimed" => a \in attempts']_vars
    BY StepRows DEF RowsKept
  <1> QED BY <1>1, <1>2, StepType, StepLedger, StepRowOwner, PTL
        DEF Spec, FinishedAttemptsFrozen
-----------------------------------------------------------------------------
(* One run per intent, when publishing is clean *)

\* A step that leaves the rows and the workers alone and does not raise keeps
\* ownership.
LEMMA OwnershipKept ==
  ASSUME TypeOK, OwnershipInv,
         UNCHANGED <<intentVars, workerVars, marking, reclaiming>>,
         \A d \in Dispatcher : ~raised'[d],
         \A i \in Intent : queue'[i] > 0 => state[i] # "absent",
         \A d \in Dispatcher, i \in Intent :
           i \in batch'[d] \/ inHand'[d] = i => state[i] # "absent"
  PROVE  OwnershipInv'
  BY DEF OwnershipInv, HolderOwnsRow, SingleHolder, AtMostOneRun,
    CompletedRowClosesIntent, OpenClaimIsCurrent, KnownOnly, Holds, Held, NumberTaken, intentVars, workerVars

\* A step on the intent rows that no live claim depends on keeps ownership.
LEMMA OwnershipOfRows ==
  ASSUME TypeOK, OwnershipInv,
         UNCHANGED <<attempts, raised, marking, reclaiming, workerVars>>,
         \A i \in Intent : state[i] # "absent" => state'[i] # "absent",
         \A i \in Intent : state[i] = "completed" <=> state'[i] = "completed",
         \A i \in Intent : queue'[i] > 0 => queue[i] > 0,
         \A d \in Dispatcher, i \in Intent : i \in batch'[d] \/ inHand'[d] = i =>
           i \in batch[d] \/ inHand[d] = i \/ state[i] # "absent",
         \A i \in Intent : Held(i) => state'[i] = state[i] /\ lease'[i] = lease[i],
         \A w \in Worker : pc[w] = "claiming" /\ state[job[w]] = "claimed" =>
           state'[job[w]] = "claimed"
  PROVE  OwnershipInv'
  <1> USE DEF workerVars
  <1>1. HolderOwnsRow'
    BY DEF OwnershipInv, HolderOwnsRow, Held, Holds, TypeOK
  <1>2. SingleHolder'
    BY DEF OwnershipInv, SingleHolder, Holds
  <1>3. CompletedRowClosesIntent'
    BY DEF OwnershipInv, CompletedRowClosesIntent, TypeOK, JobAttempt
  <1>4. OpenClaimIsCurrent'
    BY DEF OwnershipInv, OpenClaimIsCurrent, NumberTaken, Held, Holds, TypeOK
  <1>5. KnownOnly'
    BY DEF OwnershipInv, KnownOnly, TypeOK
  <1> QED BY <1>1, <1>2, <1>3, <1>4, <1>5 DEF OwnershipInv, AtMostOneRun

\* Creating, losing or ageing an intent takes no claim from its holder.
LEMMA IntentStepOwnership ==
  ASSUME TypeOK, LedgerInv, OwnershipInv, CleanEnvironment,
         NEW i \in Intent, IntentStep(i)
  PROVE  OwnershipInv'
  <1>1. CASE Create(i)
    <2>1. \A j \in Intent : Held(j) => state[j] = "claimed"
      BY DEF OwnershipInv, HolderOwnsRow, Held, Holds
    <2> QED BY <1>1, <2>1, OwnershipOfRows
      DEF Create, CreateIntents, dispatcherVars, OwnershipInv, KnownOnly, TypeOK
  <1>2. CASE PublishDirectly(i) \/ LoseMessage(i)
    <2>1. \A j \in Intent : queue'[j] > 0 => state[j] # "absent"
      BY <1>2 DEF PublishDirectly, LoseMessage, Enqueue, OwnershipInv, KnownOnly, TypeOK
    <2> QED BY <1>2, <2>1, OwnershipKept
      DEF PublishDirectly, LoseMessage, dispatcherVars, OwnershipInv, KnownOnly
  <1>3. CASE LeaseRunsOut(i)
    <2>1. ~Held(i)
      BY <1>3 DEF LeaseRunsOut, LeaseFault, Fault, CleanEnvironment
    <2> QED BY <1>3, <2>1, OwnershipOfRows DEF LeaseRunsOut, dispatcherVars, TypeOK
  <1>4. CASE BackoffEnds(i)
    BY <1>4, OwnershipOfRows DEF BackoffEnds, dispatcherVars, TypeOK
  <1> QED BY <1>1, <1>2, <1>3, <1>4 DEF IntentStep

\* The reclaim returns only rows whose holder is gone: a held row is live.
LEMMA ReclaimOwnership ==
  ASSUME TypeOK, LedgerInv, OwnershipInv, CleanEnvironment,
         Reclaim \/ ReclaimReads \/ ReclaimCommits \/ ReclaimDies
  PROVE  OwnershipInv'
  <1>0. Reclaim
    BY DEF ReclaimReads, ReclaimCommits, ReclaimDies, Fault, CleanEnvironment,
      OwnershipInv, KnownOnly
  <1>1. \A w \in Worker, i \in Overdue : ~Claiming(w, i)
    BY <1>0 DEF Reclaim, ReclaimFault, Fault, CleanEnvironment
  <1>2. \A i \in Intent : Held(i) => i \notin Overdue
    BY DEF OwnershipInv, HolderOwnsRow, Held, Holds, Overdue
  <1>3. \A i \in Overdue : state[i] \notin {"absent", "completed"}
    BY DEF Overdue, LeasedStates
  <1>4. /\ \A i \in Intent : state'[i] = IF i \in Overdue THEN "pending" ELSE state[i]
        /\ \A i \in Intent : lease'[i] = IF i \in Overdue THEN "none" ELSE lease[i]
        /\ UNCHANGED <<attempts, raised, marking, reclaiming, workerVars, queue, batch,
                       inHand>>
    BY <1>0 DEF Reclaim, ReclaimRows, dispatcherVars
  <1> QED BY <1>1, <1>2, <1>3, <1>4, OwnershipOfRows DEF Claiming, TypeOK

\* Leasing, marking and publishing touch no row that a worker holds.
LEMMA DispatcherStepOwnership ==
  ASSUME TypeOK, LedgerInv, OwnershipInv, CleanEnvironment,
         NEW d \in Dispatcher, DispatcherStep(d)
  PROVE  OwnershipInv'
  <1>0. \A i \in Intent : Held(i) => state[i] = "claimed"
    BY DEF OwnershipInv, HolderOwnsRow, Held, Holds
  <1>1. CASE LeaseDue(d)
    <2>1. \A i \in Due : state[i] = "pending"
      BY DEF Due
    <2> QED BY <1>0, <1>1, <2>1, OwnershipOfRows DEF LeaseDue, TypeOK
  <1>2. ASSUME NEW i \in Intent, MarkDispatched(d, i) PROVE OwnershipInv'
    BY <1>0, <1>2, OwnershipOfRows DEF MarkDispatched, TypeOK
  <1>3. CASE Publish(d)
    <2>1. inHand[d] \in Intent /\ state[inHand[d]] # "absent"
      BY <1>3 DEF Publish, OwnershipInv, KnownOnly, TypeOK
    <2>2. \A j \in Intent : queue'[j] > 0 => state[j] # "absent"
      BY <1>3, <2>1 DEF Publish, Enqueue, OwnershipInv, KnownOnly, TypeOK
    <2>3. \A e \in Dispatcher, j \in Intent :
            j \in batch'[e] \/ inHand'[e] = j => state[j] # "absent"
      BY <1>3, ConstantsAssumption DEF Publish, OwnershipInv, KnownOnly, TypeOK
    <2> QED BY <1>3, <2>2, <2>3, OwnershipKept DEF Publish, OwnershipInv, KnownOnly
  <1>4. CASE PublishRaises(d)
    BY <1>4 DEF PublishRaises, Fault, CleanEnvironment
  <1>5. CASE DispatchFails(d) \/ DispatchFailReads(d) \/ DispatchFailCommits(d)
    BY <1>5 DEF DispatchFails, DispatchFailReads, DispatchFailCommits, OwnershipInv,
      KnownOnly
  <1>7. CASE MarkCommits(d) \/ \E i \in Intent : MarkReads(d, i)
    BY <1>7 DEF MarkCommits, MarkReads, Fault, CleanEnvironment, OwnershipInv, KnownOnly
  <1>6. CASE DispatcherDies(d)
    <2>0. UNCHANGED marking
      BY <1>6 DEF DispatcherDies, OwnershipInv, KnownOnly, TypeOK
    <2>1. \A e \in Dispatcher, j \in Intent :
            j \in batch'[e] \/ inHand'[e] = j => state[j] # "absent"
      BY <1>6, ConstantsAssumption DEF DispatcherDies, OwnershipInv, KnownOnly, TypeOK
    <2> QED BY <1>6, <2>0, <2>1, OwnershipKept
      DEF DispatcherDies, OwnershipInv, KnownOnly, TypeOK
  <1> QED BY <1>1, <1>2, <1>3, <1>4, <1>5, <1>6, <1>7 DEF DispatcherStep

\* A worker that lets go of its intent, or moves to its tail, without touching
\* the rows keeps ownership.
LEMMA LetGoOwnership ==
  ASSUME TypeOK, OwnershipInv, NEW w \in Worker,
         UNCHANGED <<intentVars, queue, dispatcherVars>>,
         Release(w)
  PROVE  OwnershipInv'
  <1> USE DEF Release, intentVars, dispatcherVars
  <1>1. HolderOwnsRow'
    BY DEF OwnershipInv, HolderOwnsRow, TypeOK
  <1>2. SingleHolder'
    BY DEF OwnershipInv, SingleHolder, Holds, TypeOK
  <1>3. CompletedRowClosesIntent'
    BY DEF OwnershipInv, CompletedRowClosesIntent
  <1>4. OpenClaimIsCurrent'
    BY DEF OwnershipInv, OpenClaimIsCurrent, NumberTaken, Held, Holds, TypeOK
  <1>5. KnownOnly'
    BY DEF OwnershipInv, KnownOnly, TypeOK
  <1> QED BY <1>1, <1>2, <1>3, <1>4, <1>5 DEF OwnershipInv, AtMostOneRun

\* A delivery reads the row as it is, so its decision is current.
LEMMA DeliverOwnership ==
  ASSUME TypeOK, LedgerInv, OwnershipInv,
         NEW w \in Worker, NEW i \in Intent, Deliver(w, i)
  PROVE  OwnershipInv'
  <1> USE DEF Deliver, intentVars, dispatcherVars
  <1>0. \A j \in Intent : Held(j)' <=> Held(j)
    BY DEF Held, Holds, TypeOK
  <1>1. HolderOwnsRow'
    BY DEF OwnershipInv, HolderOwnsRow, TypeOK
  <1>2. SingleHolder'
    BY DEF OwnershipInv, SingleHolder, Holds, TypeOK
  <1>3. CompletedRowClosesIntent'
    BY DEF OwnershipInv, CompletedRowClosesIntent
  <1>4. OpenClaimIsCurrent'
    <2> SUFFICES ASSUME NEW v \in Worker, pc'[v] = "claiming",
                        seen'[v] # "duplicate",
                        ~NumberTaken(job[v], number[v])'
                 PROVE  /\ state[job'[v]] \notin {"absent", "completed"}
                        /\ ~Held(job'[v])
                        /\ seen'[v] = "overdue" => state[job'[v]] = "claimed"
      BY <1>0 DEF OpenClaimIsCurrent, TypeOK
    <2>1. CASE v = w
      <3>1. job'[v] = i /\ seen'[v] = ClaimDecision(i)
        BY <2>1 DEF TypeOK
      <3>2. state[i] # "absent" /\ state[i] # "completed"
        BY <2>1, <3>1 DEF OwnershipInv, KnownOnly, ClaimDecision
      <3>3. ~(state[i] = "claimed" /\ lease[i] = "live")
        BY <2>1, <3>1 DEF ClaimDecision
      <3>4. ~Held(i)
        BY <3>3 DEF OwnershipInv, HolderOwnsRow, Held, Holds
      <3>5. seen'[v] = "overdue" => state[i] = "claimed"
        BY <3>1 DEF ClaimDecision
      <3> QED BY <3>1, <3>2, <3>4, <3>5
    <2>2. CASE v # w
      BY <2>2 DEF OwnershipInv, OpenClaimIsCurrent, NumberTaken, TypeOK
    <2> QED BY <2>1, <2>2
  <1>5. KnownOnly'
    BY DEF OwnershipInv, KnownOnly, TypeOK
  <1> QED BY <1>1, <1>2, <1>3, <1>4, <1>5 DEF OwnershipInv, AtMostOneRun

\* What a claim that commits knew when it read is still true: nobody else has
\* the intent, and it is not completed.
LEMMA ClaimOwnership ==
  ASSUME TypeOK, LedgerInv, OwnershipInv, NEW w \in Worker, ClaimCommit(w)
  PROVE  OwnershipInv'
  <1> DEFINE i == job[w]
             row == [intent |-> i, number |-> number[w], outcome |-> "claimed"]
  <1> USE DEF ClaimCommit, Record, dispatcherVars
  <1>1. /\ i \in Intent /\ pc[w] = "claiming"
        /\ state[i] \notin {"absent", "completed"}
        /\ ~Held(i)
        /\ seen[w] = "overdue" => state[i] = "claimed"
    BY DEF OwnershipInv, OpenClaimIsCurrent, TypeOK
  <1>2. seen[w] \in {"open", "overdue"}
    BY DEF TypeOK
  <1>3. /\ state' = [state EXCEPT ![i] = "claimed"]
        /\ lease' = [lease EXCEPT ![i] = "live"]
        /\ attempts' = attempts \cup {row}
        /\ pc' = [pc EXCEPT ![w] = "held"]
        /\ UNCHANGED <<job, number, seen, failing, queue, batch, inHand, raised, marking,
                       reclaiming>>
    BY <1>1, <1>2 DEF TypeOK
  <1>4. \A v \in Worker : pc'[v] = "held" => v = w \/ (pc[v] = "held" /\ job[v] # i)
    BY <1>1, <1>3 DEF Held, Holds, TypeOK
  <1> HIDE DEF ClaimCommit, Record
  <1>5. HolderOwnsRow'
    BY <1>1, <1>3, <1>4 DEF OwnershipInv, HolderOwnsRow, TypeOK
  <1>6. SingleHolder'
    BY <1>3, <1>4 DEF OwnershipInv, SingleHolder, Holds
  <1>7. CompletedRowClosesIntent'
    BY <1>1, <1>3 DEF OwnershipInv, CompletedRowClosesIntent, TypeOK, JobAttempt
  <1>8. OpenClaimIsCurrent'
    <2> SUFFICES ASSUME NEW v \in Worker, pc'[v] = "claiming",
                        seen[v] # "duplicate",
                        ~NumberTaken(job[v], number[v])'
                 PROVE  /\ state'[job[v]] \notin {"absent", "completed"}
                        /\ ~Held(job[v])'
                        /\ seen[v] = "overdue" => state'[job[v]] = "claimed"
      BY <1>3 DEF OpenClaimIsCurrent
    <2>1. v # w /\ pc[v] = "claiming" /\ job[v] \in Intent
      BY <1>3 DEF TypeOK
    <2>2. ~NumberTaken(job[v], number[v])
      BY <1>3 DEF NumberTaken
    <2>3. job[v] # i
      <3>1. SUFFICES ASSUME job[v] = i PROVE FALSE
        OBVIOUS
      <3>2. number[v] = count[i] + 1 /\ number[w] = count[i] + 1
        <4>1. number[v] \in 1..(count[i] + 1) /\ number[w] \in 1..(count[i] + 1)
          BY <1>1, <2>1, <3>1 DEF LedgerInv
        <4>2. \A n \in 1..count[i] : NumberTaken(i, n)
          BY <1>1 DEF LedgerInv
        <4>3. ~NumberTaken(i, number[v]) /\ ~NumberTaken(i, number[w])
          BY <2>2, <3>1 DEF ClaimCommit, Record
        <4> QED BY <4>1, <4>2, <4>3, <1>1 DEF TypeOK
      <3>3. row \in attempts' /\ row.intent = job[v] /\ row.number = number[v]
        BY <1>3, <3>1, <3>2
      <3> QED BY <1>3, <3>3 DEF NumberTaken
    <2>4. ~Held(job[v])'
      BY <1>3, <1>4, <2>1, <2>2, <2>3
        DEF OwnershipInv, OpenClaimIsCurrent, Held, Holds
    <2> QED BY <1>1, <1>3, <2>1, <2>2, <2>3, <2>4
          DEF OwnershipInv, OpenClaimIsCurrent, TypeOK
  <1>9. KnownOnly'
    BY <1>1, <1>3 DEF OwnershipInv, KnownOnly, TypeOK
  <1>10. AtMostOneRun'
    BY <1>3 DEF OwnershipInv, AtMostOneRun
  <1> QED BY <1>5, <1>6, <1>7, <1>8, <1>9, <1>10 DEF OwnershipInv

\* A duplicate delivery adds a ledger row and nothing else.
LEMMA DuplicateOwnership ==
  ASSUME TypeOK, LedgerInv, OwnershipInv, NEW w \in Worker, DuplicateCommit(w)
  PROVE  OwnershipInv'
  <1> DEFINE row == [intent |-> job[w], number |-> number[w],
                     outcome |-> "duplicate"]
  <1> USE DEF DuplicateCommit, Record, Release, dispatcherVars
  <1>1. attempts' = attempts \cup {row} /\ row.outcome # "completed"
    OBVIOUS
  <1>2. HolderOwnsRow'
    BY <1>1 DEF OwnershipInv, HolderOwnsRow, TypeOK
  <1>3. SingleHolder'
    BY DEF OwnershipInv, SingleHolder, Holds, TypeOK
  <1>4. CompletedRowClosesIntent'
    BY <1>1 DEF OwnershipInv, CompletedRowClosesIntent
  <1>5. OpenClaimIsCurrent'
    BY <1>1 DEF OwnershipInv, OpenClaimIsCurrent, NumberTaken, Held, Holds, TypeOK
  <1>6. KnownOnly'
    BY DEF OwnershipInv, KnownOnly, TypeOK
  <1>7. AtMostOneRun'
    BY <1>1 DEF OwnershipInv, AtMostOneRun
  <1> QED BY <1>2, <1>3, <1>4, <1>5, <1>6, <1>7 DEF OwnershipInv

\* A holder that finalizes its row and moves its intent out of `claimed`.
LEMMA SettleOwnership ==
  ASSUME TypeOK, LedgerInv, OwnershipInv, NEW w \in Worker, pc[w] = "held",
         NEW s \in {"pending", "failed", "completed"}, NEW o \in JobOutcome,
         o = "completed" => s = "completed",
         state' = [state EXCEPT ![job[w]] = s],
         lease' = [lease EXCEPT ![job[w]] = "none"],
         attempts' = Finalized(job[w], number[w], o),
         ToTail(w), UNCHANGED <<queue, dispatcherVars>>
  PROVE  OwnershipInv'
  <1> DEFINE i == job[w]
             row == [intent |-> i, number |-> number[w], outcome |-> "claimed"]
  <1>1. /\ i \in Intent /\ state[i] = "claimed" /\ row \in attempts
        /\ \A v \in Worker : v # w /\ pc[v] = "held" => job[v] # i
    BY DEF OwnershipInv, HolderOwnsRow, SingleHolder, Holds, TypeOK
  <1>2. /\ pc' = [pc EXCEPT ![w] = "tail"]
        /\ failing' = [failing EXCEPT ![w] = NoRow]
        /\ UNCHANGED <<job, seen, number, queue, batch, inHand, raised, marking,
                       reclaiming>>
    BY DEF ToTail, dispatcherVars
  <1>3. \A a \in attempts :
          a.intent = i /\ a.number = number[w] => a = row
    BY <1>1 DEF LedgerInv
  <1>4. \A a \in attempts :
          a # row => a \in attempts' /\ (a.intent # i \/ a.number # number[w])
    BY <1>3 DEF Finalized
  <1>5. \A a \in attempts' : a \in attempts \/ (a.intent = i /\ a.outcome = o)
    BY DEF Finalized, TypeOK, JobAttempt
  <1>6. \A j, m : NumberTaken(j, m)' <=> NumberTaken(j, m)
    BY FinalizedNumbers DEF NumberTaken
  <1>7. HolderOwnsRow'
    <2> SUFFICES ASSUME NEW v \in Worker, pc'[v] = "held"
                 PROVE  /\ state'[job[v]] = "claimed" /\ lease'[job[v]] = "live"
                        /\ [intent |-> job[v], number |-> number[v],
                            outcome |-> "claimed"] \in attempts'
      BY <1>2 DEF HolderOwnsRow
    <2>1. v # w /\ pc[v] = "held" /\ job[v] # i /\ job[v] \in Intent
      BY <1>1, <1>2 DEF TypeOK
    <2> QED BY <2>1, <1>4 DEF OwnershipInv, HolderOwnsRow, TypeOK
  <1>8. SingleHolder'
    BY <1>2 DEF OwnershipInv, SingleHolder, Holds, TypeOK
  <1>9. CompletedRowClosesIntent'
    <2>1. \A a \in attempts : a.outcome = "completed" => a.intent # i
      BY <1>1 DEF OwnershipInv, CompletedRowClosesIntent
    <2> QED BY <1>1, <1>5, <2>1
          DEF OwnershipInv, CompletedRowClosesIntent, TypeOK, JobAttempt
  <1>10. OpenClaimIsCurrent'
    <2>1. Held(i)
      BY DEF Held, Holds
    <2>2. \A j \in Intent : Held(j)' => Held(j)
      BY <1>2 DEF Held, Holds, TypeOK
    <2> QED BY <1>1, <1>2, <1>6, <2>1, <2>2
          DEF OwnershipInv, OpenClaimIsCurrent, TypeOK
  <1>11. KnownOnly'
    BY <1>1, <1>2 DEF OwnershipInv, KnownOnly, TypeOK
  <1>12. AtMostOneRun'
    <2>1. \A a \in attempts' : a \in attempts /\ a.outcome = "completed" =>
            a.intent # i
      BY <1>1 DEF OwnershipInv, CompletedRowClosesIntent
    <2>2. \A a \in attempts' : a.intent = i /\ a.outcome = "completed" =>
            a.number = number[w]
      BY <1>1, <1>4, <2>1 DEF Finalized, TypeOK, JobAttempt
    <2>3. \A a, b \in attempts' :
            a.intent = b.intent /\ a.number = b.number => a = b
      BY FinalizedNumbers
    <2> QED BY <1>5, <2>1, <2>2, <2>3 DEF OwnershipInv, AtMostOneRun
  <1> QED BY <1>7, <1>8, <1>9, <1>10, <1>11, <1>12 DEF OwnershipInv

\* A worker that fails its intent, overtaken or not, finds the row as it claimed
\* it: nobody else may touch a held row.
LEMMA FailureWrites ==
  ASSUME TypeOK, OwnershipInv, NEW w \in Worker,
         FailCommits(w) \/ \E r \in BOOLEAN : SettleFailed(w, r)
  PROVE  /\ pc[w] = "held" /\ ToTail(w) /\ UNCHANGED <<queue, dispatcherVars>>
         /\ waiting' \in [Intent -> BOOLEAN] /\ count' = count
         /\ \E s \in {"pending", "failed"}, o \in {"retryable_failure", "terminal_failure"} :
              /\ state' = [state EXCEPT ![job[w]] = s]
              /\ lease' = [lease EXCEPT ![job[w]] = "none"]
              /\ attempts' = Finalized(job[w], number[w], o)
  <1>1. pc[w] = "held" /\ ToTail(w) /\ UNCHANGED <<queue, dispatcherVars>>
    BY DEF FailCommits, SettleFailed, TypeOK
  <1>2. job[w] \in Intent /\ state[job[w]] = "claimed" /\ lease[job[w]] = "live"
    BY <1>1 DEF OwnershipInv, HolderOwnsRow, TypeOK
  <1>3. PICK read \in RowRead :
          /\ read.state = "claimed" /\ read.lease = "live"
          /\ FailWrite(job[w], number[w], read)
    <2>1. CASE FailCommits(w)
      BY <2>1 DEF FailCommits, OwnershipInv, KnownOnly, TypeOK
    <2>2. ASSUME NEW r \in BOOLEAN, SettleFailed(w, r)
          PROVE  \E read \in RowRead :
                   /\ read.state = "claimed" /\ read.lease = "live"
                   /\ FailWrite(job[w], number[w], read)
      <3>1. FailWrite(job[w], number[w], ToFail(job[w], r))
        BY <1>2, <2>2 DEF SettleFailed, FailIntent, Terminal
      <3>2. ToFail(job[w], r).state = "claimed" /\ ToFail(job[w], r).lease = "live"
        BY <1>2 DEF ToFail
      <3> QED BY <1>2, <3>1, <3>2, ToFailType
    <2> QED BY <2>1, <2>2
  <1>4. waiting' \in [Intent -> BOOLEAN] /\ count' = count
    BY <1>2, <1>3, FailWriteType
  <1>5. \E s \in {"pending", "failed"}, o \in {"retryable_failure", "terminal_failure"} :
          /\ state' = [state EXCEPT ![job[w]] = s]
          /\ lease' = [lease EXCEPT ![job[w]] = "none"]
          /\ attempts' = Finalized(job[w], number[w], o)
    <2>1. CASE read.retry
      BY <1>3, <2>1 DEF FailWrite, Write
    <2>2. CASE ~read.retry
      BY <1>3, <2>2 DEF FailWrite, Write
    <2> QED BY <2>1, <2>2
  <1> QED BY <1>1, <1>4, <1>5

\* A worker that has read the row to fail it has changed nothing yet.
LEMMA FailReadOwnership ==
  ASSUME TypeOK, OwnershipInv, NEW w \in Worker, NEW r \in BOOLEAN, FailReads(w, r)
  PROVE  OwnershipInv'
  <1> USE DEF FailReads, intentVars, dispatcherVars
  <1>1. HolderOwnsRow' /\ SingleHolder' /\ AtMostOneRun' /\ CompletedRowClosesIntent'
    BY DEF OwnershipInv, HolderOwnsRow, SingleHolder, Holds, AtMostOneRun,
      CompletedRowClosesIntent
  <1>2. OpenClaimIsCurrent'
    BY DEF OwnershipInv, OpenClaimIsCurrent, NumberTaken, Held, Holds
  <1>3. state[job[w]] = "claimed" /\ lease[job[w]] = "live"
    BY DEF OwnershipInv, HolderOwnsRow
  <1>4. ToFail(job[w], r).state = "claimed" /\ ToFail(job[w], r).lease = "live"
    BY <1>3 DEF ToFail
  <1>5. \A v \in Worker : failing'[v] # NoRow =>
          failing'[v].state = "claimed" /\ failing'[v].lease = "live"
    BY <1>4 DEF OwnershipInv, KnownOnly, TypeOK
  <1>6. KnownOnly'
    BY <1>5 DEF OwnershipInv, KnownOnly
  <1> QED BY <1>1, <1>2, <1>6 DEF OwnershipInv

\* Every step of a worker keeps claims exclusive.
LEMMA WorkerStepOwnership ==
  ASSUME TypeOK, LedgerInv, OwnershipInv, NEW w \in Worker, WorkerStep(w)
  PROVE  OwnershipInv'
  <1>1. CASE Complete(w)
    BY <1>1, SettleOwnership DEF Complete, CompleteIntent, JobOutcome
  <1>2. CASE FailCommits(w) \/ \E r \in BOOLEAN : Fail(w, r)
    <2>1. FailCommits(w) \/ \E r \in BOOLEAN : SettleFailed(w, r)
      BY <1>2 DEF Fail
    <2> QED BY <2>1, FailureWrites, SettleOwnership DEF JobOutcome
  <1>3. CASE ClaimConflict(w) \/ Return(w) \/ Abandon(w) \/ WorkerDies(w)
    BY <1>3, LetGoOwnership DEF ClaimConflict, Return, Abandon, WorkerDies
  <1> QED BY <1>1, <1>2, <1>3, DeliverOwnership, ClaimOwnership,
        DuplicateOwnership, FailReadOwnership DEF WorkerStep

\* Every step keeps claims exclusive and completed rows final.
LEMMA StepOwnership ==
  CleanEnvironment /\ TypeOK /\ LedgerInv /\ OwnershipInv /\ [Next]_vars
    => OwnershipInv'
  <1> SUFFICES ASSUME CleanEnvironment, TypeOK, LedgerInv, OwnershipInv, [Next]_vars
               PROVE  OwnershipInv'
    OBVIOUS
  <1>1. CASE UNCHANGED vars
    BY <1>1, OwnershipKept DEF vars, dispatcherVars, OwnershipInv, KnownOnly
  <1> QED BY <1>1, IntentStepOwnership, ReclaimOwnership, DispatcherStepOwnership,
        WorkerStepOwnership DEF Next

\* The empty outbox satisfies the whole strengthening.
LEMMA InitOwnership == Init => TypeOK /\ LedgerInv /\ OwnershipInv
  BY ConstantsAssumption, InitType DEF Init, LedgerInv, NumberTaken, OwnershipInv,
    HolderOwnsRow, SingleHolder, Holds, AtMostOneRun, CompletedRowClosesIntent,
    OpenClaimIsCurrent, Held, KnownOnly

\* When enqueue never raises, no lease ends under its worker and nobody commits
\* inside the dispatcher's transactions or, from the reclaim, inside a claim's, an
\* intent never commits two runs and never has two holders, for any number of
\* crashes, lost or repeated messages, overtaken failures and expired leases.
THEOREM ExactlyOnce ==
  CleanEnvironment => (Spec => []AtMostOneRun /\ []SingleHolder)
  <1> SUFFICES ASSUME CleanEnvironment
               PROVE  Spec => []AtMostOneRun /\ []SingleHolder
    OBVIOUS
  <1> DEFINE IInv == TypeOK /\ LedgerInv /\ OwnershipInv
  <1>1. Init => IInv
    BY InitOwnership
  <1>2. IInv /\ [Next]_vars => IInv'
    BY StepType, StepLedger, StepOwnership
  <1>3. IInv => SingleHolder
    BY DEF OwnershipInv
  <1>4. IInv => AtMostOneRun
    BY DEF OwnershipInv
  <1> QED BY <1>1, <1>2, <1>3, <1>4, PTL DEF Spec

\* The strengthening the three theorems below share.
IInv == TypeOK /\ LedgerInv /\ OwnershipInv

\* The strengthening is inductive.
LEMMA StepIInv == CleanEnvironment /\ IInv /\ [Next]_vars => IInv'
  BY StepType, StepLedger, StepOwnership DEF IInv

\* A committed run is never taken back: in the same environment a completed
\* intent stays completed, whatever arrives late.
THEOREM CompletedStays == CleanEnvironment => (Spec => CompletedIsFinal)
  <1> SUFFICES ASSUME CleanEnvironment PROVE Spec => CompletedIsFinal
    OBVIOUS
  <1>1. ASSUME IInv, [Next]_vars, NEW i \in Intent, state[i] = "completed"
        PROVE  state'[i] = "completed"
    <2> USE <1>1
    <2>1. state \in [Intent -> JobState \cup {"absent"}]
      BY DEF IInv, TypeOK
    <2>2. \A w \in Worker : pc[w] = "held" => job[w] # i
      BY DEF IInv, OwnershipInv, HolderOwnsRow
    <2>3. CASE UNCHANGED state
      BY <2>3
    <2>4. CASE \E j \in Intent : Create(j)
      BY <2>1, <2>4 DEF Create, CreateIntents
    <2>5. CASE Reclaim
      BY <2>1, <2>5 DEF Reclaim, ReclaimRows, Overdue, LeasedStates
    <2>6. CASE \E d \in Dispatcher : LeaseDue(d)
      BY <2>1, <2>6 DEF LeaseDue, Due
    <2>7. CASE \E d \in Dispatcher, j \in Intent : MarkDispatched(d, j)
      BY <2>1, <2>7 DEF MarkDispatched
    <2>8. CASE \/ ReclaimCommits
               \/ \E d \in Dispatcher :
                    DispatchFails(d) \/ DispatchFailCommits(d) \/ MarkCommits(d)
      BY <2>8 DEF DispatchFails, DispatchFailCommits, MarkCommits, ReclaimCommits, IInv,
        OwnershipInv, KnownOnly
    <2>9. ASSUME NEW w \in Worker, ClaimCommit(w) PROVE state'[i] = "completed"
      <3>1. state[job[w]] # "completed"
        BY <2>9 DEF ClaimCommit, Record, IInv, OwnershipInv, OpenClaimIsCurrent
      <3> QED BY <2>1, <2>9, <3>1 DEF ClaimCommit
    <2>10. CASE \E w \in Worker : Complete(w)
      BY <2>1, <2>2, <2>10 DEF Complete, CompleteIntent
    <2>11. ASSUME NEW w \in Worker,
                  FailCommits(w) \/ \E r \in BOOLEAN : Fail(w, r)
           PROVE  state'[i] = "completed"
      <3>1. FailCommits(w) \/ \E r \in BOOLEAN : SettleFailed(w, r)
        BY <2>11 DEF Fail
      <3>2. pc[w] = "held" /\ \E s : state' = [state EXCEPT ![job[w]] = s]
        BY <3>1, FailureWrites DEF IInv
      <3> QED BY <2>1, <2>2, <3>2
    <2> QED BY <2>3, <2>4, <2>5, <2>6, <2>7, <2>8, <2>9, <2>10, <2>11
      DEF Next, vars, IntentStep, DispatcherStep, WorkerStep, PublishDirectly,
        LoseMessage, LeaseRunsOut, BackoffEnds, ReclaimReads, ReclaimDies, MarkReads,
        Publish, PublishRaises, DispatchFailReads, DispatcherDies, Deliver,
        DuplicateCommit, ClaimConflict, FailReads, Return, Abandon, WorkerDies, intentVars
  <1>2. IInv /\ [Next]_vars =>
          [\A i \in Intent : state[i] = "completed" => state'[i] = "completed"]_vars
    BY <1>1
  <1>3. Init => IInv
    BY InitOwnership DEF IInv
  <1> QED BY <1>2, <1>3, StepIInv, PTL DEF Spec, CompletedIsFinal

\* No step of a clean environment takes the lease off a row that is out for work.
LEMMA StepLeased ==
  CleanEnvironment /\ IInv /\ LeasedRowsHoldLease /\ [Next]_vars
    => LeasedRowsHoldLease'
  <1> SUFFICES ASSUME CleanEnvironment, IInv, LeasedRowsHoldLease, [Next]_vars
               PROVE  LeasedRowsHoldLease'
    OBVIOUS
  <1>0. /\ state \in [Intent -> JobState \cup {"absent"}]
        /\ lease \in [Intent -> Lease]
    BY DEF IInv, TypeOK
  <1>1. CASE UNCHANGED <<state, lease>>
    BY <1>1 DEF LeasedRowsHoldLease
  <1>2. CASE \E i \in Intent : Create(i) \/ LeaseRunsOut(i)
    BY <1>0, <1>2 DEF Create, CreateIntents, LeaseRunsOut, LeasedRowsHoldLease, LeasedStates
  <1>3. CASE Reclaim \/ ReclaimCommits
    BY <1>0, <1>3 DEF Reclaim, ReclaimCommits, ReclaimRows, LeasedRowsHoldLease, LeasedStates
  <1>4. CASE \E d \in Dispatcher : LeaseDue(d) \/ \E i \in Intent : MarkDispatched(d, i)
    BY <1>0, <1>4 DEF LeaseDue, MarkDispatched, LeasedRowsHoldLease, LeasedStates
  <1>5. CASE \E d \in Dispatcher :
               DispatchFails(d) \/ DispatchFailCommits(d) \/ MarkCommits(d)
    BY <1>5 DEF DispatchFails, DispatchFailCommits, MarkCommits, IInv, OwnershipInv,
      KnownOnly
  <1>6. CASE \E w \in Worker : ClaimCommit(w) \/ Complete(w)
    BY <1>0, <1>6 DEF ClaimCommit, Complete, CompleteIntent, LeasedRowsHoldLease,
      LeasedStates
  <1>7. ASSUME NEW w \in Worker, FailCommits(w) \/ \E r \in BOOLEAN : Fail(w, r)
        PROVE  LeasedRowsHoldLease'
    <2>1. FailCommits(w) \/ \E r \in BOOLEAN : SettleFailed(w, r)
      BY <1>7 DEF Fail
    <2>2. \E s \in {"pending", "failed"} :
            /\ state' = [state EXCEPT ![job[w]] = s]
            /\ lease' = [lease EXCEPT ![job[w]] = "none"]
      BY <2>1, FailureWrites DEF IInv
    <2> QED BY <1>0, <2>2 DEF LeasedRowsHoldLease, LeasedStates
  <1> QED BY <1>1, <1>2, <1>3, <1>4, <1>5, <1>6, <1>7
    DEF Next, vars, IntentStep, DispatcherStep, WorkerStep, PublishDirectly,
      LoseMessage, BackoffEnds, ReclaimReads, ReclaimDies, MarkReads,
      Publish, PublishRaises, DispatchFailReads, DispatcherDies, Deliver,
      DuplicateCommit, ClaimConflict, FailReads, Return, Abandon, WorkerDies, intentVars

\* The reclaim can always find the work of the dead: in a clean environment a row
\* that is out for work has a lease, whatever was lost, repeated or overtaken.
THEOREM LeasesAreHeld == CleanEnvironment => (Spec => []LeasedRowsHoldLease)
  <1>1. Init => IInv /\ LeasedRowsHoldLease
    BY InitOwnership DEF Init, IInv, LeasedRowsHoldLease, LeasedStates
  <1>2. CleanEnvironment /\ IInv /\ LeasedRowsHoldLease /\ [Next]_vars
          => IInv' /\ LeasedRowsHoldLease'
    BY StepIInv, StepLeased
  <1> SUFFICES ASSUME CleanEnvironment PROVE Spec => []LeasedRowsHoldLease
    OBVIOUS
  <1> QED BY <1>1, <1>2, PTL DEF Spec
-----------------------------------------------------------------------------
(* The outbox implements its contract *)

\* Steps that change no request and no run are stutters of the contract.
LEMMA ContractStutter ==
  ASSUME \A i \in Intent : RequestOf(i)' = RequestOf(i),
         \A i \in Intent : RunsOf(i)' = RunsOf(i)
  PROVE  UNCHANGED Contract!vars
  BY DEF Contract!vars

\* A step that moves one request and leaves the runs alone.
LEMMA ContractMove ==
  ASSUME NEW i \in Intent,
         \A j \in Intent : j # i => RequestOf(j)' = RequestOf(j),
         \A j \in Intent : RunsOf(j)' = RunsOf(j),
         \/ RequestOf(i) = "absent" /\ RequestOf(i)' = "owed"
         \/ RequestOf(i) = "owed" /\ RequestOf(i)' = "parked"
         \/ RequestOf(i) = "parked" /\ RequestOf(i)' = "owed"
  PROVE  Contract!Next
  BY DEF Contract!Next, Contract!Ask, Contract!Park, Contract!TakeUpAgain,
    Contract!Move

\* Rows other than completed ones do not answer requests.
LEMMA RunsKept ==
  ASSUME TypeOK,
         \A a \in attempts : a.outcome = "completed" => a \in attempts',
         \A a \in attempts' : a.outcome = "completed" => a \in attempts
  PROVE  \A i \in Intent : RunsOf(i)' = RunsOf(i)
  BY DEF RunsOf

\* Every step of the outbox is a step of the contract, or a stutter.
LEMMA StepContract ==
  ASSUME CleanEnvironment, IInv, [Next]_vars
  PROVE  [Contract!Next]_(Contract!vars)
  <1> USE DEF IInv
  <1>0. state \in [Intent -> JobState \cup {"absent"}] /\ TypeOK
    BY DEF TypeOK
  <1>1. CASE UNCHANGED <<state, attempts>>
    BY <1>1, ContractStutter DEF RequestOf, RunsOf
  <1>2. ASSUME NEW i \in Intent, Create(i) PROVE Contract!Next
    <2>1. attempts' = attempts /\ state[i] = "absent"
          /\ state' = [state EXCEPT ![i] = "pending"]
      BY <1>0, <1>2 DEF Create, CreateIntents
    <2> QED BY <1>0, <2>1, RunsKept, ContractMove DEF RequestOf, LeasedStates, JobState
  <1>3. CASE Reclaim \/ (\E d \in Dispatcher : LeaseDue(d))
    <2>1. attempts' = attempts
      BY <1>3 DEF Reclaim, ReclaimRows, LeaseDue
    <2>2. \A i \in Intent : RequestOf(i)' = RequestOf(i)
      BY <1>0, <1>3 DEF Reclaim, ReclaimRows, LeaseDue, Overdue, Due,
        RequestOf, LeasedStates, JobState
    <2> QED BY <1>0, <2>1, <2>2, RunsKept, ContractStutter
  <1>4. ASSUME NEW d \in Dispatcher, NEW i \in Intent, MarkDispatched(d, i)
        PROVE  UNCHANGED Contract!vars
    <2>1. attempts' = attempts
      BY <1>4 DEF MarkDispatched
    <2>2. \A j \in Intent : RequestOf(j)' = RequestOf(j)
      BY <1>0, <1>4 DEF MarkDispatched, RequestOf, LeasedStates, JobState
    <2> QED BY <1>0, <2>1, <2>2, RunsKept, ContractStutter
  <1>5. CASE \/ ReclaimCommits
             \/ \E d \in Dispatcher :
                  DispatchFails(d) \/ DispatchFailCommits(d) \/ MarkCommits(d)
    BY <1>5 DEF DispatchFails, DispatchFailCommits, MarkCommits, ReclaimCommits,
      OwnershipInv, KnownOnly
  <1>6. ASSUME NEW w \in Worker, ClaimCommit(w) PROVE [Contract!Next]_(Contract!vars)
    <2>1. PICK i \in Intent :
            /\ i = job[w] /\ state[i] \notin {"absent", "completed"}
            /\ state' = [state EXCEPT ![i] = "claimed"]
      BY <1>0, <1>6 DEF ClaimCommit, Record, OwnershipInv, OpenClaimIsCurrent, TypeOK
    <2>2. \A j \in Intent : RunsOf(j)' = RunsOf(j)
      BY <1>0, <1>6, RunsKept DEF ClaimCommit, Record
    <2>3. \A j \in Intent : j # i => RequestOf(j)' = RequestOf(j)
      BY <1>0, <2>1 DEF RequestOf, LeasedStates, JobState
    <2>4. RequestOf(i)' = "owed"
      BY <1>0, <2>1 DEF RequestOf, LeasedStates, JobState
    <2>5. RequestOf(i) \in {"owed", "parked"}
      BY <1>0, <2>1 DEF RequestOf, LeasedStates, JobState
    <2>6. CASE RequestOf(i) = "parked"
      BY <2>2, <2>3, <2>4, <2>6, ContractMove
    <2>7. CASE RequestOf(i) = "owed"
      <3>1. \A j \in Intent : RequestOf(j)' = RequestOf(j)
        BY <2>3, <2>4, <2>7
      <3> QED BY <2>2, <3>1, ContractStutter
    <2> QED BY <2>5, <2>6, <2>7
  <1>7. ASSUME NEW w \in Worker, DuplicateCommit(w) PROVE UNCHANGED Contract!vars
    <2>1. \A j \in Intent : RunsOf(j)' = RunsOf(j)
      BY <1>0, <1>7, RunsKept DEF DuplicateCommit, Record
    <2> QED BY <1>7, <2>1, ContractStutter DEF DuplicateCommit, RequestOf, LeasedStates, JobState
  <1>8. ASSUME NEW w \in Worker, Complete(w) PROVE Contract!Next
    <2>1. PICK i \in Intent, n \in Nat :
            /\ i = job[w] /\ n = number[w] /\ state[i] = "claimed"
            /\ [intent |-> i, number |-> n, outcome |-> "claimed"] \in attempts
            /\ state' = [state EXCEPT ![i] = "completed"]
            /\ attempts' = Finalized(i, n, "completed")
      BY <1>0, <1>8 DEF Complete, CompleteIntent, OwnershipInv, HolderOwnsRow, TypeOK
    <2> DEFINE row == [intent |-> i, number |-> n, outcome |-> "claimed"]
               done == [intent |-> i, number |-> n, outcome |-> "completed"]
    <2>2. \A a \in attempts : a.intent = i /\ a.number = n => a = row
      BY <2>1 DEF LedgerInv
    <2>3. [row EXCEPT !.outcome = "completed"] = done
      OBVIOUS
    <2>4. done \in attempts'
      <3>1. attempts' = {IF a.intent = i /\ a.number = n
                           THEN [a EXCEPT !.outcome = "completed"]
                           ELSE a : a \in attempts}
        BY <2>1 DEF Finalized
      <3>2. row \in attempts /\ row.intent = i /\ row.number = n
        BY <2>1
      <3> HIDE DEF row, done
      <3> QED BY <2>3, <3>1, <3>2, SMTT(20)
    <2>5. \A a \in attempts' : a = done \/ a \in attempts
      BY <2>1, <2>2, <2>3 DEF Finalized
    <2>6. \A a \in attempts : a.outcome = "completed" =>
            a \in attempts' /\ a.intent # i
      BY <2>1 DEF Finalized, OwnershipInv, CompletedRowClosesIntent
    <2>7. RunsOf(i) = {}
      BY <2>6 DEF RunsOf
    <2>8. RunsOf(i)' = {n}
      BY <2>4, <2>5, <2>6 DEF RunsOf
    <2>9. \A j \in Intent : j # i => RunsOf(j)' = RunsOf(j)
      BY <2>5, <2>6 DEF RunsOf
    <2>10. RequestOf(i) = "owed" /\ RequestOf(i)' = "answered"
      BY <1>0, <2>1 DEF RequestOf, LeasedStates, JobState
    <2>11. \A j \in Intent : j # i => RequestOf(j)' = RequestOf(j)
      BY <1>0, <2>1 DEF RequestOf, LeasedStates, JobState
    <2>12. Contract!Move(i, "owed", "answered")
      BY <2>10, <2>11 DEF Contract!Move
    <2>13. \E m \in [j \in Intent |-> RunsOf(j)]'[i] :
             [j \in Intent |-> RunsOf(j)]'
               = [[j \in Intent |-> RunsOf(j)] EXCEPT ![i] = {m}]
      BY <2>8, <2>9
    <2>14. Contract!Answer(i)
      BY <2>7, <2>12, <2>13 DEF Contract!Answer
    <2> QED BY <2>14 DEF Contract!Next
  <1>9. ASSUME NEW w \in Worker, FailCommits(w) \/ \E r \in BOOLEAN : Fail(w, r)
        PROVE  [Contract!Next]_(Contract!vars)
    <2>1. PICK i \in Intent, n \in Nat, to \in {"pending", "failed"},
              o \in {"retryable_failure", "terminal_failure"} :
            /\ i = job[w] /\ state[i] = "claimed"
            /\ state' = [state EXCEPT ![i] = to]
            /\ attempts' = Finalized(i, n, o)
            /\ [intent |-> i, number |-> n, outcome |-> "claimed"] \in attempts
      <3>1. FailCommits(w) \/ \E r \in BOOLEAN : SettleFailed(w, r)
        BY <1>9 DEF Fail
      <3>2. pc[w] = "held"
        BY <3>1, FailureWrites
      <3>3. /\ job[w] \in Intent /\ number[w] \in Nat /\ state[job[w]] = "claimed"
            /\ [intent |-> job[w], number |-> number[w], outcome |-> "claimed"]
                 \in attempts
        BY <1>0, <3>2 DEF OwnershipInv, HolderOwnsRow, TypeOK
      <3> QED BY <3>1, <3>3, FailureWrites
    <2>4. \A a \in attempts' : a.outcome = "completed" => a \in attempts
      BY <1>0, <2>1 DEF Finalized, TypeOK, JobAttempt
    <2>5. \A a \in attempts : a.outcome = "completed" => a \in attempts'
      BY <2>1 DEF Finalized, OwnershipInv, CompletedRowClosesIntent
    <2>6. \A j \in Intent : RunsOf(j)' = RunsOf(j)
      BY <1>0, <2>4, <2>5, RunsKept
    <2>7. \A j \in Intent : j # i => RequestOf(j)' = RequestOf(j)
      BY <1>0, <2>1 DEF RequestOf, LeasedStates, JobState
    <2>8. RequestOf(i) = "owed"
      BY <2>1 DEF RequestOf, LeasedStates, JobState
    <2>9. CASE to = "pending"
      <3>1. RequestOf(i)' = "owed"
        BY <1>0, <2>1, <2>9 DEF RequestOf, LeasedStates, JobState
      <3>2. \A j \in Intent : RequestOf(j)' = RequestOf(j)
        BY <2>7, <2>8, <3>1
      <3> QED BY <2>6, <3>2, ContractStutter
    <2>10. CASE to = "failed"
      <3>1. RequestOf(i)' = "parked"
        BY <1>0, <2>1, <2>10 DEF RequestOf, LeasedStates, JobState
      <3> QED BY <2>6, <2>7, <2>8, <3>1, ContractMove
    <2> QED BY <2>9, <2>10
  <1> QED BY <1>1, <1>2, <1>3, <1>4, <1>5, <1>6, <1>7, <1>8, <1>9
    DEF Next, vars, IntentStep, DispatcherStep, WorkerStep, PublishDirectly,
      LoseMessage, LeaseRunsOut, BackoffEnds, ReclaimReads, ReclaimDies, MarkReads,
      Publish, PublishRaises, DispatchFailReads, DispatcherDies, Deliver, ClaimConflict,
      FailReads, Return, Abandon, WorkerDies, intentVars

\* Every behaviour of leases, claims, attempts and messages is, seen from the
\* requests, a behaviour of RunContract.
THEOREM OutboxImplementsContract ==
  CleanEnvironment => (Spec => ImplementsContract)
  <1> SUFFICES ASSUME CleanEnvironment PROVE Spec => ImplementsContract
    OBVIOUS
  <1>1. Init => IInv
    BY InitOwnership DEF IInv
  <1>2. Init => Contract!Init
    BY DEF Init, Contract!Init, RequestOf, RunsOf, LeasedStates
  <1>3. IInv /\ [Next]_vars => [Contract!Next]_(Contract!vars)
    BY StepContract
  <1> QED BY <1>1, <1>2, <1>3, StepIInv, PTL
        DEF Spec, ImplementsContract, Contract!Spec
=============================================================================
