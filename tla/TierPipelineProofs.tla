-------------------------- MODULE TierPipelineProofs --------------------------
(***************************************************************************)
(* Proofs about one evaluation for every list of perturbed conditions, and *)
(* about the sandbox its tiers call, whatever jobs, clients and daemons do. *)
(***************************************************************************)
EXTENDS TierPipeline, TLAPS

-----------------------------------------------------------------------------
(* The sandbox                                                             *)

\* The part of PipelineTypeOK that is the sandbox's.
SandboxTyped ==
  /\ setting \in Settings
  /\ call \in {"none", "asked", "waiting"}
  /\ answer \in Answers \cup {"none"}
  /\ executor \in {"idle", "gate", "running", "collecting", "answering"}
  /\ container \in {"none", "docker", "process", "exited"}
  /\ left \subseteq {"stopped", "running"}
  /\ outcome \in Answers \cup {"none"}

\* The strengthening: an executor has a job only while it looks after it; the
\* runner service is idle until it takes a request, which it may still refuse;
\* and a worker that is its own executor has a call as long as it executes.
SandboxInv ==
  /\ SandboxTyped
  /\ executor \in {"idle", "gate", "answering"} => container = "none"
  /\ call = "asked" => setting.remote /\ executor = "idle"
  /\ ~setting.remote => (call = "waiting" <=> executor # "idle")
  /\ UntrustedIsContained

\* Every step, of the sandbox or of the evaluation, keeps it.
LEMMA StepSandbox == SandboxInv /\ [PipelineNext]_vars => SandboxInv'
  <1> SUFFICES ASSUME SandboxInv, [PipelineNext]_vars PROVE SandboxInv'
    OBVIOUS
  <1>0. setting.remote \in BOOLEAN /\ setting.tokens \in BOOLEAN
    BY DEF SandboxInv, SandboxTyped, Settings
  <1> USE <1>0 DEF SandboxInv, SandboxTyped, UntrustedIsContained, sandboxVars, Answers
  <1>1. CASE AskSandbox
    BY <1>1 DEF AskSandbox, Ask
  <1>2. CASE InfraFailure \/ AdapterFails
    BY <1>2 DEF InfraFailure, AdapterFails, Take, KeepSandbox
  <1>3. CASE Tier1
    BY <1>3 DEF Tier1, Take, KeepSandbox
  <1>4. CASE Tier2
    BY <1>4 DEF Tier2, Take, KeepSandbox
  <1>5. CASE Tier3
    BY <1>5 DEF Tier3, Take, KeepSandbox
  <1>6. CASE Authorize
    BY <1>6 DEF Authorize
  <1>12. CASE RequestFails
    BY <1>12 DEF RequestFails, Raises
  <1>13. CASE ClientGivesUp
    BY <1>13 DEF ClientGivesUp, Raises
  <1>7. CASE StartJob
    BY <1>7 DEF StartJob, SubprocessMayRun, Ends
  <1>14. CASE StartRaises \/ StrayExits
    BY <1>14 DEF StartRaises, StrayExits, Ends
  <1>8. CASE JobExits \/ JobTimesOut
    BY <1>8 DEF JobExits, JobTimesOut
  <1>9. CASE Collect \/ RemoveFails
    BY <1>9 DEF Collect, RemoveFails
  <1>10. CASE Deliver
    BY <1>10 DEF Deliver, Raises, AsSeen
  <1>11. CASE UNCHANGED vars
    BY <1>11 DEF vars
  <1> QED BY <1>1, <1>2, <1>3, <1>4, <1>5, <1>6, <1>7, <1>8, <1>9, <1>10, <1>11, <1>12,
        <1>13, <1>14 DEF PipelineNext, PipelineStep, SandboxStep

\* At the start nobody executes anything.
LEMMA InitSandbox == PipelineInit => SandboxInv
  BY DEF PipelineInit, SandboxInit, SandboxInv, SandboxTyped, UntrustedIsContained, Answers

(* A job that is left running is known to nobody but by its failure: while   *)
(* its executor answers, the outcome is a SandboxError; then the answer is;  *)
(* and what is made of it is an infra failure.  A client that gave up has    *)
(* the same answer before its handler's job ends.                            *)
StrayInv ==
  /\ executor = "collecting" /\ container = "docker" => outcome = "sandbox_error"
  /\ executor # "idle" => call = "waiting" \/ answer = "sandbox_error" \/ phase = "infra"
  /\ call # "none" => answer = "none" /\ phase \notin {"scored", "infra"}
  /\ answer # "none" => phase \notin {"scored", "infra"}
  /\ "running" \in left =>
       \/ phase = "infra" \/ answer = "sandbox_error"
       \/ executor = "answering" /\ outcome = "sandbox_error" /\ call = "waiting"

\* Every step keeps it: only what the executor reports as a failure leaves a job
\* running, and no failure is judged.
LEMMA StepStray == SandboxInv /\ StrayInv /\ [PipelineNext]_vars => StrayInv'
  <1> SUFFICES ASSUME SandboxInv, StrayInv, [PipelineNext]_vars PROVE StrayInv'
    OBVIOUS
  <1> USE DEF SandboxInv, SandboxTyped, StrayInv, Answers, sandboxVars, tierVars
  <1>1. CASE AskSandbox
    BY <1>1 DEF AskSandbox, Ask, Running
  <1>2. CASE InfraFailure \/ AdapterFails
    BY <1>2 DEF InfraFailure, AdapterFails, Take, KeepSandbox
  <1>3. CASE Tier1 \/ Tier2 \/ Tier3
    <2>1. /\ call = "none" /\ answer = "output" /\ answer' = "none"
          /\ UNCHANGED <<call, executor, container, left, outcome>>
          /\ phase \notin {"scored", "infra"}
      BY <1>3 DEF Tier1, Tier2, Tier3, Take, KeepSandbox
    <2>2. executor = "idle" /\ "running" \notin left
      BY <2>1
    <2> QED BY <2>1, <2>2
  <1>4. CASE SandboxStep /\ UNCHANGED tierVars
    <2>1. CASE Authorize \/ RequestFails \/ ClientGivesUp
      BY <1>4, <2>1 DEF Authorize, RequestFails, ClientGivesUp, Raises
    <2>2. CASE StartJob \/ StartRaises \/ StrayExits
      BY <1>4, <2>2 DEF StartJob, StartRaises, StrayExits, Ends
    <2>3. CASE JobExits \/ JobTimesOut
      BY <1>4, <2>3 DEF JobExits, JobTimesOut
    <2>4. CASE Collect \/ RemoveFails
      BY <1>4, <2>4 DEF Collect, RemoveFails
    <2>5. CASE Deliver
      BY <1>4, <2>5 DEF Deliver, Raises, AsSeen
    <2> QED BY <1>4, <2>1, <2>2, <2>3, <2>4, <2>5 DEF SandboxStep
  <1>5. CASE UNCHANGED vars
    BY <1>5 DEF vars
  <1> QED BY <1>1, <1>2, <1>3, <1>4, <1>5 DEF PipelineNext, PipelineStep

\* At the start nothing runs.
LEMMA InitStray == PipelineInit => StrayInv
  BY DEF PipelineInit, SandboxInit, StrayInv

\* An executor's job is over before its answer is used and by the time the executor
\* is free, the caller of a remote one having given up or not; a run is judged only
\* if no job of it was left running, whichever calls of the daemon fail; untrusted
\* weights run in a container or where the operator allowed otherwise.
THEOREM JobsContained == PipelineSpec => []JobsAreContained
  <1>1. SandboxInv /\ StrayInv => JobsAreContained
    <2> SUFFICES ASSUME SandboxInv, StrayInv PROVE JobsAreContained
      OBVIOUS
    <2>1. NothingSurvives
      BY DEF SandboxInv, SandboxTyped, NothingSurvives
    <2>2. JudgedJobsEnded
      BY DEF StrayInv, JudgedJobsEnded
    <2> QED BY <2>1, <2>2 DEF SandboxInv, JobsAreContained
  <1> QED BY <1>1, InitSandbox, StepSandbox, InitStray, StepStray, PTL DEF PipelineSpec

-----------------------------------------------------------------------------
(* Tiers, outcomes and verdicts                                            *)

Conditions == {Perturbed[i] : i \in DOMAIN Perturbed} \cup {"clean", "none"}
OutcomeSet == [tier : Tiers, condition : Conditions, unratified : BOOLEAN,
               passed : {"yes", "no", "open"}, value : Values, valid : BOOLEAN,
               unsafe : BOOLEAN]

N == Len(Ordered)

\* The tier and the condition of the outcome at a place of a run's list.
TierAt(i) == IF i = 1 THEN "capability"
             ELSE IF i <= N + 1 THEN "domain_stress" ELSE "operational_safety"
ConditionAt(i) == IF i \in 2..(N + 1) THEN Ordered[i - 1] ELSE "none"

(* What an outcome is worth for a subject.                                   *)
Earned(o, sub) ==
  /\ o.valid /\ o.value = "met" /\ o.tier \in sub.ratified
  /\ o.tier = "operational_safety" => sub.localizes
Counts(o, sub) == ~o.valid \/ (o.value = "below" /\ o.tier \in sub.ratified)

\* What holds of the outcome at place i of a run of sub, unsafe being whether the
\* run has seen a safety breach.
SoundAt(o, i, sub, unsafe) ==
  /\ o \in OutcomeSet
  /\ o.tier = TierAt(i) /\ o.condition = ConditionAt(i)
  /\ Passed(o) => Earned(o, sub)
  /\ Failed(o) => Counts(o, sub)
  /\ o.unsafe => unsafe
  /\ i > 1 => sub.golden

\* A list of outcomes that goes on from place k of a run.
SoundFrom(os, k, sub, unsafe) ==
  /\ os \in Seq(OutcomeSet)
  /\ \A i \in 1..Len(os) : SoundAt(os[i], k + i, sub, unsafe)

NoneFailed(os, n) == \A i \in 1..n : ~Failed(os[i])
SomeFailed(os) == \E i \in 1..Len(os) : Failed(os[i])

(* The strengthening: what a run has when it is at each of its phases.       *)
PipelineTyped ==
  /\ subject \in Subjects
  /\ phase \in {"tier1", "tier2", "tier3", "scored", "infra"}
  /\ breach \in BOOLEAN
  /\ verdict \in {"none", "pass", "fail", "pending_adjudication"}

OutcomesSound ==
  SoundFrom(outcomes, 0, subject, breach) /\ SoundFrom(stress, 1, subject, breach)

PhaseFits ==
  /\ phase = "tier1" => Len(outcomes) = 0 /\ ~breach
  /\ phase = "tier2" => Len(outcomes) = 1 /\ Len(stress) < N /\ subject.golden
  /\ phase # "tier2" => stress = <<>>
  /\ phase = "tier3" => Len(outcomes) = N + 1
  /\ phase # "scored" => verdict = "none" /\ NoneFailed(outcomes, Len(outcomes))
  /\ Len(outcomes) <= N + 2

ScoredFits ==
  phase = "scored" =>
    /\ verdict = VerdictOf(outcomes, breach)
    /\ Len(outcomes) >= 1
    /\ Len(outcomes) < N + 2 => SomeFailed(outcomes)
    /\ Len(outcomes) > 1 => NoneFailed(outcomes, 1)
    /\ Len(outcomes) > N + 1 => NoneFailed(outcomes, N + 1)

TiersInv == PipelineTyped /\ OutcomesSound /\ PhaseFits /\ ScoredFits

-----------------------------------------------------------------------------
\* Condition.clean goes before the others.
LEMMA OrderedIsList == Ordered \in Seq(Conditions) /\ Len(Ordered) = 1 + Len(Perturbed)
  <1> DEFINE named == {Perturbed[i] : i \in DOMAIN Perturbed}
  <1>1. Perturbed \in Seq(Conditions)
    <2>1. Perturbed \in Seq(named)
      BY PerturbedAssumption
    <2>2. named \subseteq Conditions
      BY DEF Conditions
    <2> QED BY <2>1, <2>2
  <1>2. <<"clean">> \in Seq(Conditions) /\ Len(<<"clean">>) = 1
    BY DEF Conditions
  <1> QED BY <1>1, <1>2 DEF Ordered

\* There is at least one condition.
LEMMA OrderedList ==
  /\ N \in Nat /\ N >= 1 /\ DOMAIN Ordered = 1..N
  /\ \A i \in 1..N : Ordered[i] \in Conditions
  <1>1. Len(Perturbed) \in Nat
    BY PerturbedAssumption
  <1> QED BY <1>1, OrderedIsList DEF N

\* A run that has seen more keeps its outcomes.
LEMMA SoundMonotone ==
  ASSUME NEW os, NEW k, NEW sub, NEW b \in BOOLEAN, NEW c \in BOOLEAN, b => c,
         SoundFrom(os, k, sub, b)
  PROVE  SoundFrom(os, k, sub, c)
  BY DEF SoundFrom, SoundAt

\* An outcome that is sound at the next place extends a list.
LEMMA AppendSound ==
  ASSUME NEW os, NEW k \in Nat, NEW sub, NEW b, SoundFrom(os, k, sub, b),
         NEW o, NEW place, place = k + Len(os) + 1, SoundAt(o, place, sub, b)
  PROVE  /\ SoundFrom(Append(os, o), k, sub, b)
         /\ Len(Append(os, o)) = Len(os) + 1
         /\ \A i \in 1..Len(os) : Append(os, o)[i] = os[i]
         /\ Append(os, o)[Len(os) + 1] = o
  <1>1. o \in OutcomeSet /\ os \in Seq(OutcomeSet)
    BY DEF SoundFrom, SoundAt
  <1>2. /\ Append(os, o) \in Seq(OutcomeSet) /\ Len(Append(os, o)) = Len(os) + 1
        /\ Len(os) \in Nat
        /\ \A i \in 1..Len(os) : Append(os, o)[i] = os[i]
        /\ Append(os, o)[Len(os) + 1] = o
    BY <1>1
  <1>3. ASSUME NEW i \in 1..(Len(os) + 1) PROVE SoundAt(Append(os, o)[i], k + i, sub, b)
    <2>1. CASE i \in 1..Len(os)
      BY <1>2, <2>1 DEF SoundFrom
    <2>2. CASE i = Len(os) + 1
      <3>1. place = k + i
        BY <1>2, <2>2
      <3> QED BY <1>2, <2>2, <3>1
    <2> QED BY <1>2, <2>1, <2>2
  <1> QED BY <1>2, <1>3 DEF SoundFrom

\* And a list that goes on where another ends extends that.
LEMMA ConcatSound ==
  ASSUME NEW os, NEW more, NEW sub, NEW b, SoundFrom(os, 0, sub, b),
         NEW k, k = Len(os), SoundFrom(more, k, sub, b)
  PROVE  SoundFrom(os \o more, 0, sub, b)
  <1>1. os \in Seq(OutcomeSet) /\ more \in Seq(OutcomeSet)
    BY DEF SoundFrom
  <1>2. /\ os \o more \in Seq(OutcomeSet) /\ Len(os \o more) = Len(os) + Len(more)
        /\ Len(os) \in Nat /\ Len(more) \in Nat
        /\ \A i \in 1..Len(os) : (os \o more)[i] = os[i]
        /\ \A i \in 1..Len(more) : (os \o more)[Len(os) + i] = more[i]
    BY <1>1
  <1>3. ASSUME NEW i \in 1..(Len(os) + Len(more))
        PROVE  SoundAt((os \o more)[i], 0 + i, sub, b)
    <2>1. CASE i <= Len(os)
      BY <1>2, <2>1 DEF SoundFrom
    <2>2. CASE i > Len(os)
      <3>1. PICK j \in 1..Len(more) : i = Len(os) + j
        <4>1. i - Len(os) \in 1..Len(more) /\ i = Len(os) + (i - Len(os))
          BY <1>2, <2>2
        <4> QED BY <4>1
      <3>2. SoundAt(more[j], k + j, sub, b)
        BY DEF SoundFrom
      <3>3. 0 + i = Len(os) + j
        BY <1>2, <3>1
      <3> QED BY <1>2, <3>1, <3>2, <3>3
    <2> QED BY <1>2, <2>1, <2>2
  <1> QED BY <1>2, <1>3 DEF SoundFrom

-----------------------------------------------------------------------------
(* What each tier adds                                                     *)

\* An outcome is what it is made of; nothing passes that is not valid, and
\* nothing fails that is valid unless its threshold says so.
LEMMA OutcomeIs ==
  ASSUME NEW tier \in Tiers, NEW condition \in Conditions, NEW value \in Values,
         NEW valid \in BOOLEAN, NEW unsafe \in BOOLEAN,
         NEW check \in [passed : {"yes", "no", "open"}, unratified : BOOLEAN]
  PROVE  LET o == Outcome(tier, condition, check, value, valid, unsafe)
         IN /\ o \in OutcomeSet
            /\ o.tier = tier /\ o.condition = condition /\ o.unsafe = unsafe
            /\ o.value = value /\ o.valid = valid
            /\ Passed(o) <=> valid /\ check.passed = "yes"
            /\ Failed(o) <=> ~valid \/ check.passed = "no"
  BY DEF Outcome, OutcomeSet, Passed, Failed

\* A threshold passes what meets a ratified minimum and fails what is below it.
LEMMA ThresholdIs ==
  ASSUME NEW ratified \in BOOLEAN, NEW value \in Values
  PROVE  LET check == CheckThreshold(ratified, value)
         IN /\ check \in [passed : {"yes", "no", "open"}, unratified : BOOLEAN]
            /\ check.passed = "yes" <=> ratified /\ value = "met"
            /\ check.passed = "no" <=> ratified /\ value = "below"
  BY DEF CheckThreshold, Values

\* An outcome of tier 1 or of a condition is sound where it belongs.
LEMMA ScoredSound ==
  ASSUME NEW tier \in Tiers \ {"operational_safety"}, NEW i \in 1..(N + 1), tier = TierAt(i),
         NEW value \in Values, NEW valid \in BOOLEAN, NEW unsafe \in BOOLEAN,
         NEW b, unsafe => b, i > 1 => subject.golden
  PROVE  SoundAt(Scored(tier, ConditionAt(i), value, valid, unsafe), i, subject, b)
  <1> DEFINE check == CheckThreshold(tier \in subject.ratified, value)
  <1>1. /\ check \in [passed : {"yes", "no", "open"}, unratified : BOOLEAN]
        /\ check.passed = "yes" <=> tier \in subject.ratified /\ value = "met"
        /\ check.passed = "no" <=> tier \in subject.ratified /\ value = "below"
    <2>1. (tier \in subject.ratified) \in BOOLEAN
      OBVIOUS
    <2> HIDE DEF check
    <2> QED BY <2>1, ThresholdIs DEF check
  <1>2. ConditionAt(i) \in Conditions
    BY OrderedList DEF ConditionAt, Conditions
  <1> DEFINE o == Outcome(tier, ConditionAt(i), check, value, valid, unsafe)
  <1> HIDE DEF check
  <1>3. /\ o \in OutcomeSet
        /\ o.tier = tier /\ o.condition = ConditionAt(i) /\ o.unsafe = unsafe
        /\ o.value = value /\ o.valid = valid
        /\ Passed(o) <=> valid /\ check.passed = "yes"
        /\ Failed(o) <=> ~valid \/ check.passed = "no"
    BY <1>1, <1>2, OutcomeIs
  <1>4. o = Scored(tier, ConditionAt(i), value, valid, unsafe)
    BY DEF Scored, check
  <1> HIDE DEF o
  <1> QED BY <1>1, <1>3, <1>4 DEF SoundAt, Earned, Counts

\* So is an outcome of tier 3, which can pass only where grounding was measured.
LEMMA OpsSound ==
  ASSUME subject \in Subjects, NEW value \in Values, NEW measured \in BOOLEAN,
         measured => subject.localizes, subject.golden, NEW b,
         NEW check, check = CheckThreshold("operational_safety" \in subject.ratified, value)
  PROVE  SoundAt(Outcome("operational_safety", "none", Grounded(check, measured), value,
                         TRUE, FALSE), N + 2, subject, b)
  <1>1. /\ check \in [passed : {"yes", "no", "open"}, unratified : BOOLEAN]
        /\ check.passed = "yes" <=> "operational_safety" \in subject.ratified /\ value = "met"
        /\ check.passed = "no" <=> "operational_safety" \in subject.ratified /\ value = "below"
    <2>1. ("operational_safety" \in subject.ratified) \in BOOLEAN
      OBVIOUS
    <2> QED BY <2>1, ThresholdIs
  <1> DEFINE grounded == Grounded(check, measured)
  <1>2. /\ grounded \in [passed : {"yes", "no", "open"}, unratified : BOOLEAN]
        /\ grounded.passed = "yes" => check.passed = "yes" /\ measured
        /\ grounded.passed = "no" => check.passed = "no"
    BY <1>1 DEF Grounded
  <1> HIDE DEF grounded
  <1> DEFINE o == Outcome("operational_safety", "none", grounded, value, TRUE, FALSE)
  <1>3. /\ o \in OutcomeSet
        /\ o.tier = "operational_safety" /\ o.condition = "none" /\ o.unsafe = FALSE
        /\ o.value = value /\ o.valid = TRUE
        /\ Passed(o) <=> grounded.passed = "yes"
        /\ Failed(o) <=> grounded.passed = "no"
    <2>1. "operational_safety" \in Tiers /\ "none" \in Conditions
      BY DEF Tiers, Conditions
    <2> QED BY <1>2, <2>1 DEF Outcome, OutcomeSet, Passed, Failed
  <1>4. "operational_safety" = TierAt(N + 2) /\ "none" = ConditionAt(N + 2)
    BY OrderedList DEF TierAt, ConditionAt
  <1>5. SoundAt(o, N + 2, subject, b)
    <2> HIDE DEF o
    <2> QED BY <1>1, <1>2, <1>3, <1>4 DEF SoundAt, Earned, Counts
  <1> QED BY <1>5 DEF grounded

\* And the empty outcome of a tier whose adapter failed.
LEMMA ErroredSound ==
  ASSUME NEW tier \in Tiers, NEW i \in Nat, tier = TierAt(i), ConditionAt(i) = "none",
         NEW b, i > 1 => subject.golden
  PROVE  SoundAt(Errored(tier), i, subject, b) /\ ~Failed(Errored(tier))
  <1> DEFINE check == [passed |-> "open", unratified |-> FALSE]
             o == Outcome(tier, "none", check, "absent", TRUE, FALSE)
  <1>1. /\ o \in OutcomeSet
        /\ o.tier = tier /\ o.condition = "none" /\ o.unsafe = FALSE
        /\ ~Passed(o) /\ ~Failed(o)
    <2>1. /\ "none" \in Conditions /\ "absent" \in Values
          /\ check \in [passed : {"yes", "no", "open"}, unratified : BOOLEAN]
          /\ check.passed = "open"
      BY DEF Conditions, Values
    <2> HIDE DEF check
    <2> QED BY <2>1 DEF Outcome, OutcomeSet, Passed, Failed
  <1>2. o = Errored(tier)
    BY DEF Errored
  <1> HIDE DEF o
  <1> QED BY <1>1, <1>2 DEF SoundAt

-----------------------------------------------------------------------------
(* The steps of the evaluation                                             *)

\* An evaluation begins without outcomes.
LEMMA InitTiers == PipelineInit => TiersInv
  <1> SUFFICES ASSUME PipelineInit PROVE TiersInv
    OBVIOUS
  <1>1. SoundFrom(<<>>, 0, subject, breach) /\ SoundFrom(<<>>, 1, subject, breach)
    BY DEF SoundFrom
  <1>2. OutcomesSound
    BY <1>1 DEF PipelineInit, OutcomesSound
  <1>3. PipelineTyped
    BY DEF PipelineInit, PipelineTyped
  <1>4. PhaseFits /\ ScoredFits
    BY OrderedList DEF PipelineInit, PhaseFits, ScoredFits, NoneFailed
  <1> QED BY <1>2, <1>3, <1>4 DEF TiersInv

\* Tier 1 leaves one outcome: a failure is scored, anything else goes on with
\* the golden set.
LEMMA StepTier1 == TiersInv /\ Tier1 => TiersInv'
  <1> SUFFICES ASSUME TiersInv, Tier1 PROVE TiersInv'
    OBVIOUS
  <1>1. PICK value \in Values, valid \in BOOLEAN :
          LET os == Append(outcomes, Scored("capability", "none", value, valid, FALSE)) IN
          /\ outcomes' = os
          /\ IF Failed(os[1]) THEN Score(os, FALSE)
             ELSE /\ phase' = IF subject.golden THEN "tier2" ELSE "infra"
                  /\ UNCHANGED verdict
    BY DEF Tier1
  <1> DEFINE o == Scored("capability", "none", value, valid, FALSE)
             os == Append(outcomes, o)
  <1>2. /\ phase = "tier1" /\ stress = <<>> /\ Len(outcomes) = 0 /\ ~breach
        /\ verdict = "none" /\ UNCHANGED <<subject, stress, breach>>
        /\ SoundFrom(outcomes, 0, subject, breach) /\ SoundFrom(stress, 1, subject, breach)
    BY DEF Tier1, TiersInv, PipelineTyped, OutcomesSound, PhaseFits
  <1>3. SoundAt(o, 1, subject, breach)
    <2>1. 1 \in 1..(N + 1) /\ "capability" = TierAt(1) /\ "none" = ConditionAt(1)
      BY OrderedList DEF TierAt, ConditionAt
    <2>2. "capability" \in Tiers \ {"operational_safety"}
      BY DEF Tiers
    <2>3. FALSE \in BOOLEAN /\ (FALSE => breach) /\ (1 > 1 => subject.golden)
      OBVIOUS
    <2> QED BY <2>1, <2>2, <2>3, ScoredSound, Zenon
  <1> HIDE DEF o
  <1>4. SoundFrom(outcomes', 0, subject, breach) /\ Len(outcomes') = 1 /\ outcomes'[1] = o
    <2>1. 0 \in Nat /\ 1 = 0 + Len(outcomes) + 1
      BY <1>2
    <2>2. /\ SoundFrom(os, 0, subject, breach) /\ Len(os) = Len(outcomes) + 1
          /\ os[Len(outcomes) + 1] = o
      <3>1. SoundFrom(outcomes, 0, subject, breach)
        BY <1>2
      <3> QED BY <1>3, <2>1, <3>1, AppendSound
    <2> HIDE DEF os
    <2>3. outcomes' = os
      BY <1>1 DEF os, o
    <2> QED BY <1>2, <2>2, <2>3
  <1>5. IF Failed(outcomes'[1]) THEN Score(outcomes', FALSE)
        ELSE /\ phase' = IF subject.golden THEN "tier2" ELSE "infra"
             /\ UNCHANGED verdict
    BY <1>1 DEF o
  <1> HIDE DEF os
  <1>6. N >= 1 /\ N \in Nat
    BY OrderedList
  <1>0. OutcomesSound'
    BY <1>2, <1>4 DEF OutcomesSound
  <1>7. CASE Failed(outcomes'[1])
    <2>1. phase' = "scored" /\ verdict' = VerdictOf(outcomes', FALSE)
      BY <1>5, <1>7 DEF Score
    <2>2. verdict' = VerdictOf(outcomes, breach)'
      <3>1. Flagged(outcomes, breach)' <=> Flagged(outcomes', FALSE)
        BY <1>2 DEF Flagged
      <3> QED BY <2>1, <3>1 DEF VerdictOf
    <2>3. verdict' \in {"pass", "fail", "pending_adjudication"}
      BY <2>1 DEF VerdictOf
    <2>4. PipelineTyped'
      BY <1>2, <2>1, <2>3 DEF TiersInv, PipelineTyped
    <2>5. SomeFailed(outcomes)'
      BY <1>4, <1>7 DEF SomeFailed
    <2>6. PhaseFits'
      BY <1>2, <1>4, <1>6, <2>1 DEF PhaseFits
    <2>7. ScoredFits'
      BY <1>4, <1>6, <2>2, <2>5 DEF ScoredFits
    <2> QED BY <1>0, <2>4, <2>6, <2>7 DEF TiersInv
  <1>8. CASE ~Failed(outcomes'[1])
    <2>1. phase' = (IF subject.golden THEN "tier2" ELSE "infra") /\ verdict' = verdict
      BY <1>5, <1>8
    <2>2. Len(stress) = 0
      BY <1>2
    <2>3. PipelineTyped'
      BY <1>2, <2>1 DEF TiersInv, PipelineTyped
    <2>4. NoneFailed(outcomes, Len(outcomes))'
      BY <1>4, <1>8 DEF NoneFailed
    <2>5. PhaseFits' /\ ScoredFits'
      BY <1>2, <1>4, <1>6, <2>1, <2>2, <2>4 DEF PhaseFits, ScoredFits
    <2> QED BY <1>0, <2>3, <2>5 DEF TiersInv
  <1> QED BY <1>7, <1>8

\* A run that infra stops keeps outcomes none of which failed, and no verdict.
LEMMA StepInfra == TiersInv /\ (InfraFailure \/ AdapterFails) => TiersInv'
  <1> SUFFICES ASSUME TiersInv, InfraFailure \/ AdapterFails PROVE TiersInv'
    OBVIOUS
  <1>1. /\ phase \in {"tier1", "tier2", "tier3"} /\ phase' = "infra" /\ stress' = <<>>
        /\ UNCHANGED <<subject, breach, verdict>>
    BY DEF InfraFailure, AdapterFails, Running
  <1>2. /\ SoundFrom(outcomes, 0, subject, breach) /\ NoneFailed(outcomes, Len(outcomes))
        /\ verdict = "none" /\ Len(outcomes) \in Nat
    BY <1>1 DEF TiersInv, PhaseFits, OutcomesSound, SoundFrom
  <1>3. SoundFrom(<<>>, 1, subject, breach)
    BY DEF SoundFrom
  <1>4. SUFFICES /\ SoundFrom(outcomes', 0, subject, breach)
                 /\ NoneFailed(outcomes', Len(outcomes')) /\ Len(outcomes') <= N + 2
    BY <1>1, <1>2, <1>3 DEF TiersInv, PipelineTyped, OutcomesSound, PhaseFits, ScoredFits,
       NoneFailed
  <1>5. CASE outcomes' = outcomes
    BY <1>2, <1>5 DEF TiersInv, PhaseFits
  <1>6. CASE phase # "tier2" /\ outcomes' = Append(outcomes, Errored(TierOf(phase)))
    <2> DEFINE tier == TierOf(phase)
               i == Len(outcomes) + 1
    <2>1. /\ tier \in Tiers /\ tier = TierAt(i) /\ ConditionAt(i) = "none"
          /\ i > 1 => subject.golden
          /\ i \in Nat /\ i <= N + 2 /\ i = 0 + Len(outcomes) + 1
      <3>1. CASE phase = "tier1"
        <4>1. Len(outcomes) = 0
          BY <3>1 DEF TiersInv, PhaseFits
        <4> QED BY <3>1, <4>1, OrderedList DEF TierOf, TierAt, ConditionAt, Tiers
      <3>2. CASE phase = "tier3"
        <4>1. Len(outcomes) = N + 1 /\ N + 1 \in 1..Len(outcomes) /\ N + 1 > 1
          BY <3>2, OrderedList DEF TiersInv, PhaseFits
        <4>2. subject.golden
          <5>1. SoundAt(outcomes[N + 1], 0 + (N + 1), subject, breach)
            BY <1>2, <4>1 DEF SoundFrom
          <5>2. 0 + (N + 1) > 1
            BY OrderedList
          <5> QED BY <5>1, <5>2 DEF SoundAt
        <4> QED BY <3>2, <4>1, <4>2, OrderedList DEF TierOf, TierAt, ConditionAt, Tiers
      <3> QED BY <1>1, <1>6, <3>1, <3>2
    <2> HIDE DEF tier
    <2>2. SoundAt(Errored(tier), i, subject, breach) /\ ~Failed(Errored(tier))
      <3> HIDE DEF i
      <3> QED BY <2>1, ErroredSound
    <2> DEFINE o == Errored(tier)
    <2> HIDE DEF o
    <2>3. /\ SoundFrom(Append(outcomes, o), 0, subject, breach)
          /\ Len(Append(outcomes, o)) = Len(outcomes) + 1
          /\ \A j \in 1..Len(outcomes) : Append(outcomes, o)[j] = outcomes[j]
          /\ Append(outcomes, o)[Len(outcomes) + 1] = o
      BY <1>2, <2>2, AppendSound DEF o
    <2>4. outcomes' = Append(outcomes, o)
      BY <1>6 DEF o, tier
    <2> QED BY <1>2, <2>1, <2>2, <2>3, <2>4 DEF NoneFailed, o
  <1> QED BY <1>5, <1>6 DEF InfraFailure, AdapterFails

\* Tier 2 adds the outcome of one condition after the other, and tells a safety
\* breach in any of them; after the last it is scored if any failed.
LEMMA StepTier2 == TiersInv /\ Tier2 => TiersInv'
  <1> SUFFICES ASSUME TiersInv, Tier2 PROVE TiersInv'
    OBVIOUS
  <1>1. PICK value \in Values, valid \in BOOLEAN, unsafe \in BOOLEAN :
       LET o == Scored("domain_stress", Ordered[Len(stress) + 1], value, valid, unsafe)
           t2 == Append(stress, o)
           b == SomeBreach(breach, unsafe)
       IN /\ breach' = b
          /\ IF Len(t2) < Len(Ordered)
             THEN stress' = t2 /\ UNCHANGED <<phase, outcomes, verdict>>
             ELSE /\ stress' = <<>>
                  /\ outcomes' = outcomes \o t2
                  /\ IF Halts(t2) THEN Score(outcomes \o t2, b)
                     ELSE phase' = "tier3" /\ UNCHANGED verdict
    BY DEF Tier2
  <1>2. /\ phase = "tier2" /\ Len(outcomes) = 1 /\ Len(stress) < N /\ subject.golden
        /\ verdict = "none" /\ subject' = subject /\ ~Failed(outcomes[1])
    <2>1. phase = "tier2" /\ subject' = subject
      BY DEF Tier2
    <2>2. Len(outcomes) = 1 /\ NoneFailed(outcomes, Len(outcomes))
      BY <2>1 DEF TiersInv, PhaseFits
    <2>3. ~Failed(outcomes[1])
      BY <2>2 DEF NoneFailed
    <2> QED BY <2>1, <2>2, <2>3 DEF TiersInv, PhaseFits
  <1>3. SoundFrom(outcomes, 0, subject, breach) /\ SoundFrom(stress, 1, subject, breach)
    BY DEF TiersInv, OutcomesSound
  <1>4. N \in Nat /\ N >= 1 /\ Len(stress) \in Nat /\ Len(Ordered) = N
    BY <1>3, OrderedList DEF SoundFrom, N
  <1>5. /\ breach' = (breach \/ unsafe) /\ breach' \in BOOLEAN /\ breach \in BOOLEAN
        /\ breach => breach'
        /\ unsafe => breach'
    BY <1>1 DEF SomeBreach, TiersInv, PipelineTyped
  <1>6. /\ SoundFrom(outcomes, 0, subject, breach')
        /\ SoundFrom(stress, 1, subject, breach')
    BY <1>3, <1>5, SoundMonotone, Zenon
  <1>7. PICK o : /\ SoundAt(o, Len(stress) + 2, subject, breach')
                 /\ o = Scored("domain_stress", Ordered[Len(stress) + 1], value, valid, unsafe)
    <2>1. PICK i \in 1..(N + 1) : i = Len(stress) + 2
      BY <1>2, <1>4
    <2>2. "domain_stress" = TierAt(i) /\ ConditionAt(i) = Ordered[Len(stress) + 1]
          /\ "domain_stress" \in Tiers \ {"operational_safety"}
      BY <1>2, <1>4, <2>1 DEF TierAt, ConditionAt, Tiers
    <2>3. SoundAt(Scored("domain_stress", ConditionAt(i), value, valid, unsafe), i,
                  subject, breach')
      BY <1>2, <1>5, <2>2, ScoredSound
    <2> QED BY <2>1, <2>2, <2>3
  <1>8. PICK t2 : /\ t2 = Append(stress, o) /\ SoundFrom(t2, 1, subject, breach')
                  /\ Len(t2) = Len(stress) + 1
    <2>1. 1 \in Nat /\ Len(stress) + 2 = 1 + Len(stress) + 1
      BY <1>4
    <2>2. SoundFrom(Append(stress, o), 1, subject, breach')
          /\ Len(Append(stress, o)) = Len(stress) + 1
      BY <1>6, <1>7, <2>1, AppendSound
    <2> QED BY <2>2
  <1>9. CASE Len(t2) < N
    <2>1. stress' = t2 /\ UNCHANGED <<phase, outcomes, verdict>>
      BY <1>1, <1>4, <1>7, <1>8, <1>9
    <2>2. OutcomesSound'
      BY <1>2, <1>6, <1>8, <2>1 DEF OutcomesSound
    <2>3. PipelineTyped'
      BY <1>2, <1>5, <2>1 DEF TiersInv, PipelineTyped
    <2>4. NoneFailed(outcomes, Len(outcomes))' /\ Len(outcomes') <= N + 2
      BY <1>2, <2>1 DEF TiersInv, PhaseFits, NoneFailed
    <2>5. PhaseFits' /\ ScoredFits'
      BY <1>2, <1>9, <2>1, <2>4 DEF PhaseFits, ScoredFits
    <2> QED BY <2>2, <2>3, <2>5 DEF TiersInv
  <1>10. CASE ~(Len(t2) < N)
    <2>1. /\ stress' = <<>> /\ outcomes' = outcomes \o t2
          /\ IF Halts(t2) THEN Score(outcomes', breach')
             ELSE phase' = "tier3" /\ UNCHANGED verdict
      BY <1>1, <1>4, <1>7, <1>8, <1>10
    <2>2. Len(t2) = N
      BY <1>2, <1>4, <1>8, <1>10
    <2>3. /\ SoundFrom(outcomes', 0, subject, breach') /\ Len(outcomes') = N + 1
          /\ outcomes'[1] = outcomes[1]
          /\ \A i \in 1..N : outcomes'[1 + i] = t2[i]
      <3>1. 1 = Len(outcomes) /\ 1 \in 1..Len(outcomes)
        BY <1>2
      <3>2. /\ SoundFrom(outcomes \o t2, 0, subject, breach')
            /\ Len(outcomes \o t2) = Len(outcomes) + Len(t2)
            /\ \A i \in 1..Len(outcomes) : (outcomes \o t2)[i] = outcomes[i]
            /\ \A i \in 1..Len(t2) : (outcomes \o t2)[Len(outcomes) + i] = t2[i]
        <4>1. SoundFrom(outcomes, 0, subject, breach') /\ SoundFrom(t2, 1, subject, breach')
          BY <1>6, <1>8
        <4>2. 1 = Len(outcomes)
          BY <1>2
        <4>3. SoundFrom(outcomes \o t2, 0, subject, breach')
          BY <4>1, <4>2, ConcatSound
        <4>4. outcomes \in Seq(OutcomeSet) /\ t2 \in Seq(OutcomeSet)
          BY <4>1 DEF SoundFrom
        <4> QED BY <4>3, <4>4
      <3>3. outcomes' = outcomes \o t2
        BY <2>1
      <3>4. SoundFrom(outcomes', 0, subject, breach')
        BY <3>2, <3>3
      <3>7. Len(outcomes') = N + 1
        <4>1. Len(outcomes \o t2) = 1 + N
          BY <2>2, <3>1, <3>2
        <4> QED BY <1>4, <3>3, <4>1
      <3>5. outcomes'[1] = outcomes[1]
        BY <3>1, <3>2, <3>3
      <3>6. \A i \in 1..N : outcomes'[1 + i] = t2[i]
        BY <2>2, <3>1, <3>2, <3>3
      <3> QED BY <3>4, <3>5, <3>6, <3>7
    <2>4. OutcomesSound'
      <3>1. SoundFrom(<<>>, 1, subject, breach')
        BY DEF SoundFrom
      <3> QED BY <1>2, <2>1, <2>3, <3>1 DEF OutcomesSound
    <2>5. In(t2) = {t2[i] : i \in 1..N}
      BY <1>8, <2>2 DEF In, SoundFrom
    <2>6. CASE Halts(t2)
      <3>1. phase' = "scored" /\ verdict' = VerdictOf(outcomes', breach')
        BY <2>1, <2>6 DEF Score
      <3>2. verdict' = VerdictOf(outcomes, breach)'
        <4>1. Flagged(outcomes, breach)' <=> Flagged(outcomes', breach')
          BY <1>2 DEF Flagged
        <4> QED BY <3>1, <4>1 DEF VerdictOf
      <3>3. verdict' \in {"pass", "fail", "pending_adjudication"}
        BY <3>1 DEF VerdictOf
      <3>4. PipelineTyped'
        BY <1>2, <1>5, <3>1, <3>3 DEF TiersInv, PipelineTyped
      <3>5. SomeFailed(outcomes)'
        <4>1. PICK i \in 1..N : Failed(t2[i])
          BY <2>5, <2>6 DEF Halts
        <4>2. 1 + i \in 1..(N + 1) /\ Failed(outcomes'[1 + i])
          BY <1>4, <2>3, <4>1
        <4> QED BY <2>3, <4>2 DEF SomeFailed
      <3>6. NoneFailed(outcomes, 1)'
        BY <1>2, <2>3 DEF NoneFailed
      <3>7. PhaseFits'
        BY <1>4, <2>1, <2>3, <3>1 DEF PhaseFits
      <3>8. ScoredFits'
        BY <1>4, <2>3, <3>2, <3>5, <3>6 DEF ScoredFits
      <3> QED BY <2>4, <3>4, <3>7, <3>8 DEF TiersInv
    <2>7. CASE ~Halts(t2)
      <3>1. phase' = "tier3" /\ verdict' = verdict
        BY <2>1, <2>7
      <3>2. PipelineTyped'
        BY <1>2, <1>5, <3>1 DEF TiersInv, PipelineTyped
      <3>3. ASSUME NEW i \in 1..(N + 1) PROVE ~Failed(outcomes'[i])
        <4>1. CASE i = 1
          BY <1>2, <2>3, <4>1
        <4>2. CASE i > 1
          <5>1. PICK j \in 1..N : i = 1 + j
            <6>1. i - 1 \in 1..N /\ i = 1 + (i - 1)
              BY <1>4, <4>2
            <6> QED BY <6>1
          <5>2. ~Failed(t2[j])
            BY <2>5, <2>7 DEF Halts
          <5> QED BY <2>3, <5>1, <5>2
        <4> QED BY <1>4, <4>1, <4>2
      <3>4. NoneFailed(outcomes, Len(outcomes))'
        BY <2>3, <3>3 DEF NoneFailed
      <3>5. PhaseFits' /\ ScoredFits'
        BY <1>2, <1>4, <2>1, <2>3, <3>1, <3>4 DEF PhaseFits, ScoredFits
      <3> QED BY <2>4, <3>2, <3>5 DEF TiersInv
    <2> QED BY <2>6, <2>7
  <1> QED BY <1>9, <1>10

\* Tier 3 adds the last outcome, and the run is scored.
LEMMA StepTier3 == TiersInv /\ Tier3 => TiersInv'
  <1> SUFFICES ASSUME TiersInv, Tier3 PROVE TiersInv'
    OBVIOUS
  <1>1. PICK value \in Values, measured \in BOOLEAN :
       LET check == CheckThreshold("operational_safety" \in subject.ratified, value)
           o == Outcome("operational_safety", "none", Grounded(check, measured), value, TRUE, FALSE)
           os == Append(outcomes, o)
       IN /\ measured => subject.localizes
          /\ outcomes' = os
          /\ Score(os, breach)
    BY DEF Tier3
  <1>2. /\ phase = "tier3" /\ Len(outcomes) = N + 1 /\ stress' = stress /\ stress = <<>>
        /\ breach' = breach /\ subject' = subject
        /\ NoneFailed(outcomes, Len(outcomes))
    BY DEF Tier3, TiersInv, PhaseFits
  <1>3. SoundFrom(outcomes, 0, subject, breach) /\ SoundFrom(stress, 1, subject, breach)
    BY DEF TiersInv, OutcomesSound
  <1>4. N \in Nat /\ N >= 1
    BY OrderedList
  <1>5. subject.golden /\ subject \in Subjects
    <2>1. SoundAt(outcomes[N + 1], 0 + (N + 1), subject, breach)
      BY <1>2, <1>3, <1>4 DEF SoundFrom
    <2>2. 0 + (N + 1) > 1
      BY <1>4
    <2> QED BY <2>1, <2>2 DEF SoundAt, TiersInv, PipelineTyped
  <1>6. PICK check : check = CheckThreshold("operational_safety" \in subject.ratified, value)
    OBVIOUS
  <1>7. PICK o : /\ o = Outcome("operational_safety", "none", Grounded(check, measured), value,
                                TRUE, FALSE)
                 /\ SoundAt(o, N + 2, subject, breach)
    BY <1>1, <1>5, <1>6, OpsSound
  <1>8. outcomes' = Append(outcomes, o) /\ Score(outcomes', breach)
    BY <1>1, <1>6, <1>7
  <1>9. SoundFrom(outcomes', 0, subject, breach) /\ Len(outcomes') = N + 2
        /\ \A i \in 1..(N + 1) : outcomes'[i] = outcomes[i]
    <2>1. 0 \in Nat /\ N + 2 = 0 + Len(outcomes) + 1
      BY <1>2, <1>4
    <2>2. /\ SoundFrom(Append(outcomes, o), 0, subject, breach)
          /\ Len(Append(outcomes, o)) = Len(outcomes) + 1
          /\ \A i \in 1..Len(outcomes) : Append(outcomes, o)[i] = outcomes[i]
      <3>1. SoundFrom(outcomes, 0, subject, breach) /\ SoundAt(o, N + 2, subject, breach)
        BY <1>3, <1>7
      <3> QED BY <2>1, <3>1, AppendSound
    <2> QED BY <1>2, <1>4, <1>8, <2>2
  <1>10. phase' = "scored" /\ verdict' = VerdictOf(outcomes', breach)
    BY <1>8 DEF Score
  <1>11. verdict' = VerdictOf(outcomes, breach)'
    <2>1. Flagged(outcomes, breach)' <=> Flagged(outcomes', breach)
      BY <1>2 DEF Flagged
    <2> QED BY <1>10, <2>1 DEF VerdictOf
  <1>12. verdict' \in {"pass", "fail", "pending_adjudication"}
    BY <1>10 DEF VerdictOf
  <1>13. PipelineTyped'
    BY <1>2, <1>10, <1>12 DEF TiersInv, PipelineTyped
  <1>14. OutcomesSound'
    BY <1>2, <1>3, <1>9 DEF OutcomesSound
  <1>15. NoneFailed(outcomes, 1)' /\ NoneFailed(outcomes, N + 1)'
    BY <1>2, <1>4, <1>9 DEF NoneFailed
  <1>16. PhaseFits'
    BY <1>2, <1>4, <1>9, <1>10 DEF PhaseFits
  <1>17. ScoredFits'
    BY <1>4, <1>9, <1>11, <1>15 DEF ScoredFits
  <1> QED BY <1>13, <1>14, <1>16, <1>17 DEF TiersInv

\* Every step of the evaluation and of the sandbox keeps the strengthening.
LEMMA StepTiers == TiersInv /\ [PipelineNext]_vars => TiersInv'
  <1> SUFFICES ASSUME TiersInv, [PipelineNext]_vars PROVE TiersInv'
    OBVIOUS
  <1>1. CASE UNCHANGED tierVars
    <2>1. Flagged(outcomes, breach)' <=> Flagged(outcomes, breach)
      BY <1>1 DEF Flagged, tierVars
    <2>2. VerdictOf(outcomes, breach)' = VerdictOf(outcomes, breach)
      BY <1>1, <2>1 DEF VerdictOf, tierVars
    <2>3. PipelineTyped' /\ OutcomesSound'
      BY <1>1 DEF TiersInv, PipelineTyped, OutcomesSound, tierVars
    <2>4. PhaseFits'
      BY <1>1 DEF TiersInv, PhaseFits, tierVars
    <2>5. ScoredFits'
      BY <1>1, <2>2 DEF TiersInv, ScoredFits, tierVars
    <2> QED BY <2>3, <2>4, <2>5 DEF TiersInv
  <1>2. CASE ~UNCHANGED tierVars
    <2>1. InfraFailure \/ AdapterFails \/ Tier1 \/ Tier2 \/ Tier3
      BY <1>2 DEF PipelineNext, PipelineStep, AskSandbox, vars
    <2> QED BY <2>1, StepTier1, StepTier2, StepTier3, StepInfra
  <1> QED BY <1>1, <1>2

-----------------------------------------------------------------------------
(* What verdicts promise                                                   *)

\* No list runs past the tiers and conditions there are, and everything has its
\* type, for every golden set's list of conditions.
THEOREM PipelineTypeCorrect == PipelineSpec => []PipelineTypeOK
  <1>1. SandboxInv /\ TiersInv => PipelineTypeOK
    <2> SUFFICES ASSUME SandboxInv, TiersInv PROVE PipelineTypeOK
      OBVIOUS
    <2>1. Len(outcomes) <= Len(Ordered) + 2 /\ Len(stress) < Len(Ordered)
      BY OrderedList DEF TiersInv, PhaseFits, N
    <2> QED BY <2>1 DEF SandboxInv, SandboxTyped, TiersInv, PipelineTyped, PipelineTypeOK
  <1> QED BY <1>1, InitSandbox, StepSandbox, InitTiers, StepTiers, PTL DEF PipelineSpec

\* The members of a run's list are those at its places.
LEMMA Members ==
  ASSUME TiersInv PROVE In(outcomes) = {outcomes[i] : i \in 1..Len(outcomes)}
  BY DEF TiersInv, OutcomesSound, SoundFrom, In

\* A tier is left out of a judged run only after a failure, nothing runs after
\* one, and a run that infra stopped is not judged.
THEOREM NoTierSkipped == PipelineSpec => []NothingSkipped
  <1>1. TiersInv => NothingSkipped
    <2> SUFFICES ASSUME TiersInv PROVE NothingSkipped
      OBVIOUS
    <2>0. /\ N \in Nat /\ N >= 1 /\ N = Len(Ordered)
          /\ outcomes \in Seq(OutcomeSet) /\ Len(outcomes) \in Nat
          /\ Len(outcomes) <= N + 2
      BY OrderedList DEF TiersInv, OutcomesSound, SoundFrom, PhaseFits, N
    <2>1. ASSUME NEW i \in DOMAIN outcomes, NEW j \in DOMAIN outcomes,
                 Failed(outcomes[i]), i < j
          PROVE  outcomes[i].tier = outcomes[j].tier
      <3>1. i \in 1..Len(outcomes) /\ j \in 1..Len(outcomes)
        BY <2>0
      <3>2. phase = "scored"
        BY <2>1, <3>1 DEF TiersInv, PhaseFits, NoneFailed
      <3>3. /\ Len(outcomes) > 1 => ~Failed(outcomes[1])
            /\ Len(outcomes) > N + 1 => \A k \in 1..(N + 1) : ~Failed(outcomes[k])
        BY <2>0, <3>2 DEF TiersInv, ScoredFits, NoneFailed
      <3>4. i > 1 /\ j <= N + 1
        BY <2>0, <2>1, <3>1, <3>3
      <3>5. outcomes[i].tier = TierAt(0 + i) /\ outcomes[j].tier = TierAt(0 + j)
        BY <3>1 DEF TiersInv, OutcomesSound, SoundFrom, SoundAt
      <3> QED BY <2>0, <2>1, <3>1, <3>4, <3>5 DEF TierAt
    <2>2. phase = "scored" /\ Len(outcomes) < Len(Ordered) + 2 =>
            \E o \in In(outcomes) : Failed(o)
      BY <2>0, Members DEF TiersInv, ScoredFits, SomeFailed
    <2>3. phase = "infra" => verdict = "none"
      BY DEF TiersInv, PhaseFits
    <2>4. phase = "scored" => verdict # "none" /\ In(outcomes) # {}
      <3>1. phase = "scored" => verdict # "none"
        BY DEF TiersInv, ScoredFits, VerdictOf
      <3>2. phase = "scored" => outcomes[1] \in In(outcomes)
        BY <2>0, Members DEF TiersInv, ScoredFits
      <3> QED BY <3>1, <3>2
    <2> QED BY <2>1, <2>2, <2>3, <2>4 DEF NothingSkipped
  <1> QED BY <1>1, InitTiers, StepTiers, PTL DEF PipelineSpec

-----------------------------------------------------------------------------
(* What is neither passed nor failed is for a human                        *)

\* Nobody has said what such an outcome means.
Undecided(o) == ~Passed(o) /\ ~Failed(o) /\ ~o.unratified

\* The strengthening VerdictOf needs: only the empty outcome of an adapter that
\* failed is undecided, and its run is infra's.
NoneUndecided ==
  /\ phase # "infra" => \A o \in In(outcomes) : ~Undecided(o)
  /\ \A o \in In(stress) : ~Undecided(o)

\* The members of a longer list.
LEMMA MembersOfAppend ==
  ASSUME NEW os \in Seq(OutcomeSet), NEW o PROVE In(Append(os, o)) \subseteq In(os) \cup {o}
  BY DEF In

\* The members of two lists in a row.
LEMMA MembersOfConcat ==
  ASSUME NEW S, NEW os \in Seq(S), NEW more \in Seq(S)
  PROVE  In(os \o more) \subseteq In(os) \cup In(more)
  BY DEF In

\* A threshold, and a grounding that was not measured, decide or ask for a human.
LEMMA JudgedIsDecided ==
  ASSUME NEW tier, NEW condition, NEW ratified, NEW value, NEW valid, NEW unsafe, NEW measured
  PROVE  /\ ~Undecided(Outcome(tier, condition, CheckThreshold(ratified, value), value, valid,
                               unsafe))
         /\ ~Undecided(Outcome(tier, condition, Grounded(CheckThreshold(ratified, value), measured),
                               value, valid, unsafe))
  BY DEF Undecided, Outcome, CheckThreshold, Grounded, Passed, Failed

\* Every step keeps it.
LEMMA StepDecided == TiersInv /\ NoneUndecided /\ [PipelineNext]_vars => NoneUndecided'
  <1> SUFFICES ASSUME TiersInv, NoneUndecided, [PipelineNext]_vars PROVE NoneUndecided'
    OBVIOUS
  <1>0. outcomes \in Seq(OutcomeSet) /\ stress \in Seq(OutcomeSet) /\ In(<<>>) = {}
    BY DEF TiersInv, OutcomesSound, SoundFrom, In
  <1>1. CASE UNCHANGED tierVars
    BY <1>1 DEF NoneUndecided, tierVars
  <1>2. CASE InfraFailure \/ AdapterFails
    BY <1>0, <1>2 DEF InfraFailure, AdapterFails, NoneUndecided
  <1>3. CASE Tier1
    <2>1. PICK o : ~Undecided(o) /\ outcomes' = Append(outcomes, o)
      BY <1>3, JudgedIsDecided DEF Tier1, Scored
    <2>2. phase = "tier1" /\ stress' = stress
      BY <1>3 DEF Tier1
    <2> QED BY <1>0, <2>1, <2>2, MembersOfAppend DEF NoneUndecided
  <1>4. CASE Tier2
    <2>1. PICK o : /\ ~Undecided(o)
                   /\ \/ stress' = Append(stress, o) /\ outcomes' = outcomes
                      \/ stress' = <<>> /\ outcomes' = outcomes \o Append(stress, o)
      BY <1>4, JudgedIsDecided DEF Tier2, Scored
    <2>2. phase = "tier2"
      BY <1>4 DEF Tier2
    <2>3. \A u \in In(Append(stress, o)) : ~Undecided(u)
      BY <1>0, <2>1, MembersOfAppend DEF NoneUndecided
    <2>4. CASE stress' = Append(stress, o) /\ outcomes' = outcomes
      BY <2>2, <2>3, <2>4 DEF NoneUndecided
    <2>5. CASE stress' = <<>> /\ outcomes' = outcomes \o Append(stress, o)
      <3>1. \A u \in In(outcomes') : u \in In(outcomes) \/ u \in In(Append(stress, o))
        <4>1. PICK S : S = OutcomeSet \cup {o}
          OBVIOUS
        <4>2. outcomes \in Seq(S) /\ stress \in Seq(S) /\ o \in S
          BY <1>0, <4>1
        <4>3. Append(stress, o) \in Seq(S)
          BY <4>2
        <4> QED BY <2>5, <4>2, <4>3, MembersOfConcat
      <3> QED BY <1>0, <2>2, <2>3, <2>5, <3>1 DEF NoneUndecided
    <2> QED BY <2>1, <2>4, <2>5
  <1>5. CASE Tier3
    <2>1. PICK o : ~Undecided(o) /\ outcomes' = Append(outcomes, o)
      BY <1>5, JudgedIsDecided DEF Tier3
    <2>2. phase = "tier3" /\ stress' = stress
      BY <1>5 DEF Tier3
    <2> QED BY <1>0, <2>1, <2>2, MembersOfAppend DEF NoneUndecided
  <1> QED BY <1>1, <1>2, <1>3, <1>4, <1>5 DEF PipelineNext, PipelineStep, AskSandbox, vars

\* A model is rejected without a human only for output that counts.
THEOREM FailIsEarned == PipelineSpec => []FailIsTheModels
  <1>1. TiersInv /\ NoneUndecided => FailIsTheModels
    <2> SUFFICES ASSUME TiersInv, NoneUndecided, verdict = "fail"
        PROVE  /\ \E o \in In(outcomes) :
                    ~o.valid \/ (o.value = "below" /\ o.tier \in subject.ratified)
               /\ \A o \in In(outcomes) : ~o.unratified /\ ~o.unsafe
               /\ subject.declared
      BY DEF FailIsTheModels
    <2>1. phase = "scored" /\ verdict = VerdictOf(outcomes, breach)
      BY DEF TiersInv, PhaseFits, ScoredFits
    <2>2. ~Flagged(outcomes, breach)
      BY <2>1 DEF VerdictOf
    <2>3. ~breach /\ subject.declared /\ \A o \in In(outcomes) : ~o.unratified
      BY <2>2 DEF Flagged
    <2>4. \A o \in In(outcomes) : ~o.unsafe
      BY <2>3, Members DEF TiersInv, OutcomesSound, SoundFrom, SoundAt
    <2>5. PICK i \in 1..Len(outcomes) : Failed(outcomes[i])
      <3>1. outcomes # <<>>
        BY <2>1 DEF TiersInv, ScoredFits
      <3>2. PICK o \in In(outcomes) : ~Passed(o)
        BY <2>1, <2>2, <3>1 DEF VerdictOf
      <3>3. Failed(o)
        BY <2>1, <2>3, <3>2 DEF NoneUndecided, Undecided
      <3> QED BY <3>2, <3>3, Members
    <2> QED BY <2>3, <2>4, <2>5, Members DEF TiersInv, OutcomesSound, SoundFrom, SoundAt, Counts
  <1>2. PipelineInit => NoneUndecided
    BY DEF PipelineInit, NoneUndecided, In
  <1> QED BY <1>1, <1>2, InitTiers, StepTiers, StepDecided, PTL DEF PipelineSpec

-----------------------------------------------------------------------------
\* A model is approved without a human only after every tier and every condition
\* passed a ratified threshold on trusted output, on the registered golden set,
\* with grounding measured, no safety breach and declared sources.
THEOREM PassIsDeserved == PipelineSpec => []PassIsEarned
  <1>1. TiersInv => PassIsEarned
    <2> SUFFICES ASSUME TiersInv, verdict = "pass"
        PROVE  /\ [i \in 1..Len(outcomes) |-> outcomes[i].tier] =
                    <<"capability">> \o [i \in 1..Len(Ordered) |-> "domain_stress"]
                                     \o <<"operational_safety">>
               /\ [i \in 1..Len(Ordered) |-> outcomes[i + 1].condition] = Ordered
               /\ \A o \in In(outcomes) : Passed(o) /\ o.value = "met" /\ o.valid /\ ~o.unsafe
               /\ subject.golden /\ subject.declared /\ subject.localizes
               /\ subject.ratified = Tiers
      BY DEF PassIsEarned
    <2>0. N \in Nat /\ N >= 1 /\ N = Len(Ordered) /\ Len(outcomes) \in Nat
      BY OrderedList DEF TiersInv, OutcomesSound, SoundFrom, N
    <2>1. phase = "scored" /\ verdict = VerdictOf(outcomes, breach)
      BY DEF TiersInv, PhaseFits, ScoredFits
    <2>2. ~Flagged(outcomes, breach) /\ \A o \in In(outcomes) : Passed(o)
      BY <2>1 DEF VerdictOf
    <2>3. ~breach /\ subject.declared
      BY <2>2 DEF Flagged
    <2>4. \A i \in 1..Len(outcomes) : Passed(outcomes[i])
      BY <2>2, Members
    <2>5. Len(outcomes) = N + 2
      <3>1. ~(Len(outcomes) < N + 2)
        BY <2>1, <2>4 DEF TiersInv, ScoredFits, SomeFailed, Passed, Failed
      <3> QED BY <2>0, <3>1 DEF TiersInv, PhaseFits
    <2>6. \A i \in 1..(N + 2) :
            /\ outcomes[i].tier = TierAt(i) /\ outcomes[i].condition = ConditionAt(i)
            /\ Earned(outcomes[i], subject) /\ ~outcomes[i].unsafe
            /\ i > 1 => subject.golden
      <3>1. ASSUME NEW i \in 1..(N + 2)
            PROVE  SoundAt(outcomes[i], i, subject, breach)
        <4>1. SoundAt(outcomes[i], 0 + i, subject, breach) /\ 0 + i = i
          BY <2>0, <2>5 DEF TiersInv, OutcomesSound, SoundFrom
        <4> QED BY <4>1
      <3> QED BY <2>3, <2>4, <2>5, <3>1 DEF SoundAt
    <2>7. \A o \in In(outcomes) : Passed(o) /\ o.value = "met" /\ o.valid /\ ~o.unsafe
      BY <2>4, <2>5, <2>6, Members DEF Earned
    <2>8. subject.golden /\ subject.localizes /\ subject.ratified = Tiers
      <3>1. /\ 1 \in 1..(N + 2) /\ 2 \in 1..(N + 2) /\ N + 2 \in 1..(N + 2)
            /\ TierAt(1) = "capability" /\ TierAt(2) = "domain_stress"
            /\ TierAt(N + 2) = "operational_safety"
        BY <2>0 DEF TierAt
      <3>2. /\ "capability" \in subject.ratified /\ "domain_stress" \in subject.ratified
            /\ "operational_safety" \in subject.ratified /\ subject.localizes
        BY <2>6, <3>1 DEF Earned
      <3>3. subject.ratified \subseteq Tiers
        BY DEF TiersInv, PipelineTyped, Subjects
      <3>4. subject.golden
        BY <2>6, <3>1
      <3> QED BY <3>2, <3>3, <3>4 DEF Tiers
    <2>9. [i \in 1..Len(Ordered) |-> outcomes[i + 1].condition] = Ordered
      <3>1. ASSUME NEW i \in 1..N PROVE outcomes[i + 1].condition = Ordered[i]
        <4>1. i + 1 \in 1..(N + 2) /\ i + 1 \in 2..(N + 1) /\ (i + 1) - 1 = i
          BY <2>0
        <4> QED BY <2>6, <4>1 DEF ConditionAt
      <3>2. Ordered = [i \in 1..N |-> Ordered[i]]
        <4>1. Ordered \in Seq(Conditions)
          BY OrderedIsList
        <4> QED BY <2>0, <4>1
      <3> QED BY <2>0, <3>1, <3>2
    <2>10. [i \in 1..Len(outcomes) |-> outcomes[i].tier] =
             <<"capability">> \o [i \in 1..Len(Ordered) |-> "domain_stress"]
                              \o <<"operational_safety">>
      <3> DEFINE middle == [i \in 1..N |-> "domain_stress"]
                 tiers == <<"capability">> \o middle \o <<"operational_safety">>
      <3>1. middle \in Seq(Tiers) /\ Len(middle) = N /\ \A i \in 1..N : middle[i] = "domain_stress"
        BY <2>0 DEF Tiers
      <3> HIDE DEF middle
      <3>2. /\ <<"capability">> \in Seq(Tiers) /\ <<"operational_safety">> \in Seq(Tiers)
            /\ Len(<<"capability">>) = 1 /\ Len(<<"operational_safety">>) = 1
        BY DEF Tiers
      <3>3. /\ <<"capability">> \o middle \in Seq(Tiers)
            /\ Len(<<"capability">> \o middle) = N + 1
            /\ (<<"capability">> \o middle)[1] = "capability"
            /\ \A i \in 2..(N + 1) : (<<"capability">> \o middle)[i] = "domain_stress"
        BY <2>0, <3>1, <3>2
      <3>4. tiers \in Seq(Tiers) /\ Len(tiers) = N + 2
            /\ \A i \in 1..(N + 2) : tiers[i] = TierAt(i)
        BY <2>0, <3>2, <3>3 DEF TierAt
      <3>5. tiers = [i \in 1..(N + 2) |-> outcomes[i].tier]
        <4> HIDE DEF tiers
        <4> QED BY <2>0, <2>6, <3>4
      <3> QED BY <2>0, <2>5, <3>5 DEF middle
    <2> QED BY <2>3, <2>7, <2>8, <2>9, <2>10
  <1> QED BY <1>1, InitTiers, StepTiers, PTL DEF PipelineSpec
=============================================================================
