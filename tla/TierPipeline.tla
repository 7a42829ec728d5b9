---------------------------- MODULE TierPipeline ---------------------------
(***************************************************************************)
(* One evaluation from its first tier to its verdict: the tiers part of    *)
(* evaluate_version (services/orchestrator.py), run_tier1, run_tier2,      *)
(* run_tier3 and check_threshold (engine/tiers/), score_run                *)
(* (engine/scoring.py) and the flag rule of services/state_machine.py.     *)
(* Every tier, and every condition of tier 2, is one call of the Sandbox.  *)
(*                                                                         *)
(* What a job's predictions are worth is three facts: whether the gated    *)
(* metric is absent, below or at its minimum; whether their accounting is  *)
(* valid; whether a safety floor is breached.                              *)
(***************************************************************************)
EXTENDS Sandbox, Sequences

CONSTANT Perturbed     \* the golden set's conditions but "clean", in order
ASSUME PerturbedAssumption ==
  LET conditions == {Perturbed[i] : i \in DOMAIN Perturbed}
  IN Perturbed \in Seq(conditions) /\ "clean" \notin conditions

VARIABLES subject,    \* what is evaluated, and against what
          phase,      \* "tier1", "tier2", "tier3", "scored", "infra"
          outcomes,   \* the run's TierOutcomes
          stress,     \* those of a tier 2 that is not over
          breach,     \* safety_breach
          verdict     \* "none" until scored, and after an infra failure

tierVars == <<subject, phase, outcomes, stress, breach, verdict>>
vars == <<sandboxVars, tierVars>>

Tiers == {"capability", "domain_stress", "operational_safety"}

\* golden: a golden set is registered and its data still has its checksum.
\* ratified: the tiers whose threshold is set and ratified.
Values == {"absent", "below", "met"}
Subjects == [golden : BOOLEAN, ratified : SUBSET Tiers, declared : BOOLEAN, localizes : BOOLEAN]

\* Condition.clean first, whatever the order of the golden set's list.
Ordered == <<"clean">> \o Perturbed

PipelineInit ==
  /\ SandboxInit
  /\ subject \in Subjects
  /\ phase = "tier1" /\ outcomes = <<>> /\ stress = <<>>
  /\ breach = FALSE /\ verdict = "none"

-----------------------------------------------------------------------------
(* check_threshold, and what each tier makes of a job                      *)

\* mutant: a missing metric is below every minimum
CheckMissingFails(ratified, value) ==
  IF ratified THEN [passed |-> IF value = "met" THEN "yes" ELSE "no", unratified |-> FALSE]
  ELSE [passed |-> "open", unratified |-> TRUE]

\* passed is "yes", "no" or "open" (None: for a human to decide)
CheckThreshold(ratified, value) ==
  IF ~ratified \/ value = "absent"
  THEN [passed |-> "open", unratified |-> TRUE]
  ELSE [passed |-> IF value = "met" THEN "yes" ELSE "no", unratified |-> FALSE]

\* A TierOutcome; value, valid and unsafe are what its metrics say.
Outcome(tier, condition, check, value, valid, unsafe) ==
  [tier |-> tier, condition |-> condition, unratified |-> check.unratified,
   passed |-> IF valid THEN check.passed ELSE "no",
   value |-> value, valid |-> valid, unsafe |-> unsafe]

Scored(tier, condition, value, valid, unsafe) ==
  Outcome(tier, condition, CheckThreshold(tier \in subject.ratified, value), value, valid, unsafe)

\* mutant: what the threshold says stands though grounding was not measured
GroundedAnyway(check, measured) == check

\* run_tier3: without a measured grounding it can neither pass nor fail.
Grounded(check, measured) ==
  IF measured THEN check ELSE [passed |-> "open", unratified |-> TRUE]

\* A tier whose adapter failed is recorded with neither metrics nor threshold.
Errored(tier) ==
  Outcome(tier, "none", [passed |-> "open", unratified |-> FALSE], "absent", TRUE, FALSE)

-----------------------------------------------------------------------------
(* score_run and decide_verdict                                            *)

Passed(o) == o.passed = "yes"
Failed(o) == o.passed = "no"
In(s) == {s[i] : i \in DOMAIN s}

Flagged(os, unsafe) ==
  unsafe \/ (\E o \in In(os) : o.unratified) \/ ~subject.declared

VerdictOf(os, unsafe) ==
  IF Flagged(os, unsafe) THEN "pending_adjudication"
  ELSE IF os # <<>> /\ \A o \in In(os) : Passed(o) THEN "pass" ELSE "fail"

-----------------------------------------------------------------------------
(* evaluate_version                                                        *)

Running == phase \in {"tier1", "tier2", "tier3"}

AskSandbox ==
  /\ Running /\ answer = "none" /\ Ask
  /\ UNCHANGED tierVars

\* The answer is taken once; the call is over.
Take(what) == call = "none" /\ answer \in what /\ answer' = "none"
KeepSandbox == UNCHANGED <<setting, call, executor, container, left, outcome>>

\* SandboxError, or any other exception, what a tier does with the predictions
\* included: the run keeps the outcomes of the tiers that are over and gets no
\* verdict.
InfraFailure ==
  /\ Running /\ Take(Answers \ {"adapter_error"})
  /\ phase' = "infra"
  /\ stress' = <<>>
  /\ KeepSandbox /\ UNCHANGED <<subject, outcomes, breach, verdict>>

TierOf(p) == CASE p = "tier1" -> "capability" [] p = "tier2" -> "domain_stress"
               [] p = "tier3" -> "operational_safety"

Score(os, unsafe) == phase' = "scored" /\ verdict' = VerdictOf(os, unsafe)

\* mutant: what is there is scored
AdapterFailsScored ==
  /\ Running /\ Take({"adapter_error"})
  /\ Score(outcomes, breach)
  /\ stress' = <<>>
  /\ KeepSandbox /\ UNCHANGED <<subject, outcomes, breach>>

\* An adapter's error ends the run as infra; tiers 1 and 3 are recorded.
AdapterFails ==
  /\ Running /\ Take({"adapter_error"})
  /\ phase' = "infra"
  /\ outcomes' = IF phase = "tier2" THEN outcomes ELSE Append(outcomes, Errored(TierOf(phase)))
  /\ stress' = <<>>
  /\ KeepSandbox /\ UNCHANGED <<subject, breach, verdict>>

\* Tier 1; a failure halts.  Then the golden set: there must be one, and its
\* data must be what was registered.
Tier1 ==
  /\ phase = "tier1" /\ Take({"output"})
  /\ \E value \in Values, valid \in BOOLEAN :
       LET os == Append(outcomes, Scored("capability", "none", value, valid, FALSE)) IN
       /\ outcomes' = os
       /\ IF Failed(os[1]) THEN Score(os, FALSE)
          ELSE /\ phase' = IF subject.golden THEN "tier2" ELSE "infra"
               /\ UNCHANGED verdict
  /\ KeepSandbox /\ UNCHANGED <<subject, stress, breach>>

\* Tier2Result.passed is False
Halts(os) == \E o \in In(os) : Failed(o)

SomeBreach(before, now) == before \/ now

\* Tier 2, one condition; after the last its outcomes become the run's.
Tier2 ==
  /\ phase = "tier2" /\ Take({"output"})
  /\ \E value \in Values, valid \in BOOLEAN, unsafe \in BOOLEAN :
       LET o == Scored("domain_stress", Ordered[Len(stress) + 1], value, valid, unsafe)
           t2 == Append(stress, o)
           b == SomeBreach(breach, unsafe)
       IN /\ breach' = b
          /\ IF Len(t2) < Len(Ordered)
             THEN stress' = t2 /\ UNCHANGED <<phase, outcomes, verdict>>
             ELSE /\ stress' = <<>>
                  /\ outcomes' = outcomes \o t2
                  /\ IF Halts(t2) THEN Score(outcomes \o t2, b)
                     ELSE phase' = "tier3" /\ UNCHANGED verdict
  /\ KeepSandbox /\ UNCHANGED subject

\* Tier 3 checks no coverage; grounding is measured for localizing classes only.
Tier3 ==
  /\ phase = "tier3" /\ Take({"output"})
  /\ \E value \in Values, measured \in BOOLEAN :
       LET check == CheckThreshold("operational_safety" \in subject.ratified, value)
           o == Outcome("operational_safety", "none", Grounded(check, measured), value, TRUE, FALSE)
           os == Append(outcomes, o)
       IN /\ measured => subject.localizes
          /\ outcomes' = os
          /\ Score(os, breach)
  /\ KeepSandbox /\ UNCHANGED <<subject, stress, breach>>

PipelineStep == AskSandbox \/ InfraFailure \/ AdapterFails \/ Tier1 \/ Tier2 \/ Tier3

PipelineNext == PipelineStep \/ (SandboxStep /\ UNCHANGED tierVars)

\* The worker and the executor go on, and the wall clock of a job runs out;
\* nothing says that a job exits by itself.
PipelineFairness ==
  /\ WF_vars(PipelineStep)
  /\ WF_vars((Authorize \/ RequestFails) /\ UNCHANGED tierVars)
  /\ WF_vars(StartJob /\ UNCHANGED tierVars)
  /\ WF_vars(JobTimesOut /\ UNCHANGED tierVars)
  /\ WF_vars((Collect \/ RemoveFails) /\ UNCHANGED tierVars)
  /\ WF_vars(Deliver /\ UNCHANGED tierVars)

PipelineSpec == PipelineInit /\ [][PipelineNext]_vars /\ PipelineFairness
-----------------------------------------------------------------------------
Over == phase \in {"scored", "infra"}

PipelineTypeOK ==
  /\ setting \in Settings
  /\ call \in {"none", "asked", "waiting"}
  /\ answer \in Answers \cup {"none"}
  /\ executor \in {"idle", "gate", "running", "collecting", "answering"}
  /\ container \in {"none", "docker", "process", "exited"}
  /\ left \subseteq {"stopped", "running"}
  /\ outcome \in Answers \cup {"none"}
  /\ subject \in Subjects
  /\ phase \in {"tier1", "tier2", "tier3", "scored", "infra"}
  /\ Len(outcomes) <= Len(Ordered) + 2 /\ Len(stress) < Len(Ordered)
  /\ breach \in BOOLEAN
  /\ verdict \in {"none", "pass", "fail", "pending_adjudication"}

\* A model is approved without a human only after every tier and every
\* condition passed a ratified threshold on trusted output, on the registered
\* golden set, with grounding measured, no safety breach and declared sources.
PassIsEarned ==
  verdict = "pass" =>
    /\ [i \in 1..Len(outcomes) |-> outcomes[i].tier] =
         <<"capability">> \o [i \in 1..Len(Ordered) |-> "domain_stress"]
                          \o <<"operational_safety">>
    /\ [i \in 1..Len(Ordered) |-> outcomes[i + 1].condition] = Ordered
    /\ \A o \in In(outcomes) : Passed(o) /\ o.value = "met" /\ o.valid /\ ~o.unsafe
    /\ subject.golden /\ subject.declared /\ subject.localizes
    /\ subject.ratified = Tiers

\* A model is rejected without a human only for output that counts: some
\* outcome below a ratified minimum, or untrusted, and no flag at all
\* (state_machine.py:70-76).
FailIsTheModels ==
  verdict = "fail" =>
    /\ \E o \in In(outcomes) : ~o.valid \/ (o.value = "below" /\ o.tier \in subject.ratified)
    /\ \A o \in In(outcomes) : ~o.unratified /\ ~o.unsafe
    /\ subject.declared

\* A tier is left out of a judged run only because an earlier one failed, and
\* a run that infra stopped is not judged (FR-007, orchestrator.py:351-353);
\* after a failure no later tier has run.
NothingSkipped ==
  /\ \A i, j \in DOMAIN outcomes :
       Failed(outcomes[i]) /\ i < j => outcomes[i].tier = outcomes[j].tier
  /\ phase = "scored" /\ Len(outcomes) < Len(Ordered) + 2 => \E o \in In(outcomes) : Failed(o)
  /\ phase = "infra" => verdict = "none"
  /\ phase = "scored" => verdict # "none" /\ In(outcomes) # {}

\* The executor's job is over, and what it ran in removed or given up on, before
\* anyone has its answer and by the time the executor is free (runner.py:300-304).
NothingSurvives ==
  executor = "idle" \/ (call = "none" /\ ~setting.remote) => container = "none"

\* A model is judged only by jobs that have ended: where the daemon left one
\* running, at its start or after its time, the evaluation is infra's.
JudgedJobsEnded == phase = "scored" => "running" \notin left

\* Untrusted weights run in a container or where the operator allowed it
\* (runner.py:94-98).
UntrustedIsContained ==
  container = "process" => setting.safe \/ setting.allowUnsandboxed

\* What runs a model is where it may be, and over when its evaluation goes on.
JobsAreContained == NothingSurvives /\ JudgedJobsEnded /\ UntrustedIsContained

\* "ephemeral - nothing survives the run" (runner.py:302): no job is running when
\* its executor has answered.
NothingOutlivesItsRun == executor = "idle" => "running" \notin left

\* However a job hangs, the evaluation ends, and its executor is free of the job,
\* even when the client gave up.
EvaluationEnds == <>[](Over /\ executor = "idle" /\ container = "none")
=============================================================================
