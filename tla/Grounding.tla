----------------------------- MODULE Grounding -----------------------------
(***************************************************************************)
(* Whether visual grounding was measured, and how well: evaluate_grounding *)
(* of engine/metrics/grounding.py and its use in engine/tiers/tier3_ops.py.*)
(*                                                                         *)
(* A target is an annotated object [label, region], region None where it   *)
(* has no box.  An attribution is a record                                 *)
(*   image, label,                                                         *)
(*   point  (None where absent or not finite; else the set of regions it   *)
(*           lies in),                                                     *)
(*   energy (None, the percentage inside the region, or Invalid).          *)
(* Scores are percentages.                                                 *)
(***************************************************************************)
EXTENDS Cases, Naturals, Sequences, FiniteSets, SequencesExt, FiniteSetsExt

CONSTANT Invalid   \* a fraction that is not finite or not in [0, 1]
ASSUME InvalidAssumption == Invalid \notin Nat \cup {None}

GroundingMethods == {"pointing_game", "energy_inside_region"}
ASSUME NoMethodAssumption == None \notin GroundingMethods

NotApplicable == [score |-> None, n |-> 0]

\* All the objects that can be pointed at, of every annotated image.
Targets(truth) ==
  UNION {{<<i, k>> : k \in {m \in DOMAIN truth[i] : truth[i][m].region # None}} :
           i \in DOMAIN truth}

\* mutant: only the images that have an attribution are counted
TargetsPointedAt(attributions, truth) ==
  {t \in Targets(truth) :
     \E i \in DOMAIN attributions :
       attributions[i].image = t[1] /\ attributions[i].point # None}

CountedTargets(attributions, truth) == Targets(truth)

PointingGame(attributions, truth) ==
  LET pointed == {a \in ToSet(attributions) : a.point # None}
      targets == CountedTargets(attributions, truth)
      hits == {t \in targets : \E a \in pointed :
                 /\ a.image = t[1]
                 /\ a.label = truth[t[1]][t[2]].label
                 /\ truth[t[1]][t[2]].region \in a.point}
  IN IF pointed = {} \/ targets = {} THEN NotApplicable
     ELSE [score |-> (Cardinality(hits) * 100) \div Cardinality(targets),
           n |-> Cardinality(targets)]

Maps(attributions) == {i \in DOMAIN attributions : attributions[i].energy # None}

Mean(attributions) ==
  LET maps == Maps(attributions)
  IN MapThenSumSet(LAMBDA i : attributions[i].energy, maps) \div Cardinality(maps)

\* One invalid fraction makes the whole evidence invalid.
MeanEnergy(attributions) ==
  IF \E i \in Maps(attributions) : attributions[i].energy = Invalid
  THEN Invalid ELSE Mean(attributions)

EnergyInsideRegion(attributions) ==
  LET maps == Maps(attributions)
  IN IF maps = {} THEN NotApplicable
     ELSE [score |-> MeanEnergy(attributions), n |-> Cardinality(maps)]

\* A method without an implementation applies to nothing.
Apply(method, attributions, truth) ==
  CASE method = "pointing_game" -> PointingGame(attributions, truth)
    [] method = "energy_inside_region" -> EnergyInsideRegion(attributions)
    [] OTHER -> NotApplicable

UnavailableBecause(reason, n) ==
  [status |-> "unavailable", reason |-> reason, method |-> None, score |-> None, n |-> n]

EvaluateGrounding(attributions, truth, approved, minSamples) ==
  LET applicable == {k \in DOMAIN approved : Apply(approved[k], attributions, truth).n # 0}
      method == approved[Min(applicable)]
      found == Apply(method, attributions, truth)
  IN CASE applicable = {} -> UnavailableBecause("missing_attribution", 0)
       [] applicable # {} /\ found.n < minSamples ->
            UnavailableBecause("insufficient_samples", found.n)
       [] applicable # {} /\ found.n >= minSamples /\ found.score = Invalid ->
            UnavailableBecause("invalid_evidence", found.n)
       [] OTHER -> [status |-> "measured", reason |-> None, method |-> method,
                    score |-> found.score, n |-> found.n]

\* _grounding_evidence: the attributions of all predictions, in order, of a
\* class that has something to localize.
GroundingEvidence(modelClass, attributions, truth, approved, minSamples) ==
  IF modelClass # "detection" THEN UnavailableBecause("unsupported_model_class", 0)
  ELSE EvaluateGrounding(attributions, truth, approved, minSamples)

-----------------------------------------------------------------------------
EvidenceOf(c) ==
  GroundingEvidence(c.modelClass, c.attributions, c.truth, c.approved, c.minSamples)

\* Saying less is never better grounded (grounding.py:13-15): without any one
\* of its attributions a model has no higher pointing score, and not fewer
\* samples, than with it.
SilenceIsNotGrounding ==
  Is("grounding") =>
    \A i \in DOMAIN case.attributions :
      LET full == EvidenceOf(case)
          less == EvidenceOf([case EXCEPT !.attributions = RemoveAt(@, i)])
      IN ("pointing_game" \in {full.method, less.method} /\ full.method = less.method)
           => less.score <= full.score /\ less.n = full.n

\* A measured score rests on localization evidence alone (grounding.py:3-6):
\* an approved method, samples enough, no invalid value among the maps it
\* averages, and none where no object can be localized.
MeasuredOnEvidence ==
  (Is("grounding") /\ EvidenceOf(case).status = "measured") =>
    LET e == EvidenceOf(case) IN
    /\ e.method \in ToSet(case.approved) \cap GroundingMethods
    /\ e.n >= case.minSamples /\ e.score \in 0..100
    /\ \/ /\ e.method = "pointing_game"
          /\ \E a \in ToSet(case.attributions) : a.point # None
          /\ e.score > 0 => \E a \in ToSet(case.attributions), t \in Targets(case.truth) :
               a.image = t[1] /\ a.point # None /\ case.truth[t[1]][t[2]].region \in a.point
       \/ /\ e.method = "energy_inside_region"
          /\ \A a \in ToSet(case.attributions) : a.energy # Invalid

\* Grounding is measured on what a model points at, or not at all.
GroundingIsEvidence == SilenceIsNotGrounding /\ MeasuredOnEvidence
=============================================================================
