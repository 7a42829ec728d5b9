------------------------------- MODULE Scores ------------------------------
(***************************************************************************)
(* The scorers of engine/metrics/ up to their ratios: classification.py,   *)
(* the greedy matching of detection.py behind the recall floors, and       *)
(* segmentation.py.                                                        *)
(*                                                                         *)
(* Rounding to four digits is left out.  A ratio is scaled by Scale, which *)
(* the denominators of the cases divide, so that ratios can be added up.   *)
(***************************************************************************)
EXTENDS Cases, Naturals, Integers, Sequences, FiniteSets, SequencesExt, FiniteSetsExt

CONSTANT Label      \* the dataset's label space, a set of naturals

Scale == 60

Ratio(part, whole) == IF whole = 0 THEN 0 ELSE (part * Scale) \div whole

Total(S, Of(_)) == FoldSet(LAMBDA x, n : n + Of(x), 0, S)

Without(s, i) == SubSeq(s, 1, i - 1) \o SubSeq(s, i + 1, Len(s))

\* by_id: of several predictions of an image the first counts.
Kept(predictions, image) ==
  LET of == {i \in DOMAIN predictions : predictions[i].image = image} IN
  IF of = {} THEN None ELSE predictions[Min(of)]

-----------------------------------------------------------------------------
(* evaluate_classification.  truth[image] is the label of the image, None  *)
(* for one without an object.  top says that the truth is among the five   *)
(* best class scores.                                                      *)

\* mutant: what was not predicted does not count
ScoredOnlyPredicted(truth, predictions) ==
  {i \in DOMAIN truth : truth[i] # None /\ Kept(predictions, i) # None}

ScoredImages(truth, predictions) == {i \in DOMAIN truth : truth[i] # None}

Hits(truth, predictions) ==
  {i \in ScoredImages(truth, predictions) :
     Kept(predictions, i) # None /\ Kept(predictions, i).label = truth[i]}

Top5Hits(truth, predictions) ==
  {i \in ScoredImages(truth, predictions) :
     Kept(predictions, i) # None /\ (Kept(predictions, i).top \/ Kept(predictions, i).label = truth[i])}

Top1(truth, predictions) ==
  Ratio(Cardinality(Hits(truth, predictions)), Cardinality(ScoredImages(truth, predictions)))

Top5(truth, predictions) ==
  Ratio(Cardinality(Top5Hits(truth, predictions)), Cardinality(ScoredImages(truth, predictions)))

\* Of one label: true positives, misses, and wrong answers with that label.
Tp(truth, predictions, l) == Cardinality({i \in Hits(truth, predictions) : truth[i] = l})
Fn(truth, predictions, l) ==
  Cardinality({i \in ScoredImages(truth, predictions) \ Hits(truth, predictions) : truth[i] = l})
Fp(truth, predictions, l) ==
  Cardinality({i \in ScoredImages(truth, predictions) \ Hits(truth, predictions) :
                 Kept(predictions, i) # None /\ Kept(predictions, i).label = l})

RecallOf(truth, predictions, l) ==
  LET tp == Tp(truth, predictions, l) IN Ratio(tp, tp + Fn(truth, predictions, l))

\* 2PR / (P + R) is 2tp / (2tp + fp + fn).
F1(truth, predictions, l) ==
  LET tp == Tp(truth, predictions, l) IN
  Ratio(2 * tp, 2 * tp + Fp(truth, predictions, l) + Fn(truth, predictions, l))

\* The mean over the labels that occur, as a pair <<sum, count>>.
MacroF1(truth, predictions) ==
  LET seen == {l \in Label : Tp(truth, predictions, l) + Fn(truth, predictions, l)
                               + Fp(truth, predictions, l) > 0}
  IN <<Total(seen, LAMBDA l : F1(truth, predictions, l)), Cardinality(seen)>>

\* The mean of no value is zero.
Higher(mean, other) ==
  IF other[2] = 0 THEN mean[1] > 0 ELSE mean[1] * other[2] > other[1] * mean[2]

-----------------------------------------------------------------------------
(* _match_counts for one image.  boxes[i] is [label, score], truths[j] a   *)
(* label; overlap[i][j] ranks their IoU, 0 when it is below the threshold. *)

Ahead(boxes, i, j) ==
  boxes[i].score > boxes[j].score \/ (boxes[i].score = boxes[j].score /\ i < j)

\* sorted by falling score, equal ones in the order they are given
ByScore(boxes) ==
  CHOOSE order \in SetToSeqs(DOMAIN boxes) :
    \A a, b \in DOMAIN order : a < b => Ahead(boxes, order[a], order[b])

\* mutant: used is not looked at
MatchableAgain(boxes, truths, overlap, i, matched) ==
  {j \in DOMAIN truths : truths[j] = boxes[i].label /\ overlap[i][j] > 0}

Matchable(boxes, truths, overlap, i, matched) ==
  {j \in DOMAIN truths : /\ truths[j] = boxes[i].label /\ overlap[i][j] > 0
                         /\ \A m \in matched : m[2] # j}

\* Of several free objects the one of the highest IoU, the last of equal ones.
MatchOne(boxes, truths, overlap, matched, i) ==
  LET free == Matchable(boxes, truths, overlap, i, matched)
      best == Max({overlap[i][j] : j \in free})
  IN IF free = {} THEN matched
     ELSE matched \cup {<<i, Max({j \in free : overlap[i][j] = best})>>}

Matched(boxes, truths, overlap) ==
  FoldLeft(LAMBDA matched, i : MatchOne(boxes, truths, overlap, matched, i), {}, ByScore(boxes))

TruePositives(boxes, truths, overlap, l) ==
  Cardinality({m \in Matched(boxes, truths, overlap) : boxes[m[1]].label = l})

-----------------------------------------------------------------------------
(* segmentation.py.  An instance is [label, score, pixels]; pixels is None *)
(* when the mask does not decode at the image's size.                      *)

Unpainted == [claimed |-> {}, area |-> [l \in Label |-> {}]]

\* mutant: pixels that belong to a more confident instance are painted over
PaintOver(semantic, inst) ==
  IF inst.label = None \/ inst.pixels \in {None, {}} THEN semantic
  ELSE [semantic EXCEPT !.area[inst.label] = @ \cup inst.pixels]

\* One step of reduce_instances_to_semantic.
Paint(semantic, inst) ==
  IF \/ inst.label = None \/ inst.pixels = None
     \/ inst.pixels \subseteq semantic.claimed
  THEN semantic
  ELSE [claimed |-> semantic.claimed \cup inst.pixels,
        area |-> [semantic.area EXCEPT ![inst.label] = @ \cup (inst.pixels \ semantic.claimed)]]

Semantic(instances) ==
  FoldLeft(LAMBDA s, i : Paint(s, instances[i]), Unpainted, ByScore(instances)).area

\* _reduce_gt_to_semantic
TruthArea(objects, l) ==
  UNION {objects[i].pixels : i \in {k \in DOMAIN objects : objects[k].label = l}}

\* Pixels of all images; a missing prediction is an empty mask.
SemanticOf(predictions, image) ==
  LET p == Kept(predictions, image) IN Semantic(IF p = None THEN <<>> ELSE p.masks)

Intersection(truth, predictions, l) ==
  Total(DOMAIN truth, LAMBDA i :
    Cardinality(TruthArea(truth[i], l) \cap SemanticOf(predictions, i)[l]))
Union(truth, predictions, l) ==
  Total(DOMAIN truth, LAMBDA i :
    Cardinality(TruthArea(truth[i], l) \cup SemanticOf(predictions, i)[l]))

\* The mean over the classes of the ground truth that have a pixel, as a pair.
MeanIoU(truth, predictions) ==
  LET classes == {l \in Label : /\ \E i \in DOMAIN truth : \E k \in DOMAIN truth[i] : truth[i][k].label = l
                                /\ Union(truth, predictions, l) > 0}
  IN
  <<Total(classes, LAMBDA l :
            Ratio(Intersection(truth, predictions, l), Union(truth, predictions, l))),
    Cardinality(classes)>>

-----------------------------------------------------------------------------
Unrepeated(predictions) == IsInjective([i \in DOMAIN predictions |-> predictions[i].image])

\* Leaving out a prediction raises neither the accuracies nor the recall that
\* a floor guards (classification.py:3-6).
OmissionNeverHelps ==
  Is("classification") /\ Unrepeated(case.predictions) =>
    \A i \in DOMAIN case.predictions :
      LET fewer == Without(case.predictions, i) IN
      /\ Top1(case.truth, fewer) <= Top1(case.truth, case.predictions)
      /\ Top5(case.truth, fewer) <= Top5(case.truth, case.predictions)
      /\ \A l \in Label : RecallOf(case.truth, fewer, l) <= RecallOf(case.truth, case.predictions, l)

\* Matching by falling confidence never finds more objects than there are, and
\* none of a class is found because a box was left out (detection.py:49-84).
RecallIsNotInflated ==
  Is("detection") =>
    \A l \in Label :
      LET found == TruePositives(case.boxes, case.truths, case.overlap, l) IN
      /\ found <= Cardinality({j \in DOMAIN case.truths : case.truths[j] = l})
      /\ \A i \in DOMAIN case.boxes :
           TruePositives(Without(case.boxes, i), case.truths, Without(case.overlap, i), l) <= found

\* A pixel belongs to one class: that of the most confident of the instances
\* that cover it, the earlier of equally confident ones (segmentation.py:116-119).
OwnerIsMostConfident ==
  Is("masks") =>
    LET covering(x) == {i \in DOMAIN case.instances :
                          /\ case.instances[i].label # None
                          /\ case.instances[i].pixels # None
                          /\ x \in case.instances[i].pixels}
        first(S) == CHOOSE i \in S : \A j \in S :
                      \/ case.instances[i].score > case.instances[j].score
                      \/ case.instances[i].score = case.instances[j].score /\ i <= j
    IN \A l \in Label, x \in case.pixels :
         x \in Semantic(case.instances)[l]
           <=> covering(x) # {} /\ case.instances[first(covering(x))].label = l

\* "omitting or duplicating predictions can never improve a score"
\* (coverage.py:3-5): stated of the macro F1 and of the mean IoU.
OmissionNeverImproves ==
  /\ Is("classification") /\ Unrepeated(case.predictions) =>
       \A i \in DOMAIN case.predictions :
         ~Higher(MacroF1(case.truth, Without(case.predictions, i)), MacroF1(case.truth, case.predictions))
  /\ Is("segmentation") /\ Unrepeated(case.predictions) =>
       \A i \in DOMAIN case.predictions :
         ~Higher(MeanIoU(case.truth, Without(case.predictions, i)), MeanIoU(case.truth, case.predictions))
=============================================================================
