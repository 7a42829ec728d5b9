------------------------------ MODULE Coverage -----------------------------
(***************************************************************************)
(* Which predictions count: compute_coverage of engine/metrics/coverage.py *)
(* and canonicalize of engine/metrics/__init__.py, which runs before it.   *)
(*                                                                         *)
(* A prediction is a record                                                *)
(*   image, boxes (sequence of "box", "inverted", "nonfinite"), scores     *)
(*   (sequence of numbers), labels (sequence), masks (sequence of records  *)
(*   [label, score, rle]), classScores (label -> number).                  *)
(* A number is a natural or NaN; an rle is "good", "malformed" or, against *)
(* an image whose size is known, "mismatched".                             *)
(***************************************************************************)
EXTENDS Cases, Naturals, Sequences, FiniteSets, SequencesExt, FiniteSetsExt

CONSTANTS MaxIssueExamples,  \* MAX_ISSUE_EXAMPLES
          NaN                \* any value that is not finite
ASSUME IssuesAssumption == MaxIssueExamples \in Nat \ {0}
ASSUME NaNAssumption == NaN \notin Nat

LOCAL InSeq(s) == {s[i] : i \in DOMAIN s}

-----------------------------------------------------------------------------
\* _add_issue: a list of examples stops growing at its bound.
AddIssue(issues, code, image) ==
  IF Len(issues) < MaxIssueExamples
  THEN Append(issues, [code |-> code, image |-> image]) ELSE issues

Listed(predictions, bad, code) ==
  FoldLeft(LAMBDA issues, p : IF p \in bad THEN AddIssue(issues, code, p.image) ELSE issues,
           <<>>, predictions)

\* score_issues: a score, a class score or the score of a mask is not finite.
BadScore(p) ==
  NaN \in InSeq(p.scores) \cup {p.classScores[l] : l \in DOMAIN p.classScores}
            \cup {m.score : m \in InSeq(p.masks)}

\* shape_issues: lists of different lengths, or a box that is none.
BadShape(p) ==
  /\ Len(p.boxes) + Len(p.scores) + Len(p.labels) > 0
  /\ \/ Len(p.boxes) # Len(p.scores) \/ Len(p.scores) # Len(p.labels)
     \/ \E b \in InSeq(p.boxes) : b # "box"

\* mask_issues, _validate_mask: sized is where the ground truth gives a size.
BadMask(p, sized) ==
  \E m \in InSeq(p.masks) : m.rle = "malformed" \/ (m.rle = "mismatched" /\ p.image \in sized)

WithBadScore(predictions) == {p \in InSeq(predictions) : BadScore(p)}
WithBadShape(predictions) == {p \in InSeq(predictions) : BadShape(p)}
WithBadMask(predictions, sized) == {p \in InSeq(predictions) : BadMask(p, sized)}

Received(predictions, image) == Cardinality({i \in DOMAIN predictions : predictions[i].image = image})

\* The images predicted, in the order of their first prediction.
Seen(predictions) ==
  FoldLeft(LAMBDA s, p : IF p.image \in InSeq(s) THEN s ELSE Append(s, p.image), <<>>, predictions)

\* Duplicates, unexpected and missing images share one list of examples.
SeenIssues(predictions, expected) ==
  LET Strange(issues, i) == IF i \in expected THEN issues
                            ELSE AddIssue(issues, "unexpected_prediction", i)
      Repeated(issues, i) == IF Received(predictions, i) = 1 THEN issues
                             ELSE AddIssue(issues, "duplicate_prediction", i)
  IN FoldLeft(LAMBDA issues, i : Strange(Repeated(issues, i), i), <<>>, Seen(predictions))

AccountingIssues(predictions, expected) ==
  FoldLeft(LAMBDA issues, i : AddIssue(issues, "missing_prediction", i),
           SeenIssues(predictions, expected), SetToSeq(expected \ InSeq(Seen(predictions))))

FatalCodes == {"nan_score", "malformed_output", "bad_mask"}

\* mutant: every issue goes into the one bounded list
OneListOfIssues(predictions, expected, sized) ==
  LET Further(issues, more) ==
        FoldLeft(LAMBDA acc, i : AddIssue(acc, i.code, i.image), issues, more)
  IN Further(Further(Further(AccountingIssues(predictions, expected),
       Listed(predictions, WithBadScore(predictions), "nan_score")),
       Listed(predictions, WithBadShape(predictions), "malformed_output")),
       Listed(predictions, WithBadMask(predictions, sized), "bad_mask"))

IssuesOf(predictions, expected, sized) ==
  AccountingIssues(predictions, expected)
    \o Listed(predictions, WithBadScore(predictions), "nan_score")
    \o Listed(predictions, WithBadShape(predictions), "malformed_output")
    \o Listed(predictions, WithBadMask(predictions, sized), "bad_mask")

Duplicates(predictions) ==
  FoldLeft(LAMBDA n, i : n + (Received(predictions, i) - 1), 0, Seen(predictions))

ComputeCoverage(predictions, expected, sized) ==
  LET seen == InSeq(Seen(predictions))
      issues == IssuesOf(predictions, expected, sized)
  IN [expected |-> Cardinality(expected), received |-> Len(predictions),
      scored |-> Cardinality(seen \cap expected), missing |-> Cardinality(expected \ seen),
      duplicate |-> Duplicates(predictions), unexpected |-> Cardinality(seen \ expected),
      issues |-> issues,
      valid |-> /\ Duplicates(predictions) = 0 /\ seen \subseteq expected
                /\ \A i \in InSeq(issues) : i.code \notin FatalCodes]

-----------------------------------------------------------------------------
(* canonicalize                                                            *)

Mapped(labelMap, label) == IF label \in DOMAIN labelMap THEN labelMap[label] ELSE label

\* NaN and whatever is added to it are not finite.
Plus(x, y) == IF NaN \in {x, y} THEN NaN ELSE x + y

\* Labels that map to one label have their scores added up.
MergedScores(scores, labelMap) ==
  [l \in {Mapped(labelMap, k) : k \in DOMAIN scores} |->
    FoldSet(LAMBDA k, sum : Plus(scores[k], sum), 0,
            {k \in DOMAIN scores : Mapped(labelMap, k) = l})]

\* Without a map the predictions stay as they are.
Canonicalize(predictions, labelMap) ==
  [i \in DOMAIN predictions |->
    LET p == predictions[i] IN
    [p EXCEPT !.labels = [j \in DOMAIN p.labels |-> Mapped(labelMap, p.labels[j])],
              !.classScores = MergedScores(p.classScores, labelMap),
              !.masks = [j \in DOMAIN p.masks |->
                          [p.masks[j] EXCEPT !.label = Mapped(labelMap, p.masks[j].label)]]]]

-----------------------------------------------------------------------------
CoverageCases(predictions, images, labelMaps) ==
  [kind : {"coverage"}, predictions : predictions, expected : SUBSET images,
   sized : {{}, images}, labelMap : labelMaps]

\* The output is trusted exactly when it has at most one prediction per image,
\* none of an unknown image, and no value, box or mask that is none; neither
\* the number of examples kept (coverage.py:26) nor the label map, through
\* which the predictions went before (coverage.py:211-213), may decide.
ValidIsExact ==
  Is("coverage") =>
    LET predictions == case.predictions IN
    ComputeCoverage(Canonicalize(predictions, case.labelMap), case.expected, case.sized).valid
      <=> /\ IsInjective([i \in DOMAIN predictions |-> predictions[i].image])
          /\ \A p \in InSeq(predictions) :
               /\ p.image \in case.expected
               /\ ~BadScore(p) /\ ~BadShape(p) /\ ~BadMask(p, case.sized)

\* Every expected image and every prediction received is accounted for once
\* (coverage.py:3-6).
EveryItemIsCounted ==
  Is("coverage") =>
    LET c == ComputeCoverage(case.predictions, case.expected, case.sized) IN
    /\ c.expected = c.scored + c.missing
    /\ c.received = c.scored + c.unexpected + c.duplicate

\* The accounting says what came in, and what it says decides nothing else.
AccountingIsExact == ValidIsExact /\ EveryItemIsCounted
=============================================================================
