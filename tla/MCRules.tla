------------------------------ MODULE MCRules ------------------------------
(***************************************************************************)
(* The pure decisions of the program on small inputs.                      *)
(***************************************************************************)
EXTENDS Coverage, Scores, Grounding, Intake, Access, Adapters, ModelCards, TLC

-----------------------------------------------------------------------------
(* Predictions, good and bad in every way, of two images and a stranger.   *)

Plain == [boxes |-> <<>>, scores |-> <<>>, labels |-> <<>>, masks |-> <<>>,
          classScores |-> (1 :> 1)]
Mask(score, rle) == [label |-> 1, score |-> score, rle |-> rle]

Shapes ==
  { Plain,
    [Plain EXCEPT !.classScores = (1 :> NaN) @@ (2 :> 1)],
    [Plain EXCEPT !.boxes = <<"box">>, !.scores = <<1>>, !.labels = <<1>>],
    [Plain EXCEPT !.boxes = <<"box">>, !.scores = <<1, 1>>, !.labels = <<1>>],
    [Plain EXCEPT !.boxes = <<"box", "inverted">>, !.scores = <<1, 1>>, !.labels = <<1, 2>>],
    [Plain EXCEPT !.masks = <<Mask(1, "good"), Mask(NaN, "good")>>],
    [Plain EXCEPT !.masks = <<Mask(1, "good"), Mask(1, "mismatched")>>],
    [Plain EXCEPT !.masks = <<Mask(1, "malformed")>>] }

MCPredictions == {("image" :> i) @@ s : i \in {"a", "b", "stranger"}, s \in Shapes}

MCCoverage ==
  CoverageCases(UNION {[1..n -> MCPredictions] : n \in 0..3}, {"a", "b"},
                {<<>>, 1 :> 3 @@ 2 :> 3})

MCLabels == {1, 2}
Answered == [image : {"a", "b"}, label : MCLabels \cup {None}, top : BOOLEAN]

MCClassification ==
  [kind : {"classification"}, truth : [{"a", "b"} -> MCLabels \cup {None}],
   predictions : UNION {[1..n -> Answered] : n \in 0..3}]

MCDetection ==
  [kind : {"detection"}, truths : {<<1, 1>>, <<1, 2>>},
   boxes : [1..3 -> [label : MCLabels, score : 1..2]], overlap : [1..3 -> [1..2 -> 0..2]]]

Pixels == {1, 2, 3}
Instances == [label : MCLabels \cup {None}, score : 1..2, pixels : (SUBSET Pixels) \cup {None}]

MCMasks ==
  [kind : {"masks"}, pixels : {Pixels}, instances : UNION {[1..n -> Instances] : n \in 0..2}]
  \cup [kind : {"masks"}, pixels : {{1, 2}},
        instances : [1..3 -> [label : MCLabels, score : 1..2, pixels : {{1}, {1, 2}, {2}}]]]

Segments == [label : MCLabels, score : {1}, pixels : (SUBSET {1, 2}) \ {{}}]
MCSegmentation ==
  [kind : {"segmentation"},
   truth : [{"a", "b"} -> {<<o>> : o \in Segments}],
   predictions : {<<[image |-> "a", masks |-> <<m>>], [image |-> "b", masks |-> <<n>>]>> :
                    m, n \in Segments}]

Attributions ==
  {[image |-> i, label |-> l, point |-> pe[1], energy |-> pe[2]] :
     i \in {"a", "b"}, l \in MCLabels,
     pe \in {<<None, Invalid>>, <<None, 40>>, <<{}, None>>, <<{1}, None>>,
            <<{1, 2}, 80>>, <<{2}, Invalid>>}}
Object(l, r) == [label |-> l, region |-> r]

MCGrounding ==
  [kind : {"grounding"}, modelClass : {"detection", "classification"},
   attributions : UNION {[1..n -> Attributions] : n \in 0..2},
   truth : {("a" :> <<Object(1, 1), Object(2, 2)>>) @@ ("b" :> <<Object(1, 1), Object(2, None)>>),
            ("a" :> <<Object(1, None)>>) @@ ("b" :> <<>>)},
   approved : {<<"pointing_game", "energy_inside_region">>, <<"energy_inside_region">>,
               <<"saliency", "pointing_game">>},
   minSamples : {1, 2}]

-----------------------------------------------------------------------------
(* Golden sets: data good and bad in every way under plain manifests, and  *)
(* manifests good and bad in every way over plain data.                    *)

Thing(l, bbox, rle) == [label |-> l, bbox |-> bbox, rle |-> rle]
Things ==
  {Thing(1, "box", None), Thing(2, "box", "small"), Thing(1, "null", None),
   Thing(1, "malformed", None), Thing(None, "box", "small"), Thing(1, None, "small"),
   Thing(1, None, "large"), Thing(1, None, "malformed"), Thing(2, None, None)}
ObjectLists ==
  {None, <<>>, <<Thing(1, "box", "small"), Thing(2, "box", "large")>>,
   <<Thing(2, "box", "large"), Thing(1, None, "large")>>} \cup {<<o>> : o \in Things}
MCData ==
  [files : UNION {[1..n -> [stem : {"a", "b"}, size : {None, "small", "large"}]] : n \in 0..2},
   annotations : {None} \cup UNION {[ids -> ObjectLists] : ids \in SUBSET {"a", "b"}}]

Manifest(modelClass, safety, recallFloors, iouFloors) ==
  [modelClass |-> modelClass, safety |-> safety, recallFloors |-> recallFloors,
   iouFloors |-> iouFloors, public |-> FALSE, permissive |-> TRUE, taken |-> FALSE,
   beneathRoots |-> TRUE, checksum |-> "auto"]

FloorMaps == {<<>>, 1 :> 0, 1 :> 50, 1 :> 101, 2 :> NaN, (1 :> 50) @@ (2 :> 0)}

MCIntake ==
  [kind : {"intake"}, data : MCData,
   manifest : {Manifest(c, {1}, 1 :> 50, <<>>) :
                 c \in {"detection", "classification", "segmentation"}}]
  \cup
  [kind : {"intake"},
   data : {[files |-> <<[stem |-> "a", size |-> "small"]>>,
            annotations |-> ("a" :> <<Thing(1, "box", "small"), Thing(2, None, "small")>>)]},
   manifest : [modelClass : {"detection", "segmentation"}, safety : SUBSET MCLabels,
               recallFloors : FloorMaps, iouFloors : FloorMaps, public : BOOLEAN,
               permissive : BOOLEAN, taken : BOOLEAN, beneathRoots : BOOLEAN,
               checksum : {"auto", "computed", "other"}]]

-----------------------------------------------------------------------------
(* One caller, two versions of one model or of two, up to two runs.        *)

MCAccess ==
  {c \in [kind : {"access"}, key : {"me"}, roles : SUBSET Role,
          versions : [{"v", "w"} -> [owner : {"me", "other"}, model : {"m", "n"},
                                     awaiting : BOOLEAN]],
          registrar : {"me", "other"},
          runs : UNION {[1..n -> [version : {"v", "w"}, flagged : BOOLEAN,
                                  onGolden : BOOLEAN]] : n \in 0..2}] :
     c.versions["v"].model = "m" /\ Possible(c)}

-----------------------------------------------------------------------------
(* Every declared pair of a class and a framework.                         *)

MCPairs ==
  [kind : {"pair"}, class : ModelClass \cup {"unknown"},
   framework : SupportedFrameworks \cup {"keras"}]

-----------------------------------------------------------------------------
(* Texts an author may leave above the machine block, and runs a reviewer  *)
(* decides on, with an older run before them.                              *)

MCTexts == [kind : {"text"}, human : UNION {[1..n -> {"word", "blank", "begin"}] : n \in 1..4}]

MCRows ==
  {[tier |-> "capability", passed |-> p, minimum |-> None, unsafe |-> FALSE,
    grounding |-> None, mode |-> m, readable |-> r] :
     p \in {"yes", "no", "open"}, m \in {"docker", "subprocess"}, r \in BOOLEAN}
MCStressRows ==
  {[tier |-> "domain_stress", passed |-> "open", minimum |-> "50", unsafe |-> u,
    grounding |-> None, mode |-> m, readable |-> r] :
     u \in BOOLEAN, m \in {"docker", "subprocess"}, r \in BOOLEAN}
MCOpsRows ==
  {[tier |-> "operational_safety", passed |-> p, minimum |-> "50", unsafe |-> FALSE,
    grounding |-> g, mode |-> "docker", readable |-> r] :
     p \in {"yes", "open"}, g \in {"measured", "unavailable"}, r \in BOOLEAN}

MCRuns ==
  [verdict : {"pending_adjudication"}, golden : {None, "golden"},
   outcomes : {<<t>> : t \in MCRows} \cup {<<t, u>> : t \in MCRows, u \in MCStressRows}
              \cup {<<t, u, v>> : t \in MCRows, u \in MCStressRows, v \in MCOpsRows}]
MCEarlier ==
  [verdict |-> None, golden |-> "golden",
   outcomes |-> <<[tier |-> "capability", passed |-> "open", minimum |-> "70", unsafe |-> TRUE,
                   grounding |-> None, mode |-> "docker", readable |-> TRUE]>>]

MCCards ==
  [kind : {"card"}, runs : {<<r>> : r \in MCRuns} \cup {<<MCEarlier, r>> : r \in MCRuns}]

Init == case = NoCase
Next ==
  \/ Consider(MCCoverage)
  \/ Consider(MCClassification)
  \/ Consider(MCDetection)
  \/ Consider(MCMasks)
  \/ Consider(MCSegmentation)
  \/ Consider(MCGrounding)
  \/ Consider(MCIntake)
  \/ Consider(MCAccess)
  \/ Consider(MCPairs)
  \/ Consider(MCTexts)
  \/ Consider(MCCards)
Spec == Init /\ [][Next]_case
=============================================================================
