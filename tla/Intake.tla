------------------------------- MODULE Intake ------------------------------
(***************************************************************************)
(* What a golden set must be to be registered, and what an evaluation on   *)
(* it can then rely on: register_golden_set of api/golden_sets.py,         *)
(* validate_dataset of engine/datasets.py, perturb_dataset of              *)
(* engine/perturb/transforms.py, and the recall and IoU floors of          *)
(* engine/metrics/__init__.py.                                             *)
(*                                                                         *)
(* A dataset is a record                                                   *)
(*   files        sequence of [stem, size], in the order of their names;   *)
(*                size is None where the image cannot be read              *)
(*   annotations  id -> sequence of objects, None in place of a value that *)
(*                is no list; None for a file that is missing or no JSON   *)
(* and an object [label, bbox, rle]: label None where there is no string,  *)
(* bbox None, "null", "malformed" or "box", rle None, "malformed" or the   *)
(* size of the mask.  Scores and floors are percentages.                   *)
(***************************************************************************)
EXTENDS Coverage

Stems(files) == {files[i].stem : i \in DOMAIN files}

\* _image_dims: of two readable files with one stem the later one counts.
ImageSize(files, id) ==
  LET readable == {i \in DOMAIN files : files[i].stem = id /\ files[i].size # None}
  IN IF readable = {} THEN None ELSE files[Max(readable)].size

\* mutant: a mask of any size is good
AnyMask(files, id, object) == object.rle \notin {None, "malformed"}

\* A mask that decodes, and as large as the image where that can be read.
GoodMask(files, id, object) ==
  /\ object.rle \notin {None, "malformed"}
  /\ ImageSize(files, id) \in {None, object.rle}

Conforming(data, requireMasks) ==
  LET ann == data.annotations IN
  /\ ann # None
  /\ \A id \in DOMAIN ann :
       /\ ann[id] # None
       /\ \A object \in ToSet(ann[id]) :
            /\ object.label # None
            /\ object.bbox # "malformed"
            /\ requireMasks => GoodMask(data.files, id, object)
  /\ data.files # <<>>
  /\ DOMAIN ann = Stems(data.files)

-----------------------------------------------------------------------------
IsSegmentation(manifest) == manifest.modelClass = "segmentation"

\* An empty floor map is no floor map.
FloorsOf(manifest) ==
  IF IsSegmentation(manifest) /\ manifest.iouFloors # <<>>
  THEN manifest.iouFloors ELSE manifest.recallFloors

SoundFloor(floor) == floor # NaN /\ floor \in 0..100

\* register: every check of it must pass before the set is stored.
Registers(manifest, data) ==
  /\ ~manifest.public
  /\ manifest.permissive
  /\ manifest.safety \subseteq DOMAIN FloorsOf(manifest)
  /\ \A l \in DOMAIN FloorsOf(manifest) : SoundFloor(FloorsOf(manifest)[l])
  /\ ~manifest.taken
  /\ manifest.beneathRoots
  /\ Conforming(data, IsSegmentation(manifest))
  /\ manifest.checksum \in {"auto", "computed"}

-----------------------------------------------------------------------------
(* An evaluation on the set.                                               *)

\* perturb_dataset: every image is opened and saved as <stem>.png.
Perturbed(files) ==
  LET stems == SetToSeq(Stems(files))
  IN [k \in DOMAIN stems |->
       [stem |-> stems[k], size |-> files[Max({i \in DOMAIN files : files[i].stem = stems[k]})].size]]

\* _expected_dims: the first mask of an image gives its size.
Canvas(objects) ==
  LET masks == {k \in DOMAIN objects : objects[k].rle \notin {None, "malformed"}}
  IN IF masks = {} THEN None ELSE objects[Min(masks)].rle

\* What a faithful model answers: each file once, a mask as large as its image.
Faithful(files, annotations, modelClass) ==
  [i \in DOMAIN files |->
    [image |-> files[i].stem, boxes |-> <<>>, scores |-> <<>>, labels |-> <<>>,
     classScores |-> <<>>,
     masks |-> IF modelClass # "segmentation" THEN <<>>
               ELSE <<[label |-> 1, score |-> 1,
                       rle |-> IF Canvas(annotations[files[i].stem]) \in {None, files[i].size}
                               THEN "good" ELSE "mismatched"]>>]]

Sized(annotations) == {id \in DOMAIN annotations : Canvas(annotations[id]) # None}

\* An image that cannot be read ends the perturbation or the adapter, a box
\* that is null ends evaluate_detection.
Readable(data) == \A i \in DOMAIN data.files : data.files[i].size # None
Boxed(data, modelClass) ==
  modelClass = "detection" =>
    \A id \in DOMAIN data.annotations : \A o \in ToSet(data.annotations[id]) : o.bbox # "null"

Trusted(files, annotations, modelClass) ==
  LET c == ComputeCoverage(Faithful(files, annotations, modelClass),
                           DOMAIN annotations, Sized(annotations))
  IN c.valid /\ c.missing = 0

Scorable(data, modelClass) ==
  /\ Readable(data) /\ Boxed(data, modelClass)
  /\ Trusted(data.files, data.annotations, modelClass)
  /\ Trusted(Perturbed(data.files), data.annotations, modelClass)

-----------------------------------------------------------------------------
(* safety_critical_floors                                                  *)

BelowFloor(perClass, floors, l) ==
  \/ l \notin DOMAIN perClass \/ l \notin DOMAIN floors
  \/ perClass[l] < floors[l]

Breach(perClass, safety, floors) == \E l \in safety : BelowFloor(perClass, floors, l)

\* The classes a class of model is measured on.
Measured(annotations, modelClass) ==
  {o.label : o \in UNION
    {CASE modelClass = "detection" -> {p \in ToSet(annotations[id]) : p.bbox # None}
       [] modelClass = "segmentation" -> {p \in ToSet(annotations[id]) : p.rle # None}
       [] OTHER -> {annotations[id][k] : k \in DOMAIN annotations[id] \cap {1}}
     : id \in DOMAIN annotations}}

-----------------------------------------------------------------------------
Registered == Is("intake") /\ Registers(case.manifest, case.data)

\* What registration lets in no later evaluation crashes or discounts
\* (datasets.py:120-122, golden_sets.py:100-102): a faithful model is trusted
\* on the set and on its perturbed copies.  Here with the image files and boxes
\* that registration leaves unchecked in order.
RegisteredIsScorable ==
  (Registered /\ Readable(case.data) /\ Boxed(case.data, case.manifest.modelClass)
     /\ Cardinality(Stems(case.data.files)) = Len(case.data.files))
  => Scorable(case.data, case.manifest.modelClass)

\* The floors of a registered set decide (golden_sets.py:66-68): a model that is
\* perfect on every class the data measures is in breach only of a safety class
\* the data does not have, one that never finds a class is in breach of it
\* unless its floor is zero.
FloorsDecide ==
  Registered =>
    LET safety == case.manifest.safety
        floors == FloorsOf(case.manifest)
        measured == Measured(case.data.annotations, case.manifest.modelClass)
        perfect == [l \in measured |-> 100]
    IN /\ Breach(perfect, safety, floors) <=> ~(safety \subseteq measured)
       /\ \A l \in safety \cap measured :
            Breach([perfect EXCEPT ![l] = 0], {l}, floors) <=> floors[l] # 0

\* A registration is worth evaluating on: its data score, its floors decide.
RegistrationIsSound == RegisteredIsScorable /\ FloorsDecide
=============================================================================
