------------------------------ MODULE Adapters ------------------------------
(***************************************************************************)
(* What a submission may declare and what its artifact then does: the      *)
(* checks of submit_model (api/models.py), _validate_extension             *)
(* (services/artifact_ingest.py), the tables of engine/adapters/base.py    *)
(* and engine/registry/registry.py, the three adapters and run             *)
(* (engine/sandbox/job.py).                                                *)
(*                                                                         *)
(* A case is a declared pair of class and framework, with the runtimes of  *)
(* the ml extra installed.                                                 *)
(***************************************************************************)
EXTENDS Cases

ModelClass == {"detection", "classification", "segmentation", "pose", "lane", "face"}

REGISTRY == ModelClass
ScoredClasses == {"detection", "classification", "segmentation"}
SupportedFrameworks == {"pytorch", "onnx", "stub"}

FrameworkClassSupport(framework) ==
  IF framework = "onnx" THEN {"detection", "classification"}
  ELSE {"detection", "classification", "segmentation"}

Extensions(framework) ==
  CASE framework = "stub" -> {".json"}
    [] framework = "pytorch" -> {".pt", ".pth"}
    [] framework = "onnx" -> {".onnx"}

\* What is uploaded: the file's extension, what its bytes are, the task of a
\* checkpoint or graph, and its class vocabulary ("malformed": metadata that is
\* no JSON, or an input that is no image batch).
Artifact ==
  [ext : {".json", ".pt", ".pth", ".onnx", ".bin"},
   is : {"stub", "json", "json_array", "module", "state_dict", "garbage"},
   task : {"none"}, names : {"none"}]
  \cup [ext : {".pt", ".pth", ".onnx", ".bin"}, is : {"yolo", "onnx"},
        task : {"detect", "segment", "classify", "pose"}, names : {"some", "none"}]
  \cup [ext : {".onnx"}, is : {"onnx"}, task : {"detect", "classify"}, names : {"malformed"}]

\* submit_model: the first check that refuses, or 201
Admit(class, framework, artifact) ==
  CASE class \notin ModelClass -> 422
    [] class \in ModelClass \ (REGISTRY \cap ScoredClasses) -> 422
    [] class \in REGISTRY \cap ScoredClasses /\ framework \notin SupportedFrameworks -> 422
    [] class \in REGISTRY \cap ScoredClasses /\ framework \in SupportedFrameworks ->
         IF class \notin FrameworkClassSupport(framework) THEN 422
         ELSE IF artifact.ext \notin Extensions(framework) THEN 415 ELSE 201

-----------------------------------------------------------------------------
(* What loading and predicting come to: the fields of the Prediction that  *)
(* are filled in; or "adapter", the typed error; or "crash", any other     *)
(* exception, which ends the job without a result.                         *)

Failure == {"adapter", "crash"}

\* What a network of a task puts out, image by image.
Emits(task) ==
  CASE task \in {"detect", "pose"} -> {"boxes"}
    [] task = "segment" -> {"boxes", "masks"}
    [] task = "classify" -> {"probs"}
    [] OTHER -> {}

\* mutant: any checkpoint that loads is taken for one of the class
AnyTask(artifact, task) == artifact.names = "some"

RightTask(artifact, task) == artifact.task = task /\ artifact.names = "some"

IsYolo(artifact) == artifact.is = "yolo"

\* Detection loads without a look at the task or the names; a network without
\* boxes then fails at the first image.
PyTorchDetection(artifact) ==
  IF IsYolo(artifact) /\ "boxes" \in Emits(artifact.task) THEN {"boxes", "scores", "labels"}
  ELSE {"adapter"}

\* A checkpoint of Ultralytics must be a classifier; anything else must be a
\* whole pickled module, whose missing names become numbers.
PyTorchClassification(artifact) ==
  CASE IsYolo(artifact) /\ RightTask(artifact, "classify") ->
         IF "probs" \in Emits(artifact.task) THEN {"label", "class_scores"} ELSE {"adapter"}
    [] artifact.is = "module" -> {"label", "class_scores"}
    [] OTHER -> {"adapter"}

\* A network without masks answers every image with an empty mask set.
PyTorchSegmentation(artifact) ==
  IF IsYolo(artifact) /\ RightTask(artifact, "segment") THEN {"masks"} ELSE {"adapter"}

PyTorch(class, artifact) ==
  CASE class = "detection" -> PyTorchDetection(artifact)
    [] class = "classification" -> PyTorchClassification(artifact)
    [] class = "segmentation" -> PyTorchSegmentation(artifact)
    [] OTHER -> {"adapter"}

\* A detector has three outputs; the first output of any graph reads as logits.
Onnx(class, artifact) ==
  CASE class \notin {"detection", "classification"} \/ artifact.is # "onnx" -> {"adapter"}
    [] class \in {"detection", "classification"} /\ artifact.is = "onnx" ->
         IF artifact.names = "malformed" THEN {"crash"}
         ELSE IF class = "classification" THEN {"label", "class_scores"}
         ELSE IF "boxes" \in Emits(artifact.task) THEN {"boxes", "scores", "labels"}
         ELSE {"adapter"}

\* The stub reads the dataset, not its own task; JSON that is no object has no
\* kind to look at.
Stub(class, artifact) ==
  CASE artifact.is = "stub" ->
         IF class = "classification" THEN {"label", "class_scores"}
         ELSE IF class = "segmentation" THEN {"masks"}
         ELSE {"boxes", "scores", "labels", "attribution"}
    [] artifact.is = "json_array" -> {"crash"}
    [] OTHER -> {"adapter"}

RunJob(class, framework, artifact) ==
  CASE framework = "pytorch" -> PyTorch(class, artifact)
    [] framework = "onnx" -> Onnx(class, artifact)
    [] framework = "stub" -> Stub(class, artifact)
    [] OTHER -> {"crash"}     \* get_adapter raises outside the try of run

\* The fields the class's scorer reads.
Read(class) ==
  CASE class = "detection" -> {"boxes", "scores", "labels"}
    [] class = "classification" -> {"label", "class_scores"}
    [] class = "segmentation" -> {"masks"}
    [] OTHER -> {}

Answers(class, framework, artifact) ==
  LET fields == RunJob(class, framework, artifact)
  IN fields \cap Failure = {} /\ Read(class) # {} /\ Read(class) \subseteq fields

-----------------------------------------------------------------------------
\* The table the API refuses by and the runners the adapters have say the same
\* (base.py:138-142): a pair of class and framework is accepted if and only if
\* some artifact of an accepted extension yields what the class's scorer reads.
AcceptedCanRun ==
  Is("pair") =>
    ((\E a \in Artifact : Admit(case.class, case.framework, a) = 201)
       <=> \E a \in Artifact :
             /\ case.framework \in SupportedFrameworks
             /\ a.ext \in Extensions(case.framework)
             /\ Answers(case.class, case.framework, a))

\* A checkpoint of another task is an infra failure, never a fail of the model
\* (pytorch_adapter.py:76-80 and 114-118): what a job of a PyTorch checkpoint
\* hands to the scorer is what the checkpoint's own network puts out.
WrongTaskIsInfra ==
  (Is("pair") /\ case.framework = "pytorch") =>
    \A a \in Artifact :
      (IsYolo(a) /\ RunJob(case.class, "pytorch", a) \cap Failure = {}) =>
         CASE case.class = "detection" -> "boxes" \in Emits(a.task)
           [] case.class = "classification" -> "probs" \in Emits(a.task)
           [] case.class = "segmentation" -> "masks" \in Emits(a.task)

\* What is admitted can run, as what it was declared to be or not at all.
AdmittedRunsAsDeclared == AcceptedCanRun /\ WrongTaskIsInfra
=============================================================================
