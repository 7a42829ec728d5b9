SPECIFICATION PipelineSpec
CONSTANTS
  Perturbed <- MCPerturbed
INVARIANTS PipelineTypeOK PassIsEarned FailIsTheModels NothingSkipped JobsAreContained
PROPERTIES EvaluationEnds
CHECK_DEADLOCK FALSE
