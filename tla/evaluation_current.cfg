SPECIFICATION EvaluationSpec
CONSTANTS
  Version = {v1}
  Verdicts = {"pending_adjudication"}
  Intent <- MCIntent
  Worker = {w1, w2}
  Dispatcher = {}
  MaxGolden = 2
  MaxRetries = 2
  MaxAttempts = 5
  MaxFaults = 2
  FaultKinds = {"lost", "work_error", "abandon", "boot", "overrun", "stale_start", "late_reclaim", "late_fail"}
  NoIntent = NoIntent
SYMMETRY WorkerSymmetry
INVARIANTS CurrentEvidence
CHECK_DEADLOCK FALSE
