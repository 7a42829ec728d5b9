SPECIFICATION EvaluationSpec
CONSTANTS
  Version = {v1}
  Verdicts = {"pass"}
  Intent <- MCIntent
  Worker = {w1}
  Dispatcher = {d1}
  MaxGolden = 2
  MaxRetries = 0
  MaxAttempts = 5
  MaxFaults = 1
  FaultKinds = {"api_crash"}
  NoIntent = NoIntent
INVARIANTS CurrentEvidence
CHECK_DEADLOCK FALSE
