SPECIFICATION AdjudicationSpec
CONSTANTS
  Version = {v1}
  Verdicts = {"pass", "pending_adjudication"}
  Decisions = {"approve", "reject"}
  Reviewer = {p1, p2}
  Intent <- MCIntent
  Worker = {w1, w2}
  Dispatcher = {d1}
  MaxGolden = 1
  MaxRetries = 0
  MaxAttempts = 5
  MaxFaults = 2
  FaultKinds = {"crash", "work_error"}
  NoIntent = NoIntent
SYMMETRY Symmetry
INVARIANTS AdjudicationTypeOK StatusIsAccounted OneDecisionPerRun RunnerHoldsMutex EvaluatingIsOwned
PROPERTIES ImplementsGate LegalMovesOnly
CHECK_DEADLOCK FALSE
