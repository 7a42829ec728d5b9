SPECIFICATION FairEvaluationSpec
CONSTANTS
  Version = {v1}
  Verdicts = {"fail"}
  Intent <- MCIntent
  Worker = {w1, w2}
  Dispatcher = {d1}
  MaxGolden = 1
  MaxRetries = 0
  MaxAttempts = 2
  MaxFaults = 2
  FaultKinds = {"crash", "api_crash", "lost", "work_error", "abandon"}
  NoIntent = NoIntent
PROPERTIES SubmissionIsEvaluated ClaimIsServed
CHECK_DEADLOCK FALSE
