SPECIFICATION Spec
CONSTANTS
  Intent = {i1}
  Worker = {w1, w2}
  Dispatcher = {d1}
  MaxAttempts = 2
  MaxFaults = 2
  FaultKinds = {"extra_publish", "late_mark"}
  NoIntent = NoIntent
INVARIANTS AtMostOneRun
CHECK_DEADLOCK FALSE
