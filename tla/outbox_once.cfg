SPECIFICATION Spec
CONSTANTS
  Intent = {i1, i2}
  Worker = {w1, w2}
  Dispatcher = {d1}
  MaxAttempts = 2
  MaxFaults = 4
  FaultKinds = {"crash", "lost", "extra_publish", "work_error", "abandon", "backlog", "late_fail"}
  NoIntent = NoIntent
SYMMETRY Symmetry
INVARIANTS SingleHolder AtMostOneRun
PROPERTIES CompletedIsFinal ImplementsContract
CHECK_DEADLOCK FALSE
