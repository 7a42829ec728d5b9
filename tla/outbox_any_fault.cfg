SPECIFICATION FairSpec
CONSTANTS
  Intent = {i1}
  Worker = {w1, w2}
  Dispatcher = {d1}
  MaxAttempts = 2
  MaxFaults = 4
  FaultKinds = {"crash", "lost", "extra_publish", "work_error", "abandon", "backlog", "publish_error", "lost_update", "overrun", "late_mark", "late_reclaim", "late_fail"}
  NoIntent = NoIntent
INVARIANTS TypeOK LedgerExact
PROPERTIES FinishedAttemptsFrozen Settles
CHECK_DEADLOCK FALSE
