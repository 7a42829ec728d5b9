SPECIFICATION IngestSpec
CONSTANTS
  Submission = {s0, s1, s2}
  Earlier = {s0}
  Name = {n1}
  VersionName = {"v1", "v2"}
  NoFile = NoFile
  Slow = TRUE
INVARIANTS IngestTypeOK FilesMatchRows
PROPERTIES AbandonedIsSwept EveryoneIsAnswered
CHECK_DEADLOCK FALSE
