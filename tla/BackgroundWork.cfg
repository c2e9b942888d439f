\* Three tasks for one or two slots, dispatched, stopped, resumed and cancelled.
CONSTANTS
  Tasks = {t1, t2, t3}
  Limits = {1, 2}
  AUTO_WAKE_MAX = 1
  MaxAttempts = 1
  MaxInputs = 2
  MaxResumes = 1
  MaxCrashes = 1
SPECIFICATION FairSpec
INVARIANTS
  SlotsExact
  NoLaneTwice
PROPERTIES
  QueuedTaskRuns
CHECK_DEADLOCK FALSE
