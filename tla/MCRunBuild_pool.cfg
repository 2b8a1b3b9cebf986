\* One job with triggers, delivered twice to a single worker goroutine.
SPECIFICATION FairSpec
CONSTANTS
  j1 = j1
  r1 = r1
  r2 = r2
  NoRun = NoRun
  Runs = {r1, r2}
  Jobs = {j1}
  JobOf <- Twice
  Shell = {}
  Triggering = {j1}
  Grouped = {}
  Panicking = {}
  Workers = 1
  NTasks = 1
  CommandTasks = {1}
  DbMayFail = FALSE
  MaxCrashes = 0
INVARIANTS
  NoCancelAfterDelete
  RunningIsInProgress
PROPERTIES
  EveryRunEnds
\* The worker may have run every message it was given.
CHECK_DEADLOCK FALSE
