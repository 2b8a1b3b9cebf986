\* One shell build whose triggers may panic, a database that may fail and a crash.
SPECIFICATION FairSpec
CONSTANTS
  j1 = j1
  r1 = r1
  r2 = r2
  NoRun = NoRun
  Runs = {r1}
  Jobs = {j1}
  JobOf <- Once
  Shell = {j1}
  Triggering = {j1}
  Grouped = {j1}
  Panicking = {j1}
  Workers = 1
  NTasks = 3
  CommandTasks = {1, 3}
  DbMayFail = TRUE
  MaxCrashes = 1
INVARIANTS
  TypeOK
  BuildIsReachable
  NoVmLeak
  TriggersOnce
PROPERTIES
  CancelBeatsSuccess
  SuccessSticks
  ImplementsLifecycle
  EveryRunEnds
  CancelFreesVm
\* The worker may have run every message it was given.
CHECK_DEADLOCK FALSE
