\* One shell build with well-behaved triggers and two sessions.
SPECIFICATION FairShellSpec
CONSTANTS
  j1 = j1
  r1 = r1
  s1 = s1
  s2 = s2
  NoRun = NoRun
  Runs = {r1}
  Jobs = {j1}
  JobOf <- Once
  Shell = {j1}
  Triggering = {j1}
  Grouped = {}
  Panicking = {}
  Workers = 1
  NTasks = 1
  CommandTasks = {1}
  DbMayFail = FALSE
  MaxCrashes = 0
  Sessions = {s1, s2}
  Wants <- BothWant
  Fragile = {s2}
INVARIANTS
  ShellTypeOK
  SuccessReportedIsRecorded
  TriggersOnce
  LogoutEndsBuild
PROPERTIES
  SessionKeepsStandby
  FollowingEnds
\* The build ends, and its users leave.
CHECK_DEADLOCK FALSE
