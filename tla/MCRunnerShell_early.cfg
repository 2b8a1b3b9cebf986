\* One user of a shell build, who may connect at any time.
SPECIFICATION ShellSpec
CONSTANTS
  j1 = j1
  r1 = r1
  s1 = s1
  s2 = s2
  NoRun = NoRun
  Runs = {r1}
  Jobs = {j1}
  JobOf <- Once
  Shell = {j1}
  Triggering = {}
  Grouped = {}
  Panicking = {}
  Workers = 1
  NTasks = 1
  CommandTasks = {1}
  DbMayFail = FALSE
  MaxCrashes = 0
  Sessions = {s1}
  Wants <- OneWants
  Fragile = {}
PROPERTIES
  OnlyLogoutTerminates
CHECK_DEADLOCK FALSE
