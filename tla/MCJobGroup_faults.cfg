\* Two members, failing statements, crashes and a trigger that panics.
SPECIFICATION GroupSpec
CONSTANTS
  j1 = j1
  j2 = j2
  Jobs = {j1, j2}
  Panicking = {j1}
  DbMayFail = TRUE
  MayCrash = TRUE
  Conditions = {"always"}
INVARIANTS
  TypeOK
  SuccessReportHolds
  EndIsReported
\* The group comes to its end.
CHECK_DEADLOCK FALSE
