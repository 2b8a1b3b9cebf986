\* Who gets the mail for a successful group?
SPECIFICATION GroupSpec
CONSTANTS
  j1 = j1
  j2 = j2
  Jobs = {j1, j2}
  Panicking = {}
  DbMayFail = FALSE
  MayCrash = FALSE
  Conditions = {"success"}
INVARIANTS
  SuccessMeansAll
\* The group comes to its end.
CHECK_DEADLOCK FALSE
