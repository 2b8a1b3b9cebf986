\* Does cancel free a job its worker has forgotten?
SPECIFICATION Spec
CONSTANTS
  j1 = j1
  j2 = j2
  w1 = w1
  w2 = w2
  NoGroup = NoGroup
  NoJob = NoJob
  Jobs = {j1}
  Slots = {w1}
  Groups = {g1}
  MayFail = FALSE
  MayCrash = TRUE
  MaxStarts = 0
INVARIANTS
  UnknownIsCancelled
\* Every job may be over, and nobody need ask for more.
CHECK_DEADLOCK FALSE
