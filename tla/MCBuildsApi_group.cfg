\* Is the completion of a group always reported?
SPECIFICATION Spec
CONSTANTS
  j1 = j1
  j2 = j2
  w1 = w1
  w2 = w2
  NoGroup = NoGroup
  NoJob = NoJob
  Jobs = {j1}
  Slots = {w1}
  Groups = {g1}
  MayFail = FALSE
  MayCrash = FALSE
  MaxStarts = 0
INVARIANTS
  CompletionIsReported
\* Every job may be over, and nobody need ask for more.
CHECK_DEADLOCK FALSE
