\* Two jobs, two workers, every request; whatever can fail may fail.
SPECIFICATION Spec
CONSTANTS
  j1 = j1
  j2 = j2
  w1 = w1
  w2 = w2
  NoGroup = NoGroup
  NoJob = NoJob
  Jobs = {j1, j2}
  Slots = {w1, w2}
  Groups = {g1}
  MayFail = TRUE
  MayCrash = TRUE
  MaxStarts = 1
INVARIANTS
  TypeOK
  QueuedIsOnItsWay
  GroupIsSeen
  QuietGroupIsReported
SYMMETRY Interchangeable
\* Every job may be over, and nobody need ask for more.
CHECK_DEADLOCK FALSE
