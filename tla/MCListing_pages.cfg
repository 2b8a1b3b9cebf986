\* Every list, with pages of two rows and six ids.
SPECIFICATION FairSpec
CONSTANTS
  Lists <- All
  Count = 2
  MaxId = 6
INVARIANTS
  TypeOK
  ReturnedOnce
  NothingMissed
PROPERTIES
  PagesAdvance
  WalkEnds
\* A walk that is over may find no more changes to wait for.
CHECK_DEADLOCK FALSE
