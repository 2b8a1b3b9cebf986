\* Two builds of one job, and one of another.  The first one comes to the end of
\* the ports, and there are two of them, so that the third has the first one's.
SPECIFICATION Spec
CONSTANTS
  b1 = b1
  b2 = b2
  b3 = b3
  j1 = j1
  j2 = j2
  Builds = {b1, b2, b3}
  Jobs = {j1, j2}
  JobOf <- Deliveries
  NTasks <- TwoTasks
  NArtifacts <- OneOrTwo
  MaxArtifacts = 1
  Docker = {j2}
  Low = 4
  High = 6
  Fresh = 4
  Counters = {5}
  Workers = 2
  DbMayFail = TRUE
  MaxCrashes = 1
SYMMETRY Twins
INVARIANTS
  TypeOK
  
  StartsOnce
  RunningIsAtTask
  TaskRowsTell
  ArtifactsHold
PROPERTIES
  ImplementsTaskList
\* All the builds are over in the end.
CHECK_DEADLOCK FALSE
