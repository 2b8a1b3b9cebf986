----------------------------- MODULE GuestProofs -----------------------------
(***************************************************************************)
(* Proofs about Guest for all builds, jobs, manifests and ports.           *)
(***************************************************************************)
EXTENDS GuestTasks, TLAPS

\* What a build does once it has a port.
Loop(b) ==
  \/ BeginTask(b) \/ MakeLog(b) \/ StartScript(b) \/ ScriptEnds(b) \/ RecordTask(b)
  \/ CheckMark(b) \/ SkipTask(b) \/ FailTask(b)
Upload(b) == BeginUpload(b) \/ Measure(b) \/ Put(b) \/ InsertArtifact(b)
Frame(b)  == TakePort(b) \/ SetBack(b) \/ Boot(b) \/ Settle(b) \/ Finish(b) \/ Cleanup(b)

LEMMA NextSteps ==
  Next <=> (\E b \in Builds : Loop(b) \/ Upload(b) \/ Frame(b)) \/ Crash
  BY DEF Next, Loop, Upload, Frame

-----------------------------------------------------------------------------
(* Type correctness.                                                       *)

LEMMA TasksList ==
  \A j, n : <<j, n>> \in Tasks <=> j \in Jobs /\ n \in 1 .. NTasks[j]
<1> TAKE j, n
<1>1. ASSUME <<j, n>> \in Tasks PROVE j \in Jobs /\ n \in 1 .. NTasks[j]
  BY <1>1 DEF Tasks
<1>2. ASSUME j \in Jobs, n \in 1 .. NTasks[j] PROVE <<j, n>> \in Tasks
  <2>1. <<j, n>> \in {j} \X (1 .. NTasks[j])
    BY <1>2
  <2>2. {j} \X (1 .. NTasks[j]) \in {{k} \X (1 .. NTasks[k]) : k \in Jobs}
    BY <1>2
  <2> QED BY <2>1, <2>2 DEF Tasks
<1> QED BY <1>1, <1>2

LEMMA TaskTypes == ASSUME NEW t \in Tasks PROVE t = <<t[1], t[2]>> /\ t[1] \in Jobs /\ t[2] \in Nat
<1>1. PICK j \in Jobs : t \in {j} \X (1 .. NTasks[j])
  BY DEF Tasks
<1>2. \A n \in 1 .. NTasks[j] : n \in Nat
  BY GuestConstants
<1> QED BY <1>1, <1>2

LEMMA LoopType == ASSUME TypeOK, NEW b \in Builds, Loop(b) PROVE TypeOK'
<1> USE GuestConstants DEF TypeOK, Step, Goto, Advance, ports, tasks, artifacts, Phases, InProgress,
        AtTask, TaskStatuses, Task
<1>1. CASE BeginTask(b)
  <2>1. at[b] \in 1 .. NTasks[JobOf[b]]
    BY <1>1 DEF BeginTask, TasksOver
  <2>2. Task(b) \in Tasks
    BY <2>1, TasksList
  <2> QED BY <1>1, <2>2 DEF BeginTask
<1>2. CASE MakeLog(b) BY <1>2 DEF MakeLog
<1>3. CASE StartScript(b) BY <1>3 DEF StartScript
<1>4. CASE ScriptEnds(b) BY <1>4 DEF ScriptEnds, Behind
<1>5. CASE RecordTask(b) BY <1>5 DEF RecordTask, SetTaskStatus
<1>6. CASE CheckMark(b) BY <1>6 DEF CheckMark
<1>7. CASE SkipTask(b)
  <2>1. at[b] \in 1 .. NTasks[JobOf[b]]
    BY <1>7 DEF SkipTask, TasksOver
  <2>2. Task(b) \in Tasks
    BY <2>1, TasksList
  <2> QED BY <1>7, <2>2 DEF SkipTask, SetTaskStatus
<1>8. CASE FailTask(b) BY <1>8 DEF FailTask, SetTaskStatus
<1> QED BY <1>1, <1>2, <1>3, <1>4, <1>5, <1>6, <1>7, <1>8, Zenon DEF Loop

LEMMA UploadType == ASSUME TypeOK, NEW b \in Builds, Upload(b) PROVE TypeOK'
<1> USE GuestConstants DEF TypeOK, Step, Goto, Advance, ports, tasks, artifacts, Phases, InProgress,
        AtTask, Task
<1>1. CASE BeginUpload(b) BY <1>1 DEF BeginUpload
<1>2. CASE Measure(b) BY <1>2 DEF Measure
<1>3. CASE Put(b) BY <1>3 DEF Put
<1>4. CASE InsertArtifact(b) BY <1>4 DEF InsertArtifact
<1> QED BY <1>1, <1>2, <1>3, <1>4, Zenon DEF Upload

LEMMA FrameType == ASSUME TypeOK, NEW b \in Builds, Frame(b) PROVE TypeOK'
<1> USE GuestConstants DEF TypeOK, Step, Goto, ports, tasks, artifacts, Phases, InProgress, AtTask, Task
<1>1. CASE TakePort(b)
  <2>1. clashing' \in SUBSET Builds
    <3>1. StillOn(sshPort + 1) \in SUBSET Builds
      BY DEF StillOn
    <3> QED BY <1>1, <3>1 DEF TakePort, NoteTaken
  <2>2. respite' \in [Builds -> Nat]
    <3>1. High - Low \in Nat
      OBVIOUS
    <3>2. \A c \in Builds :
            (IF c = b THEN High - Low ELSE IF respite[c] = 0 THEN 0 ELSE respite[c] - 1) \in Nat
      BY <3>1
    <3> QED BY <1>1, <3>2 DEF TakePort, NoteTaken
  <2>3. /\ sshPort' \in Nat
        /\ port' \in [Builds -> Nat]
        /\ pc' \in [Builds -> Phases]
        /\ \A c \in Builds : pc'[c] \in AtTask => pc[c] \in AtTask
        /\ UNCHANGED <<vm, at, marked, row, logDirs, started, finished, artifacts, crashes, harmed>>
    BY <1>1 DEF TakePort
  <2> QED BY <2>1, <2>2, <2>3
<1>2. CASE SetBack(b) BY <1>2 DEF SetBack
<1>3. CASE Boot(b) BY <1>3 DEF Boot
<1>4. CASE Settle(b) BY <1>4 DEF Settle
<1>5. CASE Finish(b) BY <1>5 DEF Finish
<1>6. CASE Cleanup(b) BY <1>6 DEF Cleanup
<1> QED BY <1>1, <1>2, <1>3, <1>4, <1>5, <1>6, Zenon DEF Frame

LEMMA InitType == Init => TypeOK
  BY GuestConstants DEF Init, TypeOK, Phases, InProgress, AtTask, TaskStatuses

LEMMA NextType == TypeOK /\ [Next]_vars => TypeOK'
<1> SUFFICES ASSUME TypeOK, [Next]_vars PROVE TypeOK'
  OBVIOUS
<1>1. CASE Crash
  BY <1>1, GuestConstants DEF Crash, Active, TypeOK, ports, tasks, artifacts, Phases, InProgress,
     AtTask, Task
<1>2. CASE UNCHANGED vars
  BY <1>2 DEF vars, TypeOK, ports, tasks, artifacts, Task
<1> QED BY <1>1, <1>2, NextSteps, LoopType, UploadType, FrameType

\* Every variable keeps its type; in particular a build only ever writes rows
\* that its manifest has.
THEOREM TypeCorrect == Spec => []TypeOK
  BY InitType, NextType, PTL DEF Spec

-----------------------------------------------------------------------------
(* What a step leaves alone.                                               *)

\* A step that is not one of the loop over the tasks brings nobody into it.
LEMMA StepTypes ==
  ASSUME TypeOK, [Next]_vars
  PROVE  \/ \E b \in Builds : Loop(b)
         \/ /\ UNCHANGED <<row, logDirs, started, finished>>
            /\ UNCHANGED harmed \/ Crash
            /\ \A b \in Builds : pc'[b] \in AtTask \cup {"mark", "skip"}
                  => pc[b] = pc'[b] /\ at'[b] = at[b]
<1> USE DEF TypeOK, Step, Goto, Advance, ports, tasks, artifacts, InProgress, AtTask
<1>1. ASSUME NEW b \in Builds, Upload(b) \/ Frame(b)
      PROVE  /\ UNCHANGED <<row, logDirs, started, finished, harmed>>
             /\ \A c \in Builds : pc'[c] \in AtTask \cup {"mark", "skip"}
                  => pc[c] = pc'[c] /\ at'[c] = at[c]
  <2>1. CASE BeginUpload(b) BY <2>1 DEF BeginUpload
  <2>2. CASE Measure(b) BY <2>2 DEF Measure
  <2>3. CASE Put(b) BY <2>3 DEF Put
  <2>4. CASE InsertArtifact(b) BY <2>4 DEF InsertArtifact
  <2>5. CASE TakePort(b) BY <2>5 DEF TakePort
  <2>6. CASE SetBack(b) BY <2>6 DEF SetBack
  <2>7. CASE Boot(b) BY <2>7 DEF Boot
  <2>8. CASE Settle(b) BY <2>8 DEF Settle
  <2>9. CASE Finish(b) BY <2>9 DEF Finish
  <2>10. CASE Cleanup(b) BY <2>10 DEF Cleanup
  <2> QED BY <1>1, <2>1, <2>2, <2>3, <2>4, <2>5, <2>6, <2>7, <2>8, <2>9, <2>10, Zenon
          DEF Upload, Frame
<1>2. CASE Crash
  BY <1>2 DEF Crash, Active
<1>3. CASE UNCHANGED vars
  BY <1>3 DEF vars
<1> QED BY <1>1, <1>2, <1>3, NextSteps

-----------------------------------------------------------------------------
(* A script is started once.  A build on its way to start one has made the *)
(* log directory of the task, and nobody else is on the way or has been.   *)

StartInv ==
  /\ \A s \in started : ScriptTask(s) \in logDirs
  /\ \A b \in Builds : pc[b] = "start" =>
       /\ Task(b) \in logDirs
       /\ \A s \in started : ScriptTask(s) # Task(b)
       /\ \A c \in Builds : pc[c] = "start" /\ Task(c) = Task(b) => c = b
  /\ StartsOnce

LEMMA NextStartInv == TypeOK /\ StartInv /\ [Next]_vars => StartInv'
<1> SUFFICES ASSUME TypeOK, StartInv, [Next]_vars PROVE StartInv'
  OBVIOUS
<1> USE DEF TypeOK, Task, ScriptTask, Step, Goto, Advance, AtTask
<1>1. ASSUME UNCHANGED started, logDirs \subseteq logDirs',
             \A b \in Builds : pc'[b] = "start" => pc[b] = "start" /\ at'[b] = at[b]
      PROVE  StartInv'
  BY <1>1 DEF StartInv, StartsOnce
<1>2. ASSUME NEW b \in Builds, Loop(b) PROVE StartInv'
  <2>1. CASE MakeLog(b)
    <3>1. \A c \in Builds : pc'[c] = "start" => at'[c] = at[c] /\ (c = b \/ pc[c] = "start")
      BY <2>1 DEF MakeLog
    <3>2. logDirs' \in {logDirs, logDirs \cup {Task(b)}} /\ UNCHANGED started
      BY <2>1 DEF MakeLog
    <3>3. CASE pc'[b] # "start"
      BY <1>1, <3>1, <3>2, <3>3
    <3>4. CASE pc'[b] = "start"
      <4>1. Task(b) \notin logDirs /\ logDirs' = logDirs \cup {Task(b)}
        BY <2>1, <3>4 DEF MakeLog
      <4> QED BY <3>1, <3>2, <4>1 DEF StartInv, StartsOnce
    <3> QED BY <3>3, <3>4
  <2>2. CASE StartScript(b)
    <3>1. /\ started' \in {started, started \cup {<<b, at[b]>>}}
          /\ UNCHANGED <<logDirs, at>>
          /\ pc[b] = "start"
          /\ \A c \in Builds : pc'[c] = "start" => c # b /\ pc[c] = "start"
      BY <2>2 DEF StartScript
    <3>2. CASE UNCHANGED started
      BY <1>1, <3>1, <3>2
    <3>3. CASE started' = started \cup {<<b, at[b]>>}
      <4>1. \A s \in started' : s \in started \/ s = <<b, at[b]>>
        BY <3>3
      <4>2. ScriptTask(<<b, at[b]>>) = Task(b)
        OBVIOUS
      <4>3. \A s \in started : ScriptTask(s) # Task(b)
        BY <3>1 DEF StartInv
      <4>4. StartsOnce'
        <5> SUFFICES ASSUME NEW s \in started', NEW t \in started',
                            JobOf[s[1]] = JobOf[t[1]], s[2] = t[2]
                     PROVE  s = t
          BY DEF StartsOnce
        <5>1. ScriptTask(s) = ScriptTask(t)
          OBVIOUS
        <5> QED BY <4>1, <4>2, <4>3, <5>1 DEF StartInv, StartsOnce
      <4> QED BY <3>1, <4>1, <4>2, <4>4 DEF StartInv
    <3> QED BY <3>1, <3>2, <3>3
  <2>3. CASE BeginTask(b) BY <1>1, <2>3 DEF BeginTask
  <2>4. CASE ScriptEnds(b) BY <1>1, <2>4 DEF ScriptEnds
  <2>5. CASE RecordTask(b) BY <1>1, <2>5 DEF RecordTask
  <2>6. CASE CheckMark(b) BY <1>1, <2>6 DEF CheckMark
  <2>7. CASE SkipTask(b) BY <1>1, <2>7 DEF SkipTask
  <2>8. CASE FailTask(b) BY <1>1, <2>8 DEF FailTask
  <2> QED BY <1>2, <2>1, <2>2, <2>3, <2>4, <2>5, <2>6, <2>7, <2>8, Zenon DEF Loop
<1> QED BY <1>1, <1>2, StepTypes

\* However often a job is delivered to a host, each of its scripts is started
\* once at most.
THEOREM ScriptsStartOnce == Spec => []StartsOnce
<1>1. Init => StartInv
  BY DEF Init, StartInv, StartsOnce
<1>2. StartInv => StartsOnce
  BY DEF StartInv
<1> QED BY <1>1, <1>2, InitType, NextType, NextStartInv, PTL DEF Spec

-----------------------------------------------------------------------------
(* A row that says "running" has a build at its task.                      *)

LEMMA NextRunning ==
  TypeOK /\ RunningIsAtTask /\ [Next]_vars => RunningIsAtTask'
<1> SUFFICES ASSUME TypeOK, RunningIsAtTask, [Next]_vars,
                    NEW t \in Tasks, t[1] \notin harmed', row'[t] = "running"
             PROVE  \E b \in Builds : Task(b)' = t /\ pc'[b] \in AtTask
  BY DEF RunningIsAtTask
<1> USE GuestConstants DEF TypeOK, Task, Step, Goto, Advance, AtTask
<1>1. ASSUME NEW b \in Builds, Loop(b)
      PROVE  \E c \in Builds : Task(c)' = t /\ pc'[c] \in AtTask
  <2>1. CASE BeginTask(b)
    <3>1. UNCHANGED at /\ \A c \in Builds : pc[c] \in AtTask => pc'[c] \in AtTask
      BY <2>1 DEF BeginTask
    <3>2. harmed \subseteq harmed'
      BY <2>1 DEF BeginTask
    <3>3. row[t] = "running" \/ (t = Task(b) /\ pc'[b] \in AtTask)
      BY <2>1 DEF BeginTask
    <3> QED BY <3>1, <3>2, <3>3 DEF RunningIsAtTask
  <2>2. CASE MakeLog(b) \/ StartScript(b) \/ ScriptEnds(b)
    <3>1. /\ UNCHANGED <<at, row, harmed>>
          /\ \A c \in Builds : pc[c] \in AtTask => pc'[c] \in AtTask
      BY <2>2 DEF MakeLog, StartScript, ScriptEnds
    <3> QED BY <3>1 DEF RunningIsAtTask
  <2>3. CASE RecordTask(b) \/ FailTask(b)
    <3>1. /\ UNCHANGED at
          /\ harmed \subseteq harmed'
          /\ \A c \in Builds \ {b} : pc'[c] = pc[c]
      BY <2>3 DEF RecordTask, FailTask, SetTaskStatus
    <3>2. row[t] = "running" /\ Task(b) # t
      BY <2>3, TaskTypes DEF RecordTask, FailTask, SetTaskStatus
    <3> QED BY <3>1, <3>2 DEF RunningIsAtTask
  <2>4. CASE CheckMark(b) \/ SkipTask(b)
    <3>1. /\ harmed \subseteq harmed'
          /\ \A c \in Builds : pc[c] \in AtTask => c # b /\ pc'[c] = pc[c] /\ at'[c] = at[c]
          /\ row[t] = "running"
      BY <2>4 DEF CheckMark, SkipTask, SetTaskStatus
    <3> QED BY <3>1 DEF RunningIsAtTask
  <2> QED BY <1>1, <2>1, <2>2, <2>3, <2>4, Zenon DEF Loop
<1>2. ASSUME NEW b \in Builds, Upload(b) \/ Frame(b)
      PROVE  \E c \in Builds : Task(c)' = t /\ pc'[c] \in AtTask
  <2>1. /\ UNCHANGED <<row, harmed>>
        /\ \A c \in Builds : pc[c] \in AtTask => pc'[c] = pc[c] /\ at'[c] = at[c]
    BY <1>2, SMTT(30) DEF Upload, Frame, BeginUpload, Measure, Put, InsertArtifact, TakePort, SetBack, Boot,
       Settle, Finish, Cleanup, ports, tasks, artifacts
  <2> QED BY <2>1 DEF RunningIsAtTask
<1>3. CASE Crash
  <2>1. \A c \in Builds : pc[c] \in AtTask => JobOf[c] \in harmed'
    BY <1>3 DEF Crash, Active, InProgress
  <2>2. UNCHANGED row /\ harmed \subseteq harmed'
    BY <1>3 DEF Crash, tasks
  <2> QED BY <2>1, <2>2 DEF RunningIsAtTask
<1>4. CASE UNCHANGED vars
  BY <1>4 DEF vars, tasks, RunningIsAtTask
<1> QED BY <1>1, <1>2, <1>3, <1>4, NextSteps

\* No row is left at "running" by a build that went on or ended, as long as the
\* database answers and the worker lives.
THEOREM RunningRowsAreWorkedOn == Spec => []RunningIsAtTask
<1>1. Init => RunningIsAtTask
  BY DEF Init, RunningIsAtTask
<1> QED BY <1>1, InitType, NextType, NextRunning, PTL DEF Spec

-----------------------------------------------------------------------------
(* Artifacts.                                                              *)

Uploaded(b, n) == \A k \in 1 .. n : <<b, k>> \in listed

ArtifactInv ==
  /\ listed \subseteq objects
  /\ \A b \in Builds :
       /\ pc[b] = "insert" => <<b, at[b]>> \in objects
       /\ pc[b] \in {"measure", "put", "insert"} =>
            /\ Wanted(b) <= MaxArtifacts
            /\ at[b] <= Wanted(b)
            /\ Uploaded(b, at[b] - 1)
       /\ pc[b] = "passed" /\ Wanted(b) <= MaxArtifacts => Uploaded(b, Wanted(b))

LEMMA NextArtifactInv == TypeOK /\ ArtifactInv /\ [Next]_vars => ArtifactInv'
<1> SUFFICES ASSUME TypeOK, ArtifactInv, [Next]_vars PROVE ArtifactInv'
  OBVIOUS
<1> USE GuestConstants DEF TypeOK, Step, Goto, Advance, AtTask, tasks, artifacts, Wanted
<1>1. ASSUME listed' = listed, objects \subseteq objects',
             \A b \in Builds : pc'[b] \in {"measure", "put", "insert", "passed"} =>
                pc[b] = pc'[b] /\ at'[b] = at[b]
      PROVE  ArtifactInv'
  BY <1>1 DEF ArtifactInv, Uploaded
<1>2. ASSUME NEW b \in Builds, Upload(b) PROVE ArtifactInv'
  <2>1. CASE BeginUpload(b)
    <3>1. /\ at'[b] = 1
          /\ \A c \in Builds \ {b} : pc'[c] = pc[c] /\ at'[c] = at[c]
          /\ UNCHANGED <<listed, objects>>
      BY <2>1 DEF BeginUpload
    <3>2. Accepted(b) = {} => Wanted(b) = 0 \/ ~(Wanted(b) <= MaxArtifacts)
      BY DEF Accepted
    <3>3. Accepted(b) # {} => 1 <= Wanted(b) /\ Wanted(b) <= MaxArtifacts
      BY DEF Accepted
    <3>4. pc'[b] \in {"passed", "measure", "standby"} /\ (pc'[b] = "passed" <=> Accepted(b) = {})
      BY <2>1 DEF BeginUpload
    <3>5. /\ pc'[b] = "measure" => Wanted(b) <= MaxArtifacts /\ at'[b] <= Wanted(b)
          /\ pc'[b] = "passed" /\ Wanted(b) <= MaxArtifacts => Wanted(b) = 0
      BY <3>1, <3>2, <3>3, <3>4
    <3> HIDE DEF Wanted
    <3> QED BY <3>1, <3>4, <3>5 DEF ArtifactInv, Uploaded
  <2>2. CASE Measure(b)
    BY <2>2 DEF Measure, ArtifactInv, Uploaded
  <2>3. CASE Put(b)
    BY <2>3 DEF Put, ArtifactInv, Uploaded
  <2>4. CASE InsertArtifact(b)
    <3>1. CASE Step(b, "insert", "standby") /\ UNCHANGED <<listed, at>>
      BY <1>1, <2>4, <3>1 DEF InsertArtifact
    <3>2. CASE listed' = listed \cup {<<b, at[b]>>} /\ at' = [at EXCEPT ![b] = @ + 1]
                /\ Step(b, "insert", IF at[b] = Wanted(b) THEN "passed" ELSE "measure")
      <4>1. UNCHANGED objects
        BY <2>4 DEF InsertArtifact
      <4>2. \A c \in Builds \ {b} : pc'[c] = pc[c] /\ at'[c] = at[c]
        BY <3>2
      <4>3. /\ at[b] <= Wanted(b) /\ Wanted(b) <= MaxArtifacts
            /\ <<b, at[b]>> \in objects
            /\ Uploaded(b, at[b] - 1)
        BY <3>2 DEF ArtifactInv
      <4>4. \A k \in 1 .. at[b] : <<b, k>> \in listed'
        BY <3>2, <4>3 DEF Uploaded
      <4>5. /\ at'[b] = at[b] + 1
            /\ pc'[b] = "passed" => at[b] = Wanted(b)
            /\ pc'[b] = "measure" => at[b] + 1 <= Wanted(b)
            /\ pc'[b] \in {"passed", "measure"}
        BY <3>2, <4>3
      <4>6. listed \subseteq listed'
        BY <3>2
      <4>7. listed' \subseteq objects'
        BY <3>2, <4>1, <4>3 DEF ArtifactInv
      <4>8. /\ pc'[b] = "passed" => Uploaded(b, Wanted(b))'
            /\ pc'[b] = "measure" => Uploaded(b, at[b] - 1)'
        <5>1. at'[b] - 1 = at[b]
          BY <4>5
        <5>2. Uploaded(b, at[b] - 1)'
          BY <4>4, <5>1 DEF Uploaded
        <5>3. ASSUME pc'[b] = "passed" PROVE Uploaded(b, Wanted(b))'
          BY <4>4, <4>5, <5>3 DEF Uploaded
        <5> QED BY <5>2, <5>3, Zenon
      <4>9. ASSUME NEW c \in Builds \ {b}
            PROVE  /\ pc'[c] = "insert" => <<c, at'[c]>> \in objects'
                   /\ pc'[c] \in {"measure", "put", "insert"} =>
                        /\ Wanted(c) <= MaxArtifacts
                        /\ at'[c] <= Wanted(c)
                        /\ \A k \in 1 .. at'[c] - 1 : <<c, k>> \in listed'
                   /\ pc'[c] = "passed" /\ Wanted(c) <= MaxArtifacts
                        => \A k \in 1 .. Wanted(c) : <<c, k>> \in listed'
        BY <4>1, <4>2, <4>6, <4>9 DEF ArtifactInv, Uploaded
      <4> QED BY <4>3, <4>5, <4>7, <4>8, <4>9 DEF ArtifactInv, Uploaded
    <3> QED BY <2>4, <3>1, <3>2 DEF InsertArtifact
  <2> QED BY <1>2, <2>1, <2>2, <2>3, <2>4, Zenon DEF Upload
<1>3. ASSUME NEW b \in Builds, Loop(b) \/ Frame(b) PROVE ArtifactInv'
  <2>1. UNCHANGED <<listed, objects>>
    BY <1>3, SMTT(30) DEF Loop, Frame, BeginTask, MakeLog, StartScript, ScriptEnds, RecordTask, CheckMark,
       SkipTask, FailTask, TakePort, SetBack, Boot, Settle, Finish, Cleanup
  <2>2. \A c \in Builds : pc'[c] \in {"measure", "put", "insert", "passed"} =>
          pc[c] = pc'[c] /\ at'[c] = at[c]
    BY <1>3, SMTT(30) DEF Loop, Frame, BeginTask, MakeLog, StartScript, ScriptEnds, RecordTask, CheckMark,
       SkipTask, FailTask, TakePort, SetBack, Boot, Settle, Finish, Cleanup
  <2> QED BY <1>1, <2>1, <2>2
<1>4. CASE Crash
  BY <1>1, <1>4 DEF Crash, Active
<1>5. CASE UNCHANGED vars
  BY <1>1, <1>5 DEF vars
<1> QED BY <1>2, <1>3, <1>4, <1>5, NextSteps

\* An artifact is listed after it was stored, and no build passes with part of
\* its artifacts.
THEOREM ArtifactsAreThere == Spec => []ArtifactsHold
<1>1. Init => ArtifactInv
  BY DEF Init, ArtifactInv, Uploaded
<1>2. TypeOK /\ ArtifactInv => ArtifactsHold
  <2> SUFFICES ASSUME TypeOK, ArtifactInv, NEW b \in Builds, pc[b] = "passed"
               PROVE  {b} \X Accepted(b) \subseteq listed
    BY DEF ArtifactInv, ArtifactsHold
  <2>1. CASE Wanted(b) <= MaxArtifacts
    <3>1. \A k \in Accepted(b) : <<b, k>> \in listed
      BY <2>1 DEF ArtifactInv, Accepted, Uploaded
    <3> QED BY <3>1
  <2>2. CASE ~(Wanted(b) <= MaxArtifacts)
    BY <2>2 DEF Accepted
  <2> QED BY <2>1, <2>2
<1> QED BY <1>1, <1>2, InitType, NextType, NextArtifactInv, PTL DEF Spec

-----------------------------------------------------------------------------
(* The rows of the tasks.  Of the deliveries of a job, one at most gets    *)
(* past the first task, and it alone writes the rows of the others.        *)

Later   == {"measure", "put", "insert", "passed"}

\* A build that is at a later task, or past them all, has started the first.
Lead(b) ==
  /\ pc[b] \in {"incr", "wrap", "boot", "settle"} => at[b] = 1
  /\ pc[b] \in Looping /\ at[b] > 1 => <<b, 1>> \in started
  /\ pc[b] \in Later /\ NTasks[JobOf[b]] >= 1 => <<b, 1>> \in started
  /\ pc[b] = "skip" => at[b] > 1
  /\ pc[b] \in {"incr", "wrap", "boot", "settle", "tasks", "mkdir", "start", "skip"}
       => \A m \in Nat : m >= at[b] => <<b, m>> \notin started
  /\ pc[b] \in {"script", "record", "fail", "mark"}
       => \A m \in Nat : m > at[b] => <<b, m>> \notin started
  /\ pc[b] \in {"script", "record", "mark"} => <<b, at[b]>> \in started
  /\ pc[b] \in {"record", "mark"} => <<b, at[b]>> \in finished

LeadInv ==
  /\ \A s \in started : s[2] >= 1 /\ <<s[1], 1>> \in started
  /\ \A b \in Builds : Lead(b)

LEMMA LeadStays ==
  ASSUME NEW c \in Builds, Lead(c), pc'[c] = pc[c], at'[c] = at[c], UNCHANGED <<started, finished>>
  PROVE  Lead(c)'
  BY DEF Lead

LEMMA NextLeadInv == TypeOK /\ LeadInv /\ [Next]_vars => LeadInv'
<1> SUFFICES ASSUME TypeOK, LeadInv, [Next]_vars PROVE LeadInv'
  OBVIOUS
<1> USE GuestConstants DEF TypeOK, Step, Goto, Advance, AtTask, Looping, Later, tasks, artifacts
<1>1. ASSUME NEW b \in Builds, Loop(b) PROVE LeadInv'
  <2>1. CASE BeginTask(b) BY <2>1 DEF BeginTask, LeadInv, Lead
  <2>2. CASE MakeLog(b) BY <2>2 DEF MakeLog, LeadInv, Lead
  <2>3. CASE StartScript(b) BY <2>3 DEF StartScript, LeadInv, Lead
  <2>4. CASE ScriptEnds(b) BY <2>4 DEF ScriptEnds, LeadInv, Lead
  <2>5. CASE RecordTask(b) BY <2>5 DEF RecordTask, LeadInv, Lead
  <2>6. CASE CheckMark(b)
    <3>0. /\ UNCHANGED <<started, finished>>
          /\ \A c \in Builds \ {b} : pc'[c] = pc[c] /\ at'[c] = at[c]
      BY <2>6 DEF CheckMark
    <3>1. \A c \in Builds \ {b} : Lead(c)'
      BY <3>0, LeadStays DEF LeadInv
    <3>2. at'[b] = at[b] + 1 /\ pc'[b] \in {"tasks", "skip"} /\ UNCHANGED started /\ pc[b] = "mark"
      BY <2>6 DEF CheckMark
    <3>3. <<b, 1>> \in started
      <4>1. <<b, at[b]>> \in started
        BY <3>2 DEF LeadInv, Lead
      <4> QED BY <4>1 DEF LeadInv
    <3>5. \A m \in Nat : m >= at[b] + 1 => <<b, m>> \notin started
      <4>1. \A m \in Nat : m > at[b] => <<b, m>> \notin started
        BY <3>2 DEF LeadInv, Lead
      <4>2. \A m \in Nat : m >= at[b] + 1 => m > at[b]
        OBVIOUS
      <4> QED BY <4>1, <4>2
    <3>4. Lead(b)'
      BY <3>2, <3>3, <3>5 DEF Lead
    <3> QED BY <2>6, <3>1, <3>4 DEF CheckMark, LeadInv
  <2>7. CASE SkipTask(b) BY <2>7 DEF SkipTask, LeadInv, Lead
  <2>8. CASE FailTask(b) BY <2>8 DEF FailTask, LeadInv, Lead
  <2> QED BY <1>1, <2>1, <2>2, <2>3, <2>4, <2>5, <2>6, <2>7, <2>8, Zenon DEF Loop
<1>2. ASSUME NEW b \in Builds, Upload(b) PROVE LeadInv'
  <2>1. CASE BeginUpload(b)
    <3>0. /\ UNCHANGED <<started, finished>>
          /\ \A c \in Builds \ {b} : pc'[c] = pc[c] /\ at'[c] = at[c]
      BY <2>1 DEF BeginUpload
    <3>1. \A c \in Builds \ {b} : Lead(c)'
      BY <3>0, LeadStays DEF LeadInv
    <3>2. pc'[b] \in Later \cup {"standby"} /\ pc[b] \in Looping /\ UNCHANGED started
      BY <2>1 DEF BeginUpload
    <3>3. NTasks[JobOf[b]] >= 1 => <<b, 1>> \in started
      <4>1. at[b] > NTasks[JobOf[b]]
        BY <2>1 DEF BeginUpload, TasksOver
      <4>2. NTasks[JobOf[b]] >= 1 => at[b] > 1
        BY <4>1
      <4> QED BY <3>2, <4>2 DEF LeadInv, Lead
    <3>4. Lead(b)'
      BY <3>2, <3>3 DEF Lead
    <3> QED BY <3>1, <3>2, <3>4 DEF LeadInv
  <2>2. CASE Measure(b) BY <2>2 DEF Measure, LeadInv, Lead
  <2>3. CASE Put(b) BY <2>3 DEF Put, LeadInv, Lead
  <2>4. CASE InsertArtifact(b)
    <3>0. /\ UNCHANGED <<started, finished>>
          /\ \A c \in Builds \ {b} : pc'[c] = pc[c] /\ at'[c] = at[c]
      BY <2>4 DEF InsertArtifact
    <3>1. \A c \in Builds \ {b} : Lead(c)'
      BY <3>0, LeadStays DEF LeadInv
    <3>2. pc'[b] \in Later \cup {"standby"} /\ pc[b] \in Later /\ UNCHANGED started
      BY <2>4 DEF InsertArtifact
    <3>3. Lead(b)'
      BY <3>2 DEF LeadInv, Lead
    <3> QED BY <3>1, <3>2, <3>3 DEF LeadInv
  <2> QED BY <1>2, <2>1, <2>2, <2>3, <2>4, Zenon DEF Upload
<1>3. ASSUME NEW b \in Builds, Frame(b) PROVE LeadInv'
  <2>1. CASE TakePort(b) BY <2>1 DEF TakePort, LeadInv, Lead
  <2>2. CASE SetBack(b) BY <2>2 DEF SetBack, LeadInv, Lead
  <2>3. CASE Boot(b) BY <2>3 DEF Boot, LeadInv, Lead
  <2>4. CASE Settle(b) BY <2>4 DEF Settle, LeadInv, Lead
  <2>5. CASE Finish(b) BY <2>5 DEF Finish, LeadInv, Lead
  <2>6. CASE Cleanup(b) BY <2>6 DEF Cleanup, LeadInv, Lead
  <2> QED BY <1>3, <2>1, <2>2, <2>3, <2>4, <2>5, <2>6, Zenon DEF Frame
<1>4. CASE Crash
  BY <1>4 DEF Crash, Active, LeadInv, Lead
<1>5. CASE UNCHANGED vars
  BY <1>5 DEF vars, LeadInv, Lead
<1> QED BY <1>1, <1>2, <1>3, <1>4, <1>5, NextSteps

LEMMA OnePasses ==
  ASSUME TypeOK, LeadInv, StartsOnce, NEW b \in Builds, NEW c \in Builds, c # b,
         JobOf[c] = JobOf[b], pc[b] \in Looping, at[b] > 1
  PROVE  <<c, 1>> \notin started
<1>1. <<b, 1>> \in started
  BY DEF LeadInv, Lead
<1> SUFFICES ASSUME <<c, 1>> \in started PROVE FALSE
  OBVIOUS
<1>2. <<c, 1>> = <<b, 1>>
  BY <1>1 DEF StartsOnce
<1> QED BY <1>2

\* The rows that have to be as a build left them.
Firm(b, m) == m > 1 \/ \A c \in Builds : JobOf[c] = JobOf[b] => c = b
Decided(b, m) == row[<<JobOf[b], m>>] \in {"success", "skipped"}
Written(b) == row[Task(b)] \notin {"pending", "skipped"}

Rows(b) ==
  JobOf[b] \notin harmed =>
    /\ pc[b] \in {"mkdir", "start"} => Written(b)
    /\ pc[b] \in Looping =>
         \A m \in 1 .. NTasks[JobOf[b]] : m < at[b] /\ Firm(b, m) => Decided(b, m)
    /\ pc[b] = "mark" /\ Firm(b, at[b]) => Decided(b, at[b])
    /\ pc[b] \in Later =>
         \A m \in 1 .. NTasks[JobOf[b]] : Firm(b, m) => Decided(b, m)

StartedRows ==
  \A s \in started : JobOf[s[1]] \notin harmed => row[ScriptTask(s)] \notin {"pending", "skipped"}
SuccessRows ==
  \A t \in Tasks : t[1] \notin harmed /\ row[t] = "success" =>
    \E b \in Builds : JobOf[b] = t[1] /\ <<b, t[2]>> \in finished

RowInv == StartedRows /\ SuccessRows /\ \A b \in Builds : Rows(b)

\* A build that writes the row of its task does not touch those that another
\* one relies on.
LEMMA RowsStay ==
  ASSUME TypeOK, LeadInv, StartsOnce, NEW b \in Builds, NEW c \in Builds, c # b, Rows(c),
         pc[b] \in Looping, Task(b) \in Tasks,
         pc'[c] = pc[c], at'[c] = at[c], harmed \subseteq harmed',
         NEW v \in TaskStatuses, row' = [row EXCEPT ![Task(b)] = v],
         v \in {"pending", "skipped"} => pc[b] = "skip"
  PROVE  Rows(c)'
<1> SUFFICES ASSUME JobOf[c] \notin harmed' PROVE Rows(c)'
  BY DEF Rows
<1> USE GuestConstants DEF TypeOK, Task
<1>0. JobOf[c] \notin harmed
  OBVIOUS
<1>1. CASE JobOf[c] # JobOf[b]
  <2>1. \A m : row'[<<JobOf[c], m>>] = row[<<JobOf[c], m>>]
    BY <1>1
  <2> QED BY <1>0, <2>1 DEF Rows, Written, Decided, Firm
<1>2. CASE JobOf[c] = JobOf[b]
  <2>1. ASSUME at[b] > 1 PROVE <<c, 1>> \notin started
    BY <1>2, <2>1, OnePasses
  <2>2. ASSUME pc[c] \in {"mkdir", "start"} PROVE Written(c)'
    <3>1. Written(c)
      BY <1>0, <2>2 DEF Rows
    <3>2. ASSUME at[c] = at[b] PROVE v \notin {"pending", "skipped"}
      <4> SUFFICES ASSUME pc[b] = "skip" PROVE FALSE
        OBVIOUS
      <4>1. at[b] > 1
        BY DEF LeadInv, Lead
      <4>2. <<c, 1>> \in started
        BY <2>2, <3>2, <4>1 DEF LeadInv, Lead, Looping, AtTask
      <4> QED BY <2>1, <4>1, <4>2
    <3> QED BY <1>2, <2>2, <3>1, <3>2 DEF Written
  <2>3. ASSUME NEW m \in 1 .. NTasks[JobOf[c]], Firm(c, m), Decided(c, m),
               \/ pc[c] \in Looping /\ m < at[c]
               \/ pc[c] = "mark" /\ m = at[c]
               \/ pc[c] \in Later
        PROVE  Decided(c, m)'
    <3> SUFFICES ASSUME m = at[b] PROVE FALSE
      BY <1>2, <2>3 DEF Decided
    <3>1. m > 1
      BY <1>2, <2>3 DEF Firm
    <3>2. <<c, 1>> \in started
      <4>1. CASE pc[c] \in Later
        <5>1. NTasks[JobOf[c]] >= 1
          BY <3>1
        <5> QED BY <4>1, <5>1 DEF LeadInv, Lead
      <4>2. CASE pc[c] \in Looping /\ m <= at[c]
        <5>1. at[c] > 1
          BY <3>1, <4>2
        <5> QED BY <4>2, <5>1 DEF LeadInv, Lead
      <4> QED BY <2>3, <4>1, <4>2 DEF Looping
    <3> QED BY <2>1, <3>1, <3>2
  <2>4. \A m : Firm(c, m)' <=> Firm(c, m)
    BY DEF Firm
  <2>5. pc[c] = "mark" /\ Firm(c, at[c]) => Decided(c, at[c])'
    <3> SUFFICES ASSUME pc[c] = "mark", Firm(c, at[c]) PROVE Decided(c, at[c])'
      OBVIOUS
    <3>1. Decided(c, at[c])
      BY <1>0 DEF Rows
    <3>2. CASE at[c] \in 1 .. NTasks[JobOf[c]]
      BY <2>3, <3>1, <3>2 DEF Decided
    <3>3. CASE at[c] \notin 1 .. NTasks[JobOf[c]]
      <4>1. Task(b) # <<JobOf[c], at[c]>>
        BY <3>3, TasksList
      <4> QED BY <3>1, <4>1 DEF Decided
    <3> QED BY <3>2, <3>3
  <2>6. /\ pc[c] \in Looping =>
              \A m \in 1 .. NTasks[JobOf[c]] : m < at[c] /\ Firm(c, m) => Decided(c, m)'
        /\ pc[c] \in Later =>
              \A m \in 1 .. NTasks[JobOf[c]] : Firm(c, m) => Decided(c, m)'
    BY <1>0, <2>3 DEF Rows
  <2> QED BY <2>2, <2>4, <2>5, <2>6 DEF Rows
<1> QED BY <1>1, <1>2

\* A step that writes no row, and takes no build any further.
LEMMA RowsIdle ==
  ASSUME TypeOK, NEW b \in Builds, Rows(b), UNCHANGED row, harmed \subseteq harmed',
         at'[b] = at[b],
         \/ pc'[b] = pc[b]
         \/ pc'[b] \in Looping \ {"mkdir", "start", "mark"} /\ pc[b] \in Looping
         \/ pc'[b] \notin Looping \cup Later
  PROVE  Rows(b)'
  BY DEF Rows, Looping, Later, AtTask, Written, Decided, Firm, Task

LEMMA NextRowInv ==
  TypeOK /\ StartInv /\ LeadInv /\ RowInv /\ [Next]_vars => RowInv'
<1> SUFFICES ASSUME TypeOK, StartInv, LeadInv, RowInv, [Next]_vars PROVE RowInv'
  OBVIOUS
<1>0. /\ StartsOnce
      /\ \A s \in started : ScriptTask(s) \in Tasks
  BY DEF StartInv, TypeOK
<1> USE GuestConstants DEF TypeOK, Task, Step, Goto, Advance, Looping, Later, AtTask, ScriptTask
<1>1. ASSUME NEW b \in Builds, BeginTask(b) PROVE RowInv'
  <2>1. pc[b] = "tasks" /\ UNCHANGED <<at, started, finished>>
    BY <1>1 DEF BeginTask
  <2>2. CASE UNCHANGED row /\ harmed' = harmed \cup {JobOf[b]} /\ Goto(b, "fail")
    <3>1. /\ \A c \in Builds \ {b} : pc'[c] = pc[c]
          /\ harmed \subseteq harmed' /\ JobOf[b] \in harmed'
      BY <2>2
    <3>2. \A c \in Builds \ {b} : Rows(c)'
      BY <2>1, <2>2, <3>1, RowsIdle DEF RowInv
    <3>3. Rows(b)'
      BY <3>1 DEF Rows
    <3> QED BY <2>1, <2>2, <3>1, <3>2, <3>3 DEF RowInv, StartedRows, SuccessRows
  <2>3. CASE row' = [row EXCEPT ![Task(b)] = "running"] /\ UNCHANGED harmed /\ Goto(b, "mkdir")
    <3>1. Task(b) \in Tasks
      BY <1>1, TasksList DEF BeginTask, TasksOver
    <3>2. \A c \in Builds \ {b} : Rows(c)'
      BY <1>0, <2>1, <2>3, <3>1, RowsStay DEF RowInv, TaskStatuses
    <3>3. Rows(b)'
      BY <2>1, <2>3, <3>1 DEF RowInv, Rows, Written, Decided, Firm
    <3>4. StartedRows' /\ SuccessRows'
      BY <1>0, <2>1, <2>3, <3>1 DEF RowInv, StartedRows, SuccessRows
    <3> QED BY <3>2, <3>3, <3>4 DEF RowInv
  <2> QED BY <1>1, <2>2, <2>3 DEF BeginTask
<1>2. ASSUME NEW b \in Builds, MakeLog(b) PROVE RowInv'
  <2>1. /\ UNCHANGED <<at, row, started, finished, harmed>>
        /\ pc[b] = "mkdir" /\ pc'[b] \in {"start", "fail"}
        /\ \A c \in Builds \ {b} : pc'[c] = pc[c]
    BY <1>2 DEF MakeLog
  <2>2. Rows(b)'
    BY <2>1 DEF RowInv, Rows, Written, Decided, Firm
  <2>3. \A c \in Builds \ {b} : Rows(c)'
    BY <2>1, RowsIdle DEF RowInv
  <2> QED BY <2>1, <2>2, <2>3 DEF RowInv, StartedRows, SuccessRows
<1>3. ASSUME NEW b \in Builds, StartScript(b) PROVE RowInv'
  <2>1. /\ UNCHANGED <<at, row, finished, harmed>>
        /\ pc[b] = "start" /\ pc'[b] \in {"script", "fail"}
        /\ \A c \in Builds \ {b} : pc'[c] = pc[c]
        /\ started' \in {started, started \cup {<<b, at[b]>>}}
    BY <1>3 DEF StartScript
  <2>2. \A c \in Builds : Rows(c)'
    BY <2>1, RowsIdle DEF RowInv
  <2>3. JobOf[b] \notin harmed => row[Task(b)] \notin {"pending", "skipped"}
    BY <2>1 DEF RowInv, Rows, Written
  <2>4. \A s \in started' : s \in started \/ s = <<b, at[b]>>
    BY <2>1
  <2>5. ScriptTask(<<b, at[b]>>) = Task(b)
    OBVIOUS
  <2>6. StartedRows'
    BY <2>1, <2>3, <2>4, <2>5 DEF RowInv, StartedRows
  <2> QED BY <2>1, <2>2, <2>6 DEF RowInv, SuccessRows
<1>4. ASSUME NEW b \in Builds, ScriptEnds(b) PROVE RowInv'
  <2>1. /\ UNCHANGED <<at, row, started, harmed>>
        /\ pc[b] = "script" /\ pc'[b] \in {"record", "fail"}
        /\ \A c \in Builds \ {b} : pc'[c] = pc[c]
        /\ finished \subseteq finished'
    BY <1>4 DEF ScriptEnds
  <2>2. \A c \in Builds : Rows(c)'
    BY <2>1, RowsIdle DEF RowInv
  <2> QED BY <2>1, <2>2 DEF RowInv, StartedRows, SuccessRows
<1>5. ASSUME NEW b \in Builds, RecordTask(b) \/ FailTask(b) PROVE RowInv'
  <2>1. /\ UNCHANGED <<at, started, finished>>
        /\ pc[b] \in {"record", "fail"} /\ Task(b) \in Tasks
        /\ \A c \in Builds \ {b} : pc'[c] = pc[c]
        /\ pc'[b] = IF pc[b] = "record" THEN "mark" ELSE "standby"
    BY <1>5 DEF RecordTask, FailTask
  <2>2. CASE UNCHANGED row /\ harmed' = harmed \cup {JobOf[b]}
    <3>1. \A c \in Builds \ {b} : Rows(c)'
      BY <2>1, <2>2, RowsIdle DEF RowInv
    <3>2. Rows(b)'
      BY <2>2 DEF Rows
    <3> QED BY <2>1, <2>2, <3>1, <3>2 DEF RowInv, StartedRows, SuccessRows
  <2>3. CASE row' = [row EXCEPT ![Task(b)] = IF pc[b] = "record" THEN "success" ELSE "failed"]
             /\ UNCHANGED harmed
    <3>1. \A c \in Builds \ {b} : Rows(c)'
      BY <1>0, <2>1, <2>3, RowsStay DEF RowInv, TaskStatuses
    <3>2. Rows(b)'
      <4>1. \A m : m < at[b] => row'[<<JobOf[b], m>>] = row[<<JobOf[b], m>>]
        BY <2>1, <2>3
      <4>2. pc'[b] = "mark" => row'[Task(b)] = "success"
        BY <2>1, <2>3
      <4> QED BY <2>1, <2>3, <4>1, <4>2 DEF RowInv, Rows, Written, Decided, Firm
    <3>3. StartedRows'
      BY <1>0, <2>1, <2>3 DEF RowInv, StartedRows
    <3>4. pc[b] = "record" => <<b, at[b]>> \in finished
      BY DEF LeadInv, Lead
    <3>5. SuccessRows'
      BY <2>1, <2>3, <3>4, TaskTypes DEF RowInv, SuccessRows
    <3> QED BY <3>1, <3>2, <3>3, <3>5 DEF RowInv
  <2> QED BY <1>5, <2>1, <2>2, <2>3 DEF RecordTask, FailTask, SetTaskStatus
<1>6. ASSUME NEW b \in Builds, CheckMark(b) PROVE RowInv'
  <2>1. /\ UNCHANGED <<row, started, finished, harmed>>
        /\ \A c \in Builds \ {b} : pc'[c] = pc[c] /\ at'[c] = at[c]
        /\ pc[b] = "mark" /\ pc'[b] \in {"skip", "tasks"} /\ at'[b] = at[b] + 1
    BY <1>6 DEF CheckMark
  <2>2. \A c \in Builds \ {b} : Rows(c)'
    BY <2>1, RowsIdle DEF RowInv
  <2>3. ASSUME JobOf[b] \notin harmed, NEW m \in 1 .. NTasks[JobOf[b]], m < at[b] + 1, Firm(b, m)
        PROVE  Decided(b, m)
    <3>1. m < at[b] \/ m = at[b]
      BY <2>3
    <3> QED BY <2>1, <2>3, <3>1 DEF RowInv, Rows
  <2>4. Rows(b)'
    BY <2>1, <2>3 DEF Rows, Decided, Firm
  <2> QED BY <2>1, <2>2, <2>4 DEF RowInv, StartedRows, SuccessRows
<1>7. ASSUME NEW b \in Builds, SkipTask(b) PROVE RowInv'
  <2>1. /\ UNCHANGED <<started, finished>>
        /\ \A c \in Builds : pc'[c] = pc[c]
        /\ \A c \in Builds \ {b} : at'[c] = at[c]
        /\ pc[b] = "skip" /\ at'[b] = at[b] + 1
    BY <1>7 DEF SkipTask
  <2>2. Task(b) \in Tasks
    BY <1>7, TasksList DEF SkipTask, TasksOver
  <2>3. CASE UNCHANGED row /\ harmed' = harmed \cup {JobOf[b]}
    <3>1. \A c \in Builds \ {b} : Rows(c)'
      BY <2>1, <2>3, RowsIdle DEF RowInv
    <3>2. Rows(b)'
      BY <2>3 DEF Rows
    <3> QED BY <2>1, <2>3, <3>1, <3>2 DEF RowInv, StartedRows, SuccessRows
  <2>4. CASE row' = [row EXCEPT ![Task(b)] = "skipped"] /\ UNCHANGED harmed
    <3>1. \A c \in Builds \ {b} : Rows(c)'
      BY <1>0, <2>1, <2>2, <2>4, RowsStay DEF RowInv, TaskStatuses
    <3>2. ASSUME JobOf[b] \notin harmed, NEW m \in 1 .. NTasks[JobOf[b]], m < at[b] + 1, Firm(b, m)
          PROVE  Decided(b, m)'
      <4>1. CASE m < at[b]
        <5>1. Decided(b, m)
          BY <2>1, <3>2, <4>1 DEF RowInv, Rows
        <5> QED BY <2>2, <2>4, <5>1 DEF Decided
      <4>2. CASE m = at[b]
        BY <2>2, <2>4, <4>2 DEF Decided
      <4> QED BY <3>2, <4>1, <4>2
    <3>3. Rows(b)'
      BY <2>1, <2>4, <3>2 DEF Rows, Firm
    <3>4. \A s \in started : ScriptTask(s) # Task(b)
      <4> SUFFICES ASSUME NEW s \in started, ScriptTask(s) = Task(b) PROVE FALSE
        OBVIOUS
      <4>1. at[b] > 1
        BY <2>1 DEF LeadInv, Lead
      <4>2. s[1] \in Builds /\ s = <<s[1], s[2]>> /\ JobOf[s[1]] = JobOf[b] /\ s[2] = at[b]
        OBVIOUS
      <4>3. CASE s[1] = b
        <5>1. <<b, at[b]>> \in started
          BY <4>2, <4>3
        <5>2. at[b] \in Nat /\ at[b] >= at[b]
          OBVIOUS
        <5> QED BY <2>1, <5>1, <5>2 DEF LeadInv, Lead
      <4>4. CASE s[1] # b
        <5>1. <<s[1], 1>> \in started
          BY DEF LeadInv
        <5> QED BY <1>0, <2>1, <4>1, <4>2, <4>4, <5>1, OnePasses
      <4> QED BY <4>3, <4>4
    <3>5. StartedRows'
      BY <1>0, <2>1, <2>4, <3>4 DEF RowInv, StartedRows
    <3>6. SuccessRows'
      BY <2>1, <2>4 DEF RowInv, SuccessRows
    <3> QED BY <3>1, <3>3, <3>5, <3>6 DEF RowInv
  <2> QED BY <1>7, <2>3, <2>4 DEF SkipTask, SetTaskStatus
<1>8. ASSUME NEW b \in Builds, BeginUpload(b) PROVE RowInv'
  <2>1. /\ UNCHANGED <<row, started, finished, harmed>>
        /\ \A c \in Builds \ {b} : pc'[c] = pc[c] /\ at'[c] = at[c]
        /\ pc[b] \in Looping /\ pc'[b] \in {"passed", "measure", "standby"}
        /\ at[b] > NTasks[JobOf[b]]
    BY <1>8 DEF BeginUpload, TasksOver
  <2>2. \A c \in Builds \ {b} : Rows(c)'
    BY <2>1, RowsIdle DEF RowInv
  <2>3. \A m \in 1 .. NTasks[JobOf[b]] : m < at[b]
    BY <2>1
  <2>4. Rows(b)'
    BY <2>1, <2>3 DEF RowInv, Rows, Decided, Firm
  <2> QED BY <2>1, <2>2, <2>4 DEF RowInv, StartedRows, SuccessRows
<1>9. ASSUME NEW b \in Builds, Measure(b) \/ Put(b) \/ InsertArtifact(b) PROVE RowInv'
  <2>1. /\ UNCHANGED <<row, started, finished, harmed>>
        /\ \A c \in Builds \ {b} : pc'[c] = pc[c] /\ at'[c] = at[c]
        /\ pc[b] \in Later /\ pc'[b] \in Later \cup {"standby"}
    <3>1. CASE Measure(b)
      BY <3>1 DEF Measure, tasks
    <3>2. CASE Put(b)
      BY <3>2 DEF Put, tasks
    <3>3. CASE InsertArtifact(b)
      BY <3>3 DEF InsertArtifact
    <3> QED BY <1>9, <3>1, <3>2, <3>3
  <2>2. \A c \in Builds \ {b} : Rows(c)'
    BY <2>1, RowsIdle DEF RowInv
  <2>3. Rows(b)'
    BY <2>1 DEF RowInv, Rows, Decided, Firm
  <2> QED BY <2>1, <2>2, <2>3 DEF RowInv, StartedRows, SuccessRows
<1>10. ASSUME NEW b \in Builds, Frame(b) PROVE RowInv'
  <2>1. CASE Settle(b)
    <3>1. /\ UNCHANGED <<row, at, started, finished, harmed>>
          /\ \A c \in Builds \ {b} : pc'[c] = pc[c]
          /\ pc[b] = "settle" /\ pc'[b] \in {"tasks", "cleanup"}
      BY <2>1 DEF Settle, tasks
    <3>2. \A c \in Builds \ {b} : Rows(c)'
      BY <3>1, RowsIdle DEF RowInv
    <3>3. at[b] = 1
      BY <3>1 DEF LeadInv, Lead
    <3>4. Rows(b)'
      BY <3>1, <3>3 DEF Rows
    <3> QED BY <3>1, <3>2, <3>4 DEF RowInv, StartedRows, SuccessRows
  <2>2. CASE TakePort(b) \/ SetBack(b) \/ Boot(b) \/ Finish(b) \/ Cleanup(b)
    <3>1. /\ UNCHANGED <<row, at, started, finished, harmed>>
          /\ \A c \in Builds : pc'[c] = pc[c] \/ pc'[c] \notin Looping \cup Later
      BY <2>2, SMTT(30) DEF TakePort, SetBack, Boot, Finish, Cleanup, tasks
    <3> QED BY <3>1, RowsIdle DEF RowInv, StartedRows, SuccessRows
  <2> QED BY <1>10, <2>1, <2>2, Zenon DEF Frame
<1>11. CASE Crash
  <2>1. /\ UNCHANGED <<row, at, started, finished>> /\ harmed \subseteq harmed'
        /\ \A c \in Builds : pc'[c] = pc[c] \/ pc'[c] \notin Looping \cup Later
    BY <1>11 DEF Crash, tasks
  <2> QED BY <2>1, RowsIdle DEF RowInv, StartedRows, SuccessRows
<1>12. CASE UNCHANGED vars
  BY <1>12, RowsIdle DEF vars, tasks, RowInv, StartedRows, SuccessRows
<1> QED BY <1>1, <1>2, <1>3, <1>4, <1>5, <1>6, <1>7, <1>8, <1>9, <1>10, <1>11, <1>12, Zenon
        DEF Next, Frame

\* What the rows of the tasks say is what happened, whatever becomes of the
\* build, as long as the database answers and the worker lives.
THEOREM TaskRowsAreTrue == Spec => []TaskRowsTell
<1>1. Init => StartInv /\ LeadInv /\ RowInv
  <2> SUFFICES ASSUME Init PROVE StartInv /\ LeadInv /\ RowInv
    OBVIOUS
  <2>1. StartInv
    BY DEF Init, StartInv, StartsOnce
  <2>2. LeadInv
    BY DEF Init, LeadInv, Lead, Looping, Later, AtTask
  <2>3. RowInv
    BY DEF Init, RowInv, Rows, StartedRows, SuccessRows, Looping, Later, AtTask
  <2> QED BY <2>1, <2>2, <2>3
<1>2. TypeOK /\ RowInv => TaskRowsTell
  <2> SUFFICES ASSUME TypeOK, RowInv, NEW t \in Tasks, t[1] \notin harmed,
                      NEW by, by = {b \in Builds : JobOf[b] = t[1]}
               PROVE  /\ row[t] = "success" => \E b \in by : <<b, t[2]>> \in finished
                      /\ row[t] \in {"pending", "skipped"} => \A b \in by : <<b, t[2]>> \notin started
                      /\ t[2] > 1 \/ (\E b \in by : by = {b}) =>
                           \A b \in by : pc[b] = "passed" => row[t] \in {"success", "skipped"}
    BY DEF TaskRowsTell
  <2>0. t = <<t[1], t[2]>> /\ t[2] \in 1 .. NTasks[t[1]]
    BY TaskTypes, TasksList
  <2>1. row[t] = "success" => \E b \in by : <<b, t[2]>> \in finished
    BY DEF RowInv, SuccessRows
  <2>2. ASSUME NEW b \in by, <<b, t[2]>> \in started PROVE row[t] \notin {"pending", "skipped"}
    <3>1. ScriptTask(<<b, t[2]>>) = t
      BY <2>0 DEF ScriptTask
    <3> QED BY <2>2, <3>1 DEF RowInv, StartedRows
  <2>3. ASSUME NEW b \in by, pc[b] = "passed", t[2] > 1 \/ \E c \in by : by = {c}
        PROVE  row[t] \in {"success", "skipped"}
    <3>1. Firm(b, t[2])
      BY <2>3 DEF Firm
    <3>2. Rows(b)
      BY DEF RowInv
    <3> QED BY <2>0, <2>3, <3>1, <3>2 DEF Rows, Later, Decided
  <2> QED BY <2>1, <2>2, <2>3
<1> QED BY <1>1, <1>2, InitType, NextType, NextStartInv, NextLeadInv, NextRowInv, PTL DEF Spec

-----------------------------------------------------------------------------
(* Ports and VMs.  From where the counter is follows how many ports are    *)
(* still to be taken before that of a build comes round; until then nobody *)
(* else has it.                                                            *)

\* The number of ports taken since the one of c.
Since(c) == High - Low - respite[c]

\* The counter has not been set since then, or it has been set in time.
SameLap(c)  == sshPort = port[c] + Since(c)
LaterLap(c) ==
  /\ Low <= sshPort
  /\ port[c] < Low \/ High + sshPort <= Low + port[c] + Since(c)

LapInv ==
  \A c \in Builds :
    /\ respite[c] <= High - Low
    /\ respite[c] > 0 => SameLap(c) \/ LaterLap(c)

\* Two builds that use the same port are known to clash.
ClashInv ==
  \A b, c \in Builds :
    b # c /\ InUse(b) /\ InUse(c) /\ port[b] = port[c] => b \in clashing

\* There is one VM behind a port at most.
OneVm ==
  \A b, c \in Builds : vm[b] = "up" /\ vm[c] = "up" /\ port[b] = port[c] => b = c

\* When a build has a VM.
Early  == {"incr", "wrap", "boot"}
Housed == (InProgress \ Early) \cup {"passed"}

BootInv ==
  \A b \in Builds :
    /\ b \in clashing => pc[b] # "incr"
    /\ pc[b] \in Early => vm[b] = "none"

UpInv == \A b \in Builds : pc[b] \in Housed /\ ~Exposed(b) => vm[b] = "up"

VmInv    == ClashInv /\ OneVm /\ BootInv /\ UpInv
GuestInv == LapInv /\ VmInv

\* A port that comes round has no respite left.
LEMMA ComesRound ==
  ASSUME TypeOK, LapInv, NEW c \in Builds, port[c] = sshPort + 1
  PROVE  respite[c] <= 1
<1>1. /\ sshPort \in Nat /\ port[c] \in Nat /\ respite[c] \in Nat
      /\ Low \in Nat /\ High \in Nat /\ Low < High
  BY GuestConstants DEF TypeOK
<1>2. SUFFICES ASSUME respite[c] > 0 PROVE respite[c] <= 1
  BY <1>1
<1> QED BY <1>1, <1>2 DEF LapInv, SameLap, LaterLap, Since

\* Taking a port takes one off the respite of all others.
LEMMA TakePortLap ==
  ASSUME TypeOK, LapInv, NEW b \in Builds, TakePort(b) PROVE LapInv'
<1> SUFFICES ASSUME NEW c \in Builds
             PROVE  /\ respite'[c] <= High - Low
                    /\ respite'[c] > 0 => SameLap(c)' \/ LaterLap(c)'
  BY DEF LapInv
<1>1. /\ sshPort \in Nat /\ port[c] \in Nat /\ respite[c] \in Nat
      /\ Low \in Nat /\ High \in Nat /\ Low < High
  BY GuestConstants DEF TypeOK
<1>2. /\ sshPort' = sshPort + 1
      /\ port' = [port EXCEPT ![b] = sshPort + 1]
      /\ respite' = [d \in Builds |-> IF d = b THEN High - Low
                                      ELSE IF respite[d] = 0 THEN 0 ELSE respite[d] - 1]
  BY DEF TakePort, NoteTaken
<1>3. CASE c = b
  <2>1. port'[c] = sshPort + 1 /\ respite'[c] = High - Low
    BY <1>2, <1>3 DEF TypeOK
  <2> QED BY <1>1, <1>2, <2>1 DEF SameLap, Since
<1>4. CASE c # b
  <2>1. port'[c] = port[c] /\ respite'[c] = IF respite[c] = 0 THEN 0 ELSE respite[c] - 1
    BY <1>2, <1>4 DEF TypeOK
  <2>2. respite[c] <= High - Low /\ (respite[c] > 0 => SameLap(c) \/ LaterLap(c))
    BY DEF LapInv
  <2> QED BY <1>1, <1>2, <2>1, <2>2 DEF SameLap, LaterLap, Since
<1> QED BY <1>3, <1>4

\* Setting the counter in time begins another lap, and setting it late takes
\* the respite of all builds.
LEMMA SetBackLap ==
  ASSUME TypeOK, LapInv, NEW b \in Builds, SetBack(b) PROVE LapInv'
<1> SUFFICES ASSUME NEW c \in Builds
             PROVE  /\ respite'[c] <= High - Low
                    /\ respite'[c] > 0 => SameLap(c)' \/ LaterLap(c)'
  BY DEF LapInv
<1>1. /\ sshPort \in Nat /\ port[b] \in Nat /\ port[c] \in Nat /\ respite[c] \in Nat
      /\ Low \in Nat /\ High \in Nat /\ Fresh \in Nat /\ Low <= Fresh /\ Fresh < High
  BY GuestConstants DEF TypeOK
<1>2. /\ UNCHANGED port
      /\ sshPort' = sshPort \/
           sshPort' = IF port[b] < Low THEN Fresh ELSE IF port[b] >= High THEN Low ELSE sshPort
      /\ respite' = IF Late(b) /\ sshPort' # sshPort THEN [d \in Builds |-> 0] ELSE respite
  BY DEF SetBack
<1>3. respite[c] <= High - Low /\ (respite[c] > 0 => SameLap(c) \/ LaterLap(c))
  BY DEF LapInv
<1>4. CASE Late(b) /\ sshPort' # sshPort
  <2>1. respite'[c] = 0
    BY <1>2, <1>4
  <2> QED BY <1>1, <2>1
<1>5. CASE sshPort' = sshPort
  <2>1. respite' = respite
    BY <1>2, <1>5
  <2> QED BY <1>2, <1>3, <1>5, <2>1 DEF SameLap, LaterLap, Since
<1>6. CASE ~Late(b) /\ sshPort' # sshPort
  <2>1. respite' = respite
    BY <1>2, <1>6
  <2>2. \/ sshPort < Low /\ sshPort' = Fresh
        \/ sshPort >= High /\ sshPort' = Low
    BY <1>1, <1>2, <1>6 DEF Late
  <2>3. CASE sshPort < Low /\ sshPort' = Fresh
    BY <1>1, <1>2, <1>3, <2>1, <2>3 DEF SameLap, LaterLap, Since
  <2>4. CASE sshPort >= High /\ sshPort' = Low
    BY <1>1, <1>2, <1>3, <2>1, <2>4 DEF SameLap, LaterLap, Since
  <2> QED BY <2>2, <2>3, <2>4
<1> QED BY <1>4, <1>5, <1>6

\* A build takes its port from those that still use it.
LEMMA TakePortVm ==
  ASSUME TypeOK, GuestInv, NEW b \in Builds, TakePort(b) PROVE VmInv'
<1> DEFINE p == sshPort + 1
<1>1. /\ pc[b] = "incr" /\ pc' = [pc EXCEPT ![b] = "wrap"]
      /\ port' = [port EXCEPT ![b] = p]
      /\ UNCHANGED vm
      /\ clashing' = IF StillOn(p) = {} THEN clashing ELSE clashing \cup StillOn(p) \cup {b}
  BY DEF TakePort, NoteTaken, Step, Goto
<1>2. /\ vm[b] = "none" /\ b \notin clashing
      /\ pc'[b] = "wrap" /\ port'[b] = p
      /\ \A c \in Builds \ {b} : pc'[c] = pc[c] /\ port'[c] = port[c]
  BY <1>1 DEF GuestInv, VmInv, BootInv, Early, TypeOK
<1>3. clashing \subseteq clashing'
  BY <1>1
<1>4. \A c \in Builds \ {b} : InUse(c)' <=> InUse(c)
  BY <1>1, <1>2 DEF InUse, Active
<1>5. ASSUME NEW c \in Builds, c # b, InUse(c), port[c] = p
      PROVE  c \in clashing' /\ b \in clashing'
  <2>1. c \in StillOn(p)
    BY <1>5, ComesRound DEF StillOn, GuestInv
  <2> QED BY <1>1, <2>1
<1>6. ClashInv'
  <2> SUFFICES ASSUME NEW c \in Builds, NEW d \in Builds, c # d, InUse(c)', InUse(d)',
                      port'[c] = port'[d]
               PROVE  c \in clashing'
    BY DEF ClashInv
  <2>1. CASE c = b
    BY <1>2, <1>4, <1>5, <2>1
  <2>2. CASE d = b
    BY <1>2, <1>4, <1>5, <2>2
  <2>3. CASE c # b /\ d # b
    BY <1>2, <1>3, <1>4, <2>3 DEF GuestInv, VmInv, ClashInv
  <2> QED BY <2>1, <2>2, <2>3
<1>7. OneVm'
  BY <1>1, <1>2 DEF GuestInv, VmInv, OneVm
<1>8. BootInv'
  <2>1. \A c \in StillOn(p) : pc[c] # "incr"
    BY DEF StillOn, InUse, Active, InProgress, AtTask, GuestInv, VmInv, BootInv, Early
  <2> QED BY <1>1, <1>2, <2>1 DEF GuestInv, VmInv, BootInv, Early
<1>9. UpInv'
  <2> SUFFICES ASSUME NEW c \in Builds, pc'[c] \in Housed, ~Exposed(c)' PROVE vm'[c] = "up"
    BY DEF UpInv
  <2>1. c # b
    BY <1>2 DEF Housed, Early, InProgress, AtTask
  <2>2. ~Exposed(c)
    BY <1>2, <1>3, <2>1 DEF Exposed, TypeOK
  <2> QED BY <1>1, <1>2, <2>1, <2>2 DEF GuestInv, VmInv, UpInv
<1> QED BY <1>6, <1>7, <1>8, <1>9 DEF VmInv

\* Any step that has to do with neither ports nor VMs, and puts no build further
\* than it was as far as they are concerned.
Calm ==
  /\ UNCHANGED <<port, clashing, vm>>
  /\ \A c \in Builds : /\ pc'[c] \in InProgress \cup {"passed"} => pc[c] \in InProgress \cup {"passed"}
                       /\ pc'[c] = "incr" <=> pc[c] = "incr"
                       /\ pc'[c] \in Early => pc[c] \in Early
                       /\ pc'[c] \in Housed => pc[c] \in Housed

LEMMA CalmVm == ASSUME VmInv, Calm PROVE VmInv'
<1>1. \A c \in Builds : InUse(c)' => InUse(c)
  BY DEF Calm, InUse, Active
<1>2. \A c \in Builds : Exposed(c)' <=> Exposed(c)
  BY DEF Calm, Exposed
<1>3. ClashInv' /\ OneVm'
  BY <1>1 DEF Calm, VmInv, ClashInv, OneVm
<1>4. BootInv' /\ UpInv'
  BY <1>2 DEF Calm, VmInv, BootInv, UpInv
<1> QED BY <1>3, <1>4 DEF VmInv

\* The steps that have to do with neither ports nor VMs.
LEMMA GuestStays ==
  ASSUME TypeOK, NEW b \in Builds, Loop(b) \/ Upload(b)
  PROVE  /\ UNCHANGED <<sshPort, port, respite, clashing, vm>>
         /\ pc[b] \in InProgress \ {"wrap", "boot"}
         /\ pc'[b] \in (InProgress \ {"wrap", "boot"}) \cup {"passed"}
         /\ \A c \in Builds \ {b} : pc'[c] = pc[c]
<1> USE DEF TypeOK, Step, Goto, ports, tasks, InProgress, AtTask
<1>1. CASE BeginTask(b) BY <1>1 DEF BeginTask
<1>2. CASE MakeLog(b) BY <1>2 DEF MakeLog
<1>3. CASE StartScript(b) BY <1>3 DEF StartScript
<1>4. CASE ScriptEnds(b) BY <1>4 DEF ScriptEnds
<1>5. CASE RecordTask(b) BY <1>5 DEF RecordTask
<1>6. CASE CheckMark(b) BY <1>6 DEF CheckMark
<1>7. CASE SkipTask(b) BY <1>7 DEF SkipTask
<1>8. CASE FailTask(b) BY <1>8 DEF FailTask
<1>9. CASE BeginUpload(b) BY <1>9 DEF BeginUpload
<1>10. CASE Measure(b) BY <1>10 DEF Measure
<1>11. CASE Put(b) BY <1>11 DEF Put
<1>12. CASE InsertArtifact(b) BY <1>12 DEF InsertArtifact
<1> QED BY <1>1, <1>2, <1>3, <1>4, <1>5, <1>6, <1>7, <1>8, <1>9, <1>10, <1>11, <1>12, Zenon
        DEF Loop, Upload

\* Whoever has the port of a build that is not exposed is the build itself, if
\* it has a VM or is in progress past its boot.
LEMMA NoneBehind ==
  ASSUME TypeOK, VmInv, NEW b \in Builds, NEW c \in Builds, ~Exposed(b), vm[b] = "up",
         pc[c] \in Housed, port[b] = port[c]
  PROVE  b = c
<1> SUFFICES ASSUME b # c PROVE FALSE
  OBVIOUS
<1>1. InUse(b) /\ InUse(c)
  BY DEF InUse, Active, Housed
<1>2. b \in clashing /\ c \in clashing
  BY <1>1 DEF VmInv, ClashInv
<1>3. ~Exposed(c)
  BY <1>2 DEF Exposed
<1>4. vm[c] = "up"
  BY <1>3 DEF VmInv, UpInv
<1> QED BY <1>4 DEF VmInv, OneVm

\* A VM comes up only where there is none; a bare qemu that finds one shares a
\* port with whoever has left it there.
LEMMA BootVm ==
  ASSUME TypeOK, VmInv, NEW b \in Builds, Boot(b) PROVE VmInv'
<1>1. /\ UNCHANGED <<port, clashing>>
      /\ pc[b] = "boot" /\ pc'[b] \in {"settle", "over"}
      /\ \A c \in Builds \ {b} : pc'[c] = pc[c] /\ vm'[c] = vm[c]
      /\ vm'[b] \in {"up", "none"}
      /\ vm'[b] = "up" => Behind(b) = {}
      /\ pc'[b] = "settle" => ~DockerRefuses(b) /\ (vm'[b] = "up" <=> Behind(b) = {})
  <2>1. vm[b] = "none"
    BY DEF Boot, Step, VmInv, BootInv, Early
  <2> QED BY <2>1 DEF Boot, Step, Goto, ports, TypeOK
<1>2. /\ b \in Active /\ vm[b] = "none"
      /\ \A c \in Builds : InUse(c)' => InUse(c)
  BY <1>1 DEF InUse, Active, InProgress, VmInv, BootInv, Early
<1>3. \A c \in Builds : Exposed(c)' <=> Exposed(c)
  BY <1>1 DEF Exposed
<1>4. ClashInv'
  BY <1>1, <1>2 DEF VmInv, ClashInv
<1>5. OneVm'
  BY <1>1 DEF VmInv, OneVm, Behind
<1>6. BootInv'
  BY <1>1 DEF VmInv, BootInv, Early
<1>7. ASSUME pc'[b] = "settle", ~Exposed(b) PROVE vm'[b] = "up"
  <2> SUFFICES ASSUME Behind(b) # {} PROVE FALSE
    BY <1>1, <1>7
  <2>1. PICK c \in Builds : vm[c] = "up" /\ port[c] = port[b]
    BY DEF Behind
  <2>2. c # b /\ InUse(c) /\ InUse(b)
    BY <1>2, <2>1 DEF InUse
  <2>3. b \in clashing
    BY <2>1, <2>2 DEF VmInv, ClashInv
  <2>4. JobOf[b] \notin Docker
    BY <1>1, <1>7 DEF DockerRefuses
  <2> QED BY <1>7, <2>3, <2>4 DEF Exposed
<1>8. UpInv'
  <2> SUFFICES ASSUME NEW c \in Builds, pc'[c] \in Housed, ~Exposed(c)' PROVE vm'[c] = "up"
    BY DEF UpInv
  <2>1. CASE c = b
    BY <1>1, <1>3, <1>7, <2>1 DEF Housed, InProgress, AtTask
  <2>2. CASE c # b
    BY <1>1, <1>3, <2>2 DEF VmInv, UpInv
  <2> QED BY <2>1, <2>2
<1> QED BY <1>4, <1>5, <1>6, <1>8 DEF VmInv

LEMMA CleanupVm ==
  ASSUME TypeOK, VmInv, NEW b \in Builds, Cleanup(b) PROVE VmInv'
<1>1. /\ UNCHANGED <<port, clashing>>
      /\ pc[b] = "cleanup" /\ pc'[b] = "over"
      /\ \A c \in Builds \ {b} : pc'[c] = pc[c]
      /\ \A c \in Builds : /\ c \notin Behind(b) => vm'[c] = vm[c]
                           /\ vm'[c] = "up" => vm[c] = "up"
                           /\ vm'[c] = "none" <=> vm[c] = "none"
  BY DEF Cleanup, Step, Goto, ports, TypeOK, Behind
<1>2. \A c \in Builds : InUse(c)' => InUse(c)
  BY <1>1 DEF InUse, Active, InProgress, AtTask
<1>3. \A c \in Builds : Exposed(c)' <=> Exposed(c)
  BY <1>1 DEF Exposed
<1>4. ClashInv' /\ OneVm'
  BY <1>1, <1>2 DEF VmInv, ClashInv, OneVm
<1>5. BootInv'
  BY <1>1 DEF VmInv, BootInv, Early
<1>6. UpInv'
  <2> SUFFICES ASSUME NEW c \in Builds, pc'[c] \in Housed, ~Exposed(c)' PROVE vm'[c] = "up"
    BY DEF UpInv
  <2>1. c # b
    BY <1>1 DEF Housed, InProgress, AtTask
  <2>2. vm[c] = "up" /\ ~Exposed(c)
    BY <1>1, <1>3, <2>1 DEF VmInv, UpInv
  <2>3. pc[b] \in Housed
    BY <1>1 DEF Housed, InProgress, Early
  <2>4. c \notin Behind(b)
    BY <2>1, <2>2, <2>3, NoneBehind DEF Behind
  <2> QED BY <1>1, <2>2, <2>4
<1> QED BY <1>4, <1>5, <1>6 DEF VmInv

LEMMA NextGuestInv == TypeOK /\ GuestInv /\ [Next]_vars => GuestInv'
<1> SUFFICES ASSUME TypeOK, GuestInv, [Next]_vars PROVE LapInv' /\ VmInv'
  BY DEF GuestInv
<1>0. LapInv /\ VmInv
  BY DEF GuestInv
<1>1. ASSUME UNCHANGED <<sshPort, port, respite>> PROVE LapInv'
  BY <1>0, <1>1 DEF LapInv, SameLap, LaterLap, Since
<1>2. ASSUME NEW b \in Builds, Loop(b) \/ Upload(b) PROVE LapInv' /\ VmInv'
  <2>1. Calm
    BY <1>2, GuestStays DEF Calm, Housed, Early, InProgress, AtTask
  <2> QED BY <1>0, <1>1, <1>2, <2>1, CalmVm, GuestStays
<1>3. ASSUME NEW b \in Builds, TakePort(b) PROVE LapInv' /\ VmInv'
  BY <1>0, <1>3, TakePortLap, TakePortVm
<1>4. ASSUME NEW b \in Builds, SetBack(b) PROVE LapInv' /\ VmInv'
  <2>1. Calm
    BY <1>4 DEF SetBack, Step, Goto, TypeOK, Calm, Housed, Early, InProgress, AtTask
  <2> QED BY <1>0, <1>4, <2>1, SetBackLap, CalmVm
<1>5. ASSUME NEW b \in Builds, Settle(b) \/ Finish(b) PROVE LapInv' /\ VmInv'
  <2>1. Calm /\ UNCHANGED <<sshPort, port, respite>>
    BY <1>5 DEF Settle, Finish, Step, Goto, TypeOK, ports, Calm, Housed, Early, InProgress, AtTask
  <2> QED BY <1>0, <1>1, <2>1, CalmVm
<1>6. ASSUME NEW b \in Builds, Boot(b) \/ Cleanup(b) PROVE LapInv' /\ VmInv'
  <2>1. UNCHANGED <<sshPort, port, respite>>
    BY <1>6 DEF Boot, Cleanup, ports
  <2> QED BY <1>0, <1>1, <1>6, <2>1, BootVm, CleanupVm
<1>7. CASE Crash \/ UNCHANGED vars
  <2>1. Calm /\ UNCHANGED <<sshPort, port, respite>>
    BY <1>7 DEF Crash, Active, vars, ports, TypeOK, Calm, Housed, Early, InProgress, AtTask
  <2> QED BY <1>0, <1>1, <2>1, CalmVm
<1> QED BY <1>2, <1>3, <1>4, <1>5, <1>6, <1>7, NextSteps, Zenon DEF Frame

LEMMA InitGuestInv == Init => GuestInv
<1> SUFFICES ASSUME Init PROVE LapInv /\ VmInv
  BY DEF GuestInv
<1>1. LapInv
  BY GuestConstants DEF Init, LapInv
<1>2. VmInv
  BY DEF Init, VmInv, ClashInv, OneVm, BootInv, UpInv, Housed, InUse, Active, InProgress, AtTask
<1> QED BY <1>1, <1>2

LEMMA GuestInvHolds == TypeOK /\ GuestInv => OwnGuest
<1> SUFFICES ASSUME TypeOK, VmInv, NEW b \in Builds, pc[b] \in InProgress \ {"wrap", "boot"}, ~Exposed(b)
             PROVE  Behind(b) = {b}
  BY DEF GuestInv, OwnGuest
<1>1. vm[b] = "up"
  BY DEF VmInv, UpInv, Housed, Early, InProgress, AtTask
<1> QED BY <1>1 DEF Behind, VmInv, OneVm

\* The counter comes to the port of a build again only when High - Low - 1 other
\* ports have been taken since, or when it was set back late: for any number of
\* builds, of times the counter has gone round, and any answers of Redis.
THEOREM PortsComeRoundLate ==
  Spec => [](\A c \in Builds : port[c] = sshPort + 1 => respite[c] <= 1)
<1>1. TypeOK /\ GuestInv => \A c \in Builds : port[c] = sshPort + 1 => respite[c] <= 1
  BY ComesRound DEF GuestInv
<1> QED BY <1>1, InitType, InitGuestInv, NextType, NextGuestInv, PTL DEF Spec

\* Builds keep apart, for ever: however often the ports come round and whatever
\* is left behind, a build works in a VM of its own until its cleanup, unless
\* its port came round while it was in use, and a bare qemu is involved.
THEOREM BuildsKeepApart == Spec => []OwnGuest
  BY InitType, InitGuestInv, NextType, NextGuestInv, GuestInvHolds, PTL DEF Spec

\* The VM a build has booted is turned off by the cleanup of that build and by
\* nothing else, however long ago it was left behind, but for the same case.
THEOREM OnlyCleanupTurnsOff ==
  Spec => [][\A b \in Builds : ~Exposed(b) /\ vm[b] = "up" /\ vm'[b] # "up" => Cleanup(b)]_vars
<1>1. ASSUME TypeOK, GuestInv, Next, NEW b \in Builds, ~Exposed(b), vm[b] = "up", vm'[b] # "up"
      PROVE  Cleanup(b)
  <2>1. VmInv
    BY <1>1 DEF GuestInv
  <2>2. ASSUME NEW c \in Builds, Cleanup(c) PROVE c = b
    <3>1. pc[c] \in Housed
      BY <2>2 DEF Cleanup, Step, Housed, InProgress, Early
    <3>2. b \notin Behind(c) => vm'[b] = vm[b]
      BY <1>1, <2>2 DEF Cleanup
    <3>3. port[b] = port[c]
      BY <1>1, <3>2 DEF Behind
    <3> QED BY <1>1, <2>1, <3>1, <3>3, NoneBehind
  <2>3. ASSUME NEW c \in Builds, Frame(c) PROVE Cleanup(c)
    <3>1. CASE Boot(c)
      <4>1. vm'[b] = vm[b] \/ b = c
        BY <1>1, <2>3, <3>1 DEF Boot, TypeOK
      <4>2. vm[c] = "none"
        BY <2>1, <2>3, <3>1 DEF VmInv, BootInv, Early, Boot, Step
      <4> QED BY <1>1, <4>1, <4>2
    <3>2. CASE TakePort(c) \/ SetBack(c) \/ Settle(c) \/ Finish(c)
      <4>1. UNCHANGED vm
        BY <3>2 DEF TakePort, SetBack, Settle, Finish
      <4> QED BY <1>1, <4>1
    <3> QED BY <2>3, <3>1, <3>2 DEF Frame
  <2> QED BY <1>1, <2>2, <2>3, NextSteps, GuestStays DEF Crash
<1>2. TypeOK /\ GuestInv /\ [Next]_vars
        => [\A b \in Builds : ~Exposed(b) /\ vm[b] = "up" /\ vm'[b] # "up" => Cleanup(b)]_vars
  BY <1>1
<1> QED BY <1>2, InitType, InitGuestInv, NextType, NextGuestInv, PTL DEF Spec

-----------------------------------------------------------------------------
(* The rows, step by step: Guest implements TaskList.                      *)

\* What the build that works off a list has behind it...
Worked(b) ==
  /\ pc[b] \in Looping \ {"skip"} => \A m \in 1 .. at[b] - 1 : <<b, m>> \in finished
  /\ pc[b] \in {"script", "fail"} => \A m \in Nat : m >= at[b] => <<b, m>> \notin finished

WorkInv == finished \subseteq started /\ \A b \in Builds : Worked(b)

\* ...and before it.
Pending(b, m) == m \in 1 .. NTasks[JobOf[b]] => row[<<JobOf[b], m>>] = "pending"

Ahead(b) ==
  Leads(b) =>
    /\ pc[b] \in Before \cup {"tasks", "skip"}
         => \A m \in Nat : m >= at[b] /\ Firm(b, m) => Pending(b, m)
    /\ pc[b] \in AtTask \cup {"mark"} => \A m \in Nat : m > at[b] => Pending(b, m)
    /\ pc[b] \in {"mkdir", "start", "script", "record"} /\ Firm(b, at[b]) => row[Task(b)] = "running"
    /\ pc[b] = "fail" /\ Firm(b, at[b]) => row[Task(b)] \in {"pending", "running"}

\* Nobody has got past the first task.
Untried ==
  \A t \in Tasks :
    t[2] > 1 /\ (\A b \in Builds : JobOf[b] = t[1] => <<b, 1>> \notin started) => row[t] = "pending"

AheadInv == Untried /\ \A b \in Builds : Ahead(b)

LEMMA NextWorkInv == TypeOK /\ LeadInv /\ WorkInv /\ [Next]_vars => WorkInv'
<1> SUFFICES ASSUME TypeOK, LeadInv, WorkInv, [Next]_vars PROVE WorkInv'
  OBVIOUS
<1> USE GuestConstants DEF TypeOK, Step, Goto, Advance, AtTask, Looping
<1>1. ASSUME NEW b \in Builds, Loop(b) PROVE WorkInv'
  <2>0. /\ finished \subseteq started
        /\ \A c \in Builds : Worked(c)
        /\ pc[b] \in {"tasks", "mkdir", "start"} => \A m \in Nat : m >= at[b] => <<b, m>> \notin finished
        /\ pc[b] = "script" => <<b, at[b]>> \in started
        /\ pc[b] = "mark" => <<b, at[b]>> \in finished
    BY DEF WorkInv, LeadInv, Lead
  <2>1. CASE BeginTask(b) BY <2>0, <2>1 DEF BeginTask, WorkInv, Worked
  <2>2. CASE MakeLog(b) BY <2>0, <2>2 DEF MakeLog, WorkInv, Worked
  <2>3. CASE StartScript(b) BY <2>0, <2>3 DEF StartScript, WorkInv, Worked
  <2>4. CASE ScriptEnds(b) BY <2>0, <2>4 DEF ScriptEnds, WorkInv, Worked
  <2>5. CASE RecordTask(b) BY <2>0, <2>5 DEF RecordTask, WorkInv, Worked
  <2>6. CASE CheckMark(b) BY <2>0, <2>6 DEF CheckMark, WorkInv, Worked
  <2>7. CASE SkipTask(b) BY <2>0, <2>7 DEF SkipTask, WorkInv, Worked
  <2>8. CASE FailTask(b) BY <2>0, <2>8 DEF FailTask, WorkInv, Worked
  <2> QED BY <1>1, <2>1, <2>2, <2>3, <2>4, <2>5, <2>6, <2>7, <2>8, Zenon DEF Loop
<1>2. ASSUME UNCHANGED <<started, finished>>,
             \A b \in Builds : pc'[b] \in Looping => (pc[b] = pc'[b] /\ at'[b] = at[b])
                                                  \/ (pc'[b] = "tasks" /\ at'[b] = 1)
      PROVE  WorkInv'
  <2>1. \A b \in Builds : Worked(b)'
    BY <1>2 DEF WorkInv, Worked
  <2> QED BY <1>2, <2>1 DEF WorkInv
<1>3. ASSUME NEW b \in Builds, Upload(b) \/ Frame(b) PROVE WorkInv'
  <2>1. CASE Settle(b)
    <3>1. at[b] = 1
      BY <2>1 DEF Settle, LeadInv, Lead
    <3> QED BY <1>2, <2>1, <3>1 DEF Settle, tasks
  <2>2. CASE Upload(b) BY <1>2, <2>2 DEF Upload, BeginUpload, Measure, Put, InsertArtifact, tasks
  <2>3. CASE TakePort(b) \/ SetBack(b) \/ Boot(b) \/ Finish(b) \/ Cleanup(b)
    BY <1>2, <2>3 DEF TakePort, SetBack, Boot, Finish, Cleanup, tasks
  <2> QED BY <1>3, <2>1, <2>2, <2>3 DEF Frame
<1>4. CASE Crash
  BY <1>2, <1>4 DEF Crash, Active, tasks
<1>5. CASE UNCHANGED vars
  BY <1>2, <1>5 DEF vars, tasks
<1> QED BY <1>1, <1>3, <1>4, <1>5, NextSteps

LEMMA OneLeader ==
  ASSUME StartsOnce, NEW b \in Builds, NEW c \in Builds, Leads(b), Leads(c), JobOf[c] = JobOf[b]
  PROVE  c = b
<1>1. CASE <<b, 1>> \in started /\ <<c, 1>> \in started
  <2>1. <<b, 1>> = <<c, 1>>
    BY <1>1 DEF StartsOnce
  <2> QED BY <2>1
<1>2. CASE ~(<<b, 1>> \in started /\ <<c, 1>> \in started)
  BY <1>2 DEF Leads
<1> QED BY <1>1, <1>2

\* A build that is past the first task leads.
LEMMA PastFirstLeads ==
  ASSUME TypeOK, LeadInv, NEW b \in Builds,
         \/ pc[b] \in {"script", "record", "mark", "skip"}
         \/ pc[b] \in Looping /\ at[b] > 1
  PROVE  Leads(b)
<1>1. CASE pc[b] = "skip" \/ (pc[b] \in Looping /\ at[b] > 1)
  BY <1>1 DEF LeadInv, Lead, Leads, Looping
<1>2. CASE pc[b] \in {"script", "record", "mark"}
  <2>1. <<b, at[b]>> \in started
    BY <1>2 DEF LeadInv, Lead
  <2>2. <<b, 1>> \in started
    BY <2>1 DEF LeadInv
  <2> QED BY <2>2 DEF Leads
<1> QED BY <1>1, <1>2

\* What a build that leads may rely on is not touched by a build that writes the
\* row of its own task.
LEMMA AheadStays ==
  ASSUME TypeOK, LeadInv, StartsOnce, NEW b \in Builds, NEW c \in Builds, c # b, Ahead(c),
         pc[b] \in Looping, NEW v, row' = [row EXCEPT ![Task(b)] = v],
         UNCHANGED started, at'[c] = at[c], pc'[c] = pc[c]
  PROVE  Ahead(c)'
<1> SUFFICES ASSUME Leads(c) PROVE Ahead(c)'
  BY DEF Ahead, Leads
<1>0. at'[c] = at[c] /\ at[c] \in Nat \ {0} /\ at[b] \in Nat \ {0}
  BY DEF TypeOK
<1>1. ASSUME NEW m \in Nat, Firm(c, m) PROVE Task(b) # <<JobOf[c], m>>
  <2> SUFFICES ASSUME JobOf[b] = JobOf[c], at[b] = m PROVE FALSE
    BY DEF Task
  <2>1. m > 1 /\ Leads(b)
    <3>1. m > 1
      BY <1>1 DEF Firm
    <3> QED BY <3>1, PastFirstLeads
  <2> QED BY <2>1, OneLeader
<1>2. ASSUME NEW m \in Nat, Firm(c, m), Pending(c, m) PROVE Pending(c, m)'
  <2>1. row'[<<JobOf[c], m>>] = row[<<JobOf[c], m>>] \/ m \notin 1 .. NTasks[JobOf[c]]
    <3> SUFFICES ASSUME m \in 1 .. NTasks[JobOf[c]]
                 PROVE  row'[<<JobOf[c], m>>] = row[<<JobOf[c], m>>]
      OBVIOUS
    <3>1. <<JobOf[c], m>> \in Tasks
      BY TasksList, GuestConstants
    <3> QED BY <1>1, <1>2, <3>1 DEF TypeOK
  <2> QED BY <1>2, <2>1 DEF Pending
<1>3. Task(c)' = Task(c)
  BY <1>0 DEF Task
<1>4. pc[c] \in AtTask /\ Firm(c, at[c]) => row'[Task(c)] = row[Task(c)]
  <2> SUFFICES ASSUME pc[c] \in AtTask, Firm(c, at[c]) PROVE row'[Task(c)] = row[Task(c)]
    OBVIOUS
  <2>1. Task(c) \in Tasks /\ Task(b) # Task(c)
    BY <1>0, <1>1 DEF TypeOK, Task
  <2> QED BY <2>1 DEF TypeOK
<1>5. \A m : Firm(c, m)' <=> Firm(c, m)
  BY DEF Firm
<1>6. \A m \in Nat : m > at[c] => Firm(c, m)
  BY <1>0 DEF Firm
<1> QED BY <1>0, <1>2, <1>3, <1>4, <1>5, <1>6 DEF Ahead, AtTask

\* A step that writes no row, and brings the build no closer to its next task.
LEMMA AheadIdle ==
  ASSUME NEW b \in Builds, Ahead(b), UNCHANGED <<row, started>>,
         \/ pc'[b] = pc[b] /\ at'[b] = at[b]
         \/ pc[b] \in AtTask /\ pc'[b] \in {"fail", "mark"} /\ at'[b] = at[b]
              /\ (pc'[b] = "fail" => pc[b] # "fail")
         \/ pc'[b] \notin Before \cup Looping
         \/ pc[b] \in Before /\ pc'[b] \in Before \cup {"tasks"} /\ at'[b] = at[b]
  PROVE  Ahead(b)'
<1>1. \A m : (Firm(b, m)' <=> Firm(b, m)) /\ (Pending(b, m)' <=> Pending(b, m))
  BY DEF Firm, Pending
<1>2. at'[b] = at[b] => Task(b)' = Task(b)
  BY DEF Task
<1> QED BY <1>1, <1>2 DEF Ahead, Leads, AtTask, Before, Looping

LEMMA UntriedStays ==
  ASSUME TypeOK, LeadInv, Untried, NEW b \in Builds, pc[b] \in Looping, NEW v,
         row' = [row EXCEPT ![Task(b)] = v], UNCHANGED started
  PROVE  Untried'
<1> SUFFICES ASSUME NEW t \in Tasks, t[2] > 1,
                    \A c \in Builds : JobOf[c] = t[1] => <<c, 1>> \notin started
             PROVE  row'[t] = "pending"
  BY DEF Untried
<1>1. Task(b) # t
  <2> SUFFICES ASSUME Task(b) = t PROVE FALSE
    OBVIOUS
  <2>1. JobOf[b] = t[1] /\ at[b] > 1
    BY DEF Task
  <2>2. <<b, 1>> \in started
    BY <2>1 DEF LeadInv, Lead
  <2> QED BY <2>1, <2>2
<1>2. row[t] = "pending"
  BY DEF Untried
<1> QED BY <1>1, <1>2 DEF TypeOK

LEMMA NextAheadInv ==
  TypeOK /\ StartInv /\ LeadInv /\ WorkInv /\ AheadInv /\ [Next]_vars => AheadInv'
<1> SUFFICES ASSUME TypeOK, StartInv, LeadInv, WorkInv, AheadInv, [Next]_vars PROVE AheadInv'
  OBVIOUS
<1>0. StartsOnce /\ Untried /\ \A b \in Builds : Ahead(b)
  BY DEF StartInv, AheadInv
<1> USE GuestConstants DEF Step, Goto, Advance
<1>1. ASSUME UNCHANGED <<row, started>>,
             \A b \in Builds :
               \/ pc'[b] = pc[b] /\ at'[b] = at[b]
               \/ pc[b] \in AtTask /\ pc'[b] \in {"fail", "mark"} /\ at'[b] = at[b]
                    /\ (pc'[b] = "fail" => pc[b] # "fail")
               \/ pc'[b] \notin Before \cup Looping
               \/ pc[b] \in Before /\ pc'[b] \in Before \cup {"tasks"} /\ at'[b] = at[b]
      PROVE  AheadInv'
  <2>1. \A b \in Builds : Ahead(b)'
    BY <1>0, <1>1, AheadIdle
  <2>2. Untried'
    BY <1>0, <1>1 DEF Untried
  <2> QED BY <2>1, <2>2 DEF AheadInv
<1>2. ASSUME NEW b \in Builds, pc[b] \in Looping, NEW v, row' = [row EXCEPT ![Task(b)] = v],
             UNCHANGED started, \A c \in Builds \ {b} : pc'[c] = pc[c] /\ at'[c] = at[c], Ahead(b)'
      PROVE  AheadInv'
  <2>1. \A c \in Builds \ {b} : Ahead(c)'
    BY <1>0, <1>2, AheadStays
  <2>2. Untried'
    BY <1>0, <1>2, UntriedStays
  <2> QED BY <1>2, <2>1, <2>2 DEF AheadInv
<1>3. ASSUME NEW b \in Builds, BeginTask(b) PROVE AheadInv'
  <2>1. /\ pc[b] = "tasks" /\ UNCHANGED <<at, started>>
        /\ \A c \in Builds \ {b} : pc'[c] = pc[c]
        /\ at[b] \in 1 .. NTasks[JobOf[b]]
    BY <1>3 DEF BeginTask, TypeOK, TasksOver
  <2>2. Task(b) \in Tasks
    BY <2>1, TasksList DEF Task
  <2>3. Task(b)' = Task(b) /\ \A m : Firm(b, m)' <=> Firm(b, m)
    BY <2>1 DEF Task, Firm
  <2>4. ASSUME Leads(b) PROVE \A m \in Nat : m >= at[b] /\ Firm(b, m) => Pending(b, m)
    BY <1>0, <2>1, <2>4 DEF Ahead
  <2>5. \A m \in Nat : m > at[b] => m >= at[b] /\ Firm(b, m)
    BY <2>1 DEF Firm
  <2>6. CASE row' = [row EXCEPT ![Task(b)] = "running"] /\ pc'[b] = "mkdir"
    <3>1. \A m \in Nat : m > at[b] /\ Pending(b, m) => Pending(b, m)'
      BY <2>1, <2>2, <2>6 DEF Pending, Task, TypeOK
    <3>2. row'[Task(b)] = "running"
      BY <2>2, <2>6 DEF TypeOK
    <3>3. Ahead(b)'
      BY <2>1, <2>3, <2>4, <2>5, <2>6, <3>1, <3>2 DEF Ahead, Leads, AtTask, Before
    <3> QED BY <1>2, <2>1, <2>6, <3>3 DEF Looping
  <2>7. CASE UNCHANGED row /\ pc'[b] = "fail"
    <3>1. Leads(b) /\ Firm(b, at[b]) => row[Task(b)] = "pending"
      BY <2>1, <2>4 DEF Pending, Task
    <3>2. \A m : Pending(b, m)' <=> Pending(b, m)
      BY <2>7 DEF Pending
    <3>3. Ahead(b)'
      BY <2>1, <2>3, <2>4, <2>5, <2>7, <3>1, <3>2 DEF Ahead, Leads, AtTask, Before
    <3>4. \A c \in Builds \ {b} : Ahead(c)'
      BY <1>0, <2>1, <2>7, AheadIdle
    <3>5. Untried'
      BY <1>0, <2>1, <2>7 DEF Untried
    <3> QED BY <3>3, <3>4, <3>5 DEF AheadInv
  <2> QED BY <1>3, <2>6, <2>7 DEF BeginTask, TypeOK
<1>4. ASSUME NEW b \in Builds, MakeLog(b) PROVE AheadInv'
  <2>1. /\ pc[b] = "mkdir" /\ pc'[b] \in {"start", "fail"} /\ UNCHANGED <<at, row, started>>
        /\ \A c \in Builds \ {b} : pc'[c] = pc[c]
    BY <1>4 DEF MakeLog, TypeOK
  <2>2. CASE pc'[b] = "fail"
    BY <1>1, <2>1, <2>2 DEF AtTask
  <2>3. CASE pc'[b] = "start"
    <3>1. \A m : (Firm(b, m)' <=> Firm(b, m)) /\ (Pending(b, m)' <=> Pending(b, m))
      BY <2>1 DEF Firm, Pending
    <3>2. Ahead(b)'
      BY <1>0, <2>1, <2>3, <3>1 DEF Ahead, Leads, AtTask, Before, Task
    <3>3. \A c \in Builds \ {b} : Ahead(c)'
      BY <1>0, <2>1, AheadIdle
    <3> QED BY <1>0, <2>1, <3>2, <3>3 DEF AheadInv, Untried
  <2> QED BY <2>1, <2>2, <2>3
<1>5. ASSUME NEW b \in Builds, StartScript(b) PROVE AheadInv'
  <2>1. /\ pc[b] = "start" /\ pc'[b] \in {"script", "fail"} /\ UNCHANGED <<at, row>>
        /\ \A c \in Builds \ {b} : pc'[c] = pc[c]
    BY <1>5 DEF StartScript, TypeOK
  <2>2. CASE UNCHANGED started /\ pc'[b] = "fail"
    BY <1>1, <2>1, <2>2 DEF AtTask
  <2>3. CASE started' = started \cup {<<b, at[b]>>} /\ pc'[b] = "script"
    <3>1. \A c \in Builds : \A m : (Firm(c, m)' <=> Firm(c, m)) /\ (Pending(c, m)' <=> Pending(c, m))
      BY <2>1 DEF Firm, Pending
    <3>2. \A c \in Builds \ {b} : Ahead(c)'
      <4> SUFFICES ASSUME NEW c \in Builds \ {b} PROVE Ahead(c)'
        OBVIOUS
      <4>1. Leads(c)' <=> Leads(c)
        BY <2>3 DEF Leads
      <4> QED BY <1>0, <2>1, <3>1, <4>1 DEF Ahead, Task
    <3>3. Untried'
      BY <1>0, <2>1, <2>3 DEF Untried
    <3>4. Ahead(b)'
      <4>1. CASE Leads(b)
        BY <1>0, <2>1, <2>3, <3>1, <4>1 DEF Ahead, AtTask, Before, Task
      <4>2. CASE ~Leads(b)
        <5>1. at[b] = 1 /\ <<b, 1>> \notin started /\ ~Firm(b, 1)
          <6>1. ~(at[b] > 1)
            BY <2>1, <4>2, PastFirstLeads DEF Looping, AtTask
          <6>2. at[b] = 1
            BY <6>1 DEF TypeOK
          <6> QED BY <4>2, <6>2 DEF Leads, Firm
        <5>2. \A c \in Builds : JobOf[c] = JobOf[b] => <<c, 1>> \notin started
          <6> SUFFICES ASSUME NEW c \in Builds, JobOf[c] = JobOf[b], <<c, 1>> \in started PROVE FALSE
            OBVIOUS
          <6>1. ScriptTask(<<c, 1>>) = Task(b)
            BY <5>1 DEF ScriptTask, Task
          <6> QED BY <2>1, <6>1 DEF StartInv
        <5>3. \A m \in Nat : m > 1 => Pending(b, m)
          <6> SUFFICES ASSUME NEW m \in Nat, m > 1, m \in 1 .. NTasks[JobOf[b]]
                       PROVE  row[<<JobOf[b], m>>] = "pending"
            BY DEF Pending
          <6>1. <<JobOf[b], m>> \in Tasks
            BY TasksList
          <6> QED BY <1>0, <5>2, <6>1 DEF Untried
        <5> QED BY <2>1, <2>3, <3>1, <5>1, <5>3 DEF Ahead, AtTask, Before
      <4> QED BY <4>1, <4>2
    <3> QED BY <3>2, <3>3, <3>4 DEF AheadInv
  <2> QED BY <1>5, <2>2, <2>3 DEF StartScript, TypeOK
<1>6. ASSUME NEW b \in Builds, ScriptEnds(b) PROVE AheadInv'
  <2>1. /\ pc[b] = "script" /\ pc'[b] \in {"record", "fail"} /\ UNCHANGED <<at, row, started>>
        /\ \A c \in Builds \ {b} : pc'[c] = pc[c]
    BY <1>6 DEF ScriptEnds, TypeOK
  <2>2. CASE pc'[b] = "fail"
    BY <1>1, <2>1, <2>2 DEF AtTask
  <2>3. CASE pc'[b] = "record"
    <3>1. \A m : (Firm(b, m)' <=> Firm(b, m)) /\ (Pending(b, m)' <=> Pending(b, m))
      BY <2>1 DEF Firm, Pending
    <3>2. Ahead(b)'
      BY <1>0, <2>1, <2>3, <3>1 DEF Ahead, Leads, AtTask, Before, Task
    <3>3. \A c \in Builds \ {b} : Ahead(c)'
      BY <1>0, <2>1, AheadIdle
    <3> QED BY <1>0, <2>1, <3>2, <3>3 DEF AheadInv, Untried
  <2> QED BY <2>1, <2>2, <2>3
<1>7. ASSUME NEW b \in Builds, RecordTask(b) \/ FailTask(b) PROVE AheadInv'
  <2>1. /\ UNCHANGED <<at, started>>
        /\ pc[b] \in {"record", "fail"}
        /\ pc'[b] = IF pc[b] = "record" THEN "mark" ELSE "standby"
        /\ \A c \in Builds \ {b} : pc'[c] = pc[c]
    BY <1>7 DEF RecordTask, FailTask, TypeOK
  <2>2. CASE UNCHANGED row
    BY <1>1, <2>1, <2>2 DEF AtTask, Before, Looping
  <2>3. ASSUME NEW v, row' = [row EXCEPT ![Task(b)] = v] PROVE AheadInv'
    <3>1. \A m \in Nat : m > at[b] /\ Pending(b, m) => Pending(b, m)'
      BY <2>1, <2>3, TasksList DEF Pending, Task, TypeOK
    <3>2. Ahead(b)'
      BY <1>0, <2>1, <3>1 DEF Ahead, Leads, AtTask, Before, Looping
    <3> QED BY <1>2, <2>1, <2>3, <3>2 DEF Looping, AtTask
  <2> QED BY <1>7, <2>2, <2>3 DEF RecordTask, FailTask, SetTaskStatus
<1>8. ASSUME NEW b \in Builds, CheckMark(b) PROVE AheadInv'
  <2>1. /\ pc[b] = "mark" /\ pc'[b] \in {"skip", "tasks"} /\ at'[b] = at[b] + 1
        /\ UNCHANGED <<row, started>>
        /\ \A c \in Builds \ {b} : pc'[c] = pc[c] /\ at'[c] = at[c]
    BY <1>8 DEF CheckMark, TypeOK
  <2>2. \A m : (Firm(b, m)' <=> Firm(b, m)) /\ (Pending(b, m)' <=> Pending(b, m))
    BY <2>1 DEF Firm, Pending
  <2>3. \A m \in Nat : m >= at[b] + 1 => m > at[b]
    BY DEF TypeOK
  <2>4. Ahead(b)'
    BY <1>0, <2>1, <2>2, <2>3 DEF Ahead, Leads, AtTask, Before
  <2>5. \A c \in Builds \ {b} : Ahead(c)'
    BY <1>0, <2>1, AheadIdle
  <2> QED BY <1>0, <2>1, <2>4, <2>5 DEF AheadInv, Untried
<1>9. ASSUME NEW b \in Builds, SkipTask(b) PROVE AheadInv'
  <2>1. /\ pc[b] = "skip" /\ pc'[b] = "skip" /\ at'[b] = at[b] + 1
        /\ UNCHANGED started
        /\ \A c \in Builds \ {b} : pc'[c] = pc[c] /\ at'[c] = at[c]
    BY <1>9 DEF SkipTask, TypeOK
  <2>2. \A m : Firm(b, m)' <=> Firm(b, m)
    BY <2>1 DEF Firm
  <2>3. \A m \in Nat : m >= at[b] + 1 => m > at[b] /\ m >= at[b]
    BY DEF TypeOK
  <2>4. CASE UNCHANGED row
    <3>1. \A m : Pending(b, m)' <=> Pending(b, m)
      BY <2>4 DEF Pending
    <3>2. Ahead(b)'
      BY <1>0, <2>1, <2>2, <2>3, <3>1 DEF Ahead, Leads, AtTask, Before
    <3>3. \A c \in Builds \ {b} : Ahead(c)'
      BY <1>0, <2>1, <2>4, AheadIdle
    <3> QED BY <1>0, <2>1, <2>4, <3>2, <3>3 DEF AheadInv, Untried
  <2>5. CASE row' = [row EXCEPT ![Task(b)] = "skipped"]
    <3>1. \A m \in Nat : m > at[b] /\ Pending(b, m) => Pending(b, m)'
      BY <2>1, <2>5, TasksList DEF Pending, Task, TypeOK
    <3>2. Ahead(b)'
      BY <1>0, <2>1, <2>2, <2>3, <3>1 DEF Ahead, Leads, AtTask, Before
    <3> QED BY <1>2, <2>1, <2>5, <3>2 DEF Looping
  <2> QED BY <1>9, <2>4, <2>5 DEF SkipTask, SetTaskStatus
<1>10. ASSUME NEW b \in Builds, Upload(b) \/ Frame(b) PROVE AheadInv'
  <2>1. CASE Upload(b)
    BY <1>1, <2>1 DEF Upload, BeginUpload, Measure, Put, InsertArtifact, tasks, TypeOK, Before,
       Looping, AtTask
  <2>2. CASE Frame(b)
    BY <1>1, <2>2 DEF Frame, TakePort, SetBack, Boot, Settle, Finish, Cleanup, tasks, TypeOK, Before,
       Looping, AtTask
  <2> QED BY <1>10, <2>1, <2>2
<1>11. CASE Crash
  BY <1>1, <1>11 DEF Crash, Active, tasks, Before, Looping, AtTask, TypeOK
<1>12. CASE UNCHANGED vars
  BY <1>1, <1>12 DEF vars, tasks
<1> QED BY <1>3, <1>4, <1>5, <1>6, <1>7, <1>8, <1>9, <1>10, <1>11, <1>12, NextSteps, Zenon DEF Loop

ListInv == TypeOK /\ StartInv /\ LeadInv /\ WorkInv /\ AheadInv

LEMMA NextListInv == ListInv /\ [Next]_vars => ListInv'
  BY NextType, NextStartInv, NextLeadInv, NextWorkInv, NextAheadInv DEF ListInv

LEMMA ContestedIsNotFirm ==
  ASSUME NEW b \in Builds, NEW m \in Nat \ {0}
  PROVE  List!Contested(<<JobOf[b], m>>) <=> ~Firm(b, m)
<1>1. JobOf[b] \in SharedJobs <=> \E c \in Builds : c # b /\ JobOf[c] = JobOf[b]
  <2>1. ASSUME NEW d \in Builds, NEW e \in Builds, e # d, JobOf[e] = JobOf[d], JobOf[d] = JobOf[b]
        PROVE  \E c \in Builds : c # b /\ JobOf[c] = JobOf[b]
    BY <2>1
  <2> QED BY <2>1 DEF SharedJobs
<1> QED BY <1>1 DEF List!Contested, Firm

LEMMA ListTasks == List!Tasks = Tasks
  BY DEF List!Tasks, Tasks

\* A build that is at a task of its list, and leads or is about to, has its turn.
LEMMA HasTurn ==
  ASSUME ListInv, NEW b \in Builds, pc[b] \in Looping \ {"skip"},
         \A c \in Builds : Leads(c) /\ JobOf[c] = JobOf[b] => c = b
  PROVE  List!Turn(Task(b))
<1> USE DEF ListInv
<1>1. JobOf[b] \notin skippingOf
  <2> SUFFICES ASSUME NEW c \in Builds, pc[c] = "skip", JobOf[c] = JobOf[b] PROVE FALSE
    BY DEF skippingOf
  <2>1. Leads(c)
    BY PastFirstLeads
  <2> QED BY <2>1
<1>2. JobOf[b] \notin stoppedOf
  <2> SUFFICES ASSUME NEW c \in Builds, Leads(c), pc[c] \notin Before \cup Looping, JobOf[c] = JobOf[b]
               PROVE  FALSE
    BY DEF stoppedOf
  <2> QED OBVIOUS
<1>3. \A m \in 1 .. at[b] - 1 : <<JobOf[b], m>> \in doneOf
  <2> SUFFICES ASSUME NEW m \in 1 .. at[b] - 1 PROVE <<JobOf[b], m>> \in doneOf
    OBVIOUS
  <2>1. <<b, m>> \in finished
    BY DEF WorkInv, Worked
  <2>2. ScriptTask(<<b, m>>) = <<JobOf[b], m>>
    BY DEF ScriptTask
  <2> QED BY <2>1, <2>2 DEF doneOf
<1> QED BY <1>1, <1>2, <1>3 DEF List!Turn, Task

LEMMA LeaderHasTurn ==
  ASSUME ListInv, NEW b \in Builds, pc[b] \in Looping \ {"skip"}, Leads(b)
  PROVE  List!Turn(Task(b))
<1>1. \A c \in Builds : Leads(c) /\ JobOf[c] = JobOf[b] => c = b
  BY OneLeader DEF ListInv, StartInv
<1> QED BY <1>1, HasTurn

\* Only the leader starts and finishes the scripts it is past.
LEMMA LeadersTasks ==
  ASSUME ListInv, NEW b \in Builds, Leads(b)
  PROVE  /\ Task(b) \in begunOf <=> <<b, at[b]>> \in started
         /\ Task(b) \in doneOf <=> <<b, at[b]>> \in finished
<1> USE DEF ListInv
<1>1. ASSUME NEW s \in started, ScriptTask(s) = Task(b) PROVE s = <<b, at[b]>>
  <2>1. s[1] \in Builds /\ s = <<s[1], s[2]>> /\ JobOf[s[1]] = JobOf[b] /\ s[2] = at[b]
    BY <1>1 DEF TypeOK, ScriptTask, Task
  <2>2. <<s[1], 1>> \in started
    BY DEF LeadInv
  <2>3. Leads(s[1])
    BY <2>2 DEF Leads
  <2>4. s[1] = b
    BY <2>1, <2>3, OneLeader DEF StartInv
  <2> QED BY <2>1, <2>4
<1>2. ScriptTask(<<b, at[b]>>) = Task(b)
  BY DEF ScriptTask, Task
<1>3. finished \subseteq started
  BY DEF WorkInv
<1> QED BY <1>1, <1>2, <1>3 DEF begunOf, doneOf

\* Steps that TaskList does not see...
LEMMA MapsToStutter ==
  ASSUME UNCHANGED <<row, started, finished>>,
         \A c \in Builds : /\ pc'[c] = "skip" <=> pc[c] = "skip"
                           /\ Leads(c) => (pc'[c] \in Before \cup Looping <=> pc[c] \in Before \cup Looping)
  PROVE  UNCHANGED List!list
<1>1. UNCHANGED <<begunOf, doneOf>>
  BY DEF begunOf, doneOf
<1>2. UNCHANGED skippingOf
  BY DEF skippingOf
<1>3. \A c \in Builds : Leads(c)' <=> Leads(c)
  BY DEF Leads
<1>4. UNCHANGED stoppedOf
  BY <1>3 DEF stoppedOf
<1> QED BY <1>1, <1>2, <1>4 DEF List!list

\* ...and those by which builds leave their lists.
LEMMA MapsToStop ==
  ASSUME ListInv, UNCHANGED <<row, started, finished>>,
         \A c \in Builds : /\ pc'[c] = "skip" => pc[c] = "skip"
                           /\ pc[c] = "skip" => pc'[c] = "skip" \/ pc'[c] \notin Before \cup Looping
                           /\ pc[c] \notin Before \cup Looping => pc'[c] \notin Before \cup Looping
  PROVE  List!Next
<1> USE DEF ListInv
<1>1. UNCHANGED <<begunOf, doneOf>>
  BY DEF begunOf, doneOf
<1>2. \A c \in Builds : Leads(c)' <=> Leads(c)
  BY DEF Leads
<1>3. stoppedOf' = stoppedOf \cup stoppedOf'
  BY <1>2 DEF stoppedOf
<1>4. skippingOf' = skippingOf \ stoppedOf'
  <2>1. ASSUME NEW c \in Builds, pc'[c] = "skip" PROVE JobOf[c] \in skippingOf \ stoppedOf'
    <3>1. pc[c] = "skip"
      BY <2>1
    <3>2. Leads(c)
      BY <3>1, PastFirstLeads
    <3>3. ASSUME NEW d \in Builds, Leads(d)', pc'[d] \notin Before \cup Looping, JobOf[d] = JobOf[c]
          PROVE  FALSE
      <4>1. d = c
        BY <1>2, <3>2, <3>3, OneLeader DEF StartInv
      <4> QED BY <2>1, <3>3, <4>1 DEF Looping
    <3>4. JobOf[c] \notin stoppedOf'
      BY <3>3 DEF stoppedOf
    <3> QED BY <3>1, <3>4 DEF skippingOf
  <2>2. ASSUME NEW c \in Builds, pc[c] = "skip", JobOf[c] \notin stoppedOf'
        PROVE  JobOf[c] \in skippingOf'
    <3>1. Leads(c)'
      BY <1>2, <2>2, PastFirstLeads
    <3>2. pc'[c] = "skip"
      BY <2>2, <3>1 DEF stoppedOf
    <3> QED BY <3>2 DEF skippingOf
  <2> QED BY <2>1, <2>2 DEF skippingOf
<1>5. stoppedOf' \in SUBSET Jobs
  BY GuestConstants DEF stoppedOf
<1>6. List!Stop(stoppedOf')
  BY <1>1, <1>3, <1>4 DEF List!Stop
<1> QED BY <1>5, <1>6 DEF List!Next

\* A delivery that does not lead is at the first task of a job that was queued
\* more than once.
LEMMA DisturbsFirst ==
  ASSUME ListInv, NEW b \in Builds, pc[b] \in Looping, ~Leads(b)
  PROVE  List!Contested(Task(b))
<1> USE DEF ListInv
<1>1. ~(at[b] > 1)
  BY PastFirstLeads
<1>2. at[b] = 1
  BY <1>1 DEF TypeOK
<1>3. ~Firm(b, 1)
  BY DEF Leads, Firm
<1> QED BY <1>2, <1>3, ContestedIsNotFirm DEF Task

LEMMA TaskSteps ==
  ASSUME NEW t \in Tasks,
         \/ List!Announce(t) \/ List!Run(t) \/ List!Exit(t) \/ List!Record(t) \/ List!Fail(t)
         \/ List!Complete(t) \/ List!Skip(t) \/ List!Disturb(t)
  PROVE  List!Next
  BY ListTasks DEF List!Next

LEMMA LoopMaps ==
  ASSUME ListInv, NEW b \in Builds, Loop(b) PROVE List!Next \/ UNCHANGED List!list
<1> USE DEF Step, Goto, Advance
<1>0. TypeOK /\ StartInv /\ LeadInv /\ WorkInv /\ Ahead(b)
  BY DEF ListInv, AheadInv
<1>a. at[b] \in Nat \ {0} /\ at[b] >= at[b] /\ Task(b) = <<JobOf[b], at[b]>>
  BY <1>0 DEF TypeOK, Task
<1>b. List!Contested(Task(b)) <=> ~Firm(b, at[b])
  BY <1>a, ContestedIsNotFirm
<1>c. pc[b] \in Looping
  BY <1>0, GuestStays DEF Loop, BeginTask, MakeLog, StartScript, ScriptEnds, RecordTask, CheckMark,
     SkipTask, FailTask, Looping, AtTask
<1>1. CASE BeginTask(b)
  <2>1. /\ pc[b] = "tasks" /\ pc'[b] \in {"mkdir", "fail"} /\ UNCHANGED <<started, finished>>
        /\ \A c \in Builds \ {b} : pc'[c] = pc[c]
        /\ at[b] \in 1 .. NTasks[JobOf[b]]
    BY <1>0, <1>1, GuestConstants DEF BeginTask, TypeOK, TasksOver
  <2>2. Task(b) \in Tasks
    BY <1>a, <2>1, TasksList, GuestConstants
  <2>3. UNCHANGED row => UNCHANGED List!list
    BY <2>1, MapsToStutter DEF Looping, AtTask
  <2>4. CASE row' = [row EXCEPT ![Task(b)] = "running"]
    <3>1. UNCHANGED <<begunOf, doneOf, skippingOf, stoppedOf>>
      BY <2>1 DEF begunOf, doneOf, skippingOf, stoppedOf, Leads, Looping, AtTask
    <3>2. CASE Leads(b)
      <4>1. List!Turn(Task(b))
        BY <2>1, <3>2, LeaderHasTurn DEF Looping
      <4>2. Task(b) \notin begunOf
        <5>1. <<b, at[b]>> \notin started
          BY <1>0, <1>a, <2>1 DEF LeadInv, Lead
        <5> QED BY <3>2, <5>1, LeadersTasks
      <4>3. Firm(b, at[b]) => row[Task(b)] = "pending"
        BY <1>0, <1>a, <2>1, <3>2 DEF Ahead, Pending
      <4>4. List!Announce(Task(b))
        BY <1>b, <2>4, <3>1, <4>1, <4>2, <4>3 DEF List!Announce, List!Write
      <4> QED BY <2>2, <4>4, TaskSteps
    <3>3. CASE ~Leads(b)
      <4>1. List!Disturb(Task(b))
        BY <1>c, <2>4, <3>1, <3>3, DisturbsFirst DEF List!Disturb
      <4> QED BY <2>2, <4>1, TaskSteps
    <3> QED BY <3>2, <3>3
  <2> QED BY <1>1, <2>3, <2>4 DEF BeginTask
<1>2. CASE MakeLog(b)
  BY <1>0, <1>2, MapsToStutter DEF MakeLog, TypeOK, Looping, AtTask
<1>3. CASE StartScript(b)
  <2>1. /\ pc[b] = "start" /\ pc'[b] \in {"script", "fail"} /\ UNCHANGED <<row, finished>>
        /\ \A c \in Builds \ {b} : pc'[c] = pc[c]
    BY <1>0, <1>3 DEF StartScript, TypeOK
  <2>2. CASE UNCHANGED started
    BY <2>1, <2>2, MapsToStutter DEF Looping, AtTask
  <2>3. CASE started' = started \cup {<<b, at[b]>>}
    <3>1. \A s \in started : ScriptTask(s) # Task(b)
      BY <1>0, <2>1 DEF StartInv
    <3>2. ScriptTask(<<b, at[b]>>) = Task(b)
      BY <1>a DEF ScriptTask
    <3>3. begunOf' = begunOf \cup {Task(b)}
      BY <2>3, <3>2 DEF begunOf, ScriptTask
    <3>4. Task(b) \notin begunOf
      BY <3>1 DEF begunOf
    <3>5. \A c \in Builds : Leads(c) /\ JobOf[c] = JobOf[b] => c = b
      <4> SUFFICES ASSUME NEW c \in Builds, Leads(c), JobOf[c] = JobOf[b], c # b PROVE FALSE
        OBVIOUS
      <4>1. <<c, 1>> \in started
        BY DEF Leads
      <4>2. Leads(c) /\ (at[b] > 1 => Leads(b))
        BY <1>0, <1>c, PastFirstLeads
      <4>3. ~(at[b] > 1)
        BY <1>0, <4>2, OneLeader DEF StartInv
      <4>4. ScriptTask(<<c, 1>>) = Task(b)
        BY <1>a, <4>3 DEF ScriptTask
      <4> QED BY <3>1, <4>1, <4>4
    <3>6. List!Turn(Task(b))
      BY <2>1, <3>5, HasTurn DEF Looping, AtTask
    <3>7. UNCHANGED <<doneOf, skippingOf>>
      BY <2>1 DEF doneOf, skippingOf
    <3>8. UNCHANGED stoppedOf
      <4>1. \A c \in Builds : c # b => (Leads(c)' <=> Leads(c))
        BY <2>3 DEF Leads
      <4> QED BY <2>1, <4>1 DEF stoppedOf, Looping, AtTask
    <3>9. List!Contested(Task(b)) \/ row[Task(b)] = "running"
      <4>1. CASE Leads(b)
        BY <1>0, <1>b, <2>1, <4>1 DEF Ahead
      <4>2. CASE ~Leads(b)
        BY <1>c, <4>2, DisturbsFirst
      <4> QED BY <4>1, <4>2
    <3>10. List!Run(Task(b))
      BY <2>1, <3>3, <3>4, <3>6, <3>7, <3>8, <3>9 DEF List!Run
    <3> QED BY <1>0, <2>1, <3>10, TaskSteps DEF TypeOK, AtTask
  <2> QED BY <1>3, <2>2, <2>3 DEF StartScript
<1>4. CASE ScriptEnds(b)
  <2>1. /\ pc[b] = "script" /\ pc'[b] \in {"record", "fail"} /\ UNCHANGED <<row, started>>
        /\ \A c \in Builds \ {b} : pc'[c] = pc[c]
    BY <1>0, <1>4 DEF ScriptEnds, TypeOK
  <2>2. CASE UNCHANGED finished
    BY <2>1, <2>2, MapsToStutter DEF Looping, AtTask
  <2>3. CASE finished' = finished \cup {<<b, at[b]>>}
    <3>1. Leads(b)
      BY <1>0, <2>1, PastFirstLeads
    <3>2. Task(b) \in begunOf
      BY <1>0, <2>1, <3>1, LeadersTasks DEF LeadInv, Lead
    <3>3. doneOf' = doneOf \cup {Task(b)}
      <4>1. ScriptTask(<<b, at[b]>>) = Task(b)
        BY <1>a DEF ScriptTask
      <4> QED BY <2>3, <4>1 DEF doneOf, ScriptTask
    <3>4. UNCHANGED <<begunOf, skippingOf, stoppedOf>>
      BY <2>1 DEF begunOf, skippingOf, stoppedOf, Leads, Looping, AtTask
    <3>5. List!Turn(Task(b))
      BY <2>1, <3>1, LeaderHasTurn DEF Looping, AtTask
    <3>6. List!Exit(Task(b))
      BY <2>1, <3>2, <3>3, <3>4, <3>5 DEF List!Exit
    <3> QED BY <1>0, <2>1, <3>6, TaskSteps DEF TypeOK, AtTask
  <2> QED BY <1>4, <2>2, <2>3 DEF ScriptEnds
<1>5. CASE RecordTask(b)
  <2>1. /\ pc[b] = "record" /\ pc'[b] = "mark" /\ UNCHANGED <<started, finished>>
        /\ \A c \in Builds \ {b} : pc'[c] = pc[c]
    BY <1>0, <1>5 DEF RecordTask, TypeOK
  <2>2. CASE UNCHANGED row
    BY <2>1, <2>2, MapsToStutter DEF Looping, AtTask
  <2>3. CASE row' = [row EXCEPT ![Task(b)] = "success"]
    <3>1. Leads(b)
      BY <1>0, <2>1, PastFirstLeads
    <3>2. Task(b) \in doneOf
      BY <1>0, <2>1, <3>1, LeadersTasks DEF LeadInv, Lead
    <3>3. UNCHANGED <<begunOf, doneOf, skippingOf, stoppedOf>>
      BY <2>1 DEF begunOf, doneOf, skippingOf, stoppedOf, Leads, Looping, AtTask
    <3>4. List!Turn(Task(b))
      BY <2>1, <3>1, LeaderHasTurn DEF Looping, AtTask
    <3>5. Firm(b, at[b]) => row[Task(b)] = "running"
      BY <1>0, <2>1, <3>1 DEF Ahead
    <3>6. List!Record(Task(b))
      BY <1>b, <2>3, <3>2, <3>3, <3>4, <3>5 DEF List!Record, List!Write
    <3> QED BY <1>0, <2>1, <3>6, TaskSteps DEF TypeOK, AtTask
  <2> QED BY <1>5, <2>2, <2>3 DEF RecordTask, SetTaskStatus
<1>6. CASE CheckMark(b)
  <2>1. /\ pc[b] = "mark" /\ pc'[b] \in {"skip", "tasks"} /\ UNCHANGED <<row, started, finished>>
        /\ \A c \in Builds \ {b} : pc'[c] = pc[c]
    BY <1>0, <1>6 DEF CheckMark, TypeOK
  <2>2. CASE pc'[b] = "tasks"
    BY <2>1, <2>2, MapsToStutter DEF Looping
  <2>3. CASE pc'[b] = "skip"
    <3>1. Leads(b)
      BY <1>0, <2>1, PastFirstLeads
    <3>2. Task(b) \in doneOf
      BY <1>0, <2>1, <3>1, LeadersTasks DEF LeadInv, Lead
    <3>3. UNCHANGED <<begunOf, doneOf, stoppedOf>>
      BY <2>1 DEF begunOf, doneOf, stoppedOf, Leads, Looping
    <3>4. skippingOf' = skippingOf \cup {JobOf[b]}
      BY <2>1, <2>3 DEF skippingOf
    <3>5. List!Turn(Task(b))
      BY <2>1, <3>1, LeaderHasTurn DEF Looping
    <3>6. List!Complete(Task(b))
      BY <1>a, <2>1, <3>2, <3>3, <3>4, <3>5 DEF List!Complete
    <3>7. Task(b) \in Tasks
      <4>1. <<b, at[b]>> \in started /\ ScriptTask(<<b, at[b]>>) = Task(b)
        BY <1>0, <1>a, <2>1 DEF LeadInv, Lead, ScriptTask
      <4>2. Task(b) \in logDirs
        BY <1>0, <4>1 DEF StartInv
      <4> QED BY <1>0, <4>2 DEF TypeOK
    <3> QED BY <3>6, <3>7, TaskSteps
  <2> QED BY <2>1, <2>2, <2>3
<1>7. CASE SkipTask(b)
  <2>0. at[b] \in 1 .. NTasks[JobOf[b]]
    BY <1>a, <1>7, GuestConstants DEF SkipTask, TasksOver
  <2>1. /\ pc[b] = "skip" /\ UNCHANGED <<started, finished>>
        /\ \A c \in Builds : pc'[c] = pc[c]
    BY <1>0, <1>7 DEF SkipTask, TypeOK
  <2>2. CASE UNCHANGED row
    BY <2>1, <2>2, MapsToStutter
  <2>3. CASE row' = [row EXCEPT ![Task(b)] = "skipped"]
    <3>1. Leads(b)
      BY <1>0, <2>1, PastFirstLeads
    <3>2. Task(b) \notin begunOf
      <4>1. <<b, at[b]>> \notin started
        BY <1>0, <1>a, <2>1 DEF LeadInv, Lead
      <4> QED BY <3>1, <4>1, LeadersTasks
    <3>3. UNCHANGED <<begunOf, doneOf, skippingOf, stoppedOf>>
      BY <2>1 DEF begunOf, doneOf, skippingOf, stoppedOf, Leads
    <3>4. JobOf[b] \in skippingOf
      BY <2>1 DEF skippingOf
    <3>5. Firm(b, at[b]) => row[Task(b)] = "pending"
      BY <1>0, <1>a, <2>0, <2>1, <3>1 DEF Ahead, Pending
    <3>6. List!Skip(Task(b))
      BY <1>a, <1>b, <2>3, <3>2, <3>3, <3>4, <3>5 DEF List!Skip, List!Write
    <3>7. Task(b) \in Tasks
      BY <1>a, <2>0, TasksList, GuestConstants
    <3> QED BY <3>6, <3>7, TaskSteps
  <2> QED BY <1>7, <2>2, <2>3 DEF SkipTask, SetTaskStatus
<1>8. CASE FailTask(b)
  <2>1. /\ pc[b] = "fail" /\ pc'[b] = "standby" /\ UNCHANGED <<started, finished>>
        /\ \A c \in Builds \ {b} : pc'[c] = pc[c]
    BY <1>0, <1>8 DEF FailTask, TypeOK
  <2>2. CASE UNCHANGED row
    BY <2>1, <2>2, MapsToStop DEF Before, Looping, AtTask
  <2>3. CASE row' = [row EXCEPT ![Task(b)] = "failed"]
    <3>1. UNCHANGED <<begunOf, doneOf, skippingOf>>
      BY <2>1 DEF begunOf, doneOf, skippingOf
    <3>2. \A c \in Builds : Leads(c)' <=> Leads(c)
      BY <2>1 DEF Leads
    <3>3. CASE Leads(b)
      <4>1. stoppedOf' = stoppedOf \cup {JobOf[b]}
        BY <2>1, <3>2, <3>3 DEF stoppedOf, Before, Looping, AtTask
      <4>2. Task(b) \notin doneOf
        <5>1. <<b, at[b]>> \notin finished
          BY <1>0, <1>a, <2>1 DEF WorkInv, Worked
        <5> QED BY <3>3, <5>1, LeadersTasks
      <4>3. List!Turn(Task(b))
        BY <2>1, <3>3, LeaderHasTurn DEF Looping, AtTask
      <4>4. Firm(b, at[b]) => row[Task(b)] \in {"pending", "running"}
        BY <1>0, <2>1, <3>3 DEF Ahead
      <4>5. List!Fail(Task(b))
        BY <1>a, <1>b, <2>3, <3>1, <4>1, <4>2, <4>3, <4>4 DEF List!Fail, List!Write
      <4> QED BY <1>0, <2>1, <4>5, TaskSteps DEF TypeOK, AtTask
    <3>4. CASE ~Leads(b)
      <4>1. UNCHANGED stoppedOf
        BY <2>1, <3>2, <3>4 DEF stoppedOf
      <4>2. List!Disturb(Task(b))
        BY <1>c, <2>3, <3>1, <3>4, <4>1, DisturbsFirst DEF List!Disturb
      <4> QED BY <1>0, <2>1, <4>2, TaskSteps DEF TypeOK, AtTask
    <3> QED BY <3>3, <3>4
  <2> QED BY <1>8, <2>2, <2>3 DEF FailTask, SetTaskStatus
<1> QED BY <1>1, <1>2, <1>3, <1>4, <1>5, <1>6, <1>7, <1>8, Zenon DEF Loop

LEMMA InitListInv == Init => ListInv
<1> SUFFICES ASSUME Init PROVE ListInv
  OBVIOUS
<1>1. StartInv
  BY DEF Init, StartInv, StartsOnce
<1>2. LeadInv
  BY DEF Init, LeadInv, Lead, Looping, Later, AtTask
<1>3. WorkInv
  BY DEF Init, WorkInv, Worked, Looping, AtTask
<1>4. AheadInv
  <2>1. \A j, m : m \in 1 .. NTasks[j] /\ j \in Jobs => row[<<j, m>>] = "pending"
    BY TasksList DEF Init
  <2>2. \A b \in Builds : JobOf[b] \in Jobs
    BY GuestConstants
  <2>3. \A b \in Builds : Ahead(b)
    BY <2>1, <2>2 DEF Init, Ahead, Pending, Before, AtTask
  <2> QED BY <2>3 DEF Init, AheadInv, Untried
<1> QED BY <1>1, <1>2, <1>3, <1>4, InitType DEF ListInv

LEMMA NextMaps == ListInv /\ [Next]_vars => [List!Next]_List!list
<1> SUFFICES ASSUME ListInv, [Next]_vars PROVE List!Next \/ UNCHANGED List!list
  OBVIOUS
<1>0. TypeOK
  BY DEF ListInv
<1>1. ASSUME NEW b \in Builds, Upload(b) \/ Frame(b) PROVE List!Next
  <2>1. CASE Upload(b)
    BY <1>0, <2>1, MapsToStop DEF Upload, BeginUpload, Measure, Put, InsertArtifact, tasks, TypeOK,
       Step, Goto, Before, Looping, AtTask
  <2>2. CASE Frame(b)
    BY <1>0, <2>2, MapsToStop DEF Frame, TakePort, SetBack, Boot, Settle, Finish, Cleanup, tasks,
       TypeOK, Step, Goto, Before, Looping, AtTask
  <2> QED BY <1>1, <2>1, <2>2
<1>2. CASE Crash
  BY <1>0, <1>2, MapsToStop DEF Crash, Active, tasks, TypeOK, Before, Looping, AtTask, InProgress, Phases
<1>3. CASE UNCHANGED vars
  BY <1>3, MapsToStutter DEF vars, tasks
<1> QED BY <1>1, <1>2, <1>3, LoopMaps, NextSteps

\* Whatever happens to builds, worker and database, the rows of the tasks change
\* as TaskList says, for any number of builds, deliveries, jobs and tasks.
THEOREM GuestImplementsTaskList == Spec => ImplementsTaskList
<1>1. Init => List!Init
  <2> SUFFICES ASSUME Init PROVE List!Init
    OBVIOUS
  <2>1. begunOf = {} /\ doneOf = {} /\ skippingOf = {} /\ stoppedOf = {}
    BY DEF Init, begunOf, doneOf, skippingOf, stoppedOf, Before
  <2> QED BY <2>1, ListTasks DEF Init, List!Init
<1> QED BY <1>1, InitListInv, NextListInv, NextMaps, PTL DEF Spec, ImplementsTaskList, List!Spec

\* What a row says of a task that is over is final, and a task is never again
\* pending, save for the first task of a job that was queued more than once.
THEOREM FinishedRowsStay ==
  Spec => [][\A t \in Tasks : ~List!Contested(t) =>
               /\ row[t] \in {"success", "failed", "skipped"} => row'[t] = row[t]
               /\ row[t] = "running" => row'[t] \in {"running", "success", "failed"}]_vars
<1> DEFINE Stays(t) == ~List!Contested(t) =>
             /\ row[t] \in {"success", "failed", "skipped"} => row'[t] = row[t]
             /\ row[t] = "running" => row'[t] \in {"running", "success", "failed"}
<1>1. ASSUME ListInv, Next PROVE \A t \in Tasks : Stays(t)
  <2>0. TypeOK
    BY <1>1 DEF ListInv
  <2>1. List!Next \/ UNCHANGED List!list
    BY <1>1, NextMaps
  <2>2. CASE UNCHANGED row
    BY <2>2
  <2>3. ASSUME NEW u \in Tasks, NEW before, NEW s, List!Write(u, before, s),
               \/ s = "running" /\ before = {"pending"}
               \/ s = "success" /\ before = {"running"}
               \/ s = "failed" /\ before = {"pending", "running"}
               \/ s = "skipped" /\ before = {"pending"}
        PROVE  \A t \in Tasks : Stays(t)
    BY <2>0, <2>3 DEF List!Write, TypeOK
  <2>4. ASSUME NEW u \in Tasks, List!Disturb(u) PROVE \A t \in Tasks : Stays(t)
    BY <2>0, <2>4 DEF List!Disturb, TypeOK
  <2>5. ASSUME NEW u \in Tasks, List!Announce(u) \/ List!Record(u) \/ List!Fail(u) \/ List!Skip(u)
        PROVE  \A t \in Tasks : Stays(t)
    BY <2>3, <2>5, Zenon DEF List!Announce, List!Record, List!Fail, List!Skip
  <2>6. UNCHANGED row \/ \E u \in Tasks : \/ List!Announce(u) \/ List!Record(u) \/ List!Fail(u)
                                          \/ List!Skip(u) \/ List!Disturb(u)
    BY <2>1, ListTasks DEF List!Next, List!list, List!Stop, List!Run, List!Exit, List!Complete
  <2> QED BY <2>2, <2>4, <2>5, <2>6
<1>2. ListInv /\ [Next]_vars => [\A t \in Tasks : Stays(t)]_vars
  BY <1>1
<1> QED BY <1>2, InitListInv, NextListInv, PTL DEF Spec
=============================================================================
