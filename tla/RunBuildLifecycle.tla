------------------------- MODULE RunBuildLifecycle -------------------------
(***************************************************************************)
(* RunBuild implements JobLifecycle, when every job is delivered once.     *)
(***************************************************************************)
EXTENDS RunBuild

RunOf(j) == CHOOSE r \in Runs : JobOf[r] = j

\* How far a run has come, for its job's status, when it is in phase p and has
\* decided on v.  A run that has panicked on its success path is where the
\* panic found it until it reads its verdict.
LifeOf(p, v) ==
  CASE p \in {"queued", "start"}         -> "queued"
    [] p = "insert"                      -> "started"
    [] p \in Building                    -> "building"
    [] p = "recover" /\ v # "success"    -> "building"
    [] p = "recover" /\ v = "success"    -> "written"
    [] p \in {"succeed", "record"}       -> "decided"
    [] p \in {"notify", "notifyFailure"} -> "written"
    [] p \in {"standby", "claimed", "cleanup", "done"} -> "ended"
    [] OTHER                             -> "lost"

LifePhase(r) == LifeOf(pc[r], verdict[r])

phaseOf   == [j \in Jobs |-> LifePhase(RunOf(j))]
verdictOf == [j \in Jobs |-> verdict[RunOf(j)]]
memOf     == [j \in Jobs |-> jobStatus[RunOf(j)]]
listedOf  == {j \in Jobs : jobs[j] # NoRun}

Lifecycle == INSTANCE JobLifecycle WITH
  phase <- phaseOf, verdict <- verdictOf, mem <- memOf, listed <- listedOf,
  MayCrash <- MaxCrashes > 0

\* Whatever the goroutines, the handlers, the database and crashes do, the row
\* of a job, its copy in memory and the outcome that is decided change only as
\* the life cycle allows: a cancel request never writes over a success, a
\* success is written once, by a build nobody can cancel any more, and what a
\* panicking trigger turns it into is a cancellation or a timeout.
ImplementsLifecycle == Lifecycle!Spec
=============================================================================
