----------------------------- MODULE GuestTasks -----------------------------
(***************************************************************************)
(* Guest implements TaskList: seen from the rows of the tasks, the         *)
(* deliveries of a job, the log directories they race for, the VMs, the    *)
(* artifacts and the crashes are one list of tasks that is worked off.     *)
(***************************************************************************)
EXTENDS Guest

\* The delivery that works off the list of its job: the only one, or the one
\* that has started the first script.
Leads(b) == <<b, 1>> \in started \/ \A c \in Builds : JobOf[c] = JobOf[b] => c = b

Before  == {"incr", "wrap", "boot", "settle"}
Looping == AtTask \cup {"tasks", "mark", "skip"}

ScriptTask(s) == <<JobOf[s[1]], s[2]>>

begunOf    == {ScriptTask(s) : s \in started}
doneOf     == {ScriptTask(s) : s \in finished}
skippingOf == {JobOf[b] : b \in {c \in Builds : pc[c] = "skip"}}
stoppedOf  == {JobOf[b] : b \in {c \in Builds : pc[c] \notin Before \cup Looping /\ Leads(c)}}

\* The jobs that are delivered more than once.
SharedJobs == {JobOf[b] : b \in {c \in Builds : \E d \in Builds : d # c /\ JobOf[d] = JobOf[c]}}

List == INSTANCE TaskList WITH
  begun <- begunOf, done <- doneOf, skipping <- skippingOf, stopped <- stoppedOf,
  Shared <- SharedJobs

\* Whatever happens to a build, its worker and the database, the rows of its
\* tasks change as TaskList allows: one task after the other, a script only
\* after all those before it have succeeded, nothing after a failure or after
\* the end of the build, and no row a second time, save that of the first task,
\* over which the other deliveries of the job write "running" and "failed".
ImplementsTaskList == List!Spec
=============================================================================
