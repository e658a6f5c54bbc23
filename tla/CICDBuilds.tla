----------------------------- MODULE CICDBuilds -----------------------------
(***************************************************************************)
(* CICDService (core/cicd_service.py): builds are triggered into a queue,  *)
(* the processor starts a task for each while fewer than                   *)
(* max_concurrent_builds are active, and a build can be cancelled.         *)
(*                                                                         *)
(* A step lasts from one await to the next.  Cancelling a task only marks  *)
(* it: CancelledError reaches it at the await it is suspended on, where    *)
(* the statement it sent to the database may or may not have been applied. *)
(***************************************************************************)
EXTENDS Naturals, Sequences, FiniteSets

CONSTANTS
    Builds,         \* the builds of a behaviour
    MaxConcurrent,  \* max_concurrent_builds
    DatabaseFails,  \* whether an update of a row may fail
    MaxRestarts     \* bound: buildRestarts of the process

ASSUME BuildAssumption ==
    /\ MaxConcurrent \in Nat \ {0} /\ MaxRestarts \in Nat
    /\ DatabaseFails \in BOOLEAN

VARIABLES
    row,            \* the status in table ci_builds
    putting,        \* trigger_build calls between the commit and the put
    build_queue,
    active_builds,
    processor,      \* _process_build_queue: before its check, or in get()
    task,           \* where the task of each build is
    killed,         \* tasks that were cancelled
    cancels,        \* cancel_build calls, one at a time for each build
    buildRestarts,
    lost            \* history: builds a failed statement or a crash left behind

buildVars == <<row, putting, build_queue, active_builds, processor, task, killed,
               cancels, buildRestarts, lost>>

Unfinished == {"pending", "in_progress"}
Completed == {"success", "failure", "cancelled"}
Alive == {"new", "begin", "steps", "failing", "cancelling"}

BuildInit ==
    /\ row = [b \in Builds |-> "none"]
    /\ putting = {} /\ build_queue = <<>> /\ active_builds = {}
    /\ processor = "check"
    /\ task = [b \in Builds |-> "none"]
    /\ killed = {} /\ cancels = [b \in Builds |-> "none"]
    /\ buildRestarts = 0 /\ lost = {}

(* A transaction that sets a status, or fails and is only logged.          *)
Write(b, s) ==
    \/ row' = [row EXCEPT ![b] = s] /\ UNCHANGED lost
    \/ DatabaseFails /\ lost' = lost \cup {b} /\ UNCHANGED row

-----------------------------------------------------------------------------
(* trigger_build: the row is committed, then the build is queued.          *)
TriggerBuild(b) ==
    /\ row[b] = "none"
    /\ row' = [row EXCEPT ![b] = "pending"]
    /\ putting' = putting \cup {b}
    /\ UNCHANGED <<build_queue, active_builds, processor, task, killed, cancels, buildRestarts, lost>>

PutBuild(b) ==
    /\ b \in putting
    /\ putting' = putting \ {b}
    /\ build_queue' = Append(build_queue, b)
    /\ UNCHANGED <<row, active_builds, processor, task, killed, cancels, buildRestarts, lost>>

-----------------------------------------------------------------------------
(* _process_build_queue.                                                   *)

(* Fault for CheckCapacity: one build too many.                            *)
CheckCapacityOneMore ==
    /\ processor = "check" /\ Cardinality(active_builds) <= MaxConcurrent
    /\ processor' = "get"
    /\ UNCHANGED <<row, putting, build_queue, active_builds, task, killed, cancels, buildRestarts, lost>>

CheckCapacity ==
    /\ processor = "check" /\ Cardinality(active_builds) < MaxConcurrent
    /\ processor' = "get"
    /\ UNCHANGED <<row, putting, build_queue, active_builds, task, killed, cancels, buildRestarts, lost>>

StartBuild ==
    /\ processor = "get" /\ build_queue # <<>>
    /\ processor' = "check"
    /\ build_queue' = Tail(build_queue)
    /\ task' = [task EXCEPT ![Head(build_queue)] = "new"]
    /\ active_builds' = active_builds \cup {Head(build_queue)}
    /\ UNCHANGED <<row, putting, killed, cancels, buildRestarts, lost>>

-----------------------------------------------------------------------------
(* _execute_build, for a task that nobody has cancelled so far: "begin" is *)
(* its first update, "steps" the simulated steps and the update with their *)
(* result, "failing" and "cancelling" the updates of the two handlers.     *)
Running(b, at) == task[b] = at /\ b \notin killed
Goes(b, at) == task' = [task EXCEPT ![b] = at]

(* The finally clause, reached without another await.                      *)
Ends(b) == Goes(b, "done") /\ active_builds' = active_builds \ {b}

Begin(b) ==
    /\ Running(b, "new") /\ Goes(b, "begin")
    /\ UNCHANGED <<row, putting, build_queue, active_builds, processor, killed, cancels,
                   buildRestarts, lost>>

MarkInProgress(b) ==
    /\ Running(b, "begin") /\ Goes(b, "steps")
    /\ Write(b, "in_progress")
    /\ UNCHANGED <<putting, build_queue, active_builds, processor, killed, cancels, buildRestarts>>

(* Fault for Report: the entry of a finished build is kept.                *)
ReportKeepsEntry(b) ==
    /\ Running(b, "steps")
    /\ \/ Write(b, "success") /\ Goes(b, "done") /\ UNCHANGED active_builds
       \/ Write(b, "failure") /\ Goes(b, "done") /\ UNCHANGED active_builds
       \/ Goes(b, "failing") /\ UNCHANGED <<row, active_builds, lost>>
    /\ UNCHANGED <<putting, build_queue, processor, killed, cancels, buildRestarts>>

(* The steps are done: the result is written, or something has raised.     *)
Report(b) ==
    /\ Running(b, "steps")
    /\ \/ (Write(b, "success") \/ Write(b, "failure")) /\ Ends(b)
       \/ Goes(b, "failing") /\ UNCHANGED <<row, active_builds, lost>>
    /\ UNCHANGED <<putting, build_queue, processor, killed, cancels, buildRestarts>>

ReportError(b) ==
    /\ Running(b, "failing") /\ Ends(b)
    /\ Write(b, "failure")
    /\ UNCHANGED <<putting, build_queue, processor, killed, cancels, buildRestarts>>

(* What the statement a task is waiting for would write.                   *)
InFlight(b) ==
    CASE task[b] = "begin" -> {"in_progress"}
      [] task[b] = "steps" -> {"success", "failure"}
      [] task[b] = "failing" -> {"failure"}
      [] OTHER -> {}

(* CancelledError arrives.  A task that has not begun just ends; one in    *)
(* the try block writes "cancelled" next, one in a handler does not.       *)
Interrupt(b) ==
    /\ b \in killed /\ task[b] \in {"new", "begin", "steps", "failing"}
    /\ row' \in {row} \cup {[row EXCEPT ![b] = s] : s \in InFlight(b)}
    /\ IF task[b] \in {"begin", "steps"}
       THEN Goes(b, "cancelling") /\ UNCHANGED active_builds
       ELSE Ends(b)
    /\ UNCHANGED <<putting, build_queue, processor, killed, cancels, buildRestarts, lost>>

MarkCancelled(b) ==
    /\ task[b] = "cancelling" /\ Ends(b)
    /\ Write(b, "cancelled")
    /\ UNCHANGED <<putting, build_queue, processor, killed, cancels, buildRestarts>>

-----------------------------------------------------------------------------
(* cancel_build: the task if there is one, then the row if it is not over. *)

(* Fault for CancelTask: the entry is left to the task to remove.          *)
CancelTaskKeepsEntry(b) ==
    /\ row[b] # "none" /\ cancels[b] = "none"
    /\ killed' = killed \cup (active_builds \cap {b})
    /\ cancels' = [cancels EXCEPT ![b] = "read"]
    /\ UNCHANGED <<row, putting, build_queue, active_builds, processor, task, buildRestarts, lost>>

CancelTask(b) ==
    /\ row[b] # "none" /\ cancels[b] = "none"
    /\ killed' = killed \cup (active_builds \cap {b})
    /\ active_builds' = active_builds \ {b}
    /\ cancels' = [cancels EXCEPT ![b] = "read"]
    /\ UNCHANGED <<row, putting, build_queue, processor, task, buildRestarts, lost>>

CancelRead(b) ==
    /\ cancels[b] = "read"
    /\ \/ /\ cancels' = [cancels EXCEPT ![b] =
                            IF row[b] \in Unfinished THEN "commit" ELSE "none"]
          /\ UNCHANGED lost
       \/ /\ DatabaseFails /\ lost' = lost \cup {b}
          /\ cancels' = [cancels EXCEPT ![b] = "none"]
    /\ UNCHANGED <<row, putting, build_queue, active_builds, processor, task, killed, buildRestarts>>

CancelCommit(b) ==
    /\ cancels[b] = "commit"
    /\ Write(b, "cancelled")
    /\ cancels' = [cancels EXCEPT ![b] = "none"]
    /\ UNCHANGED <<putting, build_queue, active_builds, processor, task, killed, buildRestarts>>

(* The process ends and start() begins with an empty queue: nothing reads  *)
(* the table for the builds that were under way.                           *)
RestartBuilds ==
    /\ buildRestarts < MaxRestarts /\ buildRestarts' = buildRestarts + 1
    /\ putting' = {} /\ build_queue' = <<>> /\ active_builds' = {}
    /\ processor' = "check"
    /\ task' = [b \in Builds |-> IF task[b] = "none" THEN "none" ELSE "done"]
    /\ killed' = {} /\ cancels' = [b \in Builds |-> "none"]
    /\ lost' = lost \cup {b \in Builds : row[b] \in Unfinished}
    /\ UNCHANGED row

Processor == CheckCapacity \/ StartBuild

Task(b) ==
    \/ Begin(b) \/ MarkInProgress(b) \/ Report(b) \/ ReportError(b)
    \/ Interrupt(b) \/ MarkCancelled(b)

Call(b) == PutBuild(b) \/ CancelRead(b) \/ CancelCommit(b)

BuildNext ==
    \/ Processor
    \/ \E b \in Builds : TriggerBuild(b) \/ CancelTask(b) \/ Task(b) \/ Call(b)
    \/ RestartBuilds

(* The event loop runs whatever can run.                                   *)
BuildFairness ==
    /\ WF_buildVars(Processor)
    /\ \A b \in Builds : WF_buildVars(Task(b)) /\ WF_buildVars(Call(b))

BuildSpec == BuildInit /\ [][BuildNext]_buildVars /\ BuildFairness

-----------------------------------------------------------------------------
(* Every variable keeps its type.                                          *)
BuildTypeOK ==
    /\ row \in [Builds -> {"none"} \cup Unfinished \cup Completed]
    /\ putting \subseteq Builds
    /\ build_queue \in Seq(Builds)
    /\ active_builds \subseteq Builds
    /\ processor \in {"check", "get"}
    /\ task \in [Builds -> {"none", "done"} \cup Alive]
    /\ killed \subseteq Builds
    /\ cancels \in [Builds -> {"none", "read", "commit"}]
    /\ buildRestarts \in 0 .. MaxRestarts
    /\ lost \subseteq Builds

(* The tasks that execute a build are exactly those of active_builds: one  *)
(* that is missing could not be cancelled, and an entry too many would     *)
(* take a place of the limit for good.                                     *)
Executing == {b \in Builds : task[b] \in Alive /\ b \notin killed}

ExecutingIsTracked == Executing = active_builds

(* However builds are triggered, end and are cancelled, no more of them    *)
(* execute than the limit (_process_build_queue: "Limiter le nombre de     *)
(* builds concurrents").                                                   *)
AtMostConcurrent == Cardinality(Executing) <= MaxConcurrent

(* The entries that stand for the limit are right, and so is the limit.    *)
BuildsBounded == ExecutingIsTracked /\ AtMostConcurrent

(* A build that was triggered completes, and for good, unless a statement  *)
(* about its row failed or the process died.                               *)
BuildSettles ==
    \A b \in Builds : row[b] = "pending" ~> [](row[b] \in Completed \/ b \in lost)
=============================================================================
