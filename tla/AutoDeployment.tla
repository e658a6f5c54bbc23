--------------------------- MODULE AutoDeployment ---------------------------
(***************************************************************************)
(* AutoDeploymentService (core/auto_deployment_service.py): API calls that *)
(* trigger, roll back, cancel and delete, a bounded queue, and the one     *)
(* processor task that executes what is queued.                            *)
(*                                                                         *)
(* Every await of the code is a point where another task may run, so every *)
(* transaction with the database is a step of its own; what the code does  *)
(* between two awaits is one step.                                         *)
(*                                                                         *)
(* The model is of one service, started by start_service, on whose queue   *)
(* every call works.  All statements of the service go through the one     *)
(* session it was made with, which nothing ever rolls back: after a flush  *)
(* that fails every later one raises (PendingRollbackError).               *)
(***************************************************************************)
EXTENDS Naturals, Sequences, FiniteSets

CONSTANTS
    Deployments,   \* configured deployments
    Callers,       \* API calls in progress
    MaxHistory,    \* bound: deployments requested in a behaviour
    QueueLimit,    \* maxsize of the queue
    Calls,         \* which of the API's calls are made
    AuditFails,    \* whether the audit service raises when an event is logged
    MaxRestarts    \* bound: restarts of the process

ASSUME DeployAssumption ==
    /\ Deployments # {}
    /\ MaxHistory \in Nat /\ QueueLimit \in Nat \ {0} /\ MaxRestarts \in Nat
    /\ Calls \subseteq {"trigger", "rollback", "cancel", "delete"}
    /\ AuditFails \in BOOLEAN

VARIABLES
    status,      \* status of each deployment (table auto_deployments)
    current,     \* its current_container_id
    history,     \* the rows of table deployment_history, in order of their ids
    queue,       \* deployment_queue: history ids
    active,      \* active_deployments: deployment -> history id, or 0
    calls,       \* the API calls in progress
    proc,        \* the processor task: where it is, for which request
    containers,  \* containers that exist
    up,          \* those that run
    restarts,
    session      \* db_session: "usable", or "broken" by a flush that failed

deployVars ==
    <<status, current, history, queue, active, calls, proc, containers, up, restarts, session>>

HistoryIds == 1 .. MaxHistory
NoHistory == 0
NoContainer == <<0, "none">>
ContainerIds == {<<h, k>> : h \in HistoryIds, k \in {"new", "rollback"}} \cup {NoContainer}

Active == {"deploying", "building"}
Completed == {"success", "failed", "cancelled", "timeout"}
HistoryStatus == {"pending", "deleted"} \cup Active \cup Completed
DeploymentStatus == {"configured", "queued", "success", "deployed", "rolled_back",
                     "failed", "cancelled", "deleted"} \cup Active

Task(at, d, h, rollback) == [at |-> at, dep |-> d, hist |-> h, rollback |-> rollback]
IdleCall == Task("idle", CHOOSE d \in Deployments : TRUE, NoHistory, FALSE)
Step(at, h, backup) == [at |-> at, hist |-> h, backup |-> backup]
IdleProc == Step("idle", NoHistory, NoContainer)

(* What the history, a call and the processor can be.                      *)
HistoryRow == [dep: Deployments, status: HistoryStatus]

CallState == [at: {"idle", "insert", "refresh", "put", "mark", "cancel", "untrack", "delete"},
              dep: Deployments, hist: DOMAIN history \cup {NoHistory}, rollback: BOOLEAN]

ProcState == [at: {"idle", "load", "build", "backed_up", "deploy", "check", "rollback",
                   "finish", "publish", "fail", "done"},
              hist: DOMAIN history \cup {NoHistory}, backup: ContainerIds]

Row(d) == [dep |-> d, status |-> "pending"]
Exists(d) == status[d] # "deleted"

Usable == session = "usable"

(* UPDATEs touch only rows that are still there, and none when the session *)
(* is broken: they raise.                                                  *)
SetStatus(d, s) == [status EXCEPT ![d] = IF @ = "deleted" \/ ~Usable THEN @ ELSE s]
SetHistory(h, s) ==
    [history EXCEPT ![h] = IF @.status = "deleted" \/ ~Usable THEN @ ELSE [@ EXCEPT !.status = s]]

DeployInit ==
    /\ status = [d \in Deployments |-> "configured"]
    /\ current = [d \in Deployments |-> NoContainer]
    /\ history = <<>> /\ queue = <<>>
    /\ active = [d \in Deployments |-> NoHistory]
    /\ calls = [c \in Callers |-> IdleCall]
    /\ proc = IdleProc
    /\ containers = {} /\ up = {} /\ restarts = 0 /\ session = "usable"

-----------------------------------------------------------------------------
(* trigger_deployment and rollback_deployment.                             *)

(* The deployment is read; one that is deploying or building is refused.   *)
TriggerCheck(c, d) ==
    /\ "trigger" \in Calls /\ calls[c].at = "idle" /\ Usable
    /\ Exists(d) /\ status[d] \notin Active
    /\ calls' = [calls EXCEPT ![c] = Task("insert", d, NoHistory, FALSE)]
    /\ UNCHANGED <<status, current, history, queue, active, proc, containers, up, restarts, session>>

(* A rollback needs two successful deployments, and nothing else.          *)
RollbackCheck(c, d) ==
    /\ "rollback" \in Calls /\ calls[c].at = "idle" /\ Usable /\ Exists(d)
    /\ Cardinality({h \in DOMAIN history : history[h] = [dep |-> d, status |-> "success"]}) >= 2
    /\ calls' = [calls EXCEPT ![c] = Task("insert", d, NoHistory, TRUE)]
    /\ UNCHANGED <<status, current, history, queue, active, proc, containers, up, restarts, session>>

(* The history row is committed.  If the deployment went, the flush fails, *)
(* which breaks the session; a broken one refuses the row.                 *)
InsertHistory(c) ==
    /\ calls[c].at = "insert"
    /\ \/ /\ Usable /\ Exists(calls[c].dep) /\ Len(history) < MaxHistory
          /\ history' = Append(history, Row(calls[c].dep))
          /\ calls' = [calls EXCEPT ![c] = Task("refresh", @.dep, Len(history) + 1, @.rollback)]
          /\ UNCHANGED session
       \/ /\ ~Usable \/ ~Exists(calls[c].dep)
          /\ calls' = [calls EXCEPT ![c] = IdleCall]
          /\ session' = "broken"
          /\ UNCHANGED history
    /\ UNCHANGED <<status, current, queue, active, proc, containers, up, restarts>>

(* It is read again, for its id: a row that is gone ends the call, and so  *)
(* does a session that another task broke meanwhile.                       *)
RefreshHistory(c) ==
    /\ calls[c].at = "refresh"
    /\ calls' = [calls EXCEPT ![c] =
                   IF Usable /\ history[@.hist].status # "deleted" THEN [@ EXCEPT !.at = "put"]
                   ELSE IdleCall]
    /\ UNCHANGED <<status, current, history, queue, active, proc, containers, up, restarts, session>>

(* queue.put waits while the queue is full; a rollback is done after it.   *)
PutTaskUnbounded(c) ==
    /\ calls[c].at = "put"
    /\ queue' = Append(queue, calls[c].hist)
    /\ calls' = [calls EXCEPT ![c] =
                   IF @.rollback THEN IdleCall ELSE [@ EXCEPT !.at = "mark"]]
    /\ UNCHANGED <<status, current, history, active, proc, containers, up, restarts, session>>

PutTaskOrDrop(c) ==
    /\ calls[c].at = "put"
    /\ queue' = IF Len(queue) < QueueLimit THEN Append(queue, calls[c].hist) ELSE queue
    /\ calls' = [calls EXCEPT ![c] =
                   IF @.rollback THEN IdleCall ELSE [@ EXCEPT !.at = "mark"]]
    /\ UNCHANGED <<status, current, history, active, proc, containers, up, restarts, session>>

PutTask(c) ==
    /\ calls[c].at = "put" /\ Len(queue) < QueueLimit
    /\ queue' = Append(queue, calls[c].hist)
    /\ calls' = [calls EXCEPT ![c] =
                   IF @.rollback THEN IdleCall ELSE [@ EXCEPT !.at = "mark"]]
    /\ UNCHANGED <<status, current, history, active, proc, containers, up, restarts, session>>

MarkQueued(c) ==
    /\ calls[c].at = "mark"
    /\ status' = SetStatus(calls[c].dep, "queued")
    /\ calls' = [calls EXCEPT ![c] = IdleCall]
    /\ UNCHANGED <<current, history, queue, active, proc, containers, up, restarts, session>>

-----------------------------------------------------------------------------
(* _process_deployment_queue and _execute_deployment.                      *)
ProcDep == history[proc.hist].dep
NewContainer == <<proc.hist, "new">>
At(step) == proc.at = step
GoTo(step) == proc' = [proc EXCEPT !.at = step]

TakeTaskPeek ==
    /\ At("idle") /\ queue # <<>>
    /\ proc' = Step("load", Head(queue), NoContainer)
    /\ active' = [active EXCEPT ![history[Head(queue)].dep] = Head(queue)]
    /\ UNCHANGED <<status, current, history, queue, calls, containers, up, restarts, session>>

TakeTask ==
    /\ At("idle") /\ queue # <<>>
    /\ queue' = Tail(queue)
    /\ proc' = Step("load", Head(queue), NoContainer)
    /\ active' = [active EXCEPT ![history[Head(queue)].dep] = Head(queue)]
    /\ UNCHANGED <<status, current, history, calls, containers, up, restarts, session>>

(* The configuration is loaded and the status set; a deleted one raises.   *)
StartBuilding ==
    /\ At("load")
    /\ IF Usable /\ Exists(ProcDep)
       THEN /\ status' = SetStatus(ProcDep, "building")
            /\ history' = SetHistory(proc.hist, "building")
            /\ GoTo("build")
       ELSE GoTo("fail") /\ UNCHANGED <<status, history>>
    /\ UNCHANGED <<current, queue, active, calls, containers, up, restarts, session>>

(* Clone, validation, build and scan, each of which may raise; then the    *)
(* container the deployment has is stopped and remembered, if it exists;   *)
(* when it cannot be stopped, the deployment goes on without a backup.     *)
Build ==
    /\ At("build")
    /\ \/ GoTo("fail") /\ UNCHANGED up
       \/ GoTo("backed_up") /\ UNCHANGED up
       \/ LET old == current[ProcDep]
          IN  /\ proc' = Step("backed_up", proc.hist,
                              IF old \in containers THEN old ELSE NoContainer)
              /\ up' = up \ {old}
    /\ UNCHANGED <<status, current, history, queue, active, calls, containers, restarts, session>>

StartDeploying ==
    /\ At("backed_up")
    /\ status' = SetStatus(ProcDep, "deploying")
    /\ history' = SetHistory(proc.hist, "deploying")
    /\ GoTo(IF Usable THEN "deploy" ELSE "fail")
    /\ UNCHANGED <<current, queue, active, calls, containers, up, restarts, session>>

(* _deploy_container: the new container runs, or the call raises, before   *)
(* or after it has made or started the container.                          *)
DeployContainer ==
    /\ At("deploy")
    /\ \E made, started \in {{}, {NewContainer}} :
          /\ started \subseteq made
          /\ containers' = containers \cup made
          /\ up' = up \cup started
          /\ GoTo("fail") \/ (started # {} /\ GoTo("check"))
    /\ UNCHANGED <<status, current, history, queue, active, calls, restarts, session>>

(* _perform_health_checks: an unhealthy container is rolled back when      *)
(* there is a backup, and left as it is when there is none.                *)
HealthChecks ==
    /\ At("check")
    /\ \/ GoTo("finish")
       \/ GoTo(IF proc.backup # NoContainer THEN "rollback" ELSE "fail")
    /\ UNCHANGED <<status, current, history, queue, active, calls, containers, up, restarts, session>>

(* _perform_rollback: the container the deployment has is removed, which   *)
(* may fail, and one made from the backup takes its place, which may too,  *)
(* or may only fail to be written down.                                    *)
Rollback ==
    /\ At("rollback")
    /\ LET new == <<proc.hist, "rollback">>
       IN  \E removed \in {{}, {current[ProcDep]}} :
           \/ /\ containers' = containers \ removed
              /\ up' = up \ removed
              /\ UNCHANGED <<status, current>>
           \/ /\ containers' = (containers \ removed) \cup {new}
              /\ up' = (up \ removed) \cup {new}
              /\ current' = [current EXCEPT ![ProcDep] =
                               IF Usable /\ Exists(ProcDep) THEN new ELSE @]
              /\ status' = SetStatus(ProcDep, "rolled_back")
    /\ GoTo("fail")
    /\ UNCHANGED <<history, queue, active, calls, restarts, session>>

(* The flush of the metrics row fails when the history it belongs to is    *)
(* gone, which breaks the session; otherwise two transactions: "success"   *)
(* for both rows, then "deployed" with the container; then the audit       *)
(* event, which may raise.                                                 *)
RecordSuccess ==
    /\ At("finish")
    /\ status' = SetStatus(ProcDep, "success")
    /\ history' = SetHistory(proc.hist, "success")
    /\ session' = IF Exists(ProcDep) THEN session ELSE "broken"
    /\ GoTo(IF Usable /\ Exists(ProcDep) THEN "publish" ELSE "fail")
    /\ UNCHANGED <<current, queue, active, calls, containers, up, restarts>>

PublishKeepsContainer ==
    /\ At("publish")
    /\ status' = SetStatus(ProcDep, "deployed")
    /\ GoTo(IF Usable /\ ~AuditFails THEN "done" ELSE "fail")
    /\ UNCHANGED <<current, history, queue, active, calls, containers, up, restarts, session>>

Publish ==
    /\ At("publish")
    /\ status' = SetStatus(ProcDep, "deployed")
    /\ current' = [current EXCEPT ![ProcDep] =
                     IF Usable /\ Exists(ProcDep) THEN NewContainer ELSE @]
    /\ GoTo(IF Usable /\ ~AuditFails THEN "done" ELSE "fail")
    /\ UNCHANGED <<history, queue, active, calls, containers, up, restarts, session>>

(* _handle_deployment_failure: only the history row is told.               *)
HandleFailureLogsOnly ==
    /\ At("fail")
    /\ GoTo("done")
    /\ UNCHANGED <<status, current, history, queue, active, calls, containers, up, restarts, session>>

HandleFailure ==
    /\ At("fail")
    /\ history' = SetHistory(proc.hist, "failed")
    /\ GoTo("done")
    /\ UNCHANGED <<status, current, queue, active, calls, containers, up, restarts, session>>

FinishTask ==
    /\ At("done")
    /\ active' = [active EXCEPT ![ProcDep] = NoHistory]
    /\ proc' = IdleProc
    /\ UNCHANGED <<status, current, history, queue, calls, containers, up, restarts, session>>

Process ==
    \/ TakeTask \/ StartBuilding \/ Build \/ StartDeploying \/ DeployContainer
    \/ HealthChecks \/ Rollback \/ RecordSuccess \/ Publish \/ HandleFailure \/ FinishTask

-----------------------------------------------------------------------------
(* cancel_deployment: reads what is active, writes both rows, forgets,     *)
(* unless the session is broken.                                           *)
CancelCheck(c, d) ==
    /\ "cancel" \in Calls /\ calls[c].at = "idle" /\ active[d] # NoHistory
    /\ calls' = [calls EXCEPT ![c] = Task("cancel", d, active[d], FALSE)]
    /\ UNCHANGED <<status, current, history, queue, active, proc, containers, up, restarts, session>>

CancelCommit(c) ==
    /\ calls[c].at = "cancel"
    /\ history' = SetHistory(calls[c].hist, "cancelled")
    /\ status' = SetStatus(calls[c].dep, "cancelled")
    /\ calls' = [calls EXCEPT ![c] = IF Usable THEN [@ EXCEPT !.at = "untrack"] ELSE IdleCall]
    /\ UNCHANGED <<current, queue, active, proc, containers, up, restarts, session>>

(* A KeyError if the processor was faster, which ends the call all the same. *)
CancelUntrack(c) ==
    /\ calls[c].at = "untrack"
    /\ active' = [active EXCEPT ![calls[c].dep] = NoHistory]
    /\ calls' = [calls EXCEPT ![c] = IdleCall]
    /\ UNCHANGED <<status, current, history, queue, proc, containers, up, restarts, session>>

(* delete_auto_deployment, on the route's own session: its container is    *)
(* removed, which may fail, and then the row is deleted, with its history  *)
(* by cascade.                                                             *)
DeleteContainer(c, d) ==
    /\ "delete" \in Calls /\ calls[c].at = "idle" /\ Exists(d)
    /\ calls' = [calls EXCEPT ![c] = Task("delete", d, NoHistory, FALSE)]
    /\ \E removed \in {{}, {current[d]}} :
          /\ containers' = containers \ removed
          /\ up' = up \ removed
    /\ UNCHANGED <<status, current, history, queue, active, proc, restarts, session>>

DeleteRow(c) ==
    /\ calls[c].at = "delete"
    /\ status' = [status EXCEPT ![calls[c].dep] = "deleted"]
    /\ history' = [h \in DOMAIN history |->
                     IF history[h].dep = calls[c].dep
                     THEN [history[h] EXCEPT !.status = "deleted"]
                     ELSE history[h]]
    /\ calls' = [calls EXCEPT ![c] = IdleCall]
    /\ UNCHANGED <<current, queue, active, proc, containers, up, restarts, session>>

(* The process dies and start_service runs _cleanup_stale_deployments: the *)
(* queue, the session and all tasks are lost, the tables stay, and only    *)
(* histories older than two hours time out.                                *)
Restart ==
    /\ restarts < MaxRestarts /\ restarts' = restarts + 1
    /\ queue' = <<>> /\ proc' = IdleProc /\ session' = "usable"
    /\ active' = [d \in Deployments |-> NoHistory]
    /\ calls' = [c \in Callers |-> IdleCall]
    /\ status' = [d \in Deployments |->
                    IF status[d] \in Active \cup {"queued"} THEN "failed" ELSE status[d]]
    /\ \E old \in SUBSET {h \in DOMAIN history : history[h].status \in Active \cup {"pending"}} :
          history' = [h \in DOMAIN history |->
                        IF h \in old THEN [history[h] EXCEPT !.status = "timeout"] ELSE history[h]]
    /\ UNCHANGED <<current, containers, up>>

Call(c) ==
    \/ InsertHistory(c) \/ RefreshHistory(c) \/ PutTask(c) \/ MarkQueued(c)
    \/ CancelCommit(c) \/ CancelUntrack(c) \/ DeleteRow(c)

NewCall(c) ==
    \E d \in Deployments :
        TriggerCheck(c, d) \/ RollbackCheck(c, d) \/ CancelCheck(c, d) \/ DeleteContainer(c, d)

DeployNext ==
    \/ \E c \in Callers : NewCall(c) \/ Call(c)
    \/ Process
    \/ Restart

(* Tasks that can run do run: the event loop is fair to them.              *)
DeployFairness == WF_deployVars(Process) /\ \A c \in Callers : WF_deployVars(Call(c))

DeploySpec == DeployInit /\ [][DeployNext]_deployVars /\ DeployFairness

-----------------------------------------------------------------------------
(* Every variable keeps its type, the queue its bound.                     *)
DeployTypeOK ==
    /\ status \in [Deployments -> DeploymentStatus]
    /\ current \in [Deployments -> ContainerIds]
    /\ history \in Seq(HistoryRow) /\ Len(history) <= MaxHistory
    /\ queue \in Seq(DOMAIN history) /\ Len(queue) <= QueueLimit
    /\ active \in [Deployments -> DOMAIN history \cup {NoHistory}]
    /\ calls \in [Callers -> CallState]
    /\ proc \in ProcState
    /\ containers \subseteq ContainerIds /\ up \subseteq containers
    /\ restarts \in 0 .. MaxRestarts /\ session \in {"usable", "broken"}

(* Where a request is held: by the call putting it, in the queue, or by    *)
(* the processor.                                                          *)
PuttersOf(h) == {c \in Callers : calls[c].at \in {"refresh", "put"} /\ calls[c].hist = h}
PlacesOf(h) == {i \in DOMAIN queue : queue[i] = h}

(* No request is executed twice: the call that makes it, the queue and the *)
(* processor never hold it at once, nor any of them twice.                 *)
HeldOnce ==
    \A h \in DOMAIN history :
        /\ \A b, c \in PuttersOf(h) : b = c
        /\ \A i, j \in PlacesOf(h) : i = j
        /\ PuttersOf(h) # {} => PlacesOf(h) = {}
        /\ proc.hist = h => PuttersOf(h) = {} /\ PlacesOf(h) = {}

(* No request is lost while the service's session is usable: what is       *)
(* "pending" is on its way to the processor (_cleanup_stale_deployments:   *)
(* abandoned deployments are cleaned up when the service starts).  A       *)
(* broken session leaves rows behind that no task holds.                   *)
PendingIsHeld ==
    Usable =>
        \A h \in DOMAIN history :
            history[h].status = "pending" =>
                PuttersOf(h) # {} \/ PlacesOf(h) # {} \/ proc.hist = h

(* A deployment listed as deployed or rolled back has its container up,    *)
(* whatever runs, fails, is cancelled or restarts meanwhile, unless it is  *)
(* being deleted.                                                          *)
BeingDeleted(d) == \E c \in Callers : calls[c].at = "delete" /\ calls[c].dep = d

DeployedIsUp ==
    \A d \in Deployments :
        status[d] \in {"deployed", "rolled_back"} /\ ~BeingDeleted(d) => current[d] \in up

(* Each request completes, however full the queue and whoever cancels,     *)
(* unless the session breaks, which only a deletion in the middle of a     *)
(* request does.                                                           *)
RequestCompletes ==
    \A h \in HistoryIds :
        (h \in DOMAIN history /\ history[h].status = "pending")
            ~> \/ h \in DOMAIN history /\ history[h].status \in Completed \cup {"deleted"}
               \/ ~Usable

(* A completed history entry keeps its status (models/deployment.py:       *)
(* is_completed; cancel_deployment: "Marquer comme annulé").               *)
CompletedIsFinal ==
    [][\A h \in DOMAIN history :
         history[h].status \in Completed =>
             history'[h].status \in {history[h].status, "deleted"}]_deployVars

(* The rows of the history, as the state machine the docstring describes.  *)
Machine ==
    INSTANCE DeploymentMachine WITH
        Requests <- HistoryIds,
        state <- [h \in HistoryIds |->
                    IF h \in DOMAIN history THEN history[h].status ELSE "none"]

(* While nobody cancels or deletes and the process does not restart, every *)
(* history row goes through that state machine, and to its end.            *)
ImplementsMachine == Machine!MachineSpec

(* Once a deployment is rolled back, what runs of it is the container it   *)
(* was rolled back to (_perform_rollback: "Arrêter container défaillant    *)
(* s'il existe").                                                          *)
FailingIsStopped ==
    \A d \in Deployments :
        status[d] = "rolled_back" => {x \in up : history[x[1]].dep = d} = {current[d]}
=============================================================================
