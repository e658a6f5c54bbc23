------------------------ MODULE AutoDeploymentProofs ------------------------
(***************************************************************************)
(* Proofs about AutoDeployment for any number of deployments, callers,     *)
(* requests and restarts, and any queue: the types; that no request is     *)
(* held twice, and that one that is pending is held, until a restart or a  *)
(* session that breaks, which only deletions do; that what is listed as    *)
(* deployed is up; and that every step is one of the abstract machine      *)
(* DeploymentMachine, or changes nothing there.                            *)
(***************************************************************************)
EXTENDS AutoDeployment, SequenceTheorems, TLAPS

(* Who works on a request names one.                                       *)
NamesRequest ==
    /\ proc.at # "idle" => proc.hist # NoHistory
    /\ \A c \in Callers : 
          calls[c].at \in {"refresh", "put", "cancel"} => calls[c].hist # NoHistory

TypeInv == DeployTypeOK /\ NamesRequest

USE DeployAssumption DEF DeployAssumption

LEMMA IdleCallIsCall == IdleCall \in CallState
    BY DEF IdleCall, Task, CallState, NoHistory

LEMMA DeployTypeInit == DeployInit => TypeInv
<1> SUFFICES ASSUME DeployInit PROVE TypeInv
    OBVIOUS
<1> USE DEF DeployInit
<1>1. history \in Seq(HistoryRow) /\ Len(history) = 0 /\ DOMAIN history = {}
    OBVIOUS
<1>2. queue \in Seq(DOMAIN history) /\ Len(queue) = 0
    OBVIOUS
<1>3. calls \in [Callers -> CallState]
    BY IdleCallIsCall
<1>4. proc \in ProcState
    BY DEF IdleProc, Step, ProcState, ContainerIds, NoHistory, NoContainer
<1>5. status \in [Deployments -> DeploymentStatus]
    BY DEF DeploymentStatus
<1>6. current \in [Deployments -> ContainerIds]
    BY DEF ContainerIds
<1>7. NamesRequest
    BY DEF NamesRequest, IdleCall, Task, IdleProc, Step
<1> QED
    BY <1>1, <1>2, <1>3, <1>4, <1>5, <1>6, <1>7 DEF TypeInv, DeployTypeOK

(* Writing a status keeps the types, and the rows that there are.          *)
LEMMA SetStatusKeepsType ==
    ASSUME DeployTypeOK, NEW d, NEW s \in DeploymentStatus
    PROVE  SetStatus(d, s) \in [Deployments -> DeploymentStatus]
    BY DEF DeployTypeOK, SetStatus

LEMMA SetHistoryKeepsType ==
    ASSUME DeployTypeOK, NEW h \in DOMAIN history, NEW s \in HistoryStatus
    PROVE  /\ SetHistory(h, s) \in Seq(HistoryRow)
           /\ Len(SetHistory(h, s)) = Len(history)
           /\ DOMAIN SetHistory(h, s) = DOMAIN history
           /\ \A i \in DOMAIN history : SetHistory(h, s)[i].dep = history[i].dep
<1> DEFINE new == IF history[h].status = "deleted" \/ ~Usable THEN history[h]
                  ELSE [history[h] EXCEPT !.status = s]
<1>1. SetHistory(h, s) = [history EXCEPT ![h] = new]
    BY DEF SetHistory
<1>2. history \in Seq(HistoryRow)
    BY DEF DeployTypeOK
<1>3. history[h] \in HistoryRow /\ h \in 1 .. Len(history)
    BY <1>2
<1>4. new \in HistoryRow /\ new.dep = history[h].dep
    BY <1>3 DEF HistoryRow
<1> HIDE DEF new
<1>5. /\ [history EXCEPT ![h] = new] \in Seq(HistoryRow)
      /\ Len([history EXCEPT ![h] = new]) = Len(history)
      /\ DOMAIN [history EXCEPT ![h] = new] = DOMAIN history
    BY <1>2, <1>3, <1>4, ExceptSeq
<1> QED
    BY <1>1, <1>2, <1>4, <1>5

LEMMA RowKeepsType ==
    ASSUME NEW row \in HistoryRow, NEW s \in HistoryStatus
    PROVE  [row EXCEPT !.status = s] \in HistoryRow
    BY DEF HistoryRow

(* Rewriting every row, as a delete and a restart do.                      *)
LEMMA RewrittenIsHistory ==
    ASSUME history \in Seq(HistoryRow), NEW F, F = [h \in DOMAIN history |-> F[h]],
           \A h \in DOMAIN history : F[h] \in HistoryRow
    PROVE  F \in Seq(HistoryRow) /\ Len(F) = Len(history) /\ DOMAIN F = DOMAIN history
<1>1. DOMAIN history = 1 .. Len(history) /\ Len(history) \in Nat
    OBVIOUS
<1>2. F \in [1 .. Len(history) -> HistoryRow]
    BY <1>1
<1> QED
    BY <1>1, <1>2, IsASeq, LenProperties

(* The types of what refers to the history depend only on its length.      *)
LEMMA SameLengthKeepsTypes ==
    ASSUME DeployTypeOK, history' \in Seq(HistoryRow), Len(history') = Len(history),
           DOMAIN history' = DOMAIN history
    PROVE  /\ CallState' = CallState /\ ProcState' = ProcState
           /\ queue \in Seq(DOMAIN history')
           /\ active \in [Deployments -> DOMAIN history' \cup {NoHistory}]
           /\ Len(history') <= MaxHistory
    BY DEF DeployTypeOK, CallState, ProcState

(* What a step must show of the variables that refer to the history.       *)
References ==
    /\ queue \in Seq(DOMAIN history) /\ Len(queue) <= QueueLimit
    /\ active \in [Deployments -> DOMAIN history \cup {NoHistory}]
    /\ calls \in [Callers -> CallState]
    /\ proc \in ProcState

Tables ==
    /\ status \in [Deployments -> DeploymentStatus]
    /\ current \in [Deployments -> ContainerIds]
    /\ history \in Seq(HistoryRow) /\ Len(history) <= MaxHistory

Docker == containers \subseteq ContainerIds /\ up \subseteq containers

Lifetime == restarts \in 0 .. MaxRestarts /\ session \in {"usable", "broken"}

LEMMA TypeParts == DeployTypeOK <=> References /\ Tables /\ Docker /\ Lifetime
    BY DEF DeployTypeOK, References, Tables, Docker, Lifetime

(* A step of a call, and one of the processor, keep the invariant when     *)
(* what they write is well typed and the history stays as long as it was.  *)
SameRows == /\ history' \in Seq(HistoryRow)
            /\ Len(history') = Len(history) /\ DOMAIN history' = DOMAIN history

LEMMA CallStep ==
    ASSUME TypeInv, NEW c \in Callers, NEW x \in CallState,
           x.at \in {"refresh", "put", "cancel"} => x.hist # NoHistory,
           calls' = [calls EXCEPT ![c] = x], UNCHANGED <<current, proc, restarts, session>>,
           SameRows, status' \in [Deployments -> DeploymentStatus],
           queue' \in Seq(DOMAIN history), Len(queue') <= QueueLimit,
           active' \in [Deployments -> DOMAIN history \cup {NoHistory}], Docker'
    PROVE  TypeInv'
<1>0. DeployTypeOK /\ References /\ Tables /\ NamesRequest
    BY TypeParts DEF TypeInv
<1>1. CallState' = CallState /\ ProcState' = ProcState
    BY <1>0, SameLengthKeepsTypes DEF SameRows
<1>2. calls' \in [Callers -> CallState]
    BY <1>0 DEF References
<1>3. References'
    BY <1>0, <1>1, <1>2 DEF References, SameRows
<1>4. Tables' /\ Lifetime'
    BY <1>0, TypeParts DEF Tables, SameRows, Lifetime
<1>5. NamesRequest'
    BY <1>0 DEF NamesRequest, References
<1> QED
    BY <1>0, <1>3, <1>4, <1>5 DEF TypeInv, DeployTypeOK, References, Tables, Docker, Lifetime

LEMMA ProcStep ==
    ASSUME TypeInv, UNCHANGED <<calls, restarts>>, session' \in {"usable", "broken"},
           proc' \in ProcState, proc'.at # "idle" => proc'.hist # NoHistory,
           SameRows, status' \in [Deployments -> DeploymentStatus],
           current' \in [Deployments -> ContainerIds],
           queue' \in Seq(DOMAIN history), Len(queue') <= QueueLimit,
           active' \in [Deployments -> DOMAIN history \cup {NoHistory}], Docker'
    PROVE  TypeInv'
<1>0. DeployTypeOK /\ References /\ Tables /\ NamesRequest
    BY TypeParts DEF TypeInv
<1>1. CallState' = CallState /\ ProcState' = ProcState
    BY <1>0, SameLengthKeepsTypes DEF SameRows
<1>3. References'
    BY <1>0, <1>1 DEF References, SameRows
<1>4. Tables' /\ Lifetime'
    BY <1>0, TypeParts DEF Tables, SameRows, Lifetime
<1>5. NamesRequest'
    BY <1>0 DEF NamesRequest
<1> QED
    BY <1>0, <1>3, <1>4, <1>5 DEF TypeInv, DeployTypeOK, References, Tables, Docker, Lifetime

LEMMA InsertKeepsTypes ==
    ASSUME TypeInv, NEW c \in Callers, InsertHistory(c)
    PROVE  TypeInv'
<1>0. DeployTypeOK /\ References /\ Tables /\ Docker /\ Lifetime /\ NamesRequest
    BY TypeParts DEF TypeInv
<1>1. CASE Usable /\ Exists(calls[c].dep)
    <2>1. calls[c] \in CallState /\ calls[c].dep \in Deployments
        BY <1>0 DEF References, CallState
    <2>2. Row(calls[c].dep) \in HistoryRow
        BY <2>1 DEF Row, HistoryRow, HistoryStatus
    <2> DEFINE new == Task("refresh", calls[c].dep, Len(history) + 1, calls[c].rollback)
    <2>3. /\ history' = Append(history, Row(calls[c].dep)) /\ Len(history) < MaxHistory
          /\ calls' = [calls EXCEPT ![c] = new]
          /\ UNCHANGED <<status, current, queue, active, proc, containers, up, restarts, session>>
        BY <1>1 DEF InsertHistory
    <2>4. /\ history' \in Seq(HistoryRow) /\ Len(history') = Len(history) + 1
          /\ DOMAIN history' = DOMAIN history \cup {Len(history) + 1}
          /\ Len(history) \in Nat
        BY <1>0, <2>2, <2>3 DEF Tables
    <2>5. Tables'
        BY <1>0, <2>3, <2>4 DEF Tables
    <2>6. queue \in Seq(DOMAIN history')
        BY <1>0, <2>4, SeqMonotonic DEF References
    <2>7. CallState \subseteq CallState'
        BY <2>4 DEF CallState
    <2>8. new \in CallState' /\ new.hist # NoHistory
        BY <2>1, <2>4 DEF CallState, Task, NoHistory
    <2> HIDE DEF new
    <2>9. calls' \in [Callers -> CallState']
        BY <1>0, <2>3, <2>7, <2>8 DEF References
    <2>10. proc' \in ProcState'
        BY <1>0, <2>3, <2>4 DEF References, ProcState
    <2>11. active' \in [Deployments -> DOMAIN history' \cup {NoHistory}]
        BY <1>0, <2>3, <2>4 DEF References
    <2>12. References'
        BY <1>0, <2>3, <2>6, <2>9, <2>10, <2>11 DEF References
    <2>13. NamesRequest'
        BY <1>0, <2>3, <2>8 DEF NamesRequest, References
    <2> QED
        BY <1>0, <2>3, <2>5, <2>12, <2>13 DEF Docker, TypeInv, DeployTypeOK, References, Tables, Lifetime
<1>2. CASE ~(Usable /\ Exists(calls[c].dep))
    <2>1. calls' = [calls EXCEPT ![c] = IdleCall] /\ session' = "broken"
        BY <1>2 DEF InsertHistory
    <2>2. UNCHANGED <<status, current, history, queue, active, proc, containers, up, restarts>>
        BY <1>2 DEF InsertHistory
    <2> QED
        BY <1>0, <2>1, <2>2, IdleCallIsCall DEF TypeInv, DeployTypeOK, NamesRequest, CallState, ProcState, IdleCall, Task
<1> QED
    BY <1>1, <1>2

LEMMA DeployTypeStep == TypeInv /\ [DeployNext]_deployVars => TypeInv'
<1> SUFFICES ASSUME TypeInv, [DeployNext]_deployVars PROVE TypeInv'
    OBVIOUS
<1>0. DeployTypeOK /\ References /\ Tables /\ Docker /\ NamesRequest /\ Lifetime
    BY TypeParts DEF TypeInv
<1>a. /\ status \in [Deployments -> DeploymentStatus] /\ current \in [Deployments -> ContainerIds]
      /\ history \in Seq(HistoryRow)
      /\ queue \in Seq(DOMAIN history) /\ Len(queue) <= QueueLimit
      /\ active \in [Deployments -> DOMAIN history \cup {NoHistory}]
      /\ calls \in [Callers -> CallState] /\ proc \in ProcState
      /\ session \in {"usable", "broken"}
    BY <1>0 DEF References, Tables, Lifetime
<1>b. UNCHANGED history => SameRows
    BY <1>a DEF SameRows
<1>c. UNCHANGED <<containers, up>> => Docker'
    BY <1>0 DEF Docker
<1>d. ASSUME NEW c \in Callers
      PROVE  calls[c] \in CallState /\ calls[c].dep \in Deployments
    BY <1>a DEF CallState
<1>r. \A h \in DOMAIN history : history[h] \in HistoryRow /\ history[h].dep \in Deployments
    <2>1. \A h \in DOMAIN history : history[h] \in HistoryRow
        BY <1>a
    <2> QED
        BY <2>1 DEF HistoryRow
<1>e. IdleCall \in CallState /\ IdleCall.at = "idle"
    BY IdleCallIsCall DEF IdleCall, Task
<1>1. ASSUME NEW c \in Callers, NEW d \in Deployments, TriggerCheck(c, d)
      PROVE  TypeInv'
    <2> DEFINE x == Task("insert", d, NoHistory, FALSE)
    <2>1. x \in CallState /\ x.at = "insert"
        BY DEF Task, CallState
    <2> QED
        BY <1>1, <1>a, <1>b, <1>c, <2>1, CallStep DEF TriggerCheck
<1>2. ASSUME NEW c \in Callers, NEW d \in Deployments, RollbackCheck(c, d)
      PROVE  TypeInv'
    <2> DEFINE x == Task("insert", d, NoHistory, TRUE)
    <2>1. x \in CallState /\ x.at = "insert"
        BY DEF Task, CallState
    <2> QED
        BY <1>2, <1>a, <1>b, <1>c, <2>1, CallStep DEF RollbackCheck
<1>3. ASSUME NEW c \in Callers, NEW d \in Deployments, CancelCheck(c, d)
      PROVE  TypeInv'
    <2> DEFINE x == Task("cancel", d, active[d], FALSE)
    <2>1. active[d] # NoHistory
        BY <1>3 DEF CancelCheck
    <2>2. x \in CallState /\ x.hist # NoHistory
        BY <1>a, <2>1 DEF Task, CallState
    <2> QED
        BY <1>3, <1>a, <1>b, <1>c, <2>2, CallStep DEF CancelCheck
<1>4. ASSUME NEW c \in Callers, NEW d \in Deployments, DeleteContainer(c, d)
      PROVE  TypeInv'
    <2> DEFINE x == Task("delete", d, NoHistory, FALSE)
    <2>1. x \in CallState /\ x.at = "delete"
        BY DEF Task, CallState
    <2>2. Docker'
        BY <1>4, <1>0 DEF DeleteContainer, Docker
    <2> QED
        BY <1>4, <1>a, <1>b, <2>1, <2>2, CallStep DEF DeleteContainer
<1>5. ASSUME NEW c \in Callers, InsertHistory(c) PROVE TypeInv'
    BY <1>5, InsertKeepsTypes
<1>24. ASSUME NEW c \in Callers, RefreshHistory(c) PROVE TypeInv'
    <2> DEFINE x == IF Usable /\ history[calls[c].hist].status # "deleted"
                    THEN [calls[c] EXCEPT !.at = "put"] ELSE IdleCall
    <2>1. calls[c].hist # NoHistory
        BY <1>24, <1>0 DEF RefreshHistory, NamesRequest
    <2>2. x \in CallState /\ (x.at = "idle" \/ x.hist # NoHistory)
        BY <1>d, <1>e, <2>1 DEF CallState
    <2>3. calls' = [calls EXCEPT ![c] = x]
        BY <1>24 DEF RefreshHistory
    <2> HIDE DEF x
    <2> QED
        BY <1>24, <1>a, <1>b, <1>c, <2>2, <2>3, CallStep DEF RefreshHistory
<1>6. ASSUME NEW c \in Callers, PutTask(c) PROVE TypeInv'
    <2> DEFINE x == IF calls[c].rollback THEN IdleCall ELSE [calls[c] EXCEPT !.at = "mark"]
    <2>1. calls[c].hist \in DOMAIN history
        BY <1>6, <1>0, <1>d DEF PutTask, NamesRequest, CallState
    <2>2. queue' \in Seq(DOMAIN history) /\ Len(queue') <= QueueLimit
        BY <1>6, <1>a, <2>1 DEF PutTask
    <2>3. x \in CallState /\ x.at \in {"idle", "mark"}
        BY <1>d, <1>e DEF CallState
    <2>4. calls' = [calls EXCEPT ![c] = x]
        BY <1>6 DEF PutTask
    <2> HIDE DEF x
    <2> QED
        BY <1>6, <1>a, <1>b, <1>c, <2>2, <2>3, <2>4, CallStep DEF PutTask
<1>7. ASSUME NEW c \in Callers, MarkQueued(c) PROVE TypeInv'
    <2>1. status' \in [Deployments -> DeploymentStatus]
        BY <1>7, <1>0, <1>d, SetStatusKeepsType DEF MarkQueued, DeploymentStatus
    <2> QED
        BY <1>7, <1>a, <1>b, <1>c, <1>e, <2>1, CallStep DEF MarkQueued
<1>8. ASSUME NEW c \in Callers, CancelCommit(c) PROVE TypeInv'
    <2> DEFINE x == IF Usable THEN [calls[c] EXCEPT !.at = "untrack"] ELSE IdleCall
    <2>1. calls[c].hist \in DOMAIN history
        BY <1>8, <1>0, <1>d DEF CancelCommit, NamesRequest, CallState
    <2>2. SameRows
        BY <1>8, <1>0, <2>1, SetHistoryKeepsType DEF CancelCommit, SameRows, HistoryStatus, Completed
    <2>3. status' \in [Deployments -> DeploymentStatus]
        BY <1>8, <1>0, <1>d, SetStatusKeepsType DEF CancelCommit, DeploymentStatus
    <2>4. x \in CallState /\ x.at \in {"idle", "untrack"}
        BY <1>d, <1>e DEF CallState
    <2>5. calls' = [calls EXCEPT ![c] = x]
        BY <1>8 DEF CancelCommit
    <2> HIDE DEF x
    <2> QED
        BY <1>8, <1>a, <1>c, <2>2, <2>3, <2>4, <2>5, CallStep DEF CancelCommit
<1>9. ASSUME NEW c \in Callers, CancelUntrack(c) PROVE TypeInv'
    <2>1. active' \in [Deployments -> DOMAIN history \cup {NoHistory}]
        BY <1>9, <1>a DEF CancelUntrack
    <2> QED
        BY <1>9, <1>a, <1>b, <1>c, <1>e, <2>1, CallStep DEF CancelUntrack
<1>10. ASSUME NEW c \in Callers, DeleteRow(c) PROVE TypeInv'
    <2> DEFINE F == [h \in DOMAIN history |->
                       IF history[h].dep = calls[c].dep
                       THEN [history[h] EXCEPT !.status = "deleted"] ELSE history[h]]
    <2>1. \A h \in DOMAIN history : F[h] \in HistoryRow
        BY <1>a, <1>r, RowKeepsType DEF HistoryStatus
    <2>2. F = [h \in DOMAIN history |-> F[h]]
        OBVIOUS
    <2>3. history' = F
        BY <1>10 DEF DeleteRow
    <2> HIDE DEF F
    <2>4. SameRows
        BY <1>a, <2>1, <2>2, <2>3, RewrittenIsHistory DEF SameRows
    <2>5. status' \in [Deployments -> DeploymentStatus]
        BY <1>10, <1>a DEF DeleteRow, DeploymentStatus
    <2> QED
        BY <1>10, <1>a, <1>c, <1>e, <2>4, <2>5, CallStep DEF DeleteRow
<1>11. CASE TakeTask
    <2> DEFINE h == Head(queue)
    <2>1. h \in DOMAIN history /\ h \in Nat \ {0}
        BY <1>11, <1>a DEF TakeTask
    <2>2. Step("load", h, NoContainer) \in ProcState /\ Step("load", h, NoContainer).hist = h
        BY <2>1 DEF Step, ProcState, ContainerIds
    <2>3. queue' \in Seq(DOMAIN history) /\ Len(queue') <= QueueLimit
        BY <1>11, <1>a DEF TakeTask
    <2>4. active' \in [Deployments -> DOMAIN history \cup {NoHistory}]
        BY <1>11, <1>a, <2>1 DEF TakeTask
    <2> QED
        BY <1>11, <1>a, <1>b, <1>c, <2>1, <2>2, <2>3, <2>4, ProcStep DEF TakeTask, NoHistory
<1>p. proc.at # "idle" => /\ proc.hist \in DOMAIN history /\ proc.hist # NoHistory
                           /\ ProcDep \in Deployments
    BY <1>0, <1>a, <1>r DEF NamesRequest, ProcState, ProcDep
<1>q. ASSUME NEW s, GoTo(s), proc.at # "idle",
             s \in {"load", "build", "backed_up", "deploy", "check", "rollback",
                    "finish", "publish", "fail", "done"}
      PROVE  proc' \in ProcState /\ proc'.hist # NoHistory
    BY <1>q, <1>a, <1>p DEF GoTo, ProcState
<1>12. CASE StartBuilding
    <2>1. proc.at # "idle" /\ proc' \in ProcState /\ proc'.hist # NoHistory
        BY <1>12, <1>q DEF StartBuilding, At
    <2>2. SameRows
        BY <1>12, <1>0, <1>b, <1>p, <2>1, SetHistoryKeepsType
           DEF StartBuilding, SameRows, HistoryStatus, Active
    <2>3. status' \in [Deployments -> DeploymentStatus]
        BY <1>12, <1>0, <1>a, <1>p, <2>1, SetStatusKeepsType
           DEF StartBuilding, DeploymentStatus, Active
    <2> QED
        BY <1>12, <1>a, <1>c, <2>1, <2>2, <2>3, ProcStep DEF StartBuilding
<1>13. CASE Build
    <2>1. proc.at # "idle"
        BY <1>13 DEF Build, At
    <2>2. proc' \in ProcState /\ proc'.hist # NoHistory
        <3> DEFINE old == current[ProcDep]
                   b == IF old \in containers THEN old ELSE NoContainer
        <3>1. b \in ContainerIds
            BY <1>a, <1>p, <2>1 DEF ContainerIds
        <3>2. Step("backed_up", proc.hist, b) \in ProcState
            BY <1>p, <2>1, <3>1 DEF Step, ProcState
        <3>3. Step("backed_up", proc.hist, b).hist = proc.hist
            BY DEF Step
        <3> QED
            BY <1>13, <1>p, <1>q, <2>1, <3>2, <3>3 DEF Build
    <2>3. Docker'
        BY <1>13, <1>0 DEF Build, Docker
    <2> QED
        BY <1>13, <1>a, <1>b, <2>2, <2>3, ProcStep DEF Build
<1>14. CASE StartDeploying
    <2>1. proc.at # "idle" /\ proc' \in ProcState /\ proc'.hist # NoHistory
        BY <1>14, <1>q DEF StartDeploying, At
    <2>2. SameRows
        BY <1>14, <1>0, <1>p, <2>1, SetHistoryKeepsType
           DEF StartDeploying, SameRows, HistoryStatus, Active
    <2>3. status' \in [Deployments -> DeploymentStatus]
        BY <1>14, <1>0, <1>p, <2>1, SetStatusKeepsType DEF StartDeploying, DeploymentStatus, Active
    <2> QED
        BY <1>14, <1>a, <1>c, <2>1, <2>2, <2>3, ProcStep DEF StartDeploying
<1>15. CASE DeployContainer
    <2>1. proc.at # "idle"
        BY <1>15 DEF DeployContainer, At
    <2>2. proc' \in ProcState /\ proc'.hist # NoHistory
        BY <1>15, <1>q, <2>1 DEF DeployContainer
    <2>3. NewContainer \in ContainerIds
        BY <1>p, <1>0, <2>1 DEF NewContainer, ContainerIds, HistoryIds, Tables
    <2>4. Docker'
        BY <1>15, <1>0, <2>3 DEF DeployContainer, Docker
    <2> QED
        BY <1>15, <1>a, <1>b, <2>2, <2>4, ProcStep DEF DeployContainer
<1>16. CASE HealthChecks
    <2>1. proc.at # "idle" /\ proc' \in ProcState /\ proc'.hist # NoHistory
        BY <1>16, <1>q DEF HealthChecks, At
    <2> QED
        BY <1>16, <1>a, <1>b, <1>c, <2>1, ProcStep DEF HealthChecks
<1>17. CASE Rollback
    <2> DEFINE new == <<proc.hist, "rollback">>
    <2>1. proc.at # "idle" /\ proc' \in ProcState /\ proc'.hist # NoHistory
        BY <1>17, <1>q DEF Rollback, At
    <2>2. new \in ContainerIds
        BY <1>p, <1>0, <2>1 DEF ContainerIds, HistoryIds, Tables
    <2> HIDE DEF new
    <2>3. PICK removed \in {{}, {current[ProcDep]}} :
           \/ /\ containers' = containers \ removed
              /\ up' = up \ removed
              /\ UNCHANGED <<status, current>>
           \/ /\ containers' = (containers \ removed) \cup {new}
              /\ up' = (up \ removed) \cup {new}
              /\ current' = [current EXCEPT ![ProcDep] =
                               IF Usable /\ Exists(ProcDep) THEN new ELSE @]
              /\ status' = SetStatus(ProcDep, "rolled_back")
        BY <1>17 DEF Rollback, new
    <2>4. Docker'
        BY <1>0, <2>2, <2>3 DEF Docker
    <2>5. current' \in [Deployments -> ContainerIds]
        BY <1>a, <2>2, <2>3
    <2>6. status' \in [Deployments -> DeploymentStatus]
        BY <1>0, <1>a, <1>p, <2>1, <2>3, SetStatusKeepsType DEF DeploymentStatus
    <2> QED
        BY <1>17, <1>a, <1>b, <2>1, <2>4, <2>5, <2>6, ProcStep DEF Rollback
<1>18. CASE RecordSuccess
    <2>1. proc.at # "idle" /\ proc' \in ProcState /\ proc'.hist # NoHistory
        BY <1>18, <1>q DEF RecordSuccess, At
    <2>2. SameRows
        BY <1>18, <1>0, <1>p, <2>1, SetHistoryKeepsType
           DEF RecordSuccess, SameRows, HistoryStatus, Completed
    <2>3. status' \in [Deployments -> DeploymentStatus]
        BY <1>18, <1>0, <1>p, <2>1, SetStatusKeepsType DEF RecordSuccess, DeploymentStatus
    <2> QED
        BY <1>18, <1>a, <1>c, <2>1, <2>2, <2>3, ProcStep DEF RecordSuccess
<1>19. CASE Publish
    <2>1. proc.at # "idle" /\ proc' \in ProcState /\ proc'.hist # NoHistory
        BY <1>19, <1>q DEF Publish, At
    <2>2. NewContainer \in ContainerIds
        BY <1>p, <1>0, <2>1 DEF NewContainer, ContainerIds, HistoryIds, Tables
    <2>3. status' \in [Deployments -> DeploymentStatus]
        BY <1>19, <1>0, <1>p, <2>1, SetStatusKeepsType DEF Publish, DeploymentStatus
    <2>4. current' \in [Deployments -> ContainerIds]
        BY <1>19, <1>a, <2>2 DEF Publish
    <2> QED
        BY <1>19, <1>a, <1>b, <1>c, <2>1, <2>3, <2>4, ProcStep DEF Publish
<1>20. CASE HandleFailure
    <2>1. proc.at # "idle" /\ proc' \in ProcState /\ proc'.hist # NoHistory
        BY <1>20, <1>q DEF HandleFailure, At
    <2>2. SameRows
        BY <1>20, <1>0, <1>p, <2>1, SetHistoryKeepsType
           DEF HandleFailure, SameRows, HistoryStatus, Completed
    <2> QED
        BY <1>20, <1>a, <1>c, <2>1, <2>2, ProcStep DEF HandleFailure
<1>21. CASE FinishTask
    <2>1. IdleProc \in ProcState /\ IdleProc.at = "idle"
        BY DEF IdleProc, Step, ProcState, ContainerIds
    <2>2. active' \in [Deployments -> DOMAIN history \cup {NoHistory}]
        BY <1>21, <1>a DEF FinishTask
    <2> QED
        BY <1>21, <1>a, <1>b, <1>c, <2>1, <2>2, ProcStep DEF FinishTask
<1>22. CASE Restart
    <2>1. PICK old \in SUBSET {h \in DOMAIN history : history[h].status \in Active \cup {"pending"}} :
            history' = [h \in DOMAIN history |->
                          IF h \in old THEN [history[h] EXCEPT !.status = "timeout"] ELSE history[h]]
        BY <1>22 DEF Restart
    <2> DEFINE F == [h \in DOMAIN history |->
                       IF h \in old THEN [history[h] EXCEPT !.status = "timeout"] ELSE history[h]]
    <2>2. \A h \in DOMAIN history : F[h] \in HistoryRow
        BY <1>a, <1>r, RowKeepsType DEF HistoryStatus, Completed
    <2>3. F = [h \in DOMAIN history |-> F[h]]
        OBVIOUS
    <2>4. history' = F
        BY <2>1
    <2> HIDE DEF F
    <2>5. SameRows
        BY <1>a, <2>2, <2>3, <2>4, RewrittenIsHistory DEF SameRows
    <2>6. CallState' = CallState /\ ProcState' = ProcState
        BY <1>0, <2>5, SameLengthKeepsTypes DEF SameRows
    <2>7. status' \in [Deployments -> DeploymentStatus]
        BY <1>22, <1>a DEF Restart, DeploymentStatus
    <2>8. calls' \in [Callers -> CallState'] /\ \A c \in Callers : calls'[c].at = "idle"
        BY <1>22, <1>e, <2>6 DEF Restart
    <2>9. proc' \in ProcState' /\ proc'.at = "idle"
        BY <1>22, <2>6 DEF Restart, IdleProc, Step, ProcState, ContainerIds
    <2>10. /\ active' \in [Deployments -> DOMAIN history' \cup {NoHistory}]
           /\ queue' \in Seq(DOMAIN history') /\ Len(queue') <= QueueLimit
           /\ Lifetime'
        BY <1>22, <1>0 DEF Restart, Lifetime
    <2>11. Tables' /\ Docker'
        BY <1>22, <1>0, <1>a, <2>5, <2>7 DEF Restart, Tables, Docker, SameRows
    <2> QED
        BY <2>8, <2>9, <2>10, <2>11 DEF TypeInv, DeployTypeOK, NamesRequest, Tables, Docker, Lifetime
<1>23. CASE UNCHANGED deployVars
    BY <1>23 DEF TypeInv, DeployTypeOK, NamesRequest, CallState, ProcState, deployVars
<1> QED
    BY <1>1, <1>2, <1>3, <1>4, <1>5, <1>6, <1>7, <1>8, <1>9, <1>10, <1>11, <1>12, <1>13,
       <1>14, <1>15, <1>16, <1>17, <1>18, <1>19, <1>20, <1>21, <1>22, <1>23, <1>24
       DEF DeployNext, NewCall, Call, Process

(* In every reachable state the variables have their types, and the queue  *)
(* never holds more than its limit.                                        *)
THEOREM DeployTypeCorrect == DeploySpec => []DeployTypeOK
<1>1. TypeInv => DeployTypeOK
    BY DEF TypeInv
<1> QED
    BY <1>1, DeployTypeInit, DeployTypeStep, PTL DEF DeploySpec

-----------------------------------------------------------------------------
(* What a step does that neither makes a request nor moves one on.         *)
NothingMoves ==
    /\ \A c \in Callers : calls'[c].at \in {"refresh", "put"} =>
           calls[c].at \in {"refresh", "put"} /\ calls'[c].hist = calls[c].hist
    /\ queue' = queue /\ proc'.hist \in {proc.hist, NoHistory}
    /\ DOMAIN history' = DOMAIN history

LEMMA NothingMovesKeeps ==
    ASSUME TypeInv, HeldOnce, NothingMoves
    PROVE  HeldOnce'
<1>1. history \in Seq(HistoryRow)
    BY DEF TypeInv, DeployTypeOK
<1>2. \A h \in DOMAIN history : h # NoHistory
    BY <1>1 DEF NoHistory
<1>3. ASSUME NEW h \in DOMAIN history
      PROVE  PuttersOf(h)' \subseteq PuttersOf(h) /\ PlacesOf(h)' = PlacesOf(h)
    BY DEF NothingMoves, PuttersOf, PlacesOf
<1>4. ASSUME NEW h \in DOMAIN history, proc'.hist = h PROVE proc.hist = h
    BY <1>2, <1>4 DEF NothingMoves
<1> QED
    BY <1>3, <1>4 DEF HeldOnce, NothingMoves

(* A call that does not put anything.                                      *)
LEMMA CallPutsNothing ==
    ASSUME TypeInv, NEW c \in Callers, NEW x, calls' = [calls EXCEPT ![c] = x],
           x.at \notin {"refresh", "put"}
    PROVE  \A b \in Callers : calls'[b].at \in {"refresh", "put"} => calls'[b] = calls[b]
    BY DEF TypeInv, DeployTypeOK

LEMMA InsertKeepsHeld ==
    ASSUME TypeInv, HeldOnce, NEW c \in Callers, InsertHistory(c)
    PROVE  HeldOnce'
<1>1. CASE Usable /\ Exists(calls[c].dep)
    <2>0. PICK n : n = Len(history) + 1
        OBVIOUS
    <2> DEFINE new == Task("refresh", calls[c].dep, Len(history) + 1, calls[c].rollback)
    <2>1. /\ history' = Append(history, Row(calls[c].dep))
          /\ calls' = [calls EXCEPT ![c] = new] /\ UNCHANGED <<queue, proc>>
        BY <1>1 DEF InsertHistory
    <2>2. /\ DOMAIN history' = DOMAIN history \cup {n}
          /\ n \notin DOMAIN history \cup {NoHistory}
        BY <2>0, <2>1 DEF TypeInv, DeployTypeOK, NoHistory
    <2>3. \A b \in Callers : calls[b].hist # n
        BY <2>2 DEF TypeInv, DeployTypeOK, CallState
    <2>4. proc.hist # n
        BY <2>2 DEF TypeInv, DeployTypeOK, ProcState
    <2>5. PlacesOf(n) = {}
        BY <2>2 DEF TypeInv, DeployTypeOK, PlacesOf
    <2>6. new.at = "refresh" /\ new.hist = n
        BY <2>0 DEF Task
    <2> HIDE DEF new
    <2>7. calls'[c] = new /\ \A b \in Callers \ {c} : calls'[b] = calls[b]
        BY <2>1 DEF TypeInv, DeployTypeOK
    <2>8. PuttersOf(n)' \subseteq {c}
        BY <2>1, <2>3, <2>7 DEF PuttersOf
    <2>9. \A h \in DOMAIN history : PuttersOf(h)' \subseteq PuttersOf(h)
        BY <2>1, <2>2, <2>6, <2>7 DEF PuttersOf
    <2>10. \A h : PlacesOf(h)' = PlacesOf(h)
        BY <2>1 DEF PlacesOf
    <2> QED
        BY <2>1, <2>2, <2>4, <2>5, <2>8, <2>9, <2>10 DEF HeldOnce
<1>2. CASE ~(Usable /\ Exists(calls[c].dep))
    BY <1>2, CallPutsNothing, NothingMovesKeeps DEF InsertHistory, NothingMoves, IdleCall, Task
<1> QED
    BY <1>1, <1>2

LEMMA PutKeepsHeld ==
    ASSUME TypeInv, HeldOnce, NEW c \in Callers, PutTask(c)
    PROVE  HeldOnce'
<1>0. PICK r : r = calls[c].hist
    OBVIOUS
<1> DEFINE x == IF calls[c].rollback THEN IdleCall ELSE [calls[c] EXCEPT !.at = "mark"]
<1>1. /\ queue' = Append(queue, r) /\ calls' = [calls EXCEPT ![c] = x]
      /\ UNCHANGED <<history, proc>> /\ calls[c].at = "put"
    BY <1>0 DEF PutTask
<1>2. calls[c] \in CallState /\ queue \in Seq(DOMAIN history)
    BY DEF TypeInv, DeployTypeOK
<1>3. x.at \notin {"refresh", "put"}
    BY <1>2 DEF CallState, IdleCall, Task
<1>4. c \in PuttersOf(r) /\ r \in DOMAIN history
    BY <1>0, <1>1, <1>2 DEF PuttersOf, TypeInv, NamesRequest, CallState
<1> HIDE DEF x
<1>5. \A b \in Callers : calls'[b].at \in {"refresh", "put"} => b # c /\ calls'[b] = calls[b]
    BY <1>1, <1>3 DEF TypeInv, DeployTypeOK
<1>6. \A h \in DOMAIN history : PuttersOf(h)' \subseteq PuttersOf(h)
    BY <1>5 DEF PuttersOf
<1>7. PuttersOf(r)' = {}
    BY <1>4, <1>5, <1>6 DEF HeldOnce, PuttersOf
<1>8. /\ Len(queue) \in Nat /\ DOMAIN queue' = 1 .. Len(queue) + 1
      /\ DOMAIN queue = 1 .. Len(queue)
      /\ queue'[Len(queue) + 1] = r /\ \A i \in DOMAIN queue : queue'[i] = queue[i]
    BY <1>1, <1>2, <1>4
<1>9. PlacesOf(r) = {} /\ proc.hist # r
    BY <1>4 DEF HeldOnce
<1>10. PlacesOf(r)' \subseteq {Len(queue) + 1}
    BY <1>8, <1>9 DEF PlacesOf
<1>11. \A h \in DOMAIN history \ {r} : PlacesOf(h)' = PlacesOf(h)
    BY <1>8 DEF PlacesOf
<1> QED
    BY <1>1, <1>6, <1>7, <1>9, <1>10, <1>11 DEF HeldOnce

LEMMA TakeKeepsHeld ==
    ASSUME TypeInv, HeldOnce, TakeTask
    PROVE  HeldOnce'
<1>0. PICK r : r = Head(queue)
    OBVIOUS
<1>1. /\ queue' = Tail(queue) /\ queue # <<>> /\ UNCHANGED <<history, calls>>
      /\ queue \in Seq(DOMAIN history)
    BY DEF TakeTask, TypeInv, DeployTypeOK
<1>2. proc'.hist = r
    BY <1>0 DEF TakeTask, Step
<1>3. /\ Len(queue) \in Nat \ {0} /\ r = queue[1] /\ r \in DOMAIN history
      /\ DOMAIN queue = 1 .. Len(queue)
      /\ DOMAIN queue' = 1 .. Len(queue) - 1
      /\ \A i \in DOMAIN queue' : queue'[i] = queue[i + 1]
    BY <1>0, <1>1
<1>4. 1 \in PlacesOf(r)
    BY <1>3 DEF PlacesOf
<1>5. ASSUME NEW h \in DOMAIN history, NEW i \in PlacesOf(h)'
      PROVE  i \in Nat /\ i + 1 \in PlacesOf(h)
    BY <1>3, <1>5 DEF PlacesOf
<1>6. ASSUME NEW h \in DOMAIN history, NEW i \in PlacesOf(h)', NEW j \in PlacesOf(h)'
      PROVE  i = j
    BY <1>5, <1>6 DEF HeldOnce
<1>7. ASSUME NEW i \in PlacesOf(r)' PROVE FALSE
    <2>1. i \in Nat \ {0} /\ i + 1 \in PlacesOf(r)
        BY <1>3, <1>5, <1>7 DEF PlacesOf
    <2>2. i + 1 = 1
        BY <1>3, <1>4, <2>1 DEF HeldOnce
    <2> QED
        BY <2>1, <2>2
<1>8. \A h : PuttersOf(h)' = PuttersOf(h)
    BY <1>1 DEF PuttersOf
<1>9. PuttersOf(r) = {}
    BY <1>3, <1>4 DEF HeldOnce
<1>10. ASSUME NEW h \in DOMAIN history, PuttersOf(h) # {} PROVE PlacesOf(h)' = {}
    BY <1>5, <1>10 DEF HeldOnce
<1> QED
    BY <1>1, <1>2, <1>6, <1>7, <1>8, <1>9, <1>10 DEF HeldOnce

LEMMA RestartKeepsHeld ==
    ASSUME Restart
    PROVE  HeldOnce'
<1>1. \A h : PuttersOf(h)' = {} /\ PlacesOf(h)' = {}
    BY DEF Restart, PuttersOf, PlacesOf, IdleCall, Task
<1> QED
    BY <1>1 DEF HeldOnce

LEMMA HeldOnceStep == TypeInv /\ HeldOnce /\ [DeployNext]_deployVars => HeldOnce'
<1> SUFFICES ASSUME TypeInv, HeldOnce, [DeployNext]_deployVars PROVE HeldOnce'
    OBVIOUS
<1>0. DeployTypeOK /\ NamesRequest /\ calls \in [Callers -> CallState]
    BY DEF TypeInv, DeployTypeOK
<1>1. ASSUME NEW c \in Callers, NewCall(c) PROVE HeldOnce'
    <2>1. PICK x : x.at \notin {"refresh", "put"} /\ calls' = [calls EXCEPT ![c] = x]
        BY <1>1 DEF NewCall, TriggerCheck, RollbackCheck, CancelCheck, DeleteContainer, Task
    <2>2. UNCHANGED <<history, queue, proc>>
        BY <1>1 DEF NewCall, TriggerCheck, RollbackCheck, CancelCheck, DeleteContainer
    <2> QED
        BY <2>1, <2>2, CallPutsNothing, NothingMovesKeeps DEF NothingMoves
<1>2. ASSUME NEW c \in Callers, MarkQueued(c) \/ CancelUntrack(c) PROVE HeldOnce'
    <2>1. calls' = [calls EXCEPT ![c] = IdleCall] /\ UNCHANGED <<history, queue, proc>>
        BY <1>2 DEF MarkQueued, CancelUntrack
    <2> QED
        BY <2>1, CallPutsNothing, NothingMovesKeeps DEF NothingMoves, IdleCall, Task
<1>3. ASSUME NEW c \in Callers, CancelCommit(c) PROVE HeldOnce'
    <2> DEFINE x == IF Usable THEN [calls[c] EXCEPT !.at = "untrack"] ELSE IdleCall
    <2>1. calls' = [calls EXCEPT ![c] = x] /\ UNCHANGED <<queue, proc>>
        BY <1>3 DEF CancelCommit
    <2>2. x.at \notin {"refresh", "put"}
        BY <1>0 DEF CallState, IdleCall, Task
    <2>3. DOMAIN history' = DOMAIN history
        BY <1>3 DEF CancelCommit, SetHistory
    <2> HIDE DEF x
    <2> QED
        BY <2>1, <2>2, <2>3, CallPutsNothing, NothingMovesKeeps DEF NothingMoves
<1>4. ASSUME NEW c \in Callers, DeleteRow(c) PROVE HeldOnce'
    <2>1. /\ calls' = [calls EXCEPT ![c] = IdleCall] /\ UNCHANGED <<queue, proc>>
          /\ DOMAIN history' = DOMAIN history
        BY <1>4 DEF DeleteRow
    <2> QED
        BY <2>1, CallPutsNothing, NothingMovesKeeps DEF NothingMoves, IdleCall, Task
<1>5. ASSUME Process, ~TakeTask PROVE HeldOnce'
    <2>1. UNCHANGED <<calls, queue>>
        BY <1>5 DEF Process, StartBuilding, Build, StartDeploying, DeployContainer, HealthChecks,
                    Rollback, RecordSuccess, Publish, HandleFailure, FinishTask
    <2>2. DOMAIN history' = DOMAIN history
        BY <1>5 DEF Process, StartBuilding, Build, StartDeploying, DeployContainer, HealthChecks,
                    Rollback, RecordSuccess, Publish, HandleFailure, FinishTask, SetHistory
    <2>3. ASSUME NEW s, GoTo(s) PROVE proc'.hist = proc.hist
        BY <1>0, <2>3 DEF GoTo, DeployTypeOK, ProcState
    <2>4. proc'.hist \in {proc.hist, NoHistory}
        <3>1. CASE Build
            BY <2>3, <3>1 DEF Build, Step
        <3>2. CASE FinishTask
            BY <3>2 DEF FinishTask, IdleProc, Step
        <3>3. CASE StartBuilding \/ StartDeploying \/ DeployContainer
            BY <2>3, <3>3 DEF StartBuilding, StartDeploying, DeployContainer
        <3>4. CASE HealthChecks \/ Rollback
            BY <2>3, <3>4 DEF HealthChecks, Rollback
        <3>5. CASE RecordSuccess \/ Publish \/ HandleFailure
            BY <2>3, <3>5 DEF RecordSuccess, Publish, HandleFailure
        <3> QED
            BY <1>5, <3>1, <3>2, <3>3, <3>4, <3>5 DEF Process
    <2> QED
        BY <2>1, <2>2, <2>4, NothingMovesKeeps DEF NothingMoves
<1>7. ASSUME NEW c \in Callers, RefreshHistory(c) PROVE HeldOnce'
    <2> DEFINE x == IF Usable /\ history[calls[c].hist].status # "deleted"
                    THEN [calls[c] EXCEPT !.at = "put"] ELSE IdleCall
    <2>1. calls' = [calls EXCEPT ![c] = x] /\ UNCHANGED <<history, queue, proc>>
        BY <1>7 DEF RefreshHistory
    <2>2. x.at \in {"refresh", "put"} => x.hist = calls[c].hist
        BY <1>0 DEF CallState, IdleCall, Task
    <2>3. calls[c].at = "refresh"
        BY <1>7 DEF RefreshHistory
    <2> HIDE DEF x
    <2> QED
        BY <1>0, <2>1, <2>2, <2>3, NothingMovesKeeps DEF NothingMoves
<1>6. CASE UNCHANGED deployVars
    BY <1>6, NothingMovesKeeps DEF NothingMoves, deployVars
<1> QED
    BY <1>1, <1>2, <1>3, <1>4, <1>5, <1>6, <1>7, InsertKeepsHeld, PutKeepsHeld, TakeKeepsHeld,
       RestartKeepsHeld DEF DeployNext, Call

(* No request is ever executed twice: whatever is triggered, cancelled,    *)
(* deleted or restarted meanwhile, the call that makes a request, the      *)
(* queue and the processor never hold it at once.                          *)
THEOREM HeldOnceHolds == DeploySpec => []HeldOnce
<1>1. DeployInit => HeldOnce
    BY DEF DeployInit, HeldOnce
<1> QED
    BY <1>1, DeployTypeInit, DeployTypeStep, HeldOnceStep, PTL DEF DeploySpec

-----------------------------------------------------------------------------
(* The rows of the history.                                                *)
LEMMA SetHistoryRows ==
    ASSUME TypeInv, NEW h \in DOMAIN history, NEW s
    PROVE  /\ DOMAIN SetHistory(h, s) = DOMAIN history
           /\ \A i \in DOMAIN history :
                 /\ SetHistory(h, s)[i].dep = history[i].dep
                 /\ SetHistory(h, s)[i].status =
                       IF i = h /\ history[h].status # "deleted" /\ Usable THEN s
                       ELSE history[i].status
<1> DEFINE new == IF history[h].status = "deleted" \/ ~Usable THEN history[h]
                  ELSE [history[h] EXCEPT !.status = s]
<1>1. SetHistory(h, s) = [history EXCEPT ![h] = new]
    BY DEF SetHistory
<1>2. history[h] \in HistoryRow
    BY DEF TypeInv, DeployTypeOK
<1>3. /\ new.dep = history[h].dep
      /\ new.status = IF history[h].status # "deleted" /\ Usable THEN s ELSE history[h].status
    BY <1>2 DEF HistoryRow
<1> HIDE DEF new
<1> QED
    BY <1>1, <1>3

(* A row never goes away, nor its deployment; and only a new row is        *)
(* pending that was not.                                                   *)
LEMMA RowsStay ==
    ASSUME TypeInv, [DeployNext]_deployVars
    PROVE  /\ \A h \in DOMAIN history :
                 /\ h \in DOMAIN history' /\ history'[h].dep = history[h].dep
                 /\ history'[h].status = "pending" => history[h].status = "pending"
           /\ (\A c \in Callers : ~InsertHistory(c)) => DOMAIN history' = DOMAIN history
<1>0. /\ history \in Seq(HistoryRow) /\ calls \in [Callers -> CallState] /\ proc \in ProcState
      /\ \A h \in DOMAIN history : history[h] \in HistoryRow
      /\ \A h \in DOMAIN history : h # NoHistory
    BY DEF TypeInv, DeployTypeOK, NoHistory
<1> DEFINE Kept == /\ DOMAIN history' = DOMAIN history
                   /\ \A h \in DOMAIN history :
                         /\ history'[h].dep = history[h].dep
                         /\ history'[h].status = "pending" => history[h].status = "pending"
<1>1. ASSUME NEW h \in DOMAIN history, NEW s, s # "pending", history' = SetHistory(h, s)
      PROVE  Kept
    BY <1>1, SetHistoryRows
<1>2. ASSUME NEW h \in DOMAIN history \cup {NoHistory}, h # NoHistory PROVE h \in DOMAIN history
    BY <1>2
<1>3. ASSUME history' = history PROVE Kept
    BY <1>3
<1>4. ASSUME NEW c \in Callers, InsertHistory(c)
      PROVE  \A h \in DOMAIN history : h \in DOMAIN history' /\ history'[h] = history[h]
    BY <1>0, <1>4 DEF InsertHistory
<1>5. ASSUME NEW c \in Callers, CancelCommit(c) PROVE Kept
    <2>1. calls[c].hist \in DOMAIN history
        BY <1>0, <1>2, <1>5 DEF CancelCommit, CallState, TypeInv, NamesRequest
    <2> QED
        BY <1>1, <1>5, <2>1 DEF CancelCommit
<1>6. ASSUME NEW c \in Callers, DeleteRow(c) PROVE Kept
    BY <1>0, <1>6 DEF DeleteRow, HistoryRow
<1>7. CASE Restart
    BY <1>0, <1>7 DEF Restart, HistoryRow
<1>8. CASE Process
    <2>1. proc.at # "idle" => proc.hist \in DOMAIN history
        BY <1>0, <1>2 DEF ProcState, TypeInv, NamesRequest
    <2>2. \/ history' = history
          \/ /\ proc.at # "idle"
             /\ \E s : s # "pending" /\ history' = SetHistory(proc.hist, s)
        BY <1>8 DEF Process, TakeTask, StartBuilding, Build, StartDeploying, DeployContainer,
                    HealthChecks, Rollback, RecordSuccess, Publish, HandleFailure, FinishTask, At
    <2> HIDE DEF Kept
    <2>3. Kept
        BY <1>1, <1>3, <2>1, <2>2
    <2> QED
        BY <2>3 DEF Kept
<1>9. ASSUME NEW c \in Callers, NewCall(c) \/ RefreshHistory(c) \/ PutTask(c) \/ MarkQueued(c) \/ CancelUntrack(c)
      PROVE  Kept
    BY <1>9 DEF NewCall, TriggerCheck, RollbackCheck, CancelCheck, DeleteContainer, RefreshHistory, PutTask,
                MarkQueued, CancelUntrack
<1> QED
    BY <1>3, <1>4, <1>5, <1>6, <1>7, <1>8, <1>9 DEF DeployNext, Call, deployVars

(* The session does not mend while the process lives.                      *)
LEMMA SessionStays ==
    ASSUME [DeployNext]_deployVars, ~Restart, Usable'
    PROVE  Usable
    BY DEF DeployNext, Call, NewCall, TriggerCheck, RollbackCheck, CancelCheck, DeleteContainer,
           InsertHistory, RefreshHistory, PutTask, MarkQueued, CancelCommit, CancelUntrack,
           DeleteRow, Process, TakeTask, StartBuilding, Build, StartDeploying, DeployContainer,
           HealthChecks, Rollback, RecordSuccess, Publish, HandleFailure, FinishTask, deployVars,
           Usable

(* The processor ends with a request only when its row was written.        *)
Handled ==
    Usable /\ proc.at \notin {"idle", "load", "fail"} => history[proc.hist].status # "pending"

IdleHoldsNothing == proc.at = "idle" => proc.hist = NoHistory

PendingInv == Handled /\ IdleHoldsNothing /\ (restarts = 0 => PendingIsHeld)

(* What keeps the rows that are pending with whoever has them.             *)
LEMMA NothingMovesKeepsPending ==
    ASSUME TypeInv, [DeployNext]_deployVars, ~Restart, restarts' = 0 => restarts = 0, PendingInv,
           DOMAIN history' = DOMAIN history, queue' = queue,
           \A c \in Callers : calls[c].at \in {"refresh", "put"} => calls'[c] = calls[c],
           proc'.hist = proc.hist \/ proc.at = "done"
    PROVE  restarts' = 0 => PendingIsHeld'
<1> SUFFICES ASSUME restarts' = 0, Usable', NEW h \in DOMAIN history, history'[h].status = "pending"
             PROVE  PuttersOf(h)' # {} \/ PlacesOf(h)' # {} \/ proc'.hist = h
    BY DEF PendingIsHeld
<1>1. history[h].status = "pending" /\ Usable
    BY RowsStay, SessionStays
<1>2. PuttersOf(h) # {} \/ PlacesOf(h) # {} \/ proc.hist = h
    BY <1>1 DEF PendingInv, PendingIsHeld
<1>3. PuttersOf(h) \subseteq PuttersOf(h)' /\ PlacesOf(h)' = PlacesOf(h)
    BY DEF PuttersOf, PlacesOf
<1>4. CASE proc.hist = h
    BY <1>1, <1>4 DEF PendingInv, Handled
<1> QED
    BY <1>2, <1>3, <1>4

LEMMA InsertKeepsPending ==
    ASSUME TypeInv, PendingInv, NEW c \in Callers, InsertHistory(c), Usable, Exists(calls[c].dep)
    PROVE  restarts' = 0 => PendingIsHeld'
<1> DEFINE new == Task("refresh", calls[c].dep, Len(history) + 1, calls[c].rollback)
<1>1. /\ history' = Append(history, Row(calls[c].dep)) /\ calls[c].at = "insert"
      /\ calls' = [calls EXCEPT ![c] = new] /\ UNCHANGED <<queue, proc, restarts>>
    BY DEF InsertHistory
<1>2. /\ Len(history) \in Nat /\ DOMAIN history = 1 .. Len(history)
      /\ DOMAIN history' = DOMAIN history \cup {Len(history) + 1}
      /\ \A h \in DOMAIN history : history'[h] = history[h]
    BY <1>1 DEF TypeInv, DeployTypeOK
<1>3. new.at = "refresh" /\ new.hist = Len(history) + 1
    BY DEF Task
<1> HIDE DEF new
<1>4. calls'[c] = new /\ \A b \in Callers \ {c} : calls'[b] = calls[b]
    BY <1>1 DEF TypeInv, DeployTypeOK
<1>5. \A n : n = Len(history) + 1 => c \in PuttersOf(n)'
    BY <1>3, <1>4 DEF PuttersOf
<1>6. \A h \in DOMAIN history : PuttersOf(h) \subseteq PuttersOf(h)' /\ PlacesOf(h)' = PlacesOf(h)
    BY <1>1, <1>4 DEF PuttersOf, PlacesOf
<1> QED
    <2>1. \A h \in DOMAIN history' : h \in DOMAIN history \/ PuttersOf(h)' # {}
        BY <1>2, <1>5
    <2> QED
        BY <1>1, <1>2, <1>6, <2>1 DEF PendingInv, PendingIsHeld

LEMMA RefreshKeepsPending ==
    ASSUME TypeInv, PendingInv, NEW c \in Callers, RefreshHistory(c)
    PROVE  restarts' = 0 => PendingIsHeld'
<1> SUFFICES ASSUME restarts = 0, Usable, NEW h \in DOMAIN history, history[h].status = "pending"
             PROVE  PuttersOf(h)' # {} \/ PlacesOf(h)' # {} \/ proc'.hist = h
    BY DEF RefreshHistory, PendingIsHeld, Usable
<1>1. UNCHANGED <<history, queue, proc>>
    BY DEF RefreshHistory
<1>2. PuttersOf(h) # {} \/ PlacesOf(h) # {} \/ proc.hist = h
    BY DEF PendingInv, PendingIsHeld
<1>3. PlacesOf(h)' = PlacesOf(h)
    BY <1>1 DEF PlacesOf
<1>4. ASSUME NEW b \in PuttersOf(h) PROVE b \in PuttersOf(h)'
    <2>0. calls[b] \in CallState /\ calls[c] \in CallState
        BY DEF TypeInv, DeployTypeOK, PuttersOf
    <2>1. CASE b = c
        <3>1. history[calls[c].hist].status # "deleted"
            BY <1>4, <2>1 DEF PuttersOf
        <3>2. calls'[c] = [calls[c] EXCEPT !.at = "put"]
            BY <3>1 DEF RefreshHistory, TypeInv, DeployTypeOK
        <3>3. calls'[c].at = "put" /\ calls'[c].hist = calls[c].hist
            BY <2>0, <3>2 DEF CallState
        <3> QED
            BY <1>4, <2>1, <3>3 DEF PuttersOf
    <2>2. CASE b # c
        <3>1. calls'[b] = calls[b]
            BY <2>2 DEF RefreshHistory, TypeInv, DeployTypeOK, PuttersOf
        <3> QED
            BY <1>4, <3>1 DEF PuttersOf
    <2> QED
        BY <2>1, <2>2
<1> QED
    BY <1>1, <1>2, <1>3, <1>4

LEMMA PutKeepsPending ==
    ASSUME TypeInv, PendingInv, NEW c \in Callers, PutTask(c)
    PROVE  restarts' = 0 => PendingIsHeld'
<1>0. PICK r : r = calls[c].hist
    OBVIOUS
<1>1. /\ queue' = Append(queue, r) /\ UNCHANGED <<history, proc, restarts, session>>
      /\ \A b \in Callers \ {c} : calls'[b] = calls[b]
    BY <1>0 DEF PutTask, TypeInv, DeployTypeOK
<1>2. queue \in Seq(DOMAIN history) /\ Len(queue) \in Nat
    BY DEF TypeInv, DeployTypeOK
<1>3. /\ DOMAIN queue' = 1 .. Len(queue) + 1 /\ DOMAIN queue = 1 .. Len(queue)
      /\ queue'[Len(queue) + 1] = r /\ \A i \in DOMAIN queue : queue'[i] = queue[i]
    <2>1. Len(queue) + 1 \in 1 .. Len(queue) + 1
        BY <1>2
    <2> QED
        BY <1>1, <1>2, <2>1
<1>4. PlacesOf(r)' # {}
    BY <1>2, <1>3 DEF PlacesOf
<1>5. \A h : PlacesOf(h) \subseteq PlacesOf(h)'
    BY <1>2, <1>3 DEF PlacesOf
<1>6. \A h : h # r => PuttersOf(h) \subseteq PuttersOf(h)'
    BY <1>0, <1>1 DEF PuttersOf
<1> SUFFICES ASSUME restarts = 0, Usable, NEW h \in DOMAIN history, history[h].status = "pending"
             PROVE  PuttersOf(h)' # {} \/ PlacesOf(h)' # {} \/ proc'.hist = h
    BY <1>1 DEF PendingIsHeld, Usable
<1>7. PuttersOf(h) # {} \/ PlacesOf(h) # {} \/ proc.hist = h
    BY DEF PendingInv, PendingIsHeld
<1> QED
    BY <1>1, <1>4, <1>5, <1>6, <1>7

LEMMA TakeKeepsPending ==
    ASSUME TypeInv, PendingInv, TakeTask
    PROVE  restarts' = 0 => PendingIsHeld'
<1>0. PICK r : r = Head(queue)
    OBVIOUS
<1>1. /\ queue' = Tail(queue) /\ queue # <<>> /\ UNCHANGED <<history, calls, restarts, session>>
      /\ queue \in Seq(DOMAIN history) /\ proc'.hist = r
    BY <1>0 DEF TakeTask, TypeInv, DeployTypeOK, Step
<1>2. proc.hist \notin DOMAIN history
    BY DEF TakeTask, At, TypeInv, DeployTypeOK, PendingInv, IdleHoldsNothing, NoHistory
<1>3. /\ Len(queue) \in Nat \ {0} /\ r = queue[1]
      /\ DOMAIN queue = 1 .. Len(queue) /\ DOMAIN queue' = 1 .. Len(queue) - 1
      /\ \A i \in DOMAIN queue' : queue'[i] = queue[i + 1]
    BY <1>0, <1>1
<1> SUFFICES ASSUME restarts = 0, Usable, NEW h \in DOMAIN history, history[h].status = "pending"
             PROVE  PuttersOf(h)' # {} \/ PlacesOf(h)' # {} \/ proc'.hist = h
    BY <1>1 DEF PendingIsHeld, Usable
<1>4. PuttersOf(h) # {} \/ PlacesOf(h) # {}
    BY <1>2 DEF PendingInv, PendingIsHeld
<1>5. PuttersOf(h)' = PuttersOf(h)
    BY <1>1 DEF PuttersOf
<1>6. ASSUME NEW i \in PlacesOf(h), h # r PROVE PlacesOf(h)' # {}
    <2>1. i \in 1 .. Len(queue) /\ queue[i] = h
        BY <1>3 DEF PlacesOf
    <2>2. i # 1
        BY <1>3, <1>6, <2>1
    <2>3. i - 1 \in DOMAIN queue' /\ queue'[i - 1] = h
        BY <1>3, <2>1, <2>2
    <2> QED
        BY <2>3 DEF PlacesOf
<1> QED
    BY <1>1, <1>4, <1>5, <1>6

(* Where the processor goes: on with its request, or to the next one.      *)
LEMMA ProcessorMoves ==
    ASSUME TypeInv, Process, ~TakeTask, ~FinishTask
    PROVE  /\ UNCHANGED <<queue, calls, restarts>> /\ proc.at # "idle"
           /\ proc'.at \notin {"idle", "load"} /\ proc'.hist = proc.hist
<1>0. proc \in ProcState
    BY DEF TypeInv, DeployTypeOK
<1>1. ASSUME NEW s, GoTo(s) PROVE proc'.hist = proc.hist /\ proc'.at = s
    BY <1>0, <1>1 DEF GoTo, ProcState
<1>2. CASE Build
    BY <1>1, <1>2 DEF Build, Step, At
<1>3. CASE StartBuilding \/ StartDeploying
    BY <1>1, <1>3 DEF StartBuilding, StartDeploying, At
<1>4. CASE DeployContainer
    BY <1>1, <1>4 DEF DeployContainer, At
<1>5. CASE HealthChecks
    BY <1>1, <1>5 DEF HealthChecks, At
<1>6. CASE Rollback
    BY <1>1, <1>6 DEF Rollback, At
<1>7. CASE RecordSuccess
    BY <1>1, <1>7 DEF RecordSuccess, At
<1>8. CASE Publish
    BY <1>1, <1>8 DEF Publish, At
<1>9. CASE HandleFailure
    BY <1>1, <1>9 DEF HandleFailure, At
<1> QED
    BY <1>2, <1>3, <1>4, <1>5, <1>6, <1>7, <1>8, <1>9 DEF Process

(* Past "load" and "fail" the row is no longer pending.                    *)
LEMMA HandledStep ==
    ASSUME TypeInv, PendingInv, [DeployNext]_deployVars
    PROVE  Handled' /\ IdleHoldsNothing'
<1>0. /\ proc \in ProcState /\ (proc.at # "idle" => proc.hist \in DOMAIN history)
      /\ history \in Seq(HistoryRow)
    BY DEF TypeInv, DeployTypeOK, NamesRequest, ProcState
<1>1. CASE proc' = proc /\ ~Restart
    BY <1>0, <1>1, RowsStay, SessionStays DEF PendingInv, Handled, IdleHoldsNothing
<1>2. CASE TakeTask \/ FinishTask \/ Restart
    BY <1>2 DEF TakeTask, FinishTask, Restart, IdleProc, Step, Handled, IdleHoldsNothing
<1>3. CASE Process /\ ~TakeTask /\ ~FinishTask
    <2>1. proc'.at \notin {"idle", "load"} /\ proc'.hist = proc.hist /\ proc.at # "idle"
        BY <1>3, ProcessorMoves
    <2>5. Usable' => Usable
        <3>1. ~Restart
            BY <2>1, ProcessorMoves, <1>3 DEF Restart, TypeInv, DeployTypeOK
        <3> QED
            BY <3>1, SessionStays
    <2>2. proc'.at # "fail" => proc.at \notin {"load", "fail"} \/ StartBuilding \/ HandleFailure
        BY <1>3 DEF Process, Build, StartDeploying, DeployContainer, HealthChecks, Rollback,
                    RecordSuccess, Publish, At
    <2>3. CASE (StartBuilding \/ HandleFailure) /\ proc'.at # "fail"
        <3>1. PICK s \in {"building", "failed"} : history' = SetHistory(proc.hist, s)
            BY <1>0, <2>3 DEF StartBuilding, HandleFailure, GoTo, ProcState
        <3>2. Usable => history'[proc.hist].status # "pending"
            BY <1>0, <2>1, <3>1, SetHistoryRows
        <3> QED
            BY <2>1, <2>5, <3>2 DEF Handled, IdleHoldsNothing
    <2>4. CASE proc'.at # "fail" /\ proc.at \notin {"load", "fail"}
        <3>1. Usable => history[proc.hist].status # "pending"
            BY <2>1, <2>4 DEF PendingInv, Handled
        <3> QED
            BY <1>0, <2>1, <2>5, <3>1, RowsStay DEF Handled, IdleHoldsNothing
    <2> QED
        BY <2>1, <2>2, <2>3, <2>4 DEF Handled, IdleHoldsNothing
<1>4. (proc' = proc /\ ~Restart) \/ Process \/ Restart
    BY DEF DeployNext, Call, NewCall, TriggerCheck, RollbackCheck, CancelCheck, DeleteContainer,
           InsertHistory, RefreshHistory, PutTask, MarkQueued, CancelCommit, CancelUntrack, DeleteRow, deployVars
<1> QED
    BY <1>1, <1>2, <1>3, <1>4

LEMMA PendingStep == TypeInv /\ PendingInv /\ [DeployNext]_deployVars => PendingInv'
<1> SUFFICES ASSUME TypeInv, PendingInv, [DeployNext]_deployVars PROVE PendingInv'
    OBVIOUS
<1>0. /\ calls \in [Callers -> CallState] /\ restarts \in Nat
    BY DEF TypeInv, DeployTypeOK
<1> SUFFICES restarts' = 0 => PendingIsHeld'
    BY HandledStep DEF PendingInv
<1>8. restarts' = restarts => ~Restart
    BY <1>0 DEF Restart
<1>1. ASSUME NEW c \in Callers, NEW x, calls[c].at \notin {"refresh", "put"},
             calls' = [calls EXCEPT ![c] = x], ~Restart, UNCHANGED <<queue, proc, restarts>>, DOMAIN history' = DOMAIN history
      PROVE  restarts' = 0 => PendingIsHeld'
    <2>1. \A b \in Callers : calls[b].at \in {"refresh", "put"} => calls'[b] = calls[b]
        BY <1>0, <1>1
    <2> QED
        BY <1>1, <2>1, NothingMovesKeepsPending
<1>2. ASSUME NEW c \in Callers, NewCall(c) PROVE restarts' = 0 => PendingIsHeld'
    <2>1. /\ calls[c].at \notin {"refresh", "put"} /\ \E x : calls' = [calls EXCEPT ![c] = x]
          /\ UNCHANGED <<history, queue, proc, restarts>>
        BY <1>2 DEF NewCall, TriggerCheck, RollbackCheck, CancelCheck, DeleteContainer
    <2> QED
        BY <1>1, <1>8, <2>1
<1>3. ASSUME NEW c \in Callers, MarkQueued(c) \/ CancelUntrack(c) \/ CancelCommit(c) \/ DeleteRow(c)
      PROVE  restarts' = 0 => PendingIsHeld'
    <2>1. /\ calls[c].at \notin {"refresh", "put"} /\ \E x : calls' = [calls EXCEPT ![c] = x]
          /\ UNCHANGED <<queue, proc, restarts>>
        BY <1>3 DEF MarkQueued, CancelUntrack, CancelCommit, DeleteRow
    <2>2. DOMAIN history' = DOMAIN history
        BY <1>3 DEF MarkQueued, CancelUntrack, CancelCommit, DeleteRow, SetHistory
    <2> QED
        BY <1>1, <1>8, <2>1, <2>2
<1>4. ASSUME NEW c \in Callers, InsertHistory(c) PROVE restarts' = 0 => PendingIsHeld'
    <2>1. CASE ~(Usable /\ Exists(calls[c].dep))
        BY <1>4, <2>1 DEF InsertHistory, PendingIsHeld, Usable
    <2> QED
        BY <1>4, <2>1, InsertKeepsPending
<1>5. CASE Process /\ ~TakeTask
    <2>1. UNCHANGED <<queue, calls, restarts>> /\ (proc'.hist = proc.hist \/ proc.at = "done")
        BY <1>5, ProcessorMoves DEF FinishTask, At
    <2>2. DOMAIN history' = DOMAIN history
        BY <1>5 DEF Process, StartBuilding, Build, StartDeploying, DeployContainer, HealthChecks,
                    Rollback, RecordSuccess, Publish, HandleFailure, FinishTask, SetHistory
    <2> QED
        BY <1>8, <2>1, <2>2, NothingMovesKeepsPending
<1>6. CASE Restart
    BY <1>0, <1>6 DEF Restart
<1>7. CASE UNCHANGED deployVars
    BY <1>7, <1>8, NothingMovesKeepsPending DEF deployVars
<1> QED
    BY <1>2, <1>3, <1>4, <1>5, <1>6, <1>7, RefreshKeepsPending,
       PutKeepsPending, TakeKeepsPending DEF DeployNext, Call

LEMMA PendingInvHolds == DeploySpec => []PendingInv
<1>1. DeployInit => PendingInv
    BY DEF DeployInit, PendingInv, Handled, IdleHoldsNothing, PendingIsHeld, IdleProc, Step
<1> QED
    BY <1>1, DeployTypeInit, DeployTypeStep, PendingStep, PTL DEF DeploySpec

(* No request is lost while the process lives and its session is usable:   *)
(* however full the queue and whoever cancels or deletes, what is pending  *)
(* is with the call that makes it, in the queue or with the processor.  A  *)
(* restart loses the queue.                                                *)
THEOREM PendingIsHeldHolds == DeploySpec => [](restarts = 0 => PendingIsHeld)
<1>1. PendingInv => (restarts = 0 => PendingIsHeld)
    BY DEF PendingInv
<1> QED
    BY <1>1, PendingInvHolds, PTL

LEMMA SetStatusIs ==
    ASSUME TypeInv, NEW d \in Deployments, NEW s
    PROVE  \A e \in Deployments :
               SetStatus(d, s)[e] = IF e = d /\ status[d] # "deleted" /\ Usable THEN s ELSE status[e]
    BY DEF TypeInv, DeployTypeOK, SetStatus

(* Nothing but a deletion in the middle of a request breaks the session:   *)
(* as long as nobody deletes, whatever is triggered, rolled back,          *)
(* cancelled, refused by the audit service or restarted, it is usable.     *)
AllThere ==
    /\ Usable /\ \A d \in Deployments : Exists(d)
    /\ \A c \in Callers : calls[c].at # "delete"

LEMMA AllThereCalls ==
    ASSUME "delete" \notin Calls, TypeInv, AllThere, NEW c \in Callers, NewCall(c) \/ Call(c)
    PROVE  AllThere'
<1>0. /\ calls \in [Callers -> CallState] /\ calls[c] \in CallState
      /\ calls[c].dep \in Deployments
    BY DEF TypeInv, DeployTypeOK, CallState
<1>1. ASSUME NEW x, calls' = [calls EXCEPT ![c] = x], x.at # "delete"
      PROVE  \A b \in Callers : calls'[b].at # "delete"
    BY <1>0, <1>1 DEF AllThere
<1>2. ASSUME NEW s, s # "deleted", status' = SetStatus(calls[c].dep, s)
      PROVE  \A d \in Deployments : Exists(d)'
    BY <1>0, <1>2, SetStatusIs DEF AllThere, Exists
<1>3. CASE NewCall(c)
    <2>1. \E x : calls' = [calls EXCEPT ![c] = x] /\ x.at # "delete"
        BY <1>3 DEF NewCall, TriggerCheck, RollbackCheck, CancelCheck, DeleteContainer, Task
    <2>2. UNCHANGED <<status, session>>
        BY <1>3 DEF NewCall, TriggerCheck, RollbackCheck, CancelCheck, DeleteContainer
    <2> QED
        BY <1>1, <2>1, <2>2 DEF AllThere, Exists, Usable
<1>4. CASE InsertHistory(c) \/ RefreshHistory(c) \/ PutTask(c) \/ CancelUntrack(c)
    <2>1. /\ [calls[c] EXCEPT !.at = "put"].at = "put" /\ [calls[c] EXCEPT !.at = "mark"].at = "mark"
          /\ IdleCall.at = "idle"
        BY <1>0 DEF CallState, IdleCall, Task
    <2>2. \E x : calls' = [calls EXCEPT ![c] = x] /\ x.at # "delete"
        <3>1. CASE InsertHistory(c)
            <4>1. Task("refresh", calls[c].dep, Len(history) + 1, calls[c].rollback).at # "delete"
                BY DEF Task
            <4>2. \/ calls' = [calls EXCEPT ![c] = Task("refresh", calls[c].dep, Len(history) + 1, calls[c].rollback)]
                  \/ calls' = [calls EXCEPT ![c] = IdleCall]
                BY <3>1 DEF InsertHistory
            <4> HIDE DEF Task, IdleCall
            <4> QED
                BY ONLY <2>1, <4>1, <4>2
        <3>2. CASE RefreshHistory(c)
            <4>1. \/ calls' = [calls EXCEPT ![c] = [calls[c] EXCEPT !.at = "put"]]
                  \/ calls' = [calls EXCEPT ![c] = IdleCall]
                BY <3>2 DEF RefreshHistory
            <4> QED
                BY ONLY <2>1, <4>1
        <3>3. CASE PutTask(c)
            <4>1. \/ calls' = [calls EXCEPT ![c] = [calls[c] EXCEPT !.at = "mark"]]
                  \/ calls' = [calls EXCEPT ![c] = IdleCall]
                BY <3>3 DEF PutTask
            <4> QED
                BY ONLY <2>1, <4>1
        <3>4. CASE CancelUntrack(c)
            BY <2>1, <3>4 DEF CancelUntrack
        <3> QED
            BY <1>4, <3>1, <3>2, <3>3, <3>4
    <2>3. UNCHANGED <<status, session>>
        BY <1>0, <1>4 DEF AllThere, InsertHistory, RefreshHistory, PutTask, CancelUntrack
    <2> QED
        BY <1>1, <2>2, <2>3 DEF AllThere, Exists, Usable
<1>5. CASE MarkQueued(c) \/ CancelCommit(c)
    <2>1. [calls[c] EXCEPT !.at = "untrack"].at = "untrack" /\ IdleCall.at = "idle"
        BY <1>0 DEF CallState, IdleCall, Task
    <2>2. \E x : calls' = [calls EXCEPT ![c] = x] /\ x.at # "delete"
        BY <1>5, <2>1 DEF MarkQueued, CancelCommit
    <2>3. /\ UNCHANGED session
          /\ \E s : s # "deleted" /\ status' = SetStatus(calls[c].dep, s)
        BY <1>5 DEF MarkQueued, CancelCommit
    <2> QED
        BY <1>1, <1>2, <2>2, <2>3 DEF AllThere, Usable
<1>6. ~DeleteRow(c)
    BY DEF DeleteRow, AllThere
<1> QED
    BY <1>3, <1>4, <1>5, <1>6 DEF Call

LEMMA AllThereStep ==
    ASSUME "delete" \notin Calls, TypeInv, AllThere, [DeployNext]_deployVars
    PROVE  AllThere'
<1>1. CASE Process
    <2>0. proc.at # "idle" => ProcDep \in Deployments
        <3>1. \A h \in DOMAIN history : history[h] \in HistoryRow
            BY DEF TypeInv, DeployTypeOK
        <3> QED
            BY <3>1 DEF TypeInv, DeployTypeOK, NamesRequest, ProcState, HistoryRow, ProcDep
    <2>1. UNCHANGED calls
        BY <1>1 DEF Process, TakeTask, StartBuilding, Build, StartDeploying, DeployContainer,
                    HealthChecks, Rollback, RecordSuccess, Publish, HandleFailure, FinishTask
    <2>2. proc.at = "finish" => Exists(ProcDep)
        BY <2>0 DEF AllThere
    <2>3. UNCHANGED session
        BY <1>1, <2>2 DEF Process, TakeTask, StartBuilding, Build, StartDeploying, DeployContainer,
                    HealthChecks, Rollback, RecordSuccess, Publish, HandleFailure, FinishTask, At
    <2>4. \/ status' = status
          \/ proc.at # "idle" /\ \E s : s # "deleted" /\ status' = SetStatus(ProcDep, s)
        BY <1>1 DEF Process, TakeTask, StartBuilding, Build, StartDeploying, DeployContainer,
                    HealthChecks, Rollback, RecordSuccess, Publish, HandleFailure, FinishTask, At
    <2>5. \A d \in Deployments : Exists(d)'
        BY <2>0, <2>4, SetStatusIs DEF AllThere, Exists
    <2> QED
        BY <2>1, <2>3, <2>5 DEF AllThere, Usable
<1>2. CASE Restart
    BY <1>2 DEF Restart, AllThere, Exists, Usable, IdleCall, Task, Active, TypeInv, DeployTypeOK
<1>3. CASE UNCHANGED deployVars
    BY <1>3 DEF deployVars, AllThere, Exists, Usable
<1> QED
    BY <1>1, <1>2, <1>3, AllThereCalls DEF DeployNext

(* While nobody deletes, the one session of the service stays usable, so   *)
(* that the condition of PendingIsHeld is met (:66, :201-202).             *)
THEOREM SessionStaysUsable ==
    ASSUME "delete" \notin Calls
    PROVE  DeploySpec => []Usable
<1>1. DeployInit => AllThere
    BY DEF DeployInit, AllThere, Exists, Usable, IdleCall, Task
<1>2. TypeInv /\ AllThere /\ [DeployNext]_deployVars => AllThere'
    BY AllThereStep
<1>3. AllThere => Usable
    BY DEF AllThere
<1> QED
    BY <1>1, <1>2, <1>3, DeployTypeInit, DeployTypeStep, PTL DEF DeploySpec

-----------------------------------------------------------------------------
(* What is deployed is up.                                                 *)

(* The container of a deployment was made by a request of that deployment, *)
(* one that neither a call nor the queue holds, and of which the processor *)
(* only has the failure to note.                                           *)
Owned ==
    \A d \in Deployments : current[d] # NoContainer =>
        current[d][1] \in DOMAIN history /\ history[current[d][1]].dep = d

Spent ==
    \A d \in Deployments, h \in DOMAIN history : current[d][1] = h =>
        /\ PuttersOf(h) = {} /\ PlacesOf(h) = {}
        /\ proc.hist = h => proc.at \in {"fail", "done"}

(* While the processor works on a deployment nobody lists it as deployed,  *)
(* and the container it started stays up.                                  *)
Busy ==
    /\ proc.at \in {"build", "backed_up", "deploy", "check", "rollback", "finish", "publish"} =>
          status[ProcDep] \notin {"deployed", "rolled_back"}
    /\ proc.at \in {"check", "rollback", "finish", "publish"} => NewContainer \in up

NoDelete == "delete" \notin Calls => \A c \in Callers : calls[c].at # "delete"

(* A restart forgets that a deployment was being deleted.                  *)
Listed == "delete" \notin Calls \/ restarts = 0 => DeployedIsUp

UpInv == NoContainer \notin up /\ Owned /\ Spent /\ Busy /\ NoDelete /\ Listed

(* Two deployments never share a container.                                *)
LEMMA NotShared ==
    ASSUME UpInv, NEW d \in Deployments, NEW e \in Deployments, d # e, current[d] \in up
    PROVE  current[e] # current[d]
    BY DEF UpInv, Owned

(* A step that leaves the containers alone, and lists nothing.             *)
LEMMA QuietStepKeepsListed ==
    ASSUME UpInv, UNCHANGED <<current, up>>, restarts' = 0 => restarts = 0,
           \A d \in Deployments :
               status'[d] \in {"deployed", "rolled_back"} /\ ~BeingDeleted(d)' =>
                   status[d] = status'[d] /\ ~BeingDeleted(d)
    PROVE  Listed'
    BY DEF UpInv, Listed, DeployedIsUp

(* A call that goes on does not forget a delete.                           *)
LEMMA StillDeleting ==
    ASSUME TypeInv, NEW c \in Callers, NEW x, calls[c].at # "delete",
           calls' = [calls EXCEPT ![c] = x], NEW d \in Deployments, BeingDeleted(d)
    PROVE  BeingDeleted(d)'
<1>1. PICK b \in Callers : calls[b].at = "delete" /\ calls[b].dep = d
    BY DEF BeingDeleted
<1>2. calls'[b] = calls[b]
    BY <1>1 DEF TypeInv, DeployTypeOK
<1> QED
    BY <1>1, <1>2 DEF BeingDeleted

(* What a request was made for, and where, stays.                          *)
LEMMA OwnedStays ==
    ASSUME TypeInv, [DeployNext]_deployVars, Owned, current' = current
    PROVE  Owned'
    BY RowsStay DEF Owned

LEMMA ProcDepStays ==
    ASSUME TypeInv, [DeployNext]_deployVars, proc'.hist = proc.hist, proc.at # "idle"
    PROVE  /\ proc.hist \in DOMAIN history /\ ProcDep \in Deployments
           /\ ProcDep' = ProcDep /\ NewContainer' = NewContainer
<1>1. proc.hist \in DOMAIN history /\ history[proc.hist] \in HistoryRow
    BY DEF TypeInv, DeployTypeOK, NamesRequest, ProcState
<1> QED
    BY <1>1, RowsStay DEF ProcDep, NewContainer, HistoryRow

(* The calls.                                                              *)
LEMMA CallKeepsUp ==
    ASSUME TypeInv, UpInv, [DeployNext]_deployVars,
           NEW c \in Callers, NEW x, calls' = [calls EXCEPT ![c] = x],
           x.at \in {"refresh", "put"} =>
               \/ calls[c].at = "insert" /\ x.hist \notin DOMAIN history \cup {NoHistory}
               \/ calls[c].at = "refresh" /\ x.hist = calls[c].hist,
           x.at = "delete" => "delete" \in Calls,
           UNCHANGED <<current, proc, up, restarts>>,
           \A h \in DOMAIN history : PlacesOf(h)' = {} \/ PlacesOf(h)' = PlacesOf(h) \/ h = calls[c].hist,
           queue' = queue \/ calls[c].at = "put",
           \A d \in Deployments : status'[d] \in {"deployed", "rolled_back"} => status'[d] = status[d],
           calls[c].at = "delete" => status'[calls[c].dep] = "deleted"
    PROVE  UpInv'
<1>0. /\ calls \in [Callers -> CallState] /\ history \in Seq(HistoryRow)
      /\ \A h \in DOMAIN history : h \in 1 .. Len(history)
      /\ queue \in Seq(DOMAIN history)
      /\ current \in [Deployments -> ContainerIds]
    BY DEF TypeInv, DeployTypeOK
<1>1. Owned'
    BY OwnedStays DEF UpInv
<1>2. NoDelete'
    BY <1>0 DEF UpInv, NoDelete
<1>3. Busy'
    <2> SUFFICES ASSUME proc.at # "idle" PROVE Busy'
        BY DEF Busy
    <2>1. ProcDep' = ProcDep /\ NewContainer' = NewContainer /\ ProcDep \in Deployments
        BY ProcDepStays
    <2> QED
        BY <2>1 DEF UpInv, Busy
<1>4. Listed'
    <2>1. ASSUME NEW d \in Deployments, status'[d] \in {"deployed", "rolled_back"}, ~BeingDeleted(d)'
          PROVE  status[d] = status'[d] /\ ~BeingDeleted(d)
        <3>1. CASE calls[c].at = "delete"
            <4>1. calls[c].dep # d
                BY <2>1, <3>1
            <4>2. ASSUME NEW b \in Callers, calls[b].at = "delete", calls[b].dep = d PROVE FALSE
                <5>1. b # c /\ calls'[b] = calls[b]
                    BY <1>0, <4>1, <4>2
                <5> QED
                    BY <2>1, <4>2, <5>1 DEF BeingDeleted
            <4> QED
                BY <2>1, <4>2 DEF BeingDeleted
        <3>2. CASE calls[c].at # "delete"
            BY <2>1, <3>2, StillDeleting
        <3> QED
            BY <3>1, <3>2
    <2> QED
        BY <2>1, QuietStepKeepsListed
<1>5. Spent'
    <2> SUFFICES ASSUME NEW d \in Deployments, NEW h \in DOMAIN history', current[d][1] = h
                 PROVE  /\ PuttersOf(h)' = {} /\ PlacesOf(h)' = {}
                        /\ proc.hist = h => proc.at \in {"fail", "done"}
        BY DEF Spent
    <2>1. h # NoHistory
        <3>1. history' \in Seq(HistoryRow)
            BY DeployTypeStep DEF TypeInv, DeployTypeOK
        <3> QED
            BY <3>1 DEF NoHistory
    <2>2. h \in DOMAIN history
        BY <1>0, <2>1 DEF UpInv, Owned, NoContainer, NoHistory
    <2>3. PuttersOf(h) = {} /\ PlacesOf(h) = {} /\ (proc.hist = h => proc.at \in {"fail", "done"})
        BY <2>2 DEF UpInv, Spent
    <2>4. PuttersOf(h)' = {}
        BY <1>0, <2>2, <2>3 DEF PuttersOf
    <2>5. PlacesOf(h)' = {}
        <3>1. CASE queue' = queue
            BY <2>3, <3>1 DEF PlacesOf
        <3>2. CASE calls[c].at = "put"
            BY <2>2, <2>3, <3>2 DEF PuttersOf
        <3> QED
            BY <3>1, <3>2
    <2> QED
        BY <2>3, <2>4, <2>5
<1> QED
    BY <1>1, <1>2, <1>3, <1>4, <1>5 DEF UpInv

LEMMA CallsKeepUp ==
    ASSUME TypeInv, UpInv, [DeployNext]_deployVars, NEW c \in Callers,
           NewCall(c) \/ Call(c), ~(\E d \in Deployments : DeleteContainer(c, d))
    PROVE  UpInv'
<1>0. calls \in [Callers -> CallState] /\ history \in Seq(HistoryRow) /\ calls[c].dep \in Deployments
    BY DEF TypeInv, DeployTypeOK, CallState
<1>1. CASE NewCall(c)
    <2>1. PICK x : /\ calls' = [calls EXCEPT ![c] = x] /\ x.at \in {"insert", "cancel"}
                   /\ UNCHANGED <<status, current, history, queue, proc, up, restarts>>
                   /\ calls[c].at = "idle"
        BY <1>1 DEF NewCall, TriggerCheck, RollbackCheck, CancelCheck, Task
    <2> QED
        BY <2>1, CallKeepsUp DEF PlacesOf
<1>2. CASE InsertHistory(c)
    <2>1. PICK x : calls' = [calls EXCEPT ![c] = x]
                   /\ (x.at = "refresh" => x.hist = Len(history) + 1)
                   /\ x.at \notin {"put", "delete"}
        BY <1>2 DEF InsertHistory, IdleCall, Task
    <2>2. Len(history) + 1 \notin DOMAIN history \cup {NoHistory}
        BY <1>0 DEF NoHistory
    <2>3. calls[c].at = "insert" /\ UNCHANGED <<status, current, queue, proc, up, restarts>>
        BY <1>2 DEF InsertHistory
    <2> QED
        BY <2>1, <2>2, <2>3, CallKeepsUp DEF PlacesOf
<1>3. CASE PutTask(c)
    <2>1. PICK x : calls' = [calls EXCEPT ![c] = x] /\ x.at \in {"idle", "mark"}
        <3> DEFINE y == IF calls[c].rollback THEN IdleCall ELSE [calls[c] EXCEPT !.at = "mark"]
        <3>1. y.at \in {"idle", "mark"}
            BY <1>0 DEF CallState, IdleCall, Task
        <3>2. calls' = [calls EXCEPT ![c] = y]
            BY <1>3 DEF PutTask
        <3> HIDE DEF y
        <3> QED
            BY <3>1, <3>2
    <2>2. /\ calls[c].at = "put" /\ UNCHANGED <<status, current, proc, up, restarts>>
          /\ queue' = Append(queue, calls[c].hist)
        BY <1>3 DEF PutTask
    <2>3. \A h \in DOMAIN history : h # calls[c].hist => PlacesOf(h)' = PlacesOf(h)
        <3>1. PICK r : r = calls[c].hist
            OBVIOUS
        <3>2. r \in DOMAIN history /\ queue \in Seq(DOMAIN history)
            BY <1>0, <2>2, <3>1 DEF TypeInv, DeployTypeOK, NamesRequest, CallState
        <3>3. /\ Len(queue) \in Nat /\ DOMAIN queue' = 1 .. Len(queue) + 1
              /\ DOMAIN queue = 1 .. Len(queue) /\ queue' = Append(queue, r)
              /\ queue'[Len(queue) + 1] = r /\ \A i \in DOMAIN queue : queue'[i] = queue[i]
            BY <2>2, <3>1, <3>2
        <3> QED
            BY <3>1, <3>3 DEF PlacesOf
    <2> QED
        BY <2>1, <2>2, <2>3, CallKeepsUp
<1>7. CASE RefreshHistory(c)
    <2>1. PICK x : calls' = [calls EXCEPT ![c] = x] /\ x.at \in {"idle", "put"}
                   /\ (x.at = "put" => x.hist = calls[c].hist)
        <3> DEFINE y == IF Usable /\ history[calls[c].hist].status # "deleted"
                        THEN [calls[c] EXCEPT !.at = "put"] ELSE IdleCall
        <3>1. y.at \in {"idle", "put"} /\ (y.at = "put" => y.hist = calls[c].hist)
            BY <1>0 DEF CallState, IdleCall, Task
        <3>2. calls' = [calls EXCEPT ![c] = y]
            BY <1>7 DEF RefreshHistory
        <3> HIDE DEF y
        <3> QED
            BY <3>1, <3>2
    <2>2. calls[c].at = "refresh" /\ UNCHANGED <<status, current, queue, proc, up, restarts>>
        BY <1>7 DEF RefreshHistory
    <2> QED
        BY <2>1, <2>2, CallKeepsUp DEF PlacesOf
<1>4. CASE MarkQueued(c) \/ CancelCommit(c)
    <2>1. /\ \E s \in {"queued", "cancelled"} : status' = SetStatus(calls[c].dep, s)
          /\ UNCHANGED <<current, queue, proc, up, restarts>> /\ calls[c].at \in {"mark", "cancel"}
        BY <1>4 DEF MarkQueued, CancelCommit
    <2>2. PICK x : calls' = [calls EXCEPT ![c] = x] /\ x.at \in {"idle", "untrack"}
        <3>1. [calls[c] EXCEPT !.at = "untrack"].at = "untrack" /\ IdleCall.at = "idle"
            BY <1>0 DEF CallState, IdleCall, Task
        <3>2. \E x \in {[calls[c] EXCEPT !.at = "untrack"], IdleCall} : calls' = [calls EXCEPT ![c] = x]
            BY <1>4 DEF MarkQueued, CancelCommit
        <3> QED
            BY <3>1, <3>2
    <2>3. \A d \in Deployments : status'[d] \in {"deployed", "rolled_back"} => status'[d] = status[d]
        BY <1>0, <2>1, SetStatusIs
    <2> QED
        BY <2>1, <2>2, <2>3, CallKeepsUp DEF PlacesOf
<1>5. CASE CancelUntrack(c)
    BY <1>5, CallKeepsUp DEF CancelUntrack, IdleCall, Task, PlacesOf
<1>6. CASE DeleteRow(c)
    <2>1. /\ calls' = [calls EXCEPT ![c] = IdleCall] /\ IdleCall.at = "idle"
          /\ status' = [status EXCEPT ![calls[c].dep] = "deleted"]
          /\ UNCHANGED <<current, queue, proc, up, restarts>>
        BY <1>6 DEF DeleteRow, IdleCall, Task
    <2>2. status'[calls[c].dep] = "deleted"
          /\ \A d \in Deployments : status'[d] = status[d] \/ status'[d] = "deleted"
        BY <1>0, <2>1 DEF TypeInv, DeployTypeOK
    <2> QED
        BY <2>1, <2>2, CallKeepsUp DEF PlacesOf
<1> QED
    BY <1>1, <1>2, <1>3, <1>4, <1>5, <1>6, <1>7 DEF Call

(* A delete removes a container that nobody will publish.                  *)
LEMMA DeleteKeepsUp ==
    ASSUME TypeInv, UpInv, [DeployNext]_deployVars, NEW c \in Callers, NEW d \in Deployments,
           DeleteContainer(c, d)
    PROVE  UpInv'
<1>0. /\ calls \in [Callers -> CallState]
      /\ UNCHANGED <<status, current, history, queue, proc, restarts>>
      /\ calls' = [calls EXCEPT ![c] = Task("delete", d, NoHistory, FALSE)]
      /\ calls[c].at = "idle" /\ "delete" \in Calls
    BY DEF DeleteContainer, TypeInv, DeployTypeOK
<1>1. PICK removed \in {{}, {current[d]}} : up' = up \ removed
    BY DEF DeleteContainer
<1>2. /\ calls'[c].at = "delete" /\ calls'[c].dep = d
      /\ \A b \in Callers \ {c} : calls'[b] = calls[b]
    BY <1>0 DEF Task
<1>3. Owned'
    BY <1>0, OwnedStays DEF UpInv
<1>4. Spent'
    <2>1. \A h : PuttersOf(h)' = PuttersOf(h) /\ PlacesOf(h)' = PlacesOf(h)
        BY <1>0, <1>2 DEF PuttersOf, PlacesOf
    <2> QED
        BY <1>0, <2>1 DEF UpInv, Spent
<1>5. Busy'
    <2> SUFFICES ASSUME proc.at # "idle" PROVE Busy'
        BY <1>0 DEF Busy
    <2>1. ProcDep' = ProcDep /\ NewContainer' = NewContainer /\ proc.hist \in DOMAIN history
        BY <1>0, ProcDepStays
    <2>2. proc.at \in {"check", "rollback", "finish", "publish"} => NewContainer # current[d]
        BY <2>1 DEF UpInv, Spent, NewContainer
    <2> QED
        BY <1>0, <1>1, <2>1, <2>2 DEF UpInv, Busy
<1>6. Listed'
    <2>1. ASSUME NEW e \in Deployments, current[e] \in up, status[e] \in {"deployed", "rolled_back"},
                 ~BeingDeleted(e)'
          PROVE  current[e] \in up'
        <3>1. e # d
            BY <1>2, <2>1 DEF BeingDeleted
        <3> QED
            BY <1>1, <2>1, <3>1, NotShared
    <2>2. \A e \in Deployments : BeingDeleted(e) => BeingDeleted(e)'
        BY <1>0, StillDeleting
    <2> QED
        BY <1>0, <2>1, <2>2 DEF UpInv, Listed, DeployedIsUp
<1> QED
    BY <1>0, <1>1, <1>3, <1>4, <1>5, <1>6 DEF UpInv, NoDelete

LEMMA RestartKeepsUp ==
    ASSUME TypeInv, UpInv, [DeployNext]_deployVars, Restart
    PROVE  UpInv'
<1>0. /\ restarts \in Nat /\ restarts' = restarts + 1 /\ UNCHANGED <<current, containers, up>>
      /\ proc' = IdleProc /\ queue' = <<>> /\ calls' = [c \in Callers |-> IdleCall]
      /\ IdleProc.at = "idle" /\ IdleProc.hist = NoHistory /\ IdleCall.at = "idle"
    BY DEF Restart, TypeInv, DeployTypeOK, IdleProc, Step, IdleCall, Task
<1>1. Owned'
    BY <1>0, OwnedStays DEF UpInv
<1>2. Spent'
    <2>1. \A h : PuttersOf(h)' = {} /\ PlacesOf(h)' = {}
        BY <1>0 DEF PuttersOf, PlacesOf
    <2>2. NoHistory \notin DOMAIN history'
        BY DeployTypeStep DEF TypeInv, DeployTypeOK, NoHistory
    <2> QED
        BY <1>0, <2>1, <2>2 DEF Spent
<1>3. Listed'
    <2> SUFFICES ASSUME "delete" \notin Calls PROVE DeployedIsUp'
        BY <1>0 DEF Listed
    <2>1. \A d \in Deployments : ~BeingDeleted(d)
        BY DEF UpInv, NoDelete, BeingDeleted
    <2>2. \A d \in Deployments : status'[d] \in {"deployed", "rolled_back"} => status[d] = status'[d]
        BY DEF Restart
    <2> QED
        BY <1>0, <2>1, <2>2 DEF UpInv, Listed, DeployedIsUp
<1> QED
    BY <1>0, <1>1, <1>2, <1>3 DEF UpInv, Busy, NoDelete

(* The processor takes a request nobody else holds.                        *)
LEMMA TakeKeepsUp ==
    ASSUME TypeInv, HeldOnce, UpInv, [DeployNext]_deployVars, TakeTask
    PROVE  UpInv'
<1>0. /\ UNCHANGED <<status, current, history, calls, up, restarts>>
      /\ proc'.at = "load" /\ proc'.hist = Head(queue) /\ queue' = Tail(queue) /\ queue # <<>>
      /\ queue \in Seq(DOMAIN history)
    BY DEF TakeTask, Step, TypeInv, DeployTypeOK
<1>1. /\ Len(queue) \in Nat \ {0} /\ Head(queue) = queue[1]
      /\ DOMAIN queue = 1 .. Len(queue) /\ DOMAIN queue' = 1 .. Len(queue) - 1
      /\ \A i \in DOMAIN queue' : queue'[i] = queue[i + 1]
    BY <1>0
<1>2. Spent'
    <2> SUFFICES ASSUME NEW d \in Deployments, NEW h \in DOMAIN history, current[d][1] = h
                 PROVE  PuttersOf(h)' = {} /\ PlacesOf(h)' = {} /\ proc'.hist # h
        BY <1>0 DEF Spent
    <2>1. PuttersOf(h) = {} /\ PlacesOf(h) = {}
        BY DEF UpInv, Spent
    <2>2. PuttersOf(h)' = {}
        BY <1>0, <2>1 DEF PuttersOf
    <2>3. ASSUME NEW i \in PlacesOf(h)' PROVE FALSE
        <3>1. i + 1 \in PlacesOf(h)
            BY <1>1, <2>3 DEF PlacesOf
        <3> QED
            BY <2>1, <3>1
    <2>4. proc'.hist # h
        BY <1>0, <1>1, <2>1 DEF PlacesOf
    <2> QED
        BY <2>2, <2>3, <2>4
<1>3. Listed'
    BY <1>0, QuietStepKeepsListed DEF BeingDeleted
<1> QED
    BY <1>0, <1>2, <1>3, OwnedStays DEF UpInv, Busy, NoDelete

(* The processor goes on with its request.                                 *)
LEMMA ProcessKeepsUp ==
    ASSUME TypeInv, HeldOnce, UpInv, [DeployNext]_deployVars, Process, ~TakeTask, ~FinishTask
    PROVE  UpInv'
<1>0. /\ UNCHANGED <<queue, calls, restarts>> /\ proc.at # "idle" /\ proc'.hist = proc.hist
      /\ proc \in ProcState /\ current \in [Deployments -> ContainerIds]
      /\ status \in [Deployments -> DeploymentStatus]
    BY ProcessorMoves DEF TypeInv, DeployTypeOK
<1>1. /\ proc.hist \in DOMAIN history /\ ProcDep \in Deployments
      /\ ProcDep' = ProcDep /\ NewContainer' = NewContainer
    BY <1>0, ProcDepStays
<1>2. NewContainer[1] = proc.hist /\ NewContainer # NoContainer
    BY <1>1 DEF NewContainer, NoContainer, TypeInv, DeployTypeOK
<1>3. \A d \in Deployments : BeingDeleted(d)' = BeingDeleted(d)
    BY <1>0 DEF BeingDeleted
<1>4. NoDelete'
    BY <1>0 DEF UpInv, NoDelete
<1>5. \A h : PuttersOf(h)' = PuttersOf(h) /\ PlacesOf(h)' = PlacesOf(h)
    BY <1>0 DEF PuttersOf, PlacesOf
<1>6. DOMAIN history' = DOMAIN history
    <2>1. \A c \in Callers : ~InsertHistory(c)
        <3>1. ASSUME NEW c \in Callers, InsertHistory(c) PROVE FALSE
            <4>1. UNCHANGED proc
                BY <3>1 DEF InsertHistory
            <4>2. calls[c].at = "insert" /\ calls'[c].at # "insert"
                BY <3>1 DEF InsertHistory, IdleCall, Task, TypeInv, DeployTypeOK
            <4> QED
                BY <1>0, <4>2
        <3> QED
            BY <3>1
    <2> QED
        BY <2>1, RowsStay
<1>7. ASSUME NEW s, GoTo(s) PROVE proc'.at = s
    BY <1>0, <1>7 DEF GoTo, ProcState
<1>8. ASSUME UNCHANGED current, proc.at \in {"fail", "done"} => proc'.at \in {"fail", "done"}
      PROVE  Spent' /\ Owned'
    BY <1>0, <1>5, <1>6, <1>8, OwnedStays DEF UpInv, Spent
<1>9. CASE StartBuilding \/ StartDeploying
    <2>1. /\ UNCHANGED <<current, up>> /\ proc.at \in {"load", "backed_up"}
          /\ proc'.at \in {"build", "fail", "deploy"}
          /\ proc.at = "backed_up" => status[ProcDep] \notin {"deployed", "rolled_back"}
          /\ \/ status' = status /\ proc'.at = "fail"
             \/ /\ Usable \/ proc'.at = "fail"
                /\ \E s \in {"building", "deploying"} : status' = SetStatus(ProcDep, s)
        BY <1>7, <1>9 DEF StartBuilding, StartDeploying, At, UpInv, Busy
    <2>2. \A d \in Deployments : status'[d] \in {"deployed", "rolled_back"} => status'[d] = status[d]
        BY <1>1, <2>1, SetStatusIs
    <2>3. status'[ProcDep] \notin {"deployed", "rolled_back"} \/ proc'.at = "fail"
        BY <1>1, <2>1, SetStatusIs
    <2>4. Listed'
        BY <1>0, <1>3, <2>1, <2>2, QuietStepKeepsListed
    <2>5. Busy'
        BY <1>1, <2>1, <2>3 DEF Busy
    <2> QED
        BY <1>4, <1>8, <2>1, <2>4, <2>5 DEF UpInv
<1>10. CASE Build
    <2>1. /\ UNCHANGED <<status, current>> /\ proc.at = "build" /\ proc'.at \in {"fail", "backed_up"}
          /\ up' = up \/ up' = up \ {current[ProcDep]}
        BY <1>7, <1>10 DEF Build, At, Step
    <2>2. status[ProcDep] \notin {"deployed", "rolled_back"}
        BY <2>1 DEF UpInv, Busy
    <2>3. Listed'
        <3>1. \A d \in Deployments : current[d] \in up /\ d # ProcDep => current[d] \in up'
            BY <1>1, <2>1, NotShared
        <3> QED
            BY <1>0, <1>3, <2>1, <2>2, <3>1 DEF UpInv, Listed, DeployedIsUp
    <2>4. Busy'
        BY <1>1, <2>1, <2>2 DEF Busy
    <2> QED
        BY <1>4, <1>8, <2>1, <2>3, <2>4 DEF UpInv
<1>11. CASE DeployContainer
    <2>1. /\ UNCHANGED <<status, current>> /\ proc.at = "deploy" /\ proc'.at \in {"fail", "check"}
          /\ up' = up \/ up' = up \cup {NewContainer}
          /\ proc'.at = "check" => NewContainer \in up'
        BY <1>7, <1>11 DEF DeployContainer, At
    <2>2. Listed'
        BY <1>0, <1>3, <2>1 DEF UpInv, Listed, DeployedIsUp
    <2>3. Busy'
        BY <1>1, <2>1 DEF UpInv, Busy
    <2> QED
        BY <1>2, <1>4, <1>8, <2>1, <2>2, <2>3 DEF UpInv
<1>12. CASE HealthChecks \/ HandleFailure
    <2>1. /\ UNCHANGED <<status, current, up>>
          /\ \/ proc.at = "check" /\ proc'.at \in {"finish", "rollback", "fail"}
             \/ proc.at = "fail" /\ proc'.at = "done"
        BY <1>7, <1>12 DEF HealthChecks, HandleFailure, At
    <2>2. Listed'
        BY <1>0, <1>3, <2>1, QuietStepKeepsListed
    <2>3. Busy'
        BY <1>1, <2>1 DEF UpInv, Busy
    <2> QED
        BY <1>4, <1>8, <2>1, <2>2, <2>3 DEF UpInv
<1>13. CASE RecordSuccess
    <2>1. /\ UNCHANGED <<current, up>> /\ proc.at = "finish" /\ proc'.at \in {"publish", "fail"}
          /\ status' = SetStatus(ProcDep, "success")
        BY <1>7, <1>13 DEF RecordSuccess, At
    <2>2. /\ \A d \in Deployments : status'[d] \in {"deployed", "rolled_back"} => status'[d] = status[d]
          /\ status'[ProcDep] \notin {"deployed", "rolled_back"}
        BY <1>1, <2>1, SetStatusIs DEF UpInv, Busy
    <2>3. Listed'
        BY <1>0, <1>3, <2>1, <2>2, QuietStepKeepsListed
    <2>4. Busy'
        BY <1>1, <2>1, <2>2 DEF UpInv, Busy
    <2> QED
        BY <1>4, <1>8, <2>1, <2>3, <2>4 DEF UpInv
(* The two that give the deployment another container, which is up.        *)
<1> DEFINE Replaced(k) ==
        /\ k[1] = proc.hist /\ k # NoContainer /\ k \in up'
        /\ current' = [current EXCEPT ![ProcDep] = IF Usable /\ Exists(ProcDep) THEN k ELSE @]
        /\ status[ProcDep] \notin {"deployed", "rolled_back"} /\ \E s : status' = SetStatus(ProcDep, s)
        /\ proc'.at \in {"fail", "done"} /\ NoContainer \notin up'
        /\ \A d \in Deployments \ {ProcDep} : current[d] \in up => current[d] \in up'
<1>14. ASSUME NEW k, Replaced(k) PROVE UpInv'
    <2>1. /\ current'[ProcDep] = IF Usable /\ Exists(ProcDep) THEN k ELSE current[ProcDep]
          /\ \A d \in Deployments \ {ProcDep} : current'[d] = current[d] /\ status'[d] = status[d]
          /\ ~Usable \/ ~Exists(ProcDep) => status'[ProcDep] = status[ProcDep]
        BY <1>0, <1>1, <1>14, SetStatusIs DEF Exists
    <2>2. history[proc.hist].dep = ProcDep
        BY DEF ProcDep
    <2>3. Owned'
        <3>1. ASSUME NEW d \in Deployments, current'[d] # NoContainer
              PROVE  current'[d][1] \in DOMAIN history /\ history[current'[d][1]].dep = d
            BY <1>1, <1>14, <2>1, <2>2, <3>1 DEF UpInv, Owned
        <3> QED
            BY <1>6, <3>1, RowsStay DEF Owned
    <2>4. Spent'
        <3>1. PuttersOf(proc.hist) = {} /\ PlacesOf(proc.hist) = {}
            BY <1>1 DEF HeldOnce
        <3> QED
            BY <1>0, <1>1, <1>5, <1>6, <1>14, <2>1, <3>1 DEF UpInv, Spent
    <2>5. Listed'
        BY <1>0, <1>3, <1>14, <2>1 DEF UpInv, Listed, DeployedIsUp, Exists
    <2>6. Busy'
        BY <1>14 DEF Busy
    <2> QED
        BY <1>4, <1>14, <2>3, <2>4, <2>5, <2>6 DEF UpInv
<1>15. CASE Rollback
    <2> DEFINE k == <<proc.hist, "rollback">>
    <2>1. proc.at = "rollback" /\ proc'.at = "fail"
        BY <1>7, <1>15 DEF Rollback, At
    <2>2. status[ProcDep] \notin {"deployed", "rolled_back"}
        BY <2>1 DEF UpInv, Busy
    <2>3. PICK removed \in {{}, {current[ProcDep]}} :
             \/ up' = up \ removed /\ UNCHANGED <<status, current>>
             \/ /\ up' = (up \ removed) \cup {k}
                /\ current' = [current EXCEPT ![ProcDep] = IF Usable /\ Exists(ProcDep) THEN k ELSE @]
                /\ status' = SetStatus(ProcDep, "rolled_back")
        BY <1>15 DEF Rollback
    <2>4. k[1] = proc.hist /\ k # NoContainer
        BY DEF NoContainer
    <2> HIDE DEF k
    <2>5. \A d \in Deployments \ {ProcDep} : current[d] \in up => current[d] \in up'
        BY <1>1, <2>3, NotShared
    <2>6. CASE up' = up \ removed /\ UNCHANGED <<status, current>>
        <3>1. Listed'
            BY <1>0, <1>3, <2>2, <2>5, <2>6 DEF UpInv, Listed, DeployedIsUp
        <3> QED
            BY <1>4, <1>8, <2>1, <2>6, <3>1 DEF UpInv, Busy
    <2>7. CASE /\ up' = (up \ removed) \cup {k}
               /\ current' = [current EXCEPT ![ProcDep] = IF Usable /\ Exists(ProcDep) THEN k ELSE @]
               /\ status' = SetStatus(ProcDep, "rolled_back")
        <3>1. Replaced(k)
            BY <2>1, <2>2, <2>4, <2>5, <2>7 DEF UpInv
        <3> QED
            BY <1>14, <3>1
    <2> QED
        BY <2>3, <2>6, <2>7
<1>16. CASE Publish
    <2>1. /\ proc.at = "publish" /\ proc'.at \in {"fail", "done"} /\ up' = up
          /\ current' = [current EXCEPT ![ProcDep] = IF Usable /\ Exists(ProcDep) THEN NewContainer ELSE @]
          /\ status' = SetStatus(ProcDep, "deployed")
        BY <1>7, <1>16 DEF Publish, At
    <2>2. Replaced(NewContainer)
        BY <1>2, <2>1 DEF UpInv, Busy
    <2> QED
        BY <1>14, <2>2
<1> QED
    BY <1>9, <1>10, <1>11, <1>12, <1>13, <1>15, <1>16 DEF Process

LEMMA FinishKeepsUp ==
    ASSUME TypeInv, UpInv, [DeployNext]_deployVars, FinishTask
    PROVE  UpInv'
<1>0. /\ UNCHANGED <<status, current, history, queue, calls, up, restarts>>
      /\ proc'.at = "idle" /\ proc'.hist = NoHistory
    BY DEF FinishTask, IdleProc, Step
<1>1. NoHistory \notin DOMAIN history
    BY DEF TypeInv, DeployTypeOK, NoHistory
<1>2. Spent'
    BY <1>0, <1>1 DEF UpInv, Spent, PuttersOf, PlacesOf
<1>3. Listed'
    BY <1>0, QuietStepKeepsListed DEF BeingDeleted
<1> QED
    BY <1>0, <1>2, <1>3, OwnedStays DEF UpInv, Busy, NoDelete

LEMMA UpStep == TypeInv /\ HeldOnce /\ UpInv /\ [DeployNext]_deployVars => UpInv'
<1> SUFFICES ASSUME TypeInv, HeldOnce, UpInv, [DeployNext]_deployVars PROVE UpInv'
    OBVIOUS
<1>1. ASSUME NEW c \in Callers, NewCall(c) \/ Call(c) PROVE UpInv'
    <2>1. CASE \E d \in Deployments : DeleteContainer(c, d)
        BY <2>1, DeleteKeepsUp
    <2> QED
        BY <1>1, <2>1, CallsKeepUp
<1>2. CASE Process
    BY <1>2, TakeKeepsUp, ProcessKeepsUp, FinishKeepsUp
<1>3. CASE UNCHANGED deployVars
    <2>1. Listed'
        BY <1>3, QuietStepKeepsListed DEF deployVars, BeingDeleted
    <2> QED
        BY <1>3, <2>1, OwnedStays DEF deployVars, UpInv, Spent, Busy, NoDelete, PuttersOf, PlacesOf,
           ProcDep, NewContainer
<1> QED
    BY <1>1, <1>2, <1>3, RestartKeepsUp DEF DeployNext

(* Whatever is triggered, rolled back, cancelled, refused by the audit     *)
(* service or restarted, in any order: a deployment listed as deployed or  *)
(* rolled back has its container up, unless it is being deleted.  (A       *)
(* restart in the middle of a delete forgets the delete.)                  *)
THEOREM DeployedIsUpHolds ==
    DeploySpec => []("delete" \notin Calls \/ restarts = 0 => DeployedIsUp)
<1>1. DeployInit => UpInv
    <2> SUFFICES ASSUME DeployInit PROVE UpInv
        OBVIOUS
    <2>1. /\ proc.at = "idle" /\ \A c \in Callers : calls[c].at = "idle"
          /\ \A d \in Deployments : current[d] = NoContainer /\ status[d] = "configured"
          /\ up = {} /\ DOMAIN history = {}
        BY DEF DeployInit, IdleProc, Step, IdleCall, Task
    <2> QED
        BY <2>1 DEF UpInv, Owned, Spent, Busy, NoDelete, Listed, DeployedIsUp
<1>2. UpInv => ("delete" \notin Calls \/ restarts = 0 => DeployedIsUp)
    BY DEF UpInv, Listed
<1>3. DeploySpec => [](TypeInv /\ HeldOnce)
    <2>1. DeployInit => HeldOnce
        BY DEF DeployInit, HeldOnce
    <2> QED
        BY <2>1, DeployTypeInit, DeployTypeStep, HeldOnceStep, PTL DEF DeploySpec
<1> QED
    BY <1>1, <1>2, <1>3, UpStep, PTL DEF DeploySpec

-----------------------------------------------------------------------------
(* The state machine of the docstring.                                     *)

(* Nobody cancels or deletes, the audit service answers, the process does  *)
(* not restart.                                                            *)
Calm == Calls \subseteq {"trigger", "rollback"} /\ AuditFails = FALSE /\ MaxRestarts = 0

RowStates == [h \in HistoryIds |-> IF h \in DOMAIN history THEN history[h].status ELSE "none"]

(* A request that nobody executes yet is pending; the row of the one that  *)
(* is executed tells where the processor is.  Nothing breaks the session.  *)
Waiting ==
    /\ \A c \in Callers : calls[c].at \in {"idle", "insert", "refresh", "put", "mark"}
    /\ Usable /\ \A d \in Deployments : Exists(d)
    /\ \A h \in DOMAIN history :
          PuttersOf(h) # {} \/ PlacesOf(h) # {} => history[h].status = "pending"

Phases ==
    /\ proc.at = "load" => history[proc.hist].status = "pending"
    /\ proc.at \in {"build", "backed_up"} => history[proc.hist].status = "building"
    /\ proc.at \in {"deploy", "check", "rollback", "finish"} =>
          history[proc.hist].status = "deploying"
    /\ proc.at = "publish" => history[proc.hist].status = "success"
    /\ proc.at = "fail" => history[proc.hist].status \in {"pending", "building", "deploying"}

PhaseInv == Waiting /\ Phases

LEMMA RowStep ==
    ASSUME TypeInv, NEW h \in DOMAIN history, NEW from, from # "deleted", NEW to,
           history[h].status = from, history' = SetHistory(h, to), Usable
    PROVE  Machine!Step(h, from, to) /\ history'[h].status = to
<1>1. h \in HistoryIds /\ \A i \in DOMAIN history : i \in HistoryIds
    BY DEF TypeInv, DeployTypeOK, HistoryIds
<1>2. /\ DOMAIN history' = DOMAIN history
      /\ \A i \in DOMAIN history :
            history'[i].status = IF i = h THEN to ELSE history[i].status
    BY SetHistoryRows
<1>3. RowStates[h] = from /\ RowStates' = [RowStates EXCEPT ![h] = to]
    BY <1>1, <1>2 DEF RowStates
<1> QED
    BY <1>2, <1>3 DEF Machine!Step, RowStates

LEMMA RequestStep ==
    ASSUME TypeInv, NEW c \in Callers, InsertHistory(c), Usable, Exists(calls[c].dep)
    PROVE  \E h \in HistoryIds : Machine!Request(h)
<1> DEFINE n == Len(history) + 1
<1>1. /\ history \in Seq(HistoryRow) /\ Len(history) \in Nat /\ n \in HistoryIds
      /\ history' = Append(history, Row(calls[c].dep))
    BY DEF InsertHistory, TypeInv, DeployTypeOK, HistoryIds
<1>2. Row(calls[c].dep).status = "pending"
    BY DEF Row
<1>3. /\ DOMAIN history = 1 .. Len(history) /\ DOMAIN history' = 1 .. n
      /\ history'[n].status = "pending" /\ \A i \in DOMAIN history : history'[i] = history[i]
    BY <1>1, <1>2
<1>4. PICK m : m = n
    OBVIOUS
<1>5. m \in HistoryIds /\ RowStates[m] = "none" /\ RowStates' = [RowStates EXCEPT ![m] = "pending"]
    <2>1. n \notin DOMAIN history /\ DOMAIN history' = DOMAIN history \cup {n}
        BY <1>1, <1>3
    <2> HIDE DEF n
    <2> QED
        BY <1>1, <1>3, <1>4, <2>1 DEF RowStates
<1> QED
    BY <1>5 DEF Machine!Request, Machine!Step, RowStates

LEMMA StutterStep ==
    ASSUME history' = history PROVE RowStates' = RowStates
    BY DEF RowStates

(* What the calls do that make requests and nothing else.                  *)
LEMMA CalmCalls ==
    ASSUME Calm, TypeInv, HeldOnce, PhaseInv, [DeployNext]_deployVars,
           NEW c \in Callers, NewCall(c) \/ Call(c)
    PROVE  PhaseInv' /\ ((\E h \in HistoryIds : Machine!Request(h)) \/ RowStates' = RowStates)
<1>0. /\ calls[c] \in CallState /\ calls \in [Callers -> CallState] /\ calls[c].dep \in Deployments
      /\ history \in Seq(HistoryRow) /\ queue \in Seq(DOMAIN history)
      /\ proc.at # "idle" => proc.hist \in DOMAIN history
    BY DEF TypeInv, DeployTypeOK, CallState, ProcState, NamesRequest
<1>1. /\ \/ NewCall(c) /\ \E d \in Deployments : TriggerCheck(c, d) \/ RollbackCheck(c, d)
         \/ InsertHistory(c) \/ RefreshHistory(c) \/ PutTask(c) \/ MarkQueued(c)
      /\ proc' = proc /\ Usable /\ Usable'
    BY <1>0 DEF Usable, Calm, PhaseInv, Waiting, NewCall, Call, TriggerCheck, RollbackCheck, CancelCheck, DeleteContainer,
           InsertHistory, RefreshHistory, PutTask, MarkQueued, CancelCommit, CancelUntrack, DeleteRow
<1>2. ASSUME NEW x, calls' = [calls EXCEPT ![c] = x],
             \/ x.at \in {"idle", "insert", "mark"}
             \/ calls[c].at = "refresh" /\ x.at = "put" /\ x.hist = calls[c].hist,
             queue' = queue, history' = history, \A d \in Deployments : Exists(d)'
      PROVE  PhaseInv' /\ RowStates' = RowStates
    <2>1. \A h : PuttersOf(h)' \subseteq PuttersOf(h) /\ PlacesOf(h)' = PlacesOf(h)
        BY <1>0, <1>2 DEF PuttersOf, PlacesOf
    <2> QED
        BY <1>0, <1>1, <1>2, <2>1, StutterStep DEF PhaseInv, Waiting, Phases
<1>3. CASE \E d \in Deployments : TriggerCheck(c, d) \/ RollbackCheck(c, d)
    <2>1. /\ \E x : x.at = "insert" /\ calls' = [calls EXCEPT ![c] = x]
          /\ UNCHANGED <<status, history, queue>>
        BY <1>3 DEF TriggerCheck, RollbackCheck, Task
    <2> QED
        BY <1>2, <2>1 DEF PhaseInv, Waiting, Phases, Exists
<1>4. CASE MarkQueued(c)
    <2>1. /\ calls' = [calls EXCEPT ![c] = IdleCall] /\ IdleCall.at = "idle"
          /\ status' = SetStatus(calls[c].dep, "queued") /\ UNCHANGED <<history, queue>>
        BY <1>4 DEF MarkQueued, IdleCall, Task
    <2>2. \A d \in Deployments : Exists(d)'
        BY <1>0, <2>1, SetStatusIs DEF PhaseInv, Waiting, Phases, Exists
    <2> QED
        BY <1>2, <2>1, <2>2
<1>7. CASE RefreshHistory(c)
    <2>1. PICK x : /\ calls' = [calls EXCEPT ![c] = x] /\ calls[c].at = "refresh"
                   /\ x = [calls[c] EXCEPT !.at = "put"] \/ x = IdleCall
                   /\ UNCHANGED <<status, history, queue>>
        BY <1>7 DEF RefreshHistory
    <2>2. x.at = "idle" \/ (x.at = "put" /\ x.hist = calls[c].hist)
        <3>1. CASE x = [calls[c] EXCEPT !.at = "put"]
            BY <1>0, <3>1 DEF CallState
        <3>2. CASE x = IdleCall
            <4>1. IdleCall.at = "idle"
                BY DEF IdleCall, Task
            <4> QED
                BY <3>2, <4>1
        <3> QED
            BY <2>1, <3>1, <3>2
    <2> QED
        BY <1>2, <2>1, <2>2 DEF PhaseInv, Waiting, Exists
<1>5. CASE InsertHistory(c)
    <2>1. Usable /\ Exists(calls[c].dep) /\ RowStates' = RowStates' /\ UNCHANGED <<status, queue>>
        BY <1>0, <1>5 DEF PhaseInv, Waiting, Phases, InsertHistory
    <2>2. \E h \in HistoryIds : Machine!Request(h)
        BY <1>5, <2>1, RequestStep
    <2>3. PICK n : n = Len(history) + 1
        OBVIOUS
    <2> DEFINE x == Task("refresh", calls[c].dep, Len(history) + 1, calls[c].rollback)
    <2>4. /\ calls' = [calls EXCEPT ![c] = x] /\ x.at = "refresh" /\ x.hist = n
          /\ history' = Append(history, Row(calls[c].dep)) /\ Row(calls[c].dep).status = "pending"
        BY <1>5, <2>1, <2>3 DEF InsertHistory, Task, Row
    <2> HIDE DEF x
    <2>5. /\ DOMAIN history' = DOMAIN history \cup {n} /\ history'[n].status = "pending"
          /\ \A h \in DOMAIN history : history'[h] = history[h]
        BY <1>0, <2>3, <2>4
    <2>6. \A h \in DOMAIN history : h # n => PuttersOf(h)' \subseteq PuttersOf(h)
        BY <1>0, <2>4 DEF PuttersOf
    <2>7. \A h : PlacesOf(h)' = PlacesOf(h)
        BY <2>1 DEF PlacesOf
    <2>8. \A b \in Callers : calls'[b].at \in {"idle", "insert", "refresh", "put", "mark"}
        BY <1>0, <2>4 DEF PhaseInv, Waiting, Phases
    <2>9. \A h \in DOMAIN history' :
             PuttersOf(h)' # {} \/ PlacesOf(h)' # {} => history'[h].status = "pending"
        BY <2>5, <2>6, <2>7 DEF PhaseInv, Waiting, Phases
    <2> QED
        BY <1>0, <1>1, <2>1, <2>2, <2>5, <2>8, <2>9 DEF PhaseInv, Waiting, Phases, Exists
<1>6. CASE PutTask(c)
    <2>1. PICK r : r = calls[c].hist
        OBVIOUS
    <2> DEFINE x == IF calls[c].rollback THEN IdleCall ELSE [calls[c] EXCEPT !.at = "mark"]
    <2>2. x.at \in {"idle", "mark"}
        BY <1>0 DEF CallState, IdleCall, Task
    <2>3. /\ calls[c].at = "put" /\ UNCHANGED <<status, history>> /\ queue' = Append(queue, r)
          /\ calls' = [calls EXCEPT ![c] = x]
        BY <1>6, <2>1 DEF PutTask
    <2> HIDE DEF x
    <2>4. r \in DOMAIN history /\ c \in PuttersOf(r)
        BY <1>0, <2>1, <2>3 DEF TypeInv, NamesRequest, CallState, PuttersOf
    <2>5. \A h : PuttersOf(h)' \subseteq PuttersOf(h)
        BY <1>0, <2>2, <2>3 DEF PuttersOf
    <2>6. \A h \in DOMAIN history : h # r => PlacesOf(h)' = PlacesOf(h)
        <3>1. /\ Len(queue) \in Nat /\ DOMAIN queue' = 1 .. Len(queue) + 1
              /\ DOMAIN queue = 1 .. Len(queue)
              /\ queue'[Len(queue) + 1] = r /\ \A i \in DOMAIN queue : queue'[i] = queue[i]
            BY <1>0, <2>3, <2>4
        <3> QED
            BY <3>1 DEF PlacesOf
    <2>7. history[r].status = "pending"
        BY <2>4 DEF PhaseInv, Waiting, Phases
    <2>8. \A b \in Callers : calls'[b].at \in {"idle", "insert", "refresh", "put", "mark"}
        BY <1>0, <2>2, <2>3 DEF PhaseInv, Waiting, Phases
    <2>9. \A h \in DOMAIN history :
             PuttersOf(h)' # {} \/ PlacesOf(h)' # {} => history[h].status = "pending"
        BY <2>5, <2>6, <2>7 DEF PhaseInv, Waiting, Phases
    <2> QED
        BY <1>0, <1>1, <2>3, <2>8, <2>9, StutterStep DEF PhaseInv, Waiting, Phases, Exists
<1> QED
    BY <1>1, <1>3, <1>4, <1>5, <1>6, <1>7

(* Each step of the processor is a step of the state machine or none.      *)
LEMMA CalmProcess ==
    ASSUME Calm, TypeInv, HeldOnce, PhaseInv, [DeployNext]_deployVars, Process
    PROVE  PhaseInv' /\ ((\E h \in HistoryIds : Machine!Advance(h)) \/ RowStates' = RowStates)
<1>0. /\ proc \in ProcState /\ (proc.at # "idle" => proc.hist \in DOMAIN history)
      /\ history \in Seq(HistoryRow) /\ queue \in Seq(DOMAIN history)
      /\ \A h \in DOMAIN history : h \in HistoryIds /\ history[h].dep \in Deployments
    <2>1. \A h \in DOMAIN history : history[h] \in HistoryRow
        BY DEF TypeInv, DeployTypeOK
    <2> QED
        BY <2>1 DEF TypeInv, DeployTypeOK, NamesRequest, ProcState, HistoryIds, HistoryRow
<1>1. ASSUME NEW s, GoTo(s) PROVE proc'.hist = proc.hist /\ proc'.at = s
    BY <1>0, <1>1 DEF GoTo, ProcState
<1>2. Usable /\ Usable' /\ \A d \in Deployments : Exists(d)'
    <2>3. proc.at = "finish" => Exists(ProcDep)
        BY <1>0 DEF PhaseInv, Waiting, ProcDep
    <2>4. Usable'
        BY <2>3 DEF PhaseInv, Waiting, Usable, Process, TakeTask, StartBuilding, Build, StartDeploying,
                    DeployContainer, HealthChecks, Rollback, RecordSuccess, Publish, HandleFailure,
                    FinishTask, At
    <2>1. \/ status' = status
          \/ proc.at # "idle" /\ \E s : s # "deleted" /\ status' = SetStatus(ProcDep, s)
        BY DEF Process, TakeTask, StartBuilding, Build, StartDeploying, DeployContainer,
               HealthChecks, Rollback, RecordSuccess, Publish, HandleFailure, FinishTask, At
    <2>2. proc.at # "idle" => ProcDep \in Deployments
        BY <1>0 DEF ProcDep
    <2> QED
        BY <2>1, <2>2, <2>4, SetStatusIs DEF PhaseInv, Waiting, Phases, Exists
<1>3. ~TakeTask => queue' = queue
    BY DEF Process, StartBuilding, Build, StartDeploying, DeployContainer,
           HealthChecks, Rollback, RecordSuccess, Publish, HandleFailure, FinishTask
<1>4. calls' = calls /\ \A h : PuttersOf(h)' = PuttersOf(h)
    BY DEF PuttersOf, Process, TakeTask, StartBuilding, Build, StartDeploying, DeployContainer,
           HealthChecks, Rollback, RecordSuccess, Publish, HandleFailure, FinishTask
(* The row of the request it executes is written, or nothing is.           *)
<1>5. ASSUME NEW from, from # "deleted", NEW to, proc.at # "idle", queue' = queue,
             history[proc.hist].status = from, history' = SetHistory(proc.hist, to),
             proc'.hist = proc.hist, from # to,
             Phases'
      PROVE  PhaseInv' /\ Machine!Step(proc.hist, from, to)
    <2>1. Machine!Step(proc.hist, from, to)
        BY <1>0, <1>2, <1>5, RowStep
    <2>2. PuttersOf(proc.hist) = {} /\ PlacesOf(proc.hist) = {}
        BY <1>0, <1>5 DEF HeldOnce
    <2>3. /\ DOMAIN history' = DOMAIN history
          /\ \A h \in DOMAIN history : h # proc.hist => history'[h].status = history[h].status
        BY <1>0, <1>5, SetHistoryRows
    <2>4. \A h : PlacesOf(h)' = PlacesOf(h)
        BY <1>5 DEF PlacesOf
    <2> QED
        BY <1>2, <1>4, <1>5, <2>1, <2>2, <2>3, <2>4 DEF PhaseInv, Waiting, Phases
(* Or the processor moves on and writes nothing.                           *)
<1>6. ASSUME queue' = queue, history' = history, Phases'
      PROVE  PhaseInv' /\ RowStates' = RowStates
    <2>1. \A h : PlacesOf(h)' = PlacesOf(h)
        BY <1>6 DEF PlacesOf
    <2> QED
        BY <1>2, <1>4, <1>6, <2>1, StutterStep DEF PhaseInv, Waiting
<1>7. CASE TakeTask
    <2>1. /\ proc'.at = "load" /\ proc'.hist = Head(queue) /\ history' = history
          /\ queue' = Tail(queue) /\ queue # <<>>
        BY <1>7 DEF TakeTask, Step
    <2>2. /\ Len(queue) \in Nat \ {0} /\ Head(queue) = queue[1] /\ queue[1] \in DOMAIN history
          /\ DOMAIN queue = 1 .. Len(queue) /\ DOMAIN queue' = 1 .. Len(queue) - 1
          /\ \A i \in DOMAIN queue' : queue'[i] = queue[i + 1]
        BY <1>0, <2>1
    <2>3. 1 \in PlacesOf(queue[1])
        BY <2>2 DEF PlacesOf
    <2>4. history[queue[1]].status = "pending"
        BY <2>2, <2>3 DEF PhaseInv, Waiting
    <2>5. ASSUME NEW h \in DOMAIN history, NEW i \in PlacesOf(h)' PROVE PlacesOf(h) # {}
        <3>1. i + 1 \in PlacesOf(h)
            BY <2>2, <2>5 DEF PlacesOf
        <3> QED
            BY <3>1
    <2>6. Phases'
        BY <2>1, <2>2, <2>4 DEF Phases
    <2> QED
        BY <1>2, <1>4, <2>1, <2>5, <2>6, StutterStep DEF PhaseInv, Waiting
<1>8. CASE StartBuilding
    <2>1. /\ proc.at = "load" /\ history' = SetHistory(proc.hist, "building")
          /\ proc'.hist = proc.hist /\ proc'.at = "build"
        BY <1>0, <1>1, <1>8 DEF StartBuilding, At, PhaseInv, Waiting, ProcDep
    <2>2. history[proc.hist].status = "pending"
        BY <2>1 DEF PhaseInv, Phases
    <2>3. Phases'
        BY <1>0, <1>2, <2>1, <2>2, RowStep DEF Phases
    <2> QED
        BY <1>0, <1>3, <1>5, <1>8, <2>1, <2>2, <2>3 DEF Machine!Advance, TakeTask, At
<1>9. CASE StartDeploying
    <2>1. /\ proc.at = "backed_up" /\ history' = SetHistory(proc.hist, "deploying")
          /\ proc'.hist = proc.hist /\ proc'.at = "deploy"
        BY <1>1, <1>2, <1>9 DEF StartDeploying, At
    <2>2. history[proc.hist].status = "building"
        BY <2>1 DEF PhaseInv, Phases
    <2>3. Phases'
        BY <1>0, <1>2, <2>1, <2>2, RowStep DEF Phases
    <2> QED
        BY <1>0, <1>3, <1>5, <1>9, <2>1, <2>2, <2>3 DEF Machine!Advance, TakeTask, At
<1>10. CASE RecordSuccess
    <2>1. /\ proc.at = "finish" /\ history' = SetHistory(proc.hist, "success")
          /\ proc'.hist = proc.hist /\ proc'.at = "publish"
        BY <1>0, <1>1, <1>10 DEF RecordSuccess, At, PhaseInv, Waiting, ProcDep
    <2>2. history[proc.hist].status = "deploying"
        BY <2>1 DEF PhaseInv, Phases
    <2>3. Phases'
        BY <1>0, <1>2, <2>1, <2>2, RowStep DEF Phases
    <2> QED
        BY <1>0, <1>3, <1>5, <1>10, <2>1, <2>2, <2>3 DEF Machine!Advance, TakeTask, At
<1>11. CASE HandleFailure
    <2>1. /\ proc.at = "fail" /\ history' = SetHistory(proc.hist, "failed")
          /\ proc'.hist = proc.hist /\ proc'.at = "done"
        BY <1>1, <1>11 DEF HandleFailure, At
    <2>2. PICK from \in {"pending", "building", "deploying"} : history[proc.hist].status = from
        BY <2>1 DEF PhaseInv, Phases
    <2>3. Phases'
        BY <2>1 DEF Phases
    <2>4. PhaseInv' /\ Machine!Step(proc.hist, from, "failed")
        BY <1>3, <1>5, <1>11, <2>1, <2>2, <2>3 DEF TakeTask, At
    <2> QED
        BY <1>0, <2>1, <2>4 DEF Machine!Advance, Machine!Fail, Machine!Unfinished
<1>12. CASE Build
    <2>1. /\ proc.at = "build" /\ proc'.at \in {"fail", "backed_up"}
          /\ proc'.hist = proc.hist /\ history' = history /\ queue' = queue
        BY <1>1, <1>12 DEF Build, At, Step
    <2> QED
        BY <1>6, <2>1 DEF PhaseInv, Phases
<1>13. CASE DeployContainer \/ HealthChecks \/ Rollback
    <2>1. /\ proc.at \in {"deploy", "check", "rollback"}
          /\ proc'.at \in {"fail", "check", "finish", "rollback"}
          /\ proc'.hist = proc.hist /\ history' = history /\ queue' = queue
        BY <1>1, <1>13 DEF DeployContainer, HealthChecks, Rollback, At
    <2> QED
        BY <1>6, <2>1 DEF PhaseInv, Phases
<1>14. CASE Publish \/ FinishTask
    <2>1. proc'.at \in {"done", "idle"} /\ history' = history /\ queue' = queue
        BY <1>1, <1>2, <1>14 DEF Publish, FinishTask, IdleProc, Step, Calm
    <2> QED
        BY <1>6, <2>1 DEF Phases
<1> QED
    BY <1>7, <1>8, <1>9, <1>10, <1>11, <1>12, <1>13, <1>14 DEF Process

LEMMA CalmStep ==
    ASSUME Calm, TypeInv, HeldOnce, PhaseInv, [DeployNext]_deployVars
    PROVE  PhaseInv' /\ [Machine!MachineNext]_RowStates
<1>1. ASSUME NEW c \in Callers, NewCall(c) \/ Call(c)
      PROVE  PhaseInv' /\ [Machine!MachineNext]_RowStates
    BY <1>1, CalmCalls DEF Machine!MachineNext
<1>2. CASE Process
    BY <1>2, CalmProcess DEF Machine!MachineNext
<1>3. ~Restart
    BY DEF Restart, Calm, TypeInv, DeployTypeOK
<1>4. CASE UNCHANGED deployVars
    BY <1>4, StutterStep DEF deployVars, PhaseInv, Waiting, Phases, Exists, PuttersOf, PlacesOf, Usable
<1> QED
    BY <1>1, <1>2, <1>3, <1>4 DEF DeployNext

(* While nobody cancels or deletes, the audit service answers and the      *)
(* process does not restart: whatever is requested and however the steps   *)
(* of calls and processor interleave, every row of the history goes        *)
(* through pending, building, deploying to success or failed, as the       *)
(* docstring of the module says, and never otherwise.                      *)
THEOREM MachineIsImplemented ==
    ASSUME Calm
    PROVE  DeploySpec => Machine!MachineInit /\ [][Machine!MachineNext]_RowStates
<1>1. DeployInit => PhaseInv /\ HeldOnce /\ TypeInv /\ Machine!MachineInit
    <2> SUFFICES ASSUME DeployInit PROVE PhaseInv /\ HeldOnce /\ Machine!MachineInit
        BY DeployTypeInit
    <2>1. DOMAIN history = {}
        BY DEF DeployInit
    <2>2. PhaseInv
        BY <2>1 DEF DeployInit, PhaseInv, Waiting, Phases, Exists, IdleCall, Task, IdleProc, Step, Usable
    <2>3. HeldOnce
        BY <2>1 DEF HeldOnce
    <2>4. Machine!MachineInit
        BY <2>1 DEF Machine!MachineInit
    <2> QED
        BY <2>2, <2>3, <2>4
<1>2. PhaseInv /\ HeldOnce /\ TypeInv /\ [DeployNext]_deployVars
         => PhaseInv' /\ HeldOnce' /\ TypeInv' /\ [Machine!MachineNext]_RowStates
    BY CalmStep, DeployTypeStep, HeldOnceStep
<1> QED
    BY <1>1, <1>2, PTL DEF DeploySpec
=============================================================================
