---------------------------- MODULE Orchestrator ----------------------------
(***************************************************************************)
(* DockerOrchestrator (core/orchestrator.py): the dictionary of services,  *)
(* the map from container ids to services, and the Docker daemon they are  *)
(* started and stopped on.                                                 *)
(*                                                                         *)
(* None of the handlers gives up the event loop between its first read and *)
(* its last write (the Docker client is synchronous), so each of them is   *)
(* one action.  The daemon is the environment: containers exit and are     *)
(* removed behind the orchestrator's back, and its calls may fail.         *)
(***************************************************************************)
EXTENDS Naturals, FiniteSets

CONSTANTS
    Names,          \* names of services; "wakedock-<name>" is both the id of
                    \* a service and the name of its container
    NoService,      \* no service
    Configured,     \* the services of the configuration file
    Composed,       \* those of them that name a docker-compose file
    MaxContainers,  \* bound: containers created in a behaviour
    Edits,          \* what clients change with PUT: names, policies, runtimes (what a
                    \* service runs on, an image or a compose file), or these only of
                    \* services that are stopped
    DockerFails,    \* whether a Docker call may fail (other than NotFound)
    Restarts        \* whether the process may be restarted

ASSUME OrchestratorAssumption ==
    /\ NoService \notin Names
    /\ Configured \subseteq Names
    /\ Composed \subseteq Configured
    /\ MaxContainers \in Nat
    /\ Edits \subseteq {"name", "runtime", "idleRuntime", "policy"}
    /\ DockerFails \in BOOLEAN
    /\ Restarts \in BOOLEAN

VARIABLES
    services,       \* the dictionary, keyed by the name the id was made of
    container_map,  \* container id -> id of the service that created it
    docker          \* the daemon: cont, the container under each name; up, the
                    \* names whose container runs; proj, the services whose
                    \* compose project is up; next, the next container id

orchestratorVars == <<services, container_map, docker>>

NoId == 0
Containers == 1 .. MaxContainers

Service == [name: Names, compose: BOOLEAN, auto: BOOLEAN,
            status: {"stopped", "running", "error"}, cid: Containers \cup {NoId}]

Daemon == [cont: [Names -> Containers \cup {NoId}], up: SUBSET Names,
           proj: SUBSET Names, next: 1 .. (MaxContainers + 1)]

Ids == DOMAIN services

NewService(n, compose, auto) ==
    [name |-> n, compose |-> compose, auto |-> auto, status |-> "stopped", cid |-> NoId]

Exists(d, cid) == \E n \in Names : cid # NoId /\ d.cont[n] = cid

-----------------------------------------------------------------------------
(* Starting and stopping.  An outcome is what a call leaves behind: the    *)
(* service's entry, the daemon, the container map, and what it returns.    *)

Outcome(svc, d, m, ok) == [svc |-> svc, docker |-> d, map |-> m, ok |-> ok]

Failed(svc, d, m) ==
    IF DockerFails THEN {Outcome([svc EXCEPT !.status = "error"], d, m, FALSE)} ELSE {}

(* Faults for Adopt: any container is taken; the status is left alone.     *)
AdoptAnyMatch(svc, d, m) ==
    LET n == CHOOSE n \in Names : d.cont[n] # NoId
    IN  Outcome([svc EXCEPT !.status = "running", !.cid = d.cont[n]],
                [d EXCEPT !.up = @ \cup {n}], m, TRUE)

AdoptKeepsStatus(svc, d, m) ==
    Outcome([svc EXCEPT !.cid = d.cont[svc.name]],
            [d EXCEPT !.up = @ \cup {svc.name}], m, TRUE)

(* A container of that name is adopted, and started unless it runs.        *)
Adopt(svc, d, m) ==
    Outcome([svc EXCEPT !.status = "running", !.cid = d.cont[svc.name]],
            [d EXCEPT !.up = @ \cup {svc.name}], m, TRUE)

Created(svc, d) ==
    [cont |-> [d.cont EXCEPT ![svc.name] = d.next],
     up |-> d.up, proj |-> d.proj, next |-> d.next + 1]

Run(id, svc, d, m) ==
    Outcome([svc EXCEPT !.status = "running", !.cid = d.next],
            [Created(svc, d) EXCEPT !.up = @ \cup {svc.name}],
            [m EXCEPT ![d.next] = id], TRUE)

(* The image starts, or the call fails; a container may be left created.   *)
StartImage(id, svc, d, m) ==
    Failed(svc, d, m) \cup
    (IF d.cont[svc.name] # NoId THEN {Adopt(svc, d, m)}
     ELSE IF d.next \in Containers
          THEN {Run(id, svc, d, m)} \cup Failed(svc, Created(svc, d), m)
          ELSE {})

(* A missing file or a non-zero exit code leaves the entry as it was.      *)
StartCompose(id, svc, d, m) ==
    {Outcome([svc EXCEPT !.status = "running"], [d EXCEPT !.proj = @ \cup {id}], m, TRUE)}
    \cup Failed(svc, d, m)
    \cup (IF DockerFails THEN {Outcome(svc, d, m, FALSE)} ELSE {})

Wake(id, svc, d, m) ==
    IF svc.compose THEN StartCompose(id, svc, d, m) ELSE StartImage(id, svc, d, m)

(* By the id the service holds, or by name when it holds none.             *)
StopImage(svc, d, m) ==
    LET target == IF svc.cid # NoId THEN {n \in Names : d.cont[n] = svc.cid}
                                    ELSE {svc.name}
    IN  Outcome([svc EXCEPT !.status = "stopped", !.cid = NoId],
                [d EXCEPT !.up = @ \ target],
                IF Exists(d, svc.cid) THEN [m EXCEPT ![svc.cid] = NoService] ELSE m,
                TRUE)

StopCompose(id, svc, d, m) ==
    Outcome([svc EXCEPT !.status = "stopped"], [d EXCEPT !.proj = @ \ {id}], m, TRUE)

(* A successful sleep; a failed one changes nothing.                       *)
Slept(id, svc, d, m) ==
    IF svc.compose THEN StopCompose(id, svc, d, m) ELSE StopImage(svc, d, m)

Sleep(id, svc, d, m) ==
    {Slept(id, svc, d, m)} \cup (IF DockerFails THEN {Outcome(svc, d, m, FALSE)} ELSE {})

(* is_service_running: what it writes to the entry, and what it returns.   *)
Probed(svc, d) ==
    IF svc.cid = NoId THEN svc
    ELSE IF ~Exists(d, svc.cid) THEN [svc EXCEPT !.status = "stopped", !.cid = NoId]
    ELSE [svc EXCEPT !.status =
              IF \E n \in d.up : d.cont[n] = svc.cid THEN "running" ELSE "stopped"]

IsRunning(svc, d) == svc.cid # NoId /\ \E n \in d.up : d.cont[n] = svc.cid

(* Writing back one service's outcome.                                     *)
Apply(id, o) ==
    /\ services' = [services EXCEPT ![id] = o.svc]
    /\ docker' = o.docker
    /\ container_map' = o.map

-----------------------------------------------------------------------------
(* __init__ and _load_services: the configured services, all "stopped",    *)
(* whatever containers an earlier process left behind.                     *)
Loaded == [n \in Configured |-> NewService(n, n \in Composed, TRUE)]

OrchestratorInit ==
    /\ services = Loaded
    /\ container_map = [c \in Containers |-> NoService]
    /\ docker = [cont |-> [n \in Names |-> NoId], up |-> {}, proj |-> {}, next |-> 1]

(* create_service: an id already in the dictionary is refused.             *)
CreateService(n, compose, auto) ==
    /\ n \notin Ids
    /\ services' = [i \in Ids \cup {n} |->
                      IF i = n THEN NewService(n, compose, auto) ELSE services[i]]
    /\ UNCHANGED <<container_map, docker>>

(* update_service: any field a client may set; the id stays what it was.   *)
Edited(svc) ==
    {e \in {[svc EXCEPT !.name = n] : n \in Names} : "name" \in Edits}
    \cup {e \in {[svc EXCEPT !.compose = b] : b \in BOOLEAN} :
            "runtime" \in Edits \/ ("idleRuntime" \in Edits /\ svc.status = "stopped")}
    \cup {e \in {[svc EXCEPT !.auto = b] : b \in BOOLEAN} : "policy" \in Edits}

UpdateService(id) ==
    /\ \E e \in Edited(services[id]) : services' = [services EXCEPT ![id] = e]
    /\ UNCHANGED <<container_map, docker>>

(* Fault for DeleteService: the service is not put to sleep.               *)
DeleteWithoutSleep(id) ==
    /\ services' = [i \in Ids \ {id} |-> services[i]]
    /\ UNCHANGED <<container_map, docker>>

(* delete_service: sleeps the service, whatever that returns.              *)
DeleteService(id) ==
    \E o \in Sleep(id, services[id], docker, container_map) :
        /\ services' = [i \in Ids \ {id} |-> services[i]]
        /\ docker' = o.docker
        /\ container_map' = o.map

WakeService(id) == \E o \in Wake(id, services[id], docker, container_map) : Apply(id, o)

SleepService(id) == \E o \in Sleep(id, services[id], docker, container_map) : Apply(id, o)

IsServiceRunning(id) ==
    /\ services' = [services EXCEPT ![id] = Probed(services[id], docker)]
    /\ UNCHANGED <<container_map, docker>>

(* A container exits on its own.                                           *)
ContainerExits(n) ==
    /\ n \in docker.up
    /\ docker' = [docker EXCEPT !.up = @ \ {n}]
    /\ UNCHANGED <<services, container_map>>

(* An operator removes a container (only while another can be created).    *)
ContainerRemoved(n) ==
    /\ docker.cont[n] # NoId /\ docker.next \in Containers
    /\ docker' = [docker EXCEPT !.up = @ \ {n}, !.cont = [@ EXCEPT ![n] = NoId]]
    /\ UNCHANGED <<services, container_map>>

(* The process restarts: only the configuration file and Docker remain.    *)
Restart ==
    /\ Restarts
    /\ services' = Loaded
    /\ container_map' = [c \in Containers |-> NoService]
    /\ UNCHANGED docker

ClientStep ==
    \/ \E n \in Names, compose, auto \in BOOLEAN : CreateService(n, compose, auto)
    \/ \E id \in Ids : UpdateService(id)
    \/ \E id \in Ids : DeleteService(id)
    \/ \E id \in Ids : WakeService(id)
    \/ \E id \in Ids : SleepService(id)

DockerStep == \E n \in Names : ContainerExits(n) \/ ContainerRemoved(n)

OrchestratorNext ==
    \/ ClientStep
    \/ \E id \in Ids : IsServiceRunning(id)
    \/ DockerStep
    \/ Restart

OrchestratorSpec == OrchestratorInit /\ [][OrchestratorNext]_orchestratorVars

-----------------------------------------------------------------------------
(* Every variable has its type: entries, daemon and container map hold     *)
(* values of their kinds, and container ids stay within the bound.         *)
OrchestratorTypeOK ==
    /\ Ids \subseteq Names
    /\ services \in [Ids -> Service]
    /\ container_map \in [Containers -> Names \cup {NoService}]
    /\ docker \in Daemon

(* Two services never hold the same container, so putting one to sleep     *)
(* never stops the other (wake_service, sleep_service), as long as clients *)
(* do not rename services: through failures, crashes, restarts, deletions  *)
(* and re-creations.                                                       *)
OneHolder ==
    \A i, j \in Ids :
        services[i].cid # NoId /\ services[i].cid = services[j].cid => i = j

(* The id a service holds is that of the container of its own name, or of  *)
(* one that was removed: what is_service_running asks about and what       *)
(* _stop_docker_service stops is the container _start_docker_service found. *)
HoldsItsOwn ==
    \A i \in Ids : Exists(docker, services[i].cid) =>
                       docker.cont[services[i].name] = services[i].cid

(* Nobody stops or starts a container that is another service's.           *)
ContainersOwned == OneHolder /\ HoldsItsOwn

(* With a Docker daemon that does not fail, no restart, no renaming, and   *)
(* nobody changing what a running service runs on: a service that runs an  *)
(* image and is listed as "stopped" has no running container, for the      *)
(* monitor only ever puts services listed as "running" to sleep.           *)
StoppedMeansStopped ==
    \A i \in Ids : services[i].status = "stopped" /\ ~services[i].compose =>
                       services[i].name \notin docker.up

(* On the same conditions: a container that runs belongs to a service of   *)
(* the dictionary that still knows its id, so something will stop it       *)
(* (delete_service: "Stop service if running").                            *)
NoOrphan ==
    \A n \in docker.up : \E i \in Ids : services[i].cid = docker.cont[n]
=============================================================================
