------------------------- MODULE OrchestratorProofs -------------------------
(***************************************************************************)
(* Proofs about Orchestrator for every set of names, every configuration   *)
(* and any number of containers: the type invariant, and that no two       *)
(* services ever hold one container as long as clients do not rename; and  *)
(* without faults of Docker, that what runs is listed and what is listed   *)
(* as stopped is stopped.                                                  *)
(***************************************************************************)
EXTENDS Orchestrator, TLAPS

MapType == [Containers -> Names \cup {NoService}]

(* What the outcome of a wake or a sleep may do to container ids: keep the *)
(* daemon's containers and hold the old id, none, or the one under the     *)
(* service's name; or put a new container under that name.                 *)
KeepsContainers(svc, d, o) ==
    /\ o.docker.cont = d.cont /\ o.docker.next = d.next
    /\ o.svc.cid \in {svc.cid, NoId, d.cont[svc.name]}

AddsContainer(svc, d, o) ==
    /\ d.cont[svc.name] = NoId /\ d.next \in Containers
    /\ o.docker.cont = [d.cont EXCEPT ![svc.name] = d.next]
    /\ o.docker.next = d.next + 1
    /\ o.svc.cid \in {svc.cid, d.next}

Legal(svc, d, o) ==
    /\ o.svc \in Service /\ o.docker \in Daemon /\ o.map \in MapType
    /\ o.svc.name = svc.name
    /\ KeepsContainers(svc, d, o) \/ AddsContainer(svc, d, o)

(* A daemon that has created a container is one.                           *)
LEMMA CreatedIsDaemon ==
    ASSUME MaxContainers \in Nat,
           NEW svc \in Service, NEW d \in Daemon, d.next \in Containers
    PROVE  Created(svc, d) \in Daemon
<1>1. [d.cont EXCEPT ![svc.name] = d.next] \in [Names -> Containers \cup {NoId}]
  BY DEF Daemon, Service
<1>2. d.next + 1 \in 1 .. (MaxContainers + 1)
  BY DEF Containers
<1> QED
  BY <1>1, <1>2 DEF Created, Daemon

(* A wake has only legal outcomes.                                         *)
LEMMA WakeIsLegal ==
    ASSUME OrchestratorAssumption,
           NEW id \in Names, NEW svc \in Service, NEW d \in Daemon, NEW m \in MapType,
           NEW o \in Wake(id, svc, d, m)
    PROVE  Legal(svc, d, o)
<1> USE DEF Service, Daemon, MapType, Containers, NoId, Outcome, OrchestratorAssumption
<1>1. CASE svc.compose
  <2>1. o \in StartCompose(id, svc, d, m)
    BY <1>1 DEF Wake
  <2>2. CASE o = Outcome([svc EXCEPT !.status = "running"],
                         [d EXCEPT !.proj = @ \cup {id}], m, TRUE)
    BY <2>2 DEF Legal, KeepsContainers
  <2>3. CASE o \in Failed(svc, d, m)
    BY <2>3 DEF Failed, Legal, KeepsContainers
  <2>4. CASE o = Outcome(svc, d, m, FALSE)
    BY <2>4 DEF Legal, KeepsContainers
  <2> QED
    BY <2>1, <2>2, <2>3, <2>4 DEF StartCompose
<1>2. CASE ~svc.compose
  <2>1. o \in StartImage(id, svc, d, m)
    BY <1>2 DEF Wake
  <2>2. CASE o \in Failed(svc, d, m)
    BY <2>2 DEF Failed, Legal, KeepsContainers
  <2>3. CASE d.cont[svc.name] # NoId /\ o = Adopt(svc, d, m)
    <3>1. o.svc \in Service /\ o.docker \in Daemon /\ o.map \in MapType
      BY <2>3 DEF Adopt
    <3> QED
      BY <2>3, <3>1 DEF Adopt, Legal, KeepsContainers
  <2>4. CASE d.cont[svc.name] = NoId /\ d.next \in Containers /\ o = Run(id, svc, d, m)
    <3> DEFINE c == Created(svc, d)
    <3>1. c \in Daemon
      BY <2>4, CreatedIsDaemon
    <3>2. o.docker = [c EXCEPT !.up = @ \cup {svc.name}]
      BY <2>4 DEF Run
    <3>3. o.docker \in Daemon
      <4> HIDE DEF c
      <4> QED
        BY <3>1, <3>2
    <3>4. o.docker.cont = c.cont /\ o.docker.next = c.next
      <4> HIDE DEF c
      <4> QED
        BY <3>1, <3>2
    <3>5. o.svc \in Service /\ o.map \in MapType /\ o.svc.name = svc.name /\ o.svc.cid = d.next
      BY <2>4 DEF Run
    <3> QED
      BY <2>4, <3>3, <3>4, <3>5 DEF Created, Legal, AddsContainer
  <2>5. CASE d.cont[svc.name] = NoId /\ d.next \in Containers
             /\ o \in Failed(svc, Created(svc, d), m)
    <3>1. o.docker = Created(svc, d) /\ o.docker \in Daemon
      BY <2>5, CreatedIsDaemon DEF Failed
    <3>2. o.svc \in Service /\ o.map \in MapType /\ o.svc.name = svc.name /\ o.svc.cid = svc.cid
      BY <2>5 DEF Failed
    <3> QED
      BY <2>5, <3>1, <3>2 DEF Created, Legal, AddsContainer
  <2> QED
    BY <2>1, <2>2, <2>3, <2>4, <2>5 DEF StartImage
<1> QED
  BY <1>1, <1>2

(* So has a sleep, which creates no container.                             *)
LEMMA SleepIsLegal ==
    ASSUME OrchestratorAssumption,
           NEW id \in Names, NEW svc \in Service, NEW d \in Daemon, NEW m \in MapType,
           NEW o \in Sleep(id, svc, d, m)
    PROVE  Legal(svc, d, o) /\ KeepsContainers(svc, d, o)
<1> USE DEF Service, Daemon, MapType, Containers, NoId, Outcome, OrchestratorAssumption
<1>1. CASE o = Outcome(svc, d, m, FALSE)
  BY <1>1 DEF Legal, KeepsContainers
<1>2. CASE svc.compose /\ o = StopCompose(id, svc, d, m)
  BY <1>2 DEF StopCompose, Legal, KeepsContainers
<1>3. CASE ~svc.compose /\ o = StopImage(svc, d, m)
  <2>1. o.map \in MapType
    <3>1. CASE Exists(d, svc.cid)
      BY <1>3, <3>1 DEF StopImage, Exists
    <3>2. CASE ~Exists(d, svc.cid)
      BY <1>3, <3>2 DEF StopImage
    <3> QED
      BY <3>1, <3>2
  <2>2. o.svc \in Service /\ o.docker \in Daemon
    BY <1>3 DEF StopImage
  <2> QED
    BY <1>3, <2>1, <2>2 DEF StopImage, Legal, KeepsContainers
<1> QED
  BY <1>1, <1>2, <1>3 DEF Sleep, Slept

-----------------------------------------------------------------------------
(* The inductive invariant behind OneHolder.  While nobody renames, a      *)
(* service's name is its id; ids are handed out once, so no two names have *)
(* the same container; and what a service holds is what its name has, or   *)
(* something removed.                                                      *)
NameIsId == \A i \in Ids : services[i].name = i

IdsAreOld ==
    /\ \A n \in Names : docker.cont[n] < docker.next
    /\ \A i \in Ids : services[i].cid < docker.next

OneName ==
    \A n, k \in Names : docker.cont[n] # NoId /\ docker.cont[n] = docker.cont[k] => n = k

HoldInv ==
    /\ OrchestratorTypeOK
    /\ NameIsId /\ IdsAreOld /\ OneName /\ HoldsItsOwn /\ OneHolder

(* Changing one entry by a legal outcome keeps the types.                  *)
LEMMA ApplyKeepsType ==
    ASSUME OrchestratorTypeOK, NEW id \in Ids, NEW o,
           Legal(services[id], docker, o), Apply(id, o)
    PROVE  OrchestratorTypeOK'
BY DEF OrchestratorTypeOK, Ids, Legal, Apply, MapType

(* An edit makes a service of a service, and keeps its container.          *)
LEMMA EditedIsService ==
    ASSUME NEW svc \in Service, NEW e \in Edited(svc)
    PROVE  /\ e \in Service /\ e.cid = svc.cid
           /\ "name" \notin Edits => e.name = svc.name
BY DEF Edited, Service

(* The initial state has its types.                                        *)
LEMMA OrchestratorTypeInit ==
    ASSUME OrchestratorAssumption, OrchestratorInit
    PROVE  OrchestratorTypeOK
<1>1. docker \in Daemon
  BY DEF OrchestratorInit, Daemon, NoId, Containers, OrchestratorAssumption
<1>2. services \in [Configured -> Service]
  BY DEF OrchestratorInit, Loaded, NewService, Service, NoId, OrchestratorAssumption
<1> QED
  BY <1>1, <1>2 DEF OrchestratorInit, OrchestratorTypeOK, Ids, OrchestratorAssumption

(* Every step keeps them.                                                  *)
LEMMA OrchestratorTypeStep ==
    ASSUME OrchestratorAssumption, OrchestratorTypeOK, [OrchestratorNext]_orchestratorVars
    PROVE  OrchestratorTypeOK'
<1> USE OrchestratorAssumption DEF OrchestratorTypeOK, Ids
<1>1. ASSUME NEW n \in Names, NEW compose \in BOOLEAN, NEW auto \in BOOLEAN,
             CreateService(n, compose, auto)
      PROVE  OrchestratorTypeOK'
  <2>1. NewService(n, compose, auto) \in Service
    BY DEF NewService, Service, NoId
  <2> QED
    BY <1>1, <2>1 DEF CreateService
<1>2. ASSUME NEW id \in Ids, UpdateService(id) PROVE OrchestratorTypeOK'
  <2>1. PICK e \in Edited(services[id]) : services' = [services EXCEPT ![id] = e]
    BY <1>2 DEF UpdateService
  <2>2. e \in Service
    BY <2>1, EditedIsService
  <2> QED
    BY <1>2, <2>1, <2>2 DEF UpdateService
<1>3. ASSUME NEW id \in Ids, DeleteService(id) PROVE OrchestratorTypeOK'
  <2>1. PICK o \in Sleep(id, services[id], docker, container_map) :
               /\ services' = [i \in Ids \ {id} |-> services[i]]
               /\ docker' = o.docker /\ container_map' = o.map
    BY <1>3 DEF DeleteService
  <2>2. Legal(services[id], docker, o)
    BY SleepIsLegal, <1>3 DEF MapType
  <2> QED
    BY <2>1, <2>2 DEF Legal, MapType
<1>4. ASSUME NEW id \in Ids, WakeService(id) PROVE OrchestratorTypeOK'
  BY <1>4, WakeIsLegal, ApplyKeepsType DEF WakeService, MapType
<1>5. ASSUME NEW id \in Ids, SleepService(id) PROVE OrchestratorTypeOK'
  BY <1>5, SleepIsLegal, ApplyKeepsType DEF SleepService, MapType
<1>6. ASSUME NEW id \in Ids, IsServiceRunning(id) PROVE OrchestratorTypeOK'
  <2>1. Probed(services[id], docker) \in Service
    <3>1. services[id] \in Service
      BY DEF OrchestratorTypeOK
    <3>2. \A st \in {"stopped", "running"} :
             [services[id] EXCEPT !.status = st] \in Service
      BY <3>1 DEF Service
    <3>3. [services[id] EXCEPT !.status = "stopped", !.cid = NoId] \in Service
      BY <3>1 DEF Service
    <3> QED
      BY <3>1, <3>2, <3>3 DEF Probed
  <2> QED
    BY <1>6, <2>1 DEF IsServiceRunning
<1>7. ASSUME NEW n \in Names, ContainerExits(n) PROVE OrchestratorTypeOK'
  BY <1>7 DEF ContainerExits, Daemon
<1>8. ASSUME NEW n \in Names, ContainerRemoved(n) PROVE OrchestratorTypeOK'
  <2>1. [docker.cont EXCEPT ![n] = NoId] \in [Names -> Containers \cup {NoId}]
    BY DEF Daemon
  <2>2. docker.up \ {n} \in SUBSET Names
    BY DEF Daemon
  <2> QED
    BY <1>8, <2>1, <2>2 DEF ContainerRemoved, Daemon
<1>9. CASE Restart
  <2>1. services' \in [Configured -> Service]
    BY <1>9 DEF Restart, Loaded, NewService, Service, NoId, OrchestratorAssumption
  <2> QED
    BY <1>9, <2>1 DEF Restart, OrchestratorAssumption
<1>10. CASE UNCHANGED orchestratorVars
  BY <1>10 DEF orchestratorVars
<1> QED
  BY <1>1, <1>2, <1>3, <1>4, <1>5, <1>6, <1>7, <1>8, <1>9, <1>10 DEF OrchestratorNext, ClientStep, DockerStep

(* Every variable keeps its type, whatever Docker, operators and clients   *)
(* do: the model's version of "no handler leaves a malformed entry".       *)
THEOREM OrchestratorTypeCorrect ==
    ASSUME OrchestratorAssumption
    PROVE  OrchestratorSpec => []OrchestratorTypeOK
<1>1. OrchestratorInit => OrchestratorTypeOK
  BY OrchestratorTypeInit
<1>2. OrchestratorTypeOK /\ [OrchestratorNext]_orchestratorVars => OrchestratorTypeOK'
  BY OrchestratorTypeStep
<1> QED
  BY <1>1, <1>2, PTL DEF OrchestratorSpec

-----------------------------------------------------------------------------
(* Changing one entry by a legal outcome keeps the inductive invariant.    *)
LEMMA ApplyKeepsHold ==
    ASSUME OrchestratorAssumption, HoldInv, NEW id \in Ids, NEW o,
           Legal(services[id], docker, o), Apply(id, o)
    PROVE  HoldInv'
<1> USE DEF HoldInv, Ids
<1>1. OrchestratorTypeOK'
  BY ApplyKeepsType
<1>2. /\ Ids' = Ids /\ docker' = o.docker
      /\ services'[id] = o.svc
      /\ \A i \in Ids : i # id => services'[i] = services[i]
  BY DEF Apply, OrchestratorTypeOK
<1>3. services[id].name = id
  BY DEF NameIsId
<1>4. NameIsId'
  BY <1>2 DEF NameIsId, Legal
<1>5. CASE KeepsContainers(services[id], docker, o)
  <2>1. docker'.cont = docker.cont /\ docker'.next = docker.next
    BY <1>2, <1>5 DEF KeepsContainers
  <2>2. services'[id].cid \in {services[id].cid, NoId, docker.cont[id]}
    BY <1>2, <1>3, <1>5 DEF KeepsContainers
  <2>3. IdsAreOld'
    <3>1. docker.next > NoId
      BY DEF OrchestratorTypeOK, Daemon, NoId, OrchestratorAssumption
    <3> QED
      BY <1>2, <2>1, <2>2, <3>1 DEF IdsAreOld, OrchestratorTypeOK
  <2>4. OneName'
    BY <2>1 DEF OneName
  <2>5. HoldsItsOwn'
    BY <1>2, <1>3, <1>4, <2>1, <2>2 DEF HoldsItsOwn, Exists, NameIsId, OneName, OrchestratorTypeOK
  <2>6. OneHolder'
    <3>1. \A j \in Ids : j # id /\ services[j].cid # NoId
                         => services[j].cid # docker.cont[id]
      BY DEF HoldsItsOwn, Exists, OneName, NameIsId, OrchestratorTypeOK
    <3> QED
      BY <1>2, <2>2, <3>1 DEF OneHolder
  <2> QED
    BY <1>1, <1>4, <2>3, <2>4, <2>5, <2>6
<1>6. CASE AddsContainer(services[id], docker, o)
  <2>1. /\ docker.cont[id] = NoId /\ docker.next \in Containers
        /\ docker'.cont = [docker.cont EXCEPT ![id] = docker.next]
        /\ docker'.next = docker.next + 1
        /\ services'[id].cid \in {services[id].cid, docker.next}
    BY <1>2, <1>3, <1>6 DEF AddsContainer
  <2>2. docker.next \in Nat /\ docker.next # NoId
    BY <2>1 DEF Containers, NoId, OrchestratorAssumption
  <2>3. /\ docker.cont \in [Names -> Nat]
        /\ \A i \in Ids : services[i].cid \in Nat
    BY DEF OrchestratorTypeOK, Daemon, Service, Containers, NoId, OrchestratorAssumption
  <2>4. id \in Names
    BY DEF OrchestratorTypeOK
  <2>5. docker'.cont[id] = docker.next
        /\ \A n \in Names : n # id => docker'.cont[n] = docker.cont[n]
    BY <2>1, <2>3, <2>4
  <2>6. IdsAreOld'
    <3>1. \A n \in Names : docker'.cont[n] < docker'.next
      BY <2>1, <2>2, <2>3, <2>5 DEF IdsAreOld
    <3>2. \A i \in Ids : services'[i].cid < docker'.next
      BY <1>2, <2>1, <2>2, <2>3 DEF IdsAreOld
    <3> QED
      BY <1>2, <3>1, <3>2 DEF IdsAreOld
  <2>7. \A n \in Names : docker.cont[n] # docker.next
    BY <2>2, <2>3 DEF IdsAreOld
  <2>8. \A i \in Ids : services[i].cid # docker.next
    BY <2>2, <2>3 DEF IdsAreOld
  <2>9. OneName'
    BY <2>5, <2>7 DEF OneName
  <2>10. HoldsItsOwn'
    BY <1>2, <1>4, <2>1, <2>5, <2>7, <2>8 DEF HoldsItsOwn, Exists, NameIsId, OrchestratorTypeOK
  <2>11. OneHolder'
    BY <1>2, <2>1, <2>8 DEF OneHolder
  <2> QED
    BY <1>1, <1>4, <2>6, <2>9, <2>10, <2>11
<1> QED
  BY <1>5, <1>6 DEF Legal

(* While clients do not rename, no two services hold one container, and    *)
(* each holds only the container of its own name: whatever Docker and      *)
(* operators do, across restarts, a sleep never stops another service.     *)
THEOREM OneHolderHolds ==
    ASSUME OrchestratorAssumption, "name" \notin Edits
    PROVE  OrchestratorSpec => [](OneHolder /\ HoldsItsOwn)
<1>1. OrchestratorInit => HoldInv
  <2> SUFFICES ASSUME OrchestratorInit PROVE HoldInv
    OBVIOUS
  <2>1. OrchestratorTypeOK
    BY OrchestratorTypeInit
  <2>2. \A i \in Ids : services[i].name = i /\ services[i].cid = NoId
    BY DEF OrchestratorInit, Loaded, NewService, Ids
  <2>3. docker.next = 1 /\ \A n \in Names : docker.cont[n] = NoId
    BY DEF OrchestratorInit
  <2> QED
    BY <2>1, <2>2, <2>3 DEF HoldInv, NameIsId, IdsAreOld, OneName, HoldsItsOwn, OneHolder, Exists, NoId
<1>2. HoldInv /\ [OrchestratorNext]_orchestratorVars => HoldInv'
  <2> SUFFICES ASSUME HoldInv, [OrchestratorNext]_orchestratorVars PROVE HoldInv'
    OBVIOUS
  <2>0. OrchestratorTypeOK /\ OrchestratorTypeOK'
    BY OrchestratorTypeStep DEF HoldInv
  <2> USE <2>0, OrchestratorAssumption DEF Ids
  <2>a. docker.next \in Nat /\ docker.next > 0
    BY DEF OrchestratorTypeOK, Daemon
  <2>1. ASSUME NEW n \in Names, NEW compose \in BOOLEAN, NEW auto \in BOOLEAN,
               CreateService(n, compose, auto)
        PROVE  HoldInv'
    <3>1. /\ docker' = docker /\ Ids' = Ids \cup {n}
          /\ services'[n].name = n /\ services'[n].cid = NoId
          /\ \A i \in Ids : services'[i] = services[i]
      BY <2>1 DEF CreateService, NewService
    <3> QED
      BY <2>a, <3>1 DEF HoldInv, NameIsId, IdsAreOld, OneName, HoldsItsOwn, OneHolder, Exists, NoId
  <2>2. ASSUME NEW id \in Ids, UpdateService(id) PROVE HoldInv'
    <3>1. /\ docker' = docker /\ Ids' = Ids
          /\ \A i \in Ids : services'[i].name = services[i].name
                           /\ services'[i].cid = services[i].cid
      <4>1. PICK e \in Edited(services[id]) : services' = [services EXCEPT ![id] = e]
        BY <2>2 DEF UpdateService
      <4>2. e.name = services[id].name /\ e.cid = services[id].cid
        BY EditedIsService DEF OrchestratorTypeOK
      <4> QED
        BY <2>2, <4>1, <4>2 DEF UpdateService, OrchestratorTypeOK
    <3> QED
      BY <3>1 DEF HoldInv, NameIsId, IdsAreOld, OneName, HoldsItsOwn, OneHolder, Exists
  <2>3. ASSUME NEW id \in Ids, DeleteService(id) PROVE HoldInv'
    <3>1. PICK o \in Sleep(id, services[id], docker, container_map) :
                 /\ services' = [i \in Ids \ {id} |-> services[i]]
                 /\ docker' = o.docker /\ container_map' = o.map
      BY <2>3 DEF DeleteService
    <3>2. KeepsContainers(services[id], docker, o)
      BY SleepIsLegal DEF MapType, OrchestratorTypeOK
    <3>3. /\ docker'.cont = docker.cont /\ docker'.next = docker.next
          /\ Ids' \subseteq Ids /\ \A i \in Ids' : services'[i] = services[i]
      BY <3>1, <3>2 DEF KeepsContainers
    <3> QED
      BY <3>3 DEF HoldInv, NameIsId, IdsAreOld, OneName, HoldsItsOwn, OneHolder, Exists
  <2>4. ASSUME NEW id \in Ids, WakeService(id) PROVE HoldInv'
    BY <2>4, WakeIsLegal, ApplyKeepsHold DEF WakeService, MapType, OrchestratorTypeOK
  <2>5. ASSUME NEW id \in Ids, SleepService(id) PROVE HoldInv'
    BY <2>5, SleepIsLegal, ApplyKeepsHold DEF SleepService, MapType, OrchestratorTypeOK
  <2>6. ASSUME NEW id \in Ids, IsServiceRunning(id) PROVE HoldInv'
    <3>1. /\ docker' = docker /\ Ids' = Ids
          /\ \A i \in Ids : /\ services'[i].name = services[i].name
                           /\ services'[i].cid \in {services[i].cid, NoId}
      BY <2>6 DEF IsServiceRunning, Probed, OrchestratorTypeOK, Service
    <3> QED
      BY <2>a, <3>1 DEF HoldInv, NameIsId, IdsAreOld, OneName, HoldsItsOwn, OneHolder, Exists, NoId
  <2>7. ASSUME NEW n \in Names, ContainerExits(n) PROVE HoldInv'
    <3>1. /\ docker'.cont = docker.cont /\ docker'.next = docker.next /\ services' = services
      BY <2>7 DEF ContainerExits, OrchestratorTypeOK, Daemon
    <3> QED
      BY <3>1 DEF HoldInv, NameIsId, IdsAreOld, OneName, HoldsItsOwn, OneHolder, Exists
  <2>8. ASSUME NEW n \in Names, ContainerRemoved(n) PROVE HoldInv'
    <3>1. docker.cont \in [Names -> Containers \cup {NoId}]
      BY DEF OrchestratorTypeOK, Daemon
    <3>2. /\ docker'.next = docker.next /\ services' = services
          /\ \A k \in Names : docker'.cont[k] = IF k = n THEN NoId ELSE docker.cont[k]
      BY <2>8, <3>1 DEF ContainerRemoved, OrchestratorTypeOK, Daemon
    <3> QED
      BY <2>a, <3>2 DEF HoldInv, NameIsId, IdsAreOld, OneName, HoldsItsOwn, OneHolder, Exists, NoId, OrchestratorTypeOK
  <2>9. CASE Restart
    <3>1. /\ docker' = docker
          /\ \A i \in Ids' : services'[i].name = i /\ services'[i].cid = NoId
      BY <2>9 DEF Restart, Loaded, NewService
    <3> QED
      BY <2>a, <3>1 DEF HoldInv, NameIsId, IdsAreOld, OneName, HoldsItsOwn, OneHolder, Exists, NoId
  <2>10. CASE UNCHANGED orchestratorVars
    BY <2>10 DEF orchestratorVars, HoldInv, NameIsId, IdsAreOld, OneName, HoldsItsOwn, OneHolder, Exists
  <2> QED
    BY <2>1, <2>2, <2>3, <2>4, <2>5, <2>6, <2>7, <2>8, <2>9, <2>10 DEF OrchestratorNext, ClientStep, DockerStep
<1>3. HoldInv => OneHolder /\ HoldsItsOwn
  BY DEF HoldInv
<1> QED
  BY <1>1, <1>2, <1>3, PTL DEF OrchestratorSpec

(* Both together, as the runs check them.                                  *)
THEOREM ContainersOwnedHolds ==
    ASSUME OrchestratorAssumption, "name" \notin Edits
    PROVE  OrchestratorSpec => []ContainersOwned
<1>1. OneHolder /\ HoldsItsOwn => ContainersOwned
  BY DEF ContainersOwned
<1> QED
  BY OneHolderHolds, <1>1, PTL

-----------------------------------------------------------------------------
(* What runs is listed, when Docker answers.                               *)

(* The hypotheses: Docker's calls do not fail, the process does not        *)
(* restart, and clients change nothing but the policy of a service.        *)
Calm == DockerFails = FALSE /\ Restarts = FALSE /\ Edits \subseteq {"policy", "idleRuntime"}

(* What a daemon runs under a name is what that name's entry lists as      *)
(* running, by its id.                                                     *)
Lists(svc, d, n) == svc.status = "running" /\ ~svc.compose /\ svc.cid = d.cont[n]

RunsListed ==
    /\ \A i \in Ids : services[i].name = i
    /\ \A n \in docker.up : n \in Ids /\ Lists(services[n], docker, n)

CalmInv == OrchestratorTypeOK /\ RunsListed

(* An outcome touches the containers of its own name only, and lists what  *)
(* it leaves running there.                                                *)
Listing(svc, d, o) ==
    /\ o.svc.name = svc.name
    /\ \A n \in Names \ {svc.name} :
          o.docker.cont[n] = d.cont[n] /\ (n \in o.docker.up => n \in d.up)
    /\ svc.name \in o.docker.up => Lists(o.svc, o.docker, svc.name)

LEMMA WakeLists ==
    ASSUME OrchestratorAssumption, Calm,
           NEW id \in Names, NEW svc \in Service, NEW d \in Daemon, NEW m \in MapType,
           svc.name \in d.up => Lists(svc, d, svc.name),
           NEW o \in Wake(id, svc, d, m)
    PROVE  Listing(svc, d, o)
<1> USE DEF Service, Daemon, Containers, NoId, Outcome, Listing, Lists
<1>1. CASE svc.compose
  <2>1. o = Outcome([svc EXCEPT !.status = "running"], [d EXCEPT !.proj = @ \cup {id}], m, TRUE)
    BY <1>1 DEF Wake, StartCompose, Failed, Calm
  <2> QED
    BY <1>1, <2>1
<1>2. CASE ~svc.compose
  <2>1. CASE o = Adopt(svc, d, m)
    BY <1>2, <2>1 DEF Adopt
  <2>2. CASE o = Run(id, svc, d, m)
    <3>1. /\ o.svc = [svc EXCEPT !.status = "running", !.cid = d.next]
          /\ o.docker = [Created(svc, d) EXCEPT !.up = @ \cup {svc.name}]
      BY <2>2 DEF Run
    <3>2. /\ o.docker.up = d.up \cup {svc.name}
          /\ o.docker.cont = [d.cont EXCEPT ![svc.name] = d.next]
      BY <3>1 DEF Created
    <3>3. o.svc.name = svc.name /\ o.svc.status = "running" /\ ~o.svc.compose /\ o.svc.cid = d.next
      BY <1>2, <3>1
    <3> QED
      BY <3>2, <3>3
  <2> QED
    BY <1>2, <2>1, <2>2 DEF Wake, StartImage, Failed, Calm
<1> QED
  BY <1>1, <1>2

LEMMA SleepLists ==
    ASSUME OrchestratorAssumption, Calm,
           NEW id \in Names, NEW svc \in Service, NEW d \in Daemon, NEW m \in MapType,
           svc.name \in d.up => Lists(svc, d, svc.name),
           NEW o \in Sleep(id, svc, d, m)
    PROVE  Listing(svc, d, o) /\ svc.name \notin o.docker.up
<1> USE DEF Service, Daemon, Containers, NoId, Outcome, Listing, Lists
<1>1. CASE svc.compose
  BY <1>1 DEF Sleep, Slept, StopCompose, Calm
<1>2. CASE ~svc.compose
  <2>1. o = StopImage(svc, d, m)
    BY <1>2 DEF Sleep, Slept, Calm
  <2> DEFINE target == IF svc.cid # NoId THEN {n \in Names : d.cont[n] = svc.cid} ELSE {svc.name}
  <2>2. /\ o.svc.name = svc.name /\ o.docker.cont = d.cont /\ o.docker.up = d.up \ target
    BY <2>1 DEF StopImage
  <2>3. svc.name \in d.up => svc.name \in target
    OBVIOUS
  <2> HIDE DEF target
  <2> QED
    BY <2>2, <2>3
<1> QED
  BY <1>1, <1>2

(* Writing back one entry by such an outcome.                              *)
LEMMA ListingKeeps ==
    ASSUME CalmInv, NEW id \in Ids, NEW o, o.docker \in Daemon,
           Listing(services[id], docker, o), docker' = o.docker,
           \/ services' = [services EXCEPT ![id] = o.svc]
           \/ services' = [i \in Ids \ {id} |-> services[i]] /\ id \notin o.docker.up
    PROVE  RunsListed'
<1>1. services[id].name = id /\ id \in Names /\ docker.up \subseteq Names /\ docker'.up \subseteq Names
  BY DEF CalmInv, RunsListed, OrchestratorTypeOK, Daemon
<1>2. \A n \in docker'.up \ {id} : n \in Ids /\ services'[n] = services[n] /\ n \in Ids'
  BY <1>1 DEF CalmInv, RunsListed, Listing, Ids
<1>3. \A n \in docker'.up \ {id} : Lists(services'[n], docker', n)
  BY <1>1, <1>2 DEF CalmInv, RunsListed, Listing, Lists
<1>4. id \in docker'.up => id \in Ids' /\ Lists(services'[id], docker', id)
  BY <1>1 DEF Listing, Ids
<1>5. \A i \in Ids' : services'[i].name = i
  BY <1>1 DEF Listing, Ids, CalmInv, RunsListed
<1> QED
  BY <1>3, <1>2, <1>4, <1>5 DEF RunsListed

LEMMA RunsListedStep ==
    ASSUME OrchestratorAssumption, Calm, CalmInv, [OrchestratorNext]_orchestratorVars
    PROVE  RunsListed'
<1>0. /\ OrchestratorTypeOK /\ Ids \subseteq Names /\ \A i \in Ids : services[i] \in Service
      /\ docker \in Daemon /\ container_map \in MapType
      /\ \A i \in Ids : services[i].name = i
      /\ \A i \in Ids : services[i].name \in docker.up => Lists(services[i], docker, services[i].name)
  BY DEF CalmInv, RunsListed, OrchestratorTypeOK, MapType
<1>1. ASSUME NEW n \in Names, NEW compose \in BOOLEAN, NEW auto \in BOOLEAN,
             CreateService(n, compose, auto)
      PROVE  RunsListed'
  BY <1>1 DEF CreateService, NewService, CalmInv, RunsListed, Ids
<1>2. ASSUME NEW id \in Ids, UpdateService(id) PROVE RunsListed'
  <2>1. PICK e \in Edited(services[id]) : services' = [services EXCEPT ![id] = e]
    BY <1>2 DEF UpdateService
  <2>2. \/ \E b \in BOOLEAN : e = [services[id] EXCEPT !.auto = b]
        \/ services[id].status = "stopped" /\ \E b \in BOOLEAN : e = [services[id] EXCEPT !.compose = b]
    BY <2>1 DEF Edited, Calm
  <2>3. /\ e.name = services[id].name /\ e.status = services[id].status
        /\ e.cid = services[id].cid
        /\ services[id].status = "running" => e.compose = services[id].compose
    BY <1>0, <2>2 DEF Service
  <2> QED
    BY <1>2, <2>1, <2>3 DEF UpdateService, CalmInv, RunsListed, Lists, Ids
<1>3. ASSUME NEW id \in Ids, DeleteService(id) PROVE RunsListed'
  <2>1. PICK o \in Sleep(id, services[id], docker, container_map) :
               services' = [i \in Ids \ {id} |-> services[i]] /\ docker' = o.docker
    BY <1>3 DEF DeleteService
  <2>2. Listing(services[id], docker, o) /\ id \notin o.docker.up
    BY <1>0, SleepLists
  <2>3. o.docker \in Daemon
    BY <1>0, SleepIsLegal DEF Legal
  <2> QED
    BY <2>1, <2>2, <2>3, ListingKeeps
<1>4. ASSUME NEW id \in Ids, WakeService(id) PROVE RunsListed'
  <2>1. PICK o \in Wake(id, services[id], docker, container_map) : Apply(id, o)
    BY <1>4 DEF WakeService
  <2>2. Listing(services[id], docker, o) /\ o.docker \in Daemon
    BY <1>0, WakeLists, WakeIsLegal DEF Legal
  <2> QED
    BY <2>1, <2>2, ListingKeeps DEF Apply
<1>5. ASSUME NEW id \in Ids, SleepService(id) PROVE RunsListed'
  <2>1. PICK o \in Sleep(id, services[id], docker, container_map) : Apply(id, o)
    BY <1>5 DEF SleepService
  <2>2. Listing(services[id], docker, o) /\ o.docker \in Daemon
    BY <1>0, SleepLists, SleepIsLegal DEF Legal
  <2> QED
    BY <2>1, <2>2, ListingKeeps DEF Apply
<1>6. ASSUME NEW id \in Ids, IsServiceRunning(id) PROVE RunsListed'
  <2>1. services' = [services EXCEPT ![id] = Probed(services[id], docker)] /\ docker' = docker
    BY <1>6 DEF IsServiceRunning
  <2> DEFINE p == Probed(services[id], docker)
  <2>2. p.name = services[id].name
    BY <1>0 DEF Probed, Service
  <2>3. ASSUME id \in docker.up PROVE Lists(p, docker, id)
    <3>1. Lists(services[id], docker, id)
      BY <1>0, <2>3
    <3>2. services[id].cid # NoId => Exists(docker, services[id].cid)
      BY <1>0, <3>1 DEF Exists, Lists
    <3>3. CASE services[id].cid = NoId
      BY <3>1, <3>3 DEF Probed
    <3>4. CASE services[id].cid # NoId
      <4>1. p = [services[id] EXCEPT !.status = "running"]
        BY <2>3, <3>1, <3>2, <3>4 DEF Probed, Lists
      <4> HIDE DEF p
      <4> QED
        BY <1>0, <3>1, <4>1 DEF Lists, Service
    <3> QED
      BY <3>3, <3>4
  <2> HIDE DEF p
  <2>4. \A n \in docker.up \ {id} : Lists(services[n], docker, n)
    BY DEF CalmInv, RunsListed
  <2>5. services' = [services EXCEPT ![id] = p]
    BY <2>1 DEF p
  <2> QED
    BY <1>0, <2>1, <2>2, <2>3, <2>4, <2>5 DEF CalmInv, RunsListed, Ids
<1>7. ASSUME NEW n \in Names, ContainerExits(n) \/ ContainerRemoved(n) PROVE RunsListed'
  <2>1. /\ services' = services /\ docker'.up = docker.up \ {n}
        /\ \A k \in Names \ {n} : docker'.cont[k] = docker.cont[k]
    <3>1. CASE ContainerExits(n)
      BY <1>0, <3>1 DEF ContainerExits, Daemon
    <3>2. CASE ContainerRemoved(n)
      <4>1. /\ services' = services
            /\ docker' = [docker EXCEPT !.up = docker.up \ {n}, !.cont = [docker.cont EXCEPT ![n] = NoId]]
        BY <3>2 DEF ContainerRemoved
      <4> QED
        BY <1>0, <4>1 DEF Daemon
    <3> QED
      BY <1>7, <3>1, <3>2
  <2> QED
    BY <1>0, <2>1 DEF CalmInv, RunsListed, Lists, Ids, Daemon
<1>8. CASE UNCHANGED orchestratorVars
  BY <1>8 DEF orchestratorVars, CalmInv, RunsListed, Lists, Ids
<1> QED
  BY <1>1, <1>2, <1>3, <1>4, <1>5, <1>6, <1>7, <1>8
     DEF OrchestratorNext, ClientStep, DockerStep, Restart, Calm

(* While Docker answers, the process lives on and clients change nothing   *)
(* but policies, and what a stopped service runs on: what runs is listed   *)
(* as running, under its own id.  So the monitor, which puts to sleep what *)
(* is listed as running, overlooks nothing, and delete_service finds what  *)
(* it has to stop.                                                         *)
THEOREM RunsListedHolds ==
    ASSUME OrchestratorAssumption, Calm
    PROVE  OrchestratorSpec => [](StoppedMeansStopped /\ NoOrphan)
<1>1. OrchestratorInit => CalmInv
  BY OrchestratorTypeInit
     DEF OrchestratorInit, Loaded, NewService, CalmInv, RunsListed, Ids
<1>2. CalmInv /\ [OrchestratorNext]_orchestratorVars => CalmInv'
  BY RunsListedStep, OrchestratorTypeStep DEF CalmInv
<1>3. CalmInv => StoppedMeansStopped /\ NoOrphan
  BY DEF CalmInv, RunsListed, Lists, StoppedMeansStopped, NoOrphan, OrchestratorTypeOK, Daemon
<1> QED
  BY <1>1, <1>2, <1>3, PTL DEF OrchestratorSpec
=============================================================================
