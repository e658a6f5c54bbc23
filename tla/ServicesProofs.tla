---------------------------- MODULE ServicesProofs ----------------------------
(***************************************************************************)
(* Proofs about the services beside one another, from the invariants that  *)
(* the other modules of proofs have for each of them; and about those that *)
(* have no such module: the alerts and the mobile cache.                   *)
(***************************************************************************)
EXTENDS Services, LogProofs, MonitoringProofs, ReleaseProofs, ComposeProofs,
        OrchestratorProofs, FiniteSetTheorems, SequenceTheorems, WellFoundedInduction,
        TLAPS

(***************************************************************************)
(* Alerts.                                                                 *)
(***************************************************************************)

(* Restarts that have not come to an end leave room for their workers.     *)
RestartsLeft == {q \in AlertRestarts : alertRestarts[q] # "done"}
RoomForWorkers == started + Cardinality(RestartsLeft) <= 1 + Cardinality(AlertRestarts)

(* OneAlert without counting.                                              *)
OneOpen == \A r \in Rules : \A i, j \in Open(r) : i = j

AlertInv == AlertTypeOK /\ RoomForWorkers /\ OneOpen

LEMMA AlertNumbers ==
    /\ Pairs = 1 .. 1 + Cardinality(AlertRestarts) /\ Cardinality(AlertRestarts) \in Nat
    /\ Cardinality(Pairs) = 1 + Cardinality(AlertRestarts)
    /\ \A S \in SUBSET Rules : Cardinality(S) \in 0 .. Cardinality(Rules)
<1>1. Cardinality(AlertRestarts) \in Nat /\ Cardinality(Rules) \in Nat
    BY AlertAssumption, FS_CardinalityType DEF AlertAssumption
<1>2. Cardinality(Pairs) = 1 + Cardinality(AlertRestarts)
    BY <1>1, FS_Interval DEF Pairs
<1>3. ASSUME NEW S \in SUBSET Rules PROVE Cardinality(S) \in 0 .. Cardinality(Rules)
  <2>1. IsFiniteSet(S) /\ Cardinality(S) <= Cardinality(Rules)
      BY AlertAssumption, FS_Subset DEF AlertAssumption
  <2> QED
      BY <1>1, <2>1, FS_CardinalityType
<1> QED
    BY <1>1, <1>2, <1>3 DEF Pairs

LEMMA AlertConstants ==
    /\ NoAlert \in AlertType /\ NoAlert.state = "none" /\ NoAlert.level = 1
    /\ MonitorOff \in MonitorType /\ Asleep \in MonitorType
    /\ Suppression \in Nat /\ EscalationDelay \in Nat /\ EscalationDelay # 0
    BY AlertAssumption, AlertNumbers
    DEF AlertAssumption, NoAlert, AlertType, MonitorOff, Asleep, MonitorType

LEMMA AlertInitially == AlertInit => AlertInv
<1> SUFFICES ASSUME AlertInit PROVE AlertInv
    OBVIOUS
<1> USE AlertAssumption, AlertNumbers, AlertConstants DEF AlertAssumption, AlertInit
<1>1. AlertTypeOK
    BY DEF AlertTypeOK, EscalatorType
<1>2. RestartsLeft = AlertRestarts
    BY DEF RestartsLeft
<1>3. RoomForWorkers
    BY <1>2 DEF RoomForWorkers
<1>4. \A r \in Rules : Open(r) = {}
    BY DEF Open
<1> QED
    BY <1>1, <1>3, <1>4 DEF AlertInv, OneOpen

(* Resolving alerts closes some, and makes the escalators forget them.     *)
LEMMA ResolveCloses ==
    ASSUME AlertTypeOK, NEW S, Resolve(S)
    PROVE  /\ alerts' \in [AlertIds -> AlertType] /\ escalators' \in [Pairs -> EscalatorType]
           /\ \A i \in AlertIds : alerts'[i] \in {alerts[i], NoAlert}
<1>1. \A w \in Pairs : [escalators[w] EXCEPT !.todo = escalators[w].todo \ S] \in EscalatorType
    BY DEF AlertTypeOK, EscalatorType
<1> QED
    BY <1>1, AlertConstants DEF AlertTypeOK, Resolve

(* What a step does to the alerts: it opens one of a rule that has none, or *)
(* lets one climb, or changes no level but when it closes an alert.        *)
Opens == \E i \in AlertIds : 
            /\ Open(i[1]) = {} 
            /\ alerts' = [alerts EXCEPT ![i] = [NoAlert EXCEPT !.state = "active"]]
Climbs == \E i \in AlertIds : 
            /\ ShouldEscalate(i)
            /\ alerts' = [alerts EXCEPT ![i].level = @ + 1, ![i].age = 0]
Stays == \A i \in AlertIds : 
            \/ alerts'[i] \in {alerts[i], NoAlert}
            \/ alerts[i].state # "none" /\ alerts'[i].level = alerts[i].level

LEMMA AlertStep ==
    ASSUME AlertInv, [AlertNext]_alertVars
    PROVE  AlertTypeOK' /\ RoomForWorkers' /\ (Opens \/ Climbs \/ Stays)
<1> USE AlertNumbers, AlertConstants DEF AlertInv, AlertTypeOK
<1>0. /\ alerts' = alerts => Stays
      /\ alertRestarts' = alertRestarts /\ started' = started => RoomForWorkers'
    BY DEF Stays, RoomForWorkers, RestartsLeft
<1>1. CASE AlertTick
  <2>1. \A i \in AlertIds : \/ alerts'[i] = alerts[i]
                            \/ /\ alerts[i].state # "none" /\ alerts[i].age # EscalationDelay
                               /\ alerts'[i] = [alerts[i] EXCEPT !.age = alerts[i].age + 1]
      BY <1>1 DEF AlertTick
  <2>2. ASSUME NEW i \in AlertIds PROVE alerts'[i] \in AlertType /\ alerts'[i].level = alerts[i].level
    <3>1. alerts[i] \in AlertType
        OBVIOUS
    <3>2. CASE alerts[i].age # EscalationDelay /\ alerts'[i] = [alerts[i] EXCEPT !.age = alerts[i].age + 1]
      <4>1. alerts[i].age + 1 \in 0 .. EscalationDelay
          BY <3>1, <3>2 DEF AlertType
      <4> QED
          BY <3>1, <3>2, <4>1 DEF AlertType
    <3> QED
        BY <2>1, <3>1, <3>2
  <2>3. alerts' \in [AlertIds -> AlertType] /\ suppressed' \in [Rules -> 0 .. Suppression]
      BY <1>1, <2>2 DEF AlertTick
  <2>4. Stays
      BY <2>1, <2>2 DEF Stays
  <2> QED
      BY <1>0, <1>1, <2>3, <2>4 DEF AlertTick, workerVars
<1>2. CASE ChangeRules
    BY <1>0, <1>2, AlertAssumption DEF AlertAssumption, ChangeRules, workerVars
<1>3. ASSUME NEW r \in Rules, Measure(r) PROVE AlertTypeOK' /\ RoomForWorkers' /\ Stays
    BY <1>0, <1>3 DEF Measure, workerVars
<1>4. ASSUME NEW w \in Pairs, MonitorWake(w) PROVE AlertTypeOK' /\ RoomForWorkers' /\ Stays
  <2>1. [Asleep EXCEPT !.pc = "pass", !.size = Cardinality(rules)] \in MonitorType
      BY DEF Asleep, MonitorOff, MonitorType
  <2> QED
      BY <1>0, <1>4, <2>1 DEF MonitorWake
<1>5. ASSUME NEW w \in Pairs, NEW r \in Rules, Evaluate(w, r)
      PROVE  AlertTypeOK' /\ RoomForWorkers' /\ (Opens \/ Stays)
  <2> DEFINE done == [monitors EXCEPT ![w].done = @ \cup {r}]
             held == [monitors EXCEPT ![w].pc = "notify", ![w].rule = {r}]
  <2>1. done \in [Pairs -> MonitorType] /\ held \in [Pairs -> MonitorType]
      BY DEF MonitorType
  <2> HIDE DEF done, held
  <2>2. RoomForWorkers' /\ UNCHANGED <<serving, rules, ruleChanges, metric, suppressed, current, started, alertRestarts>>
      BY <1>0, <1>5 DEF Evaluate
  <2>3. CASE Trigger(w, r) /\ UNCHANGED escalators
    <3>1. CASE alerts' = alerts /\ monitors' = done
        BY <1>0, <2>1, <2>2, <2>3, <3>1
    <3>2. CASE ~(alerts' = alerts /\ monitors' = done)
      <4>1. /\ Open(r) = {} /\ monitors' = held
            /\ \E i \in AlertIds : /\ i[1] = r 
                                   /\ alerts' = [alerts EXCEPT ![i] = [NoAlert EXCEPT !.state = "active"]]
          BY <2>3, <3>2 DEF Trigger, done, held
      <4>2. [NoAlert EXCEPT !.state = "active"] \in AlertType
          BY DEF NoAlert, AlertType
      <4>3. Opens
          BY <4>1 DEF Opens
      <4> QED
          BY <2>1, <2>2, <2>3, <4>1, <4>2, <4>3
    <3> QED
        BY <3>1, <3>2
  <2>4. CASE Resolve(Resolvable(r)) /\ monitors' = done
      BY <2>1, <2>2, <2>4, ResolveCloses DEF Stays
  <2>5. CASE UNCHANGED <<alerts, escalators>> /\ monitors' = done
      BY <1>0, <2>1, <2>2, <2>5
  <2> QED
      BY <1>5, <2>3, <2>4, <2>5 DEF Evaluate, done
<1>6. ASSUME NEW w \in Pairs, Notified(w) PROVE AlertTypeOK' /\ RoomForWorkers' /\ Stays
  <2> DEFINE m == [monitors[w] EXCEPT !.pc = "pass", !.rule = {}, 
                                      !.done = monitors[w].done \cup monitors[w].rule]
  <2>0. monitors[w] \in MonitorType
      OBVIOUS
  <2>2. m \in MonitorType
      BY <2>0 DEF MonitorType
  <2>1. monitors' = [monitors EXCEPT ![w] = m]
      BY <1>6 DEF Notified
  <2> HIDE DEF m
  <2>3. monitors' \in [Pairs -> MonitorType]
      BY <2>1, <2>2
  <2>4. suppressed' \in [Rules -> 0 .. Suppression]
      BY <1>6 DEF Notified
  <2> QED
      BY <1>0, <1>6, <2>3, <2>4 DEF Notified
<1>7. ASSUME NEW w \in Pairs, PassEnds(w) PROVE AlertTypeOK' /\ RoomForWorkers' /\ Stays
    BY <1>0, <1>7 DEF PassEnds
<1>8. ASSUME NEW w \in Pairs, EscalatorWake(w) PROVE AlertTypeOK' /\ RoomForWorkers' /\ Stays
    BY <1>0, <1>8 DEF EscalatorWake, EscalatorType
<1>9. ASSUME NEW w \in Pairs, NEW i \in AlertIds, Escalate(w, i)
      PROVE  AlertTypeOK' /\ RoomForWorkers' /\ (Climbs \/ Stays)
  <2>1. escalators' \in [Pairs -> EscalatorType]
      BY <1>9 DEF Escalate, EscalatorType
  <2>2. CASE ShouldEscalate(i)
    <3>1. alerts' = [alerts EXCEPT ![i].level = @ + 1, ![i].age = 0]
        BY <1>9, <2>2 DEF Escalate
    <3>2. alerts' \in [AlertIds -> AlertType]
        BY <2>2, <3>1 DEF ShouldEscalate, AlertType
    <3> QED
        BY <1>0, <1>9, <2>1, <2>2, <3>1, <3>2 DEF Escalate, Climbs
  <2>3. CASE ~ShouldEscalate(i)
      BY <1>0, <1>9, <2>1, <2>3 DEF Escalate
  <2> QED
      BY <2>2, <2>3
<1>10. ASSUME NEW w \in Pairs, EscalationEnds(w) PROVE AlertTypeOK' /\ RoomForWorkers' /\ Stays
  <2>1. [escalators[w] EXCEPT !.pc = "sleep"] \in EscalatorType
      BY DEF EscalatorType
  <2>2. escalators' = [escalators EXCEPT ![w] = [escalators[w] EXCEPT !.pc = "sleep"]]
      BY <1>10 DEF EscalationEnds
  <2> QED
      BY <1>0, <1>10, <2>1, <2>2 DEF EscalationEnds
<1>11. ASSUME NEW w \in Pairs, WorkerEnds(w) PROVE AlertTypeOK' /\ RoomForWorkers' /\ Stays
  <2>1. \/ monitors' = [monitors EXCEPT ![w] = MonitorOff] /\ UNCHANGED escalators
        \/ escalators' = [escalators EXCEPT ![w].pc = "off"] /\ UNCHANGED monitors
      BY <1>11 DEF WorkerEnds
  <2>2. monitors' \in [Pairs -> MonitorType] /\ escalators' \in [Pairs -> EscalatorType]
      BY <2>1 DEF EscalatorType
  <2> QED
      BY <1>0, <1>11, <2>2 DEF WorkerEnds
<1>12. ASSUME NEW i \in AlertIds, Acknowledge(i) PROVE AlertTypeOK' /\ RoomForWorkers' /\ Stays
  <2>1. alerts[i].state # "none" /\ alerts' = [alerts EXCEPT ![i].state = "acknowledged"]
      BY <1>12 DEF Acknowledge
  <2>2. alerts' \in [AlertIds -> AlertType] /\ \A j \in AlertIds : alerts'[j].level = alerts[j].level
      BY <2>1 DEF AlertType
  <2>3. Stays
      BY <2>1, <2>2 DEF Stays
  <2> QED
      BY <1>0, <1>12, <2>2, <2>3 DEF Acknowledge, workerVars
<1>13. ASSUME NEW i \in AlertIds, ResolveByHand(i) PROVE AlertTypeOK' /\ RoomForWorkers' /\ Stays
    BY <1>0, <1>13, ResolveCloses DEF ResolveByHand, Stays
<1>14. ASSUME NEW q \in AlertRestarts, RestartAlerts(q) PROVE AlertTypeOK' /\ RoomForWorkers' /\ Stays
  <2>1. /\ IsFiniteSet(RestartsLeft) /\ Cardinality(RestartsLeft) \in Nat
        /\ q \in RestartsLeft => Cardinality(RestartsLeft \ {q}) = Cardinality(RestartsLeft) - 1
      BY AlertAssumption, FS_Subset, FS_CardinalityType, FS_RemoveElement DEF AlertAssumption, RestartsLeft
  <2>3. CASE StopService(q)
    <3>1. RestartsLeft' = RestartsLeft
        BY <2>3 DEF StopService, RestartsLeft
    <3>2. [pc |-> "off", todo |-> {}] \in EscalatorType
        BY DEF EscalatorType
    <3>3. monitors' \in [Pairs -> MonitorType] /\ escalators' \in [Pairs -> EscalatorType]
        BY <2>3, <3>2 DEF StopService
    <3> QED
        BY <1>0, <2>3, <3>1, <3>3 DEF StopService, RoomForWorkers
  <2>4. CASE StartService(q)
    <3>1. q \in RestartsLeft /\ RestartsLeft' \in {RestartsLeft, RestartsLeft \ {q}}
        BY <2>4 DEF StartService, RestartsLeft
    <3>2. Cardinality(RestartsLeft') <= Cardinality(RestartsLeft) /\ Cardinality(RestartsLeft') \in Nat
        BY <2>1, <3>1, FS_Subset, FS_CardinalityType
    <3> QED
        BY <1>0, <2>1, <2>4, <3>2 DEF StartService, RoomForWorkers, workerVars
  <2>5. CASE CreateWorkers(q)
    <3>0. q \in RestartsLeft /\ RestartsLeft' = RestartsLeft \ {q}
        BY <2>5 DEF CreateWorkers, RestartsLeft
    <3>1. /\ Cardinality(RestartsLeft') = Cardinality(RestartsLeft) - 1 /\ started' = started + 1
          /\ Cardinality(RestartsLeft') \in Nat
        BY <2>1, <2>5, <3>0, FS_Subset, FS_CardinalityType DEF CreateWorkers
    <3>2. RoomForWorkers' /\ started + 1 \in Pairs
        BY <2>1, <3>1 DEF RoomForWorkers
    <3>3. [escalators[started + 1] EXCEPT !.pc = "sleep"] \in EscalatorType
        BY <3>2 DEF EscalatorType
    <3>4. escalators' \in [Pairs -> EscalatorType] /\ monitors' \in [Pairs -> MonitorType]
        BY <2>5, <3>2, <3>3 DEF CreateWorkers
    <3> QED
        BY <1>0, <2>5, <3>2, <3>4 DEF CreateWorkers
  <2> QED
      BY <1>14, <2>3, <2>4, <2>5 DEF RestartAlerts, GoesOn
<1>15. CASE UNCHANGED alertVars
    BY <1>0, <1>15 DEF alertVars, workerVars
<1> QED
    BY <1>1, <1>2, <1>3, <1>4, <1>5, <1>6, <1>7, <1>8, <1>9, <1>10, <1>11, <1>12, <1>13, <1>14, <1>15
    DEF AlertNext, Monitor, Escalator

LEMMA AlertInvStep == ASSUME AlertInv, [AlertNext]_alertVars PROVE AlertInv'
<1>1. AlertTypeOK' /\ RoomForWorkers' /\ (Opens \/ Climbs \/ Stays)
    BY AlertStep
<1>2. CASE Opens
  <2>1. PICK i \in AlertIds : 
          /\ Open(i[1]) = {} 
          /\ alerts' = [alerts EXCEPT ![i] = [NoAlert EXCEPT !.state = "active"]]
      BY <1>2 DEF Opens
  <2>2. \A j \in AlertIds : alerts'[j].state # "none" => j = i \/ (alerts[j].state # "none" /\ j[1] # i[1])
      BY <2>1 DEF AlertInv, AlertTypeOK, Open
  <2> QED
      BY <1>1, <2>2 DEF AlertInv, OneOpen, Open
<1>3. CASE Climbs \/ Stays
  <2>1. \A i \in AlertIds : alerts'[i].state # "none" => alerts[i].state # "none"
      BY <1>3, AlertConstants DEF Climbs, Stays, ShouldEscalate, AlertInv, AlertTypeOK, AlertType
  <2> QED
      BY <1>1, <2>1 DEF AlertInv, OneOpen, Open
<1> QED
    BY <1>1, <1>2, <1>3

LEMMA AlertInvHolds == AlertSpec => []AlertInv
    BY AlertInitially, AlertInvStep, PTL DEF AlertSpec

(* A rule never has two alerts (alerts_service.py: _trigger_alert).        *)
THEOREM OneAlertHolds == AlertSpec => []OneAlert
<1>1. AlertInv => OneAlert
  <2> SUFFICES ASSUME AlertInv, NEW r \in Rules PROVE Cardinality(Open(r)) <= 1
      BY DEF OneAlert
  <2>1. CASE Open(r) = {}
      BY <2>1, FS_EmptySet
  <2>2. CASE Open(r) # {}
    <3>1. PICK i : i \in Open(r)
        BY <2>2
    <3>2. Open(r) = {i}
        BY <3>1 DEF AlertInv, OneOpen
    <3>3. Cardinality({i}) = 1
        BY FS_Singleton
    <3> QED
        BY <3>2, <3>3
  <2> QED
      BY <2>1, <2>2
<1> QED
    BY AlertInvHolds, <1>1, PTL

(* An alert climbs one level at a time, late enough, and only while nobody *)
(* has acknowledged it (alerts_service.py: _should_escalate_alert).        *)
THEOREM EscalationKeptHolds == AlertSpec => EscalationKept
<1>1. ASSUME AlertInv, [AlertNext]_alertVars
      PROVE  [\A i \in AlertIds : (alerts[i].state # "none" /\ alerts'[i].level > alerts[i].level) =>
                /\ alerts[i].state = "active" /\ alerts[i].age = EscalationDelay
                /\ alerts'[i].level = alerts[i].level + 1]_alertVars
  <2>1. Opens \/ Climbs \/ Stays
      BY <1>1, AlertStep
  <2>0. SUFFICES ASSUME NEW i \in AlertIds, alerts[i].state # "none", alerts'[i].level > alerts[i].level
               PROVE  /\ alerts[i].state = "active" /\ alerts[i].age = EscalationDelay
                      /\ alerts'[i].level = alerts[i].level + 1
      OBVIOUS
  <2>2. alerts[i] \in AlertType
      BY <1>1 DEF AlertInv, AlertTypeOK
  <2>3. ~Opens
    <3>1. SUFFICES ASSUME NEW j \in AlertIds, Open(j[1]) = {},
                          alerts' = [alerts EXCEPT ![j] = [NoAlert EXCEPT !.state = "active"]]
                   PROVE  FALSE
        BY DEF Opens
    <3>2. j # i
        BY <2>0, <3>1 DEF Open
    <3>3. alerts'[i] = alerts[i]
        BY <1>1, <3>1, <3>2 DEF AlertInv, AlertTypeOK
    <3> QED
        BY <2>0, <2>2, <3>3 DEF AlertType
  <2>4. ~Stays
      BY <1>1, <2>0, <2>2, AlertConstants DEF Stays, AlertType
  <2>5. PICK j \in AlertIds : /\ ShouldEscalate(j)
                              /\ alerts' = [alerts EXCEPT ![j].level = @ + 1, ![j].age = 0]
      BY <2>1, <2>3, <2>4 DEF Climbs
  <2>6. CASE i # j
    <3>1. alerts'[i] = alerts[i]
        BY <1>1, <2>5, <2>6 DEF AlertInv, AlertTypeOK
    <3> QED
        BY <2>0, <2>2, <3>1 DEF AlertType
  <2>7. CASE i = j
    <3>1. alerts'[i].level = alerts[i].level + 1
        BY <1>1, <2>2, <2>5, <2>7 DEF AlertInv, AlertTypeOK, AlertType
    <3> QED
        BY <2>5, <2>7, <3>1 DEF ShouldEscalate
  <2> QED
      BY <2>6, <2>7
<1> QED
    BY AlertInvHolds, <1>1, PTL DEF AlertSpec, EscalationKept

(***************************************************************************)
(* The mobile cache.                                                       *)
(***************************************************************************)

(* Among sets of members of a finite set, one contains no other.           *)
SomeContainsNoOther(T) == \E U \in T : \A V \in T : V \subseteq U => V = U

LEMMA SmallestSubset ==
    ASSUME NEW S, IsFiniteSet(S), NEW T, T \subseteq SUBSET S, T # {}
    PROVE  SomeContainsNoOther(T)
<1>1. IsWellFoundedOn(StrictSubsetOrdering(S), FiniteSubsetsOf(S))
    BY FS_StrictSubsetOrderingWellFounded
<1>2. T \subseteq FiniteSubsetsOf(S)
    BY FS_FiniteSubsetsOfFinite
<1>3. PICK U \in T : \A V \in T : ~(<<V, U>> \in StrictSubsetOrdering(S))
    BY <1>1, <1>2, WFMin
<1>4. ASSUME NEW V \in T, V \subseteq U PROVE V = U
    BY <1>3, <1>4 DEF StrictSubsetOrdering
<1> QED
    BY <1>4 DEF SomeContainsNoOther

LEMMA FiniteHasMax ==
    ASSUME NEW S \in SUBSET Int, IsFiniteSet(S), S # {}
    PROVE  Max(S) \in S /\ \A x \in S : x <= Max(S)
<1> DEFINE Without == {U \in SUBSET S : U # {} /\ \A m \in U : \E x \in U : x > m}
<1>1. ASSUME Without # {} PROVE FALSE
  <2>1. Without \subseteq SUBSET S
      OBVIOUS
  <2> HIDE DEF Without
  <2>2. SomeContainsNoOther(Without)
      BY <1>1, <2>1, SmallestSubset
  <2>3. PICK U \in Without : \A V \in Without : V \subseteq U => V = U
      BY <2>2 DEF SomeContainsNoOther
  <2> USE DEF Without
  <2>4. PICK x \in U : TRUE
      BY <2>3
  <2>5. U \ {x} \notin Without
      BY <2>3, <2>4
  <2>6. CASE U \ {x} = {}
      BY <2>3, <2>4, <2>6
  <2>7. CASE U \ {x} # {}
    <3>1. PICK m \in U \ {x} : \A y \in U \ {x} : ~(y > m)
        BY <2>3, <2>5, <2>7
    <3>2. \A k \in {m, x} : \E y \in U : y > k
        BY <2>3, <2>4, <3>1
    <3>3. m \in Int /\ x \in Int /\ \A y \in U : y \in Int
        BY <2>3, <2>4, <3>1
    <3> QED
        BY <3>1, <3>2, <3>3
  <2> QED
      BY <2>6, <2>7
<1>2. PICK m \in S : \A x \in S : ~(x > m)
    BY <1>1
<1>3. \A x \in S : m >= x
    BY <1>2
<1> QED
    BY <1>3 DEF Max

Longest == Max(Ttls)

(* Data is stored soon after it has been read, and not kept for long.      *)
ReadRecently ==
    /\ \A a \in Askers : askers[a].pc = "read" => 
          askers[a].read <= clock /\ clock - askers[a].read <= Slow
    /\ \A e \in cached : e.read <= clock /\ e.expires - e.read <= Longest + Slow

OneEntry == \A d, e \in cached : d.key = e.key => d = e
CacheFits == IsFiniteSet(cached) /\ Cardinality(cached) <= MaxSize
ServedInTime == \A a \in Askers : served[a] <= Longest + Slow

CacheInv == CacheTypeOK /\ ReadRecently /\ OneEntry /\ CacheFits /\ ServedInTime

LEMMA CacheNumbers ==
    /\ Slow \in Nat /\ CacheHorizon \in Nat /\ MaxSize \in Nat /\ MaxSize # 0
    /\ Longest \in Nat /\ \A t \in Ttls : t \in Nat /\ t <= Longest
<1>1. Ttls \subseteq Int
    BY CacheAssumption DEF CacheAssumption
<1> QED
    BY <1>1, CacheAssumption, FiniteHasMax DEF CacheAssumption, Longest

LEMMA CacheInitially == CacheInit => CacheInv
    BY CacheNumbers, FS_EmptySet
    DEF CacheInit, CacheInv, CacheTypeOK, Time, AskerType, Idle, ReadRecently, OneEntry, CacheFits,
        ServedInTime

(* Entries that leave the cache take nothing of this with them.            *)
LEMMA FewerEntries ==
    ASSUME CacheInv, NEW left \in SUBSET cached
    PROVE  IsFiniteSet(left) /\ Cardinality(left) <= Cardinality(cached) /\ Cardinality(cached) \in Nat
           /\ Cardinality(left) \in Nat
    BY FS_Subset, FS_CardinalityType DEF CacheInv, CacheFits

(* One entry in the place of another does not fill the cache.              *)
LEMMA AddsOne ==
    ASSUME CacheInv, NEW e \in cached, NEW n, NEW left \in SUBSET ((cached \ {e}) \cup {n})
    PROVE  IsFiniteSet(left) /\ Cardinality(left) <= MaxSize
<1> DEFINE rest == cached \ {e}
<1>1. /\ IsFiniteSet(rest) /\ Cardinality(rest) = Cardinality(cached) - 1
      /\ Cardinality(cached) \in Nat /\ Cardinality(cached) <= MaxSize
    BY FS_RemoveElement, FS_CardinalityType DEF CacheInv, CacheFits
<1>2. /\ IsFiniteSet(rest \cup {n})
      /\ \/ Cardinality(rest \cup {n}) = Cardinality(rest) + 1 
         \/ Cardinality(rest \cup {n}) = Cardinality(rest)
  <2> HIDE DEF rest
  <2>1. CASE n \in rest
    <3>1. rest \cup {n} = rest
        BY <2>1
    <3> QED
        BY <1>1, <3>1
  <2>2. CASE n \notin rest
      BY <1>1, <2>2, FS_AddElement
  <2> QED
      BY <2>1, <2>2
<1>3. IsFiniteSet(left) /\ Cardinality(left) <= Cardinality(rest \cup {n}) /\ Cardinality(left) \in Nat
    BY <1>2, FS_Subset, FS_CardinalityType
<1> HIDE DEF rest
<1> QED
    BY <1>1, <1>2, <1>3, CacheNumbers

LEMMA CacheStep == ASSUME CacheInv, [CacheNext]_cacheVars PROVE CacheInv'
<1> USE CacheNumbers DEF CacheInv, CacheTypeOK, Time
<1>0. ASSUME cached' \subseteq cached, clock' = clock PROVE
        cached' \subseteq Entry' /\ OneEntry' /\ CacheFits' 
        /\ \A e \in cached' : e.read <= clock' /\ e.expires - e.read <= Longest + Slow
  <2>1. IsFiniteSet(cached') /\ Cardinality(cached') <= MaxSize
      BY <1>0, FewerEntries DEF CacheFits
  <2> QED
      BY <1>0, <2>1 DEF OneEntry, CacheFits, ReadRecently, Entry, Time
<1>1. ASSUME NEW a \in Askers, NEW k \in CacheKeys, Hit(a, k) PROVE CacheInv'
  <2>1. PICK e \in cached :
          /\ ~Expired(e) /\ cached' = (cached \ {e}) \cup {[e EXCEPT !.used = clock]}
          /\ Serve(a, e.read)
      BY <1>1 DEF Hit, EntryOf
  <2> DEFINE n == [e EXCEPT !.used = clock]
  <2>2. e \in Entry /\ n \in Entry /\ n.key = e.key /\ n.read = e.read /\ n.expires = e.expires
      BY DEF Entry
  <2> HIDE DEF n
  <2>3. cached' = (cached \ {e}) \cup {n}
      BY <2>1 DEF n
  <2>4. IsFiniteSet(cached') /\ Cardinality(cached') <= MaxSize
      BY <2>3, AddsOne DEF CacheFits
  <2>5. clock - e.read \in Time /\ clock - e.read <= Longest + Slow
      BY <2>1, <2>2 DEF Expired, ReadRecently, Entry
  <2>6. cached' \subseteq Entry /\ OneEntry'
      BY <2>2, <2>3 DEF OneEntry
  <2>7. \A d \in cached' : d.read <= clock /\ d.expires - d.read <= Longest + Slow
      BY <2>2, <2>3 DEF ReadRecently
  <2>8. askers' = askers /\ clock' = clock /\ served' = [served EXCEPT ![a] = clock - e.read]
      BY <1>1, <2>1 DEF Hit, Serve
  <2>9. ServedInTime' /\ served' \in [Askers -> Time]
      BY <2>5, <2>8 DEF ServedInTime
  <2> QED
      BY <2>4, <2>6, <2>7, <2>8, <2>9 DEF ReadRecently, CacheFits, Entry
<1>2. ASSUME NEW a \in Askers, NEW k \in CacheKeys, Miss(a, k) PROVE CacheInv'
  <2>1. askers' \in [Askers -> AskerType] /\ \A b \in Askers : askers'[b].pc = "read" => askers'[b] = askers[b]
      BY <1>2 DEF Miss, AskerGoes, AskerType
  <2> QED
      BY <1>0, <1>2, <2>1 DEF Miss, EntryOf, ReadRecently, ServedInTime
<1>3. ASSUME NEW a \in Askers, ReadData(a) PROVE CacheInv'
  <2>1. askers' = [askers EXCEPT ![a] = [pc |-> "read", key |-> askers[a].key, read |-> clock]]
      BY <1>3 DEF ReadData, AskerGoes
  <2>2. [pc |-> "read", key |-> askers[a].key, read |-> clock] \in AskerType
      BY <1>3 DEF ReadData, AskerType
  <2>3. askers' \in [Askers -> AskerType]
      BY <2>1, <2>2
  <2> QED
      BY <1>0, <1>3, <2>1, <2>3 DEF ReadData, ReadRecently, ServedInTime
<1>4. ASSUME NEW a \in Askers, DataFails(a) PROVE CacheInv'
  <2>1. askers' \in [Askers -> AskerType] /\ \A b \in Askers : askers'[b].pc = "read" => askers'[b] = askers[b]
      BY <1>4 DEF DataFails, AskerGoes, AskerType, Idle
  <2> QED
      BY <1>0, <1>4, <2>1 DEF DataFails, ReadRecently, ServedInTime
<1>5. ASSUME NEW a \in Askers, StoreData(a) PROVE CacheInv'
  <2> DEFINE read == askers[a].read
             kept(out) == {e \in cached \ out : e.key # askers[a].key}
             new(ttl)  == [key |-> askers[a].key, read |-> read, expires |-> clock + ttl, used |-> clock]
  <2>1. /\ askers[a].key \in CacheKeys /\ read \in Time
        /\ read <= clock /\ clock - read <= Slow
      BY <1>5 DEF StoreData, AskerType, ReadRecently
  <2>2. /\ served' = [served EXCEPT ![a] = clock - read]
        /\ askers' = [askers EXCEPT ![a] = Idle] /\ clock' = clock
      BY <1>5 DEF StoreData, Serve, AskerGoes
  <2>3. ServedInTime' /\ served' \in [Askers -> Time]
    <3>1. clock - read \in Time /\ clock - read <= Longest + Slow
        BY <2>1
    <3> HIDE DEF read
    <3> QED
        BY <2>2, <3>1 DEF ServedInTime
  <2>4. /\ askers' \in [Askers -> AskerType]
        /\ \A b \in Askers : askers'[b].pc = "read" => askers'[b] = askers[b]
      BY <2>2 DEF AskerType, Idle
  <2>5. CASE UNCHANGED cached
      BY <1>0, <2>2, <2>3, <2>4, <2>5 DEF ReadRecently
  <2>6. ASSUME NEW out \in Victims, NEW ttl \in Ttls, cached' = kept(out) \cup {new(ttl)}
        PROVE  CacheInv'
    <3>1. /\ new(ttl) \in Entry /\ new(ttl).read = read /\ read <= clock
          /\ new(ttl).expires - read <= Longest + Slow /\ new(ttl).key = askers[a].key
      <4>1. ttl \in Nat /\ ttl <= Longest
          OBVIOUS
      <4>2. clock + ttl - read <= Longest + Slow
          BY <2>1, <4>1
      <4> QED
          BY <2>1, <4>1, <4>2 DEF Entry
    <3> DEFINE n == new(ttl)
               left == kept(out)
    <3>2. /\ left \subseteq cached /\ \A d \in left : d.key # askers[a].key
          /\ left \subseteq cached \ out
        OBVIOUS
    <3>3. /\ cached' = left \cup {n} /\ n \in Entry /\ n.read <= clock /\ n.key = askers[a].key
          /\ n.expires - n.read <= Longest + Slow
        BY <2>6, <3>1
    <3> HIDE DEF n, left, kept, new, read
    <3>4. IsFiniteSet(cached') /\ Cardinality(cached') <= MaxSize
      <4>1. CASE Cardinality(cached) < MaxSize
        <5>1. /\ IsFiniteSet(left) /\ Cardinality(left) <= Cardinality(cached)
              /\ Cardinality(cached) \in Nat /\ Cardinality(left) \in Nat
            BY <3>2, FewerEntries
        <5>2. /\ IsFiniteSet(left \cup {n})
              /\ Cardinality(left \cup {n}) \in {Cardinality(left), Cardinality(left) + 1}
            BY <5>1, FS_AddElement
        <5>3. Cardinality(left \cup {n}) \in Nat
            BY <5>2, FS_CardinalityType
        <5> QED
            BY <3>3, <4>1, <5>1, <5>2, <5>3
      <4>2. CASE ~(Cardinality(cached) < MaxSize)
        <5>1. PICK e \in cached : left \subseteq cached \ {e}
            BY <3>2, <4>2 DEF Victims
        <5>2. (left \cup {n}) \subseteq (cached \ {e}) \cup {n}
            BY <5>1
        <5> QED
            BY <3>3, <5>1, <5>2, AddsOne
      <4> QED
          BY <4>1, <4>2
    <3>5. cached' \subseteq Entry /\ OneEntry'
        BY <3>2, <3>3 DEF OneEntry
    <3>6. \A d \in cached' : d.read <= clock /\ d.expires - d.read <= Longest + Slow
        BY <3>2, <3>3 DEF ReadRecently
    <3> QED
        BY <2>2, <2>3, <2>4, <3>4, <3>5, <3>6 DEF ReadRecently, CacheFits
  <2> QED
      BY <1>5, <2>5, <2>6 DEF StoreData
<1>6. CASE ClearEntries
  <2>1. cached' \subseteq cached
      BY <1>6 DEF ClearEntries, Delete, ClearByClient, ClearExpired
  <2> QED
      BY <1>0, <1>6, <2>1 DEF ClearEntries, ReadRecently, ServedInTime
<1>7. CASE Tick
  <2>1. clock' = clock + 1 /\ clock' \in Time /\ UNCHANGED <<cached, askers, served>>
      BY <1>7 DEF Tick
  <2>2. ASSUME NEW a \in Askers, askers[a].pc = "read" 
        PROVE  askers[a].read <= clock' /\ clock' - askers[a].read <= Slow
    <3>1. askers[a].read \in Int /\ clock - askers[a].read < Slow /\ askers[a].read <= clock
        BY <1>7, <2>2 DEF Tick, AskerType, ReadRecently
    <3> QED
        BY <2>1, <3>1
  <2>3. \A e \in cached : e.read <= clock'
      BY <2>1 DEF ReadRecently, Entry
  <2> QED
      BY <2>1, <2>2, <2>3 DEF ReadRecently, OneEntry, CacheFits, ServedInTime
<1>8. CASE UNCHANGED cacheVars
    BY <1>0, <1>8 DEF cacheVars, ReadRecently, ServedInTime
<1> QED
    BY <1>1, <1>2, <1>3, <1>4, <1>5, <1>6, <1>7, <1>8 DEF CacheNext

(* Nobody is given data that was read longer ago than the longest time to  *)
(* live and the slowest making of it, a key has one entry, and the cache   *)
(* never overflows (mobile_cache.py: get, set).                            *)
THEOREM ServedRecentHolds == CacheSpec => []ServedRecent
<1>1. CacheInv => ServedRecent
    BY DEF CacheInv, ServedRecent, ServedInTime, OneEntry, CacheFits, Longest
<1> QED
    BY CacheInitially, CacheStep, <1>1, PTL DEF CacheSpec

(***************************************************************************)
(* The services beside one another: a step of the process is one of the    *)
(* service that is looked at, and for all others nothing happens.          *)
(***************************************************************************)

LEMMA ServicesStep ==
    ASSUME [ServicesNext]_servicesVars
    PROVE  /\ part' = part
           /\ [HubNext]_hubVars /\ [AlertNext]_alertVars /\ [LogNext]_logVars
           /\ [AuditNext]_auditVars /\ [RetentionNext]_retentionVars /\ [EnvNext]_envVars
           /\ [PromotionNext]_promotionVars /\ [BuildNext]_buildVars /\ [GraphNext]_graphVars
           /\ [SearchNext]_indexVars /\ [HealthNext]_healthVars /\ [CacheNext]_cacheVars
           /\ [LogIndexNext]_logIndexVars /\ [HistoryNext]_historyVars
           /\ [AnalysisNext]_analysisVars /\ [ValidationNext]_validationVars
           /\ [EnvFilesNext]_envFileVars
           /\ part = "orchestrator" => [OrchestratorNext]_orchestratorVars
           /\ part = "reliable" => [Reliable!OrchestratorNext]_orchestratorVars
    BY DEF ServicesNext, servicesVars,
        HubPart, AlertPart, LogPart, AuditPart, RetentionPart, EnvPart,
        PromotionPart, BuildPart, GraphPart, SearchPart, HealthPart, CachePart,
        IndexPart, HistoryPart, AnalysisPart, ValidationPart, EnvFilesPart,
        OrchestratorPart, ReliablePart

(***************************************************************************)
(* The orchestrator with a Docker that answers, as Services looks at it,   *)
(* is one about which OrchestratorProofs speaks.                           *)
(***************************************************************************)

Steady == INSTANCE OrchestratorProofs WITH DockerFails <- FALSE, Restarts <- FALSE,
                                Edits <- (Edits \ {"runtime"}) \cup {"idleRuntime"}

LEMMA SteadyIsCalm ==
    ASSUME "name" \notin Edits
    PROVE  Steady!OrchestratorAssumption /\ Steady!Calm
    BY OrchestratorAssumption
    DEF OrchestratorAssumption, Steady!OrchestratorAssumption, Steady!Calm

LEMMA SteadyStep ==
    ASSUME [Reliable!OrchestratorNext]_orchestratorVars
    PROVE  [Steady!OrchestratorNext]_Steady!orchestratorVars
    BY DEF
        OrchestratorNext, ClientStep, CreateService, UpdateService, DeleteService,
        WakeService, SleepService, DockerStep, ContainerExits, ContainerRemoved,
        Restart, IsServiceRunning, Probed, Apply, Wake, Sleep, Slept, StopImage,
        StopCompose, StartCompose, StartImage, Run, Created, Adopt, Failed, Outcome,
        Exists, NoId, Ids, Edited, NewService, Loaded, Containers, orchestratorVars,
        Steady!OrchestratorNext, Steady!ClientStep, Steady!CreateService,
        Steady!UpdateService, Steady!DeleteService, Steady!WakeService,
        Steady!SleepService, Steady!DockerStep, Steady!ContainerExits,
        Steady!ContainerRemoved, Steady!Restart, Steady!IsServiceRunning, Steady!Probed,
        Steady!Apply, Steady!Wake, Steady!Sleep, Steady!Slept, Steady!StopImage,
        Steady!StopCompose, Steady!StartCompose, Steady!StartImage, Steady!Run,
        Steady!Created, Steady!Adopt, Steady!Failed, Steady!Outcome, Steady!Exists,
        Steady!NoId, Steady!Ids, Steady!Edited, Steady!NewService, Steady!Loaded,
        Steady!Containers, Steady!orchestratorVars, Reliable!OrchestratorNext,
        Reliable!ClientStep, Reliable!CreateService, Reliable!UpdateService,
        Reliable!DeleteService, Reliable!WakeService, Reliable!SleepService,
        Reliable!DockerStep, Reliable!ContainerExits, Reliable!ContainerRemoved,
        Reliable!Restart, Reliable!IsServiceRunning, Reliable!Probed, Reliable!Apply,
        Reliable!Wake, Reliable!Sleep, Reliable!Slept, Reliable!StopImage,
        Reliable!StopCompose, Reliable!StartCompose, Reliable!StartImage, Reliable!Run,
        Reliable!Created, Reliable!Adopt, Reliable!Failed, Reliable!Outcome,
        Reliable!Exists, Reliable!NoId, Reliable!Ids, Reliable!Edited,
        Reliable!NewService, Reliable!Loaded, Reliable!Containers,
        Reliable!orchestratorVars

LEMMA SteadyTypes ==
    /\ Steady!OrchestratorTypeOK <=> OrchestratorTypeOK
    /\ Steady!OrchestratorTypeOK' <=> OrchestratorTypeOK'
    BY DEF OrchestratorTypeOK, Ids, Service, Containers, Daemon, NoId,
           Steady!OrchestratorTypeOK, Steady!Ids, Steady!Service, Steady!Containers,
           Steady!Daemon, Steady!NoId

(* While Docker answers, the process lives on, nobody renames a service    *)
(* and nobody changes what a running service runs on, what is listed as    *)
(* stopped does not run, and nothing runs that is not listed               *)
(* (orchestrator.py: wake_service, sleep_service, delete_service).         *)
THEOREM ReliableDockerHolds ==
    ASSUME "name" \notin Edits
    PROVE  ServicesSpec => []ReliableDocker
<1> DEFINE Inv == part = "reliable" => Steady!CalmInv
<1>1. ServicesInit => Inv
  <2> SUFFICES ASSUME ServicesInit PROVE Steady!CalmInv
      OBVIOUS
  <2>1. OrchestratorInit
      BY DEF ServicesInit
  <2>2. Steady!OrchestratorInit
      BY <2>1 DEF OrchestratorInit, Loaded, NewService, Containers, NoId, Steady!OrchestratorInit,
                  Steady!Loaded, Steady!NewService, Steady!Containers, Steady!NoId
  <2>3. Steady!OrchestratorTypeOK
      BY <2>2, SteadyIsCalm, Steady!OrchestratorTypeInit
  <2> QED
      BY <2>2, <2>3 DEF Steady!OrchestratorInit, Steady!Loaded, Steady!NewService, Steady!CalmInv,
                        Steady!RunsListed, Steady!Ids
<1>2. Inv /\ [ServicesNext]_servicesVars => Inv'
  <2> SUFFICES ASSUME Inv, [ServicesNext]_servicesVars, part = "reliable" PROVE Steady!CalmInv'
      BY ServicesStep
  <2>1. [Steady!OrchestratorNext]_Steady!orchestratorVars
      BY ServicesStep, SteadyStep
  <2>2. Steady!RunsListed'
      BY <2>1, SteadyIsCalm, Steady!RunsListedStep
  <2>3. Steady!OrchestratorTypeOK'
      BY <2>1, SteadyIsCalm, Steady!OrchestratorTypeStep DEF Steady!CalmInv
  <2> QED
      BY <2>2, <2>3 DEF Steady!CalmInv
<1>3. Inv => ReliableDocker
  <2> SUFFICES ASSUME part = "reliable", Steady!CalmInv PROVE StoppedMeansStopped /\ NoOrphan
      BY DEF ReliableDocker
  <2>1. /\ \A i \in Ids : services[i].name = i
        /\ \A n \in docker.up : /\ n \in Ids /\ services[n].status = "running"
                                 /\ services[n].cid = docker.cont[n]
      BY DEF Steady!CalmInv, Steady!RunsListed, Steady!Lists, Steady!Ids, Ids
  <2> QED
      BY <2>1 DEF StoppedMeansStopped, NoOrphan
<1> QED
    BY <1>1, <1>2, <1>3, PTL DEF ServicesSpec

(***************************************************************************)
(* The types of all the services, from the invariants of each.             *)
(***************************************************************************)

OrchestratorTyped == part \in {"orchestrator", "reliable"} => OrchestratorTypeOK

MonitoringInv == CountInv /\ AlertInv /\ HealthInv /\ HistoryInv /\ AnalysisInv
LoggingInv    == LogTypes /\ SavingInv /\ BurstInv /\ AttemptsInv /\ AuditBounds /\ RetentionInv
SearchingInv  == SearchInv /\ CacheInv /\ EntriesInv
ReleaseInv    == EnvTyped /\ VotingInv /\ BuildTypeOK /\ FilesInv
StacksInv     == GraphInv /\ ValidationInv

LEMMA MonitoringStep ==
    ASSUME MonitoringInv, [ServicesNext]_servicesVars PROVE MonitoringInv'
    BY ServicesStep, CountStep, AlertInvStep, HealthStep, HistoryStep, AnalysisStep DEF MonitoringInv

LEMMA LoggingStep ==
    ASSUME LoggingInv, [ServicesNext]_servicesVars PROVE LoggingInv'
<1>1. [LogNext]_logVars /\ [AuditNext]_auditVars /\ [RetentionNext]_retentionVars
    BY ServicesStep
<1>2. LogTypes' /\ RetentionInv'
    BY <1>1, LogTypesStep, RetentionStep DEF LoggingInv
<1>3. SavingInv' /\ BurstInv'
    BY <1>1, SavingStep, BurstStep DEF LoggingInv
<1>4. AttemptsInv' /\ AuditBounds'
    BY <1>1, AttemptsStep, BoundsStep DEF LoggingInv, SavingInv
<1> QED
    BY <1>2, <1>3, <1>4 DEF LoggingInv

LEMMA SearchingStep ==
    ASSUME SearchingInv, [ServicesNext]_servicesVars PROVE SearchingInv'
    BY ServicesStep, SearchStep, CacheStep, EntriesStep DEF SearchingInv

LEMMA ReleaseStep ==
    ASSUME ReleaseInv, [ServicesNext]_servicesVars PROVE ReleaseInv'
    BY ServicesStep, EnvTypeStep, VotingStep, BuildTypeStep, FilesStep DEF ReleaseInv

LEMMA StacksStep ==
    ASSUME StacksInv, [ServicesNext]_servicesVars PROVE StacksInv'
    BY ServicesStep, GraphStep, ValidationStep DEF StacksInv

LEMMA OrchestratorTypesStep ==
    ASSUME OrchestratorTyped, [ServicesNext]_servicesVars PROVE OrchestratorTyped'
<1>1. part' = part
    BY ServicesStep
<1>2. CASE part = "orchestrator"
  <2>1. [OrchestratorNext]_orchestratorVars
      BY <1>2, ServicesStep
  <2> QED
      BY <1>1, <1>2, <2>1, OrchestratorAssumption, OrchestratorTypeStep DEF OrchestratorTyped
<1>3. CASE part = "reliable"
  <2>1. [Steady!OrchestratorNext]_Steady!orchestratorVars
      BY <1>3, ServicesStep, SteadyStep
  <2>2. Steady!OrchestratorAssumption
      BY OrchestratorAssumption DEF OrchestratorAssumption, Steady!OrchestratorAssumption
  <2>3. Steady!OrchestratorTypeOK
      BY <1>3, SteadyTypes DEF OrchestratorTyped
  <2>4. Steady!OrchestratorTypeOK'
      BY <2>1, <2>2, <2>3, Steady!OrchestratorTypeStep
  <2>5. OrchestratorTypeOK'
      BY <2>4, SteadyTypes
  <2> QED
      BY <2>5 DEF OrchestratorTyped
<1> QED
    BY <1>1, <1>2, <1>3 DEF OrchestratorTyped

(* The variables of every service keep their types.                        *)
THEOREM ServicesTypeCorrect == ServicesSpec => []ServicesTypeOK
<1> DEFINE Inv == /\ MonitoringInv /\ LoggingInv /\ SearchingInv /\ ReleaseInv /\ StacksInv
                  /\ OrchestratorTyped
<1>1. ServicesInit => Inv
  <2> SUFFICES ASSUME ServicesInit PROVE Inv
      OBVIOUS
  <2>1. MonitoringInv
      BY CountInit, AlertInitially, HealthInitially, HistoryInitially, AnalysisInitially
      DEF ServicesInit, MonitoringInv
  <2>2. LoggingInv
      BY LogTypesInit, SavingInitially, BurstInitially, AttemptsInitially, BoundsInitially,
         RetentionInitially
      DEF ServicesInit, LoggingInv
  <2>3. SearchingInv
      BY SearchInitially, CacheInitially, EntriesInitially DEF ServicesInit, SearchingInv
  <2>4. ReleaseInv
      BY EnvInitially, VotingInitially, BuildInitInv, FilesInit
      DEF ServicesInit, ReleaseInv, EnvInv, BuildInv
  <2>5. StacksInv
      BY GraphInitially, ValidationInitially DEF ServicesInit, StacksInv
  <2>6. OrchestratorTyped
      BY OrchestratorAssumption, OrchestratorTypeInit DEF ServicesInit, OrchestratorTyped
  <2> QED
      BY <2>1, <2>2, <2>3, <2>4, <2>5, <2>6
<1>2. Inv /\ [ServicesNext]_servicesVars => Inv'
    BY MonitoringStep, LoggingStep, SearchingStep, ReleaseStep, StacksStep, OrchestratorTypesStep
<1>3. Inv => ServicesTypeOK
  <2> SUFFICES ASSUME Inv PROVE ServicesTypeOK
      OBVIOUS
  <2>1. HubTypeOK /\ AlertTypeOK /\ HealthTypeOK /\ HistoryTypeOK /\ AnalysisTypeOK
      BY AnalysisTyped DEF MonitoringInv, CountInv, AlertInv, HealthInv, HistoryInv
  <2>2. LogTypeOK /\ AuditTypeOK /\ RetentionTypeOK
      BY AuditTyped DEF LoggingInv, LogTypes, SavingInv, RetentionInv
  <2>3. SearchTypeOK /\ CacheTypeOK /\ LogIndexTypeOK
      BY DEF SearchingInv, SearchInv, CacheInv, EntriesInv, EntriesTypes
  <2>4. EnvTypeOK /\ PromotionTypeOK /\ BuildTypeOK /\ EnvFilesTypeOK
      BY DEF ReleaseInv, EnvTyped, VotingInv, FilesInv
  <2>5. GraphTypeOK /\ ValidationTypeOK
      BY GraphTyped, ValidationTyped DEF StacksInv
  <2> QED
      BY <2>1, <2>2, <2>3, <2>4, <2>5 DEF ServicesTypeOK, OrchestratorTyped
<1> QED
    BY <1>1, <1>2, <1>3, PTL DEF ServicesSpec

(* What is collected is found: the index on disk is whole whenever nobody  *)
(* is indexing, and a search answers with every entry that is due          *)
(* (log_search_service.py, log_optimization_service.py).                   *)
THEOREM LogsFoundHolds == ServicesSpec => []LogsFound
<1>1. ServicesInit => SearchInv /\ EntriesInv
    BY SearchInitially, EntriesInitially DEF ServicesInit
<1>2. SearchInv /\ EntriesInv /\ [ServicesNext]_servicesVars => SearchInv' /\ EntriesInv'
    BY ServicesStep, SearchStep, EntriesStep
<1>3. SearchInv /\ EntriesInv => LogsFound
    BY WholeWhenIdle, EntriesFound DEF LogsFound
<1> QED
    BY <1>1, <1>2, <1>3, PTL DEF ServicesSpec

(* What log_event takes in is kept, and bursts are noticed; and the log of *)
(* a day is kept until its retention is over: whatever is started, stopped *)
(* and interrupted (security_audit_service.py).                            *)
THEOREM AuditTrailKeptHolds == ServicesSpec => []AuditTrailKept
<1> DEFINE Inv == SavingInv /\ BurstInv /\ RetentionInv
<1>1. ServicesInit => Inv
    BY SavingInitially, BurstInitially, RetentionInitially DEF ServicesInit
<1>2. Inv /\ [ServicesNext]_servicesVars => Inv'
    BY ServicesStep, SavingStep, BurstStep, RetentionStep
<1>3. SavingInv => Audited
  <2> SUFFICES ASSUME SavingInv PROVE Audited
      OBVIOUS
  <2>1. auditor = [pc |-> auditor.pc, event |-> auditor.event]
      BY DEF SavingInv, AuditTypes
  <2> QED
      BY <2>1 DEF SavingInv, InOrder, Saved, Saving, Audited
<1>4. Inv => AuditTrailKept
    BY <1>3, BurstsAreReported DEF AuditTrailKept, AuditKept, SavingInv, RetentionInv
<1> QED
    BY <1>1, <1>2, <1>4, PTL DEF ServicesSpec

(* What was written to the files of the days is found again                *)
(* (get_recent_metrics, get_recent_trends), though midnight passes while   *)
(* they are read, and though the cleaner removes the old ones meanwhile.   *)
THEOREM DaysFoundHolds == ServicesSpec => []DaysFound
<1>1. ServicesInit => HistoryInv /\ AnalysisInv
    BY HistoryInitially, AnalysisInitially DEF ServicesInit
<1>2. HistoryInv /\ AnalysisInv /\ [ServicesNext]_servicesVars => HistoryInv' /\ AnalysisInv'
    BY ServicesStep, HistoryStep, AnalysisStep
<1>3. HistoryInv /\ AnalysisInv => DaysFound
    BY DEF HistoryInv, AnalysisInv, DaysFound
<1> QED
    BY <1>1, <1>2, <1>3, PTL DEF ServicesSpec
===============================================================================
