------------------------------ MODULE AlertRules ------------------------------
(***************************************************************************)
(* The alerts service: rules are evaluated against the recent metrics by a *)
(* monitoring worker, an escalation worker raises the level of the alerts  *)
(* nobody answers, and the API changes the rules, acknowledges, resolves   *)
(* and restarts meanwhile (core/alerts_service.py, api/routes/alerts.py).  *)
(*                                                                         *)
(* Left out: the text of the notifications, the grouping keys, the history *)
(* files, and the file the rules are saved in and loaded from at a start.  *)
(***************************************************************************)
EXTENDS Integers, FiniteSets

CONSTANTS
    Rules,          \* the rules, each with the one container it watches
    Suppressing,    \* the rules with suppression_enabled
    Escalating,     \* the rules with escalation_enabled
    Suppression,    \* suppression_duration_minutes, in ticks
    EscalationDelay,\* escalation_delay_minutes, in ticks
    RuleChanges,    \* bound on the creations and deletions of rules
    AlertRestarts   \* the calls of /service/restart

ASSUME AlertAssumption ==
    /\ Suppressing \subseteq Rules /\ Escalating \subseteq Rules
    /\ Suppression \in Nat \ {0} /\ EscalationDelay \in Nat \ {0}
    /\ RuleChanges \in Nat /\ IsFiniteSet(Rules) /\ IsFiniteSet(AlertRestarts)

VARIABLES
    serving,        \* is_running
    rules,          \* alert_rules
    ruleChanges,    \* how often a rule was created or deleted
    metric,         \* what the recent metrics of each rule's container say
    alerts,         \* active_alerts: two places per rule
    suppressed,     \* how long each rule is still suppressed
    monitors,       \* the monitoring workers ever started
    escalators,     \* the escalation workers ever started
    current,        \* the workers the service holds references to; 0: none
    started,        \* how many pairs of workers were started
    alertRestarts   \* where each call of /service/restart is

workerVars == <<monitors, escalators, current, started>>
alertVars  == <<serving, rules, ruleChanges, metric, alerts, suppressed,
                workerVars, alertRestarts>>

-----------------------------------------------------------------------------
Pairs == 1 .. 1 + Cardinality(AlertRestarts)
AlertIds == Rules \X {1, 2}

NoAlert == [state |-> "none", level |-> 1, age |-> 0]
AlertType == [state : {"none", "active", "acknowledged"}, level : 1 .. 3,
              age : 0 .. EscalationDelay]

\* A monitoring worker: its pass over the rules remembers which it has done and
\* the size of the dictionary; while it notifies it holds the rule.
MonitorType == [pc : {"off", "sleep", "pass", "notify"}, done : SUBSET Rules,
                size : 0 .. Cardinality(Rules), rule : SUBSET Rules]
MonitorOff == [pc |-> "off", done |-> {}, size |-> 0, rule |-> {}]
Asleep     == [MonitorOff EXCEPT !.pc = "sleep"]

\* An escalation worker: the alerts of its copy of the list that were old enough
\* when the pass began.
EscalatorType == [pc : {"off", "sleep", "pass"}, todo : SUBSET AlertIds]

Open(r) == {i \in AlertIds : i[1] = r /\ alerts[i].state # "none"}

AlertInit ==
    /\ serving = TRUE
    /\ rules \in SUBSET Rules
    /\ ruleChanges = 0
    /\ metric = [r \in Rules |-> "none"]
    /\ alerts = [i \in AlertIds |-> NoAlert]
    /\ suppressed = [r \in Rules |-> 0]
    /\ monitors = [w \in Pairs |-> IF w = 1 THEN Asleep ELSE MonitorOff]
    /\ escalators = [w \in Pairs |-> [pc |-> IF w = 1 THEN "sleep" ELSE "off", todo |-> {}]]
    /\ current = 1 /\ started = 1
    /\ alertRestarts = [q \in AlertRestarts |-> "idle"]

-----------------------------------------------------------------------------
(* The environment.                                                        *)

\* The metrics of a container: every recent sample is over the threshold, the
\* last one is within the limits, it is unclear (too few samples, or not enough
\* of them over), or there are none, because the container is gone.
Measure(r) ==
    /\ \E m \in {"over", "within", "unclear", "none"} \ {metric[r]} :
         metric' = [metric EXCEPT ![r] = m]
    /\ UNCHANGED <<serving, rules, ruleChanges, alerts, suppressed, workerVars, alertRestarts>>

\* Time passes.
AlertTick ==
    /\ alerts' = [i \in AlertIds |->
                    IF alerts[i].state = "none" \/ alerts[i].age = EscalationDelay THEN alerts[i]
                    ELSE [alerts[i] EXCEPT !.age = @ + 1]]
    /\ suppressed' = [r \in Rules |-> IF suppressed[r] = 0 THEN 0 ELSE suppressed[r] - 1]
    /\ UNCHANGED <<serving, rules, ruleChanges, metric, workerVars, alertRestarts>>

-----------------------------------------------------------------------------
(* The monitoring worker.                                                  *)

MonitorWake(w) ==
    /\ monitors[w].pc = "sleep"
    /\ serving
    /\ monitors' = [monitors EXCEPT ![w] = [Asleep EXCEPT !.pc = "pass",
                                                          !.size = Cardinality(rules)]]
    /\ UNCHANGED <<serving, rules, ruleChanges, metric, alerts, suppressed, escalators,
                   current, started, alertRestarts>>

\* The loop over the dictionary of rules goes on if its size is the same.
RulesLeft(w) == {r \in rules \ monitors[w].done : Cardinality(rules) = monitors[w].size}

\* Fault for Trigger: only an active alert keeps another from being triggered.
TriggerUnlessActive(w, r) ==
    IF suppressed[r] > 0 \/ \E i \in Open(r) : alerts[i].state = "active"
    THEN /\ monitors' = [monitors EXCEPT ![w].done = @ \cup {r}]
         /\ UNCHANGED alerts
    ELSE /\ monitors' = [monitors EXCEPT ![w].pc = "notify", ![w].rule = {r}]
         /\ \E i \in AlertIds :
              /\ i[1] = r /\ alerts[i].state = "none"
              /\ alerts' = [alerts EXCEPT ![i] = [NoAlert EXCEPT !.state = "active"]]

\* _trigger_alert up to the notifications: nothing when the rule is suppressed,
\* or has an alert already, in whatever state.
Trigger(w, r) ==
    IF suppressed[r] > 0 \/ Open(r) # {}
    THEN /\ monitors' = [monitors EXCEPT ![w].done = @ \cup {r}]
         /\ UNCHANGED alerts
    ELSE /\ monitors' = [monitors EXCEPT ![w].pc = "notify", ![w].rule = {r}]
         /\ \E i \in AlertIds :
              /\ i[1] = r /\ alerts[i].state = "none"
              /\ alerts' = [alerts EXCEPT ![i] = [NoAlert EXCEPT !.state = "active"]]

\* An alert leaves active_alerts: RESOLVED, which no pass escalates any more.
Resolve(S) ==
    /\ alerts' = [i \in AlertIds |-> IF i \in S THEN NoAlert ELSE alerts[i]]
    /\ escalators' = [w \in Pairs |-> [escalators[w] EXCEPT !.todo = @ \ S]]

\* Fault for Resolvable: only the alerts that did not escalate.
ResolvableFirstLevel(r) == {i \in Open(r) : alerts[i].state = "active" /\ alerts[i].level = 1}

\* _check_alert_resolution: only the active alerts of the rule.
Resolvable(r) == {i \in Open(r) : alerts[i].state = "active"}

Evaluate(w, r) ==
    /\ monitors[w].pc = "pass"
    /\ r \in RulesLeft(w)
    /\ \/ /\ metric[r] = "over"
          /\ Trigger(w, r) /\ UNCHANGED escalators
       \/ /\ metric[r] = "within"
          /\ Resolve(Resolvable(r))
          /\ monitors' = [monitors EXCEPT ![w].done = @ \cup {r}]
       \/ /\ metric[r] \in {"unclear", "none"}
          /\ monitors' = [monitors EXCEPT ![w].done = @ \cup {r}]
          /\ UNCHANGED <<alerts, escalators>>
    /\ UNCHANGED <<serving, rules, ruleChanges, metric, suppressed, current, started, alertRestarts>>

\* The notifications have been sent, or have failed: the suppression begins.
Notified(w) ==
    /\ monitors[w].pc = "notify"
    /\ suppressed' = [r \in Rules |-> IF r \in monitors[w].rule \cap Suppressing
                                      THEN Suppression ELSE suppressed[r]]
    /\ monitors' = [monitors EXCEPT ![w].pc = "pass", ![w].rule = {},
                                    ![w].done = @ \cup monitors[w].rule]
    /\ UNCHANGED <<serving, rules, ruleChanges, metric, alerts, escalators, current,
                   started, alertRestarts>>

\* Fault for PassEnds: a loop that raises ends the worker.
PassEndsForGood(w) ==
    /\ monitors[w].pc = "pass"
    /\ RulesLeft(w) = {}
    /\ monitors' = [monitors EXCEPT ![w] = IF Cardinality(rules) = @.size THEN Asleep
                                           ELSE MonitorOff]
    /\ UNCHANGED <<serving, rules, ruleChanges, metric, alerts, suppressed, escalators,
                   current, started, alertRestarts>>

\* The pass is over, or the loop raises because a rule came or went.  The test of
\* the outer loop comes after the sleep.
PassEnds(w) ==
    /\ monitors[w].pc = "pass"
    /\ RulesLeft(w) = {}
    /\ monitors' = [monitors EXCEPT ![w] = Asleep]
    /\ UNCHANGED <<serving, rules, ruleChanges, metric, alerts, suppressed, escalators,
                   current, started, alertRestarts>>

-----------------------------------------------------------------------------
(* The escalation worker.                                                  *)

EscalatorWake(w) ==
    /\ escalators[w].pc = "sleep"
    /\ serving
    /\ escalators' = [escalators EXCEPT ![w] =
         [pc |-> "pass", todo |-> {i \in AlertIds : /\ alerts[i].state # "none"
                                                    /\ alerts[i].age = EscalationDelay}]]
    /\ UNCHANGED <<serving, rules, ruleChanges, metric, alerts, suppressed, monitors,
                   current, started, alertRestarts>>

\* Fault for ShouldEscalate: in any state.
ShouldEscalateAny(i) ==
    /\ i[1] \in rules \cap Escalating
    /\ alerts[i].level < 3
    /\ alerts[i].age = EscalationDelay
    /\ alerts[i].state # "none"

\* _should_escalate_alert, looked at when the turn of the alert comes.
ShouldEscalate(i) ==
    /\ i[1] \in rules \cap Escalating
    /\ alerts[i].level < 3
    /\ alerts[i].age = EscalationDelay
    /\ alerts[i].state = "active"

Escalate(w, i) ==
    /\ escalators[w].pc = "pass" /\ i \in escalators[w].todo
    /\ alerts' = IF ShouldEscalate(i)
                 THEN [alerts EXCEPT ![i].level = @ + 1, ![i].age = 0] ELSE alerts
    /\ escalators' = [escalators EXCEPT ![w].todo = @ \ {i}]
    /\ UNCHANGED <<serving, rules, ruleChanges, metric, suppressed, monitors, current,
                   started, alertRestarts>>

EscalationEnds(w) ==
    /\ escalators[w].pc = "pass" /\ escalators[w].todo = {}
    /\ escalators' = [escalators EXCEPT ![w].pc = "sleep"]
    /\ UNCHANGED <<serving, rules, ruleChanges, metric, alerts, suppressed, monitors,
                   current, started, alertRestarts>>

-----------------------------------------------------------------------------
(* The API.                                                                *)

\* add_alert_rule; delete_alert_rule leaves the alerts of the rule where they are.
ChangeRules ==
    /\ ruleChanges < RuleChanges
    /\ ruleChanges' = ruleChanges + 1
    /\ \E r \in Rules : rules' = IF r \in rules THEN rules \ {r} ELSE rules \cup {r}
    /\ UNCHANGED <<serving, metric, alerts, suppressed, workerVars, alertRestarts>>

Acknowledge(i) ==
    /\ alerts[i].state # "none"
    /\ alerts' = [alerts EXCEPT ![i].state = "acknowledged"]
    /\ UNCHANGED <<serving, rules, ruleChanges, metric, suppressed, workerVars, alertRestarts>>

\* The bulk action "resolve" takes an alert in any state.
ResolveByHand(i) ==
    /\ alerts[i].state # "none"
    /\ Resolve({i})
    /\ UNCHANGED <<serving, rules, ruleChanges, metric, suppressed, monitors, current,
                   started, alertRestarts>>

\* /service/restart in the background: stop() cancels the workers it knows and
\* saves the configuration; two seconds later start() loads it and creates a
\* new pair of workers.  Two restarts may overlap.
StopService(q) ==
    /\ alertRestarts[q] = "idle"
    /\ alertRestarts' = [alertRestarts EXCEPT ![q] = "stopped"]
    /\ serving' = FALSE
    /\ IF serving /\ current # 0
       THEN /\ monitors' = [monitors EXCEPT ![current] = MonitorOff]
            /\ escalators' = [escalators EXCEPT ![current] = [pc |-> "off", todo |-> {}]]
       ELSE UNCHANGED <<monitors, escalators>>
    /\ UNCHANGED <<rules, ruleChanges, metric, alerts, suppressed, current, started>>

StartService(q) ==
    /\ alertRestarts[q] = "stopped"
    /\ alertRestarts' = [alertRestarts EXCEPT ![q] = IF serving THEN "done" ELSE "loading"]
    /\ serving' = TRUE
    /\ UNCHANGED <<rules, ruleChanges, metric, alerts, suppressed, workerVars>>

CreateWorkers(q) ==
    /\ alertRestarts[q] = "loading"
    /\ alertRestarts' = [alertRestarts EXCEPT ![q] = "done"]
    /\ started' = started + 1 /\ current' = started + 1
    /\ monitors' = [monitors EXCEPT ![started + 1] = Asleep]
    /\ escalators' = [escalators EXCEPT ![started + 1].pc = "sleep"]
    /\ UNCHANGED <<serving, rules, ruleChanges, metric, alerts, suppressed>>

\* A worker that outlived the stop finds is_running false after its sleep.
WorkerEnds(w) ==
    /\ ~serving
    /\ \/ /\ monitors[w].pc = "sleep"
          /\ monitors' = [monitors EXCEPT ![w] = MonitorOff] /\ UNCHANGED escalators
       \/ /\ escalators[w].pc = "sleep"
          /\ escalators' = [escalators EXCEPT ![w].pc = "off"] /\ UNCHANGED monitors
    /\ UNCHANGED <<serving, rules, ruleChanges, metric, alerts, suppressed, current,
                   started, alertRestarts>>

-----------------------------------------------------------------------------
Monitor(w) == MonitorWake(w) \/ (\E r \in Rules : Evaluate(w, r)) \/ Notified(w) \/ PassEnds(w)
Escalator(w) == EscalatorWake(w) \/ (\E i \in AlertIds : Escalate(w, i)) \/ EscalationEnds(w)
GoesOn(q) == StartService(q) \/ CreateWorkers(q)
RestartAlerts(q) == StopService(q) \/ GoesOn(q)

AlertNext ==
    \/ AlertTick \/ ChangeRules
    \/ \E r \in Rules : Measure(r)
    \/ \E w \in Pairs : Monitor(w) \/ Escalator(w) \/ WorkerEnds(w)
    \/ \E i \in AlertIds : Acknowledge(i) \/ ResolveByHand(i)
    \/ \E q \in AlertRestarts : RestartAlerts(q)

\* Time passes, the workers run, and a restart that has begun is carried out.
AlertFairness ==
    /\ WF_alertVars(AlertTick)
    /\ \A w \in Pairs : WF_alertVars(Monitor(w)) /\ WF_alertVars(Escalator(w))
    /\ \A q \in AlertRestarts : WF_alertVars(GoesOn(q))

AlertSpec == AlertInit /\ [][AlertNext]_alertVars /\ AlertFairness

-----------------------------------------------------------------------------
AlertTypeOK ==
    /\ serving \in BOOLEAN /\ rules \subseteq Rules /\ ruleChanges \in 0 .. RuleChanges
    /\ metric \in [Rules -> {"over", "within", "unclear", "none"}]
    /\ alerts \in [AlertIds -> AlertType]
    /\ suppressed \in [Rules -> 0 .. Suppression]
    /\ monitors \in [Pairs -> MonitorType]
    /\ escalators \in [Pairs -> EscalatorType]
    /\ current \in 0 .. Cardinality(Pairs) /\ started \in Pairs
    /\ alertRestarts \in [AlertRestarts -> {"idle", "stopped", "loading", "done"}]

\* A rule never has two alerts in active_alerts, even when overlapping restarts
\* have left two monitoring workers that evaluate it side by side.
OneAlert == \A r \in Rules : Cardinality(Open(r)) <= 1

\* An alert climbs one level at a time, at least the delay after it was
\* triggered or climbed last, and never once somebody has acknowledged it.
EscalationKept ==
    [][\A i \in AlertIds : (alerts[i].state # "none" /\ alerts'[i].level > alerts[i].level) =>
          /\ alerts[i].state = "active" /\ alerts[i].age = EscalationDelay
          /\ alerts'[i].level = alerts[i].level + 1]_alertVars

\* A rule whose metrics stay over the threshold has an alert again and again,
\* however often it is resolved by hand: neither a suppression, nor a pass that a
\* change of the rules cut short, nor a restart loses it for good.
Alarmed ==
    \A r \in Rules : <>[](r \in rules /\ metric[r] = "over" /\ serving) => []<>(Open(r) # {})

\* A rule whose metrics stay within the limits gets rid of its active alert.
Cleared ==
    \A r \in Rules : <>[](r \in rules /\ metric[r] = "within" /\ serving)
                        => <>[](\A i \in Open(r) : alerts[i].state # "active")

\* The alerts follow the metrics, in both directions, once these settle.
AlertsFollow == Alarmed /\ Cleared
===============================================================================
