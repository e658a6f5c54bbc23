----------------------------- MODULE HealthMonitor -----------------------------
(***************************************************************************)
(* The monitor of the program's own health (core/health.py): a task for    *)
(* each check, which runs it under a timeout, keeps its latest results and *)
(* counts its failures, while checks are registered and taken out and the  *)
(* monitor is started and stopped.                                         *)
(*                                                                         *)
(* All of it runs in one event loop, given up only at an await: in a check,*)
(* in the sleep after it, and in stop(), which waits for the tasks.        *)
(***************************************************************************)
EXTENDS Integers, Sequences, SequencesExt, FiniteSets

CONSTANTS
    Checks,         \* names of checks
    CheckTasks,     \* bound: tasks ever created
    Stoppers,       \* callers of stop()
    History,        \* results kept of a check (100 in the code)
    MaxFailures,    \* max_failures; bound: counts above it are not told apart
    HealthEvents    \* bound: registrations, removals, starts and stops, taken together

ASSUME HealthAssumption ==
    /\ IsFiniteSet(Checks) /\ CheckTasks \in Nat /\ IsFiniteSet(Stoppers)
    /\ {History, MaxFailures} \subseteq Nat \ {0} /\ HealthEvents \in Nat

VARIABLES
    registered,     \* checks
    results,        \* the results of a check, the latest last
    failureCounts,  \* the count of a check; -1 where the dictionary has none
    monitoring,     \* running
    checkTasks,     \* the tasks there have been: <<check, where it is>>
    tracked,        \* tasks: the list that start() extends
    cancelled,      \* tasks that were told to stop and have not run since
    stoppers,       \* what each stop() waits for
    healthEvents

healthVars == <<registered, results, failureCounts, monitoring, checkTasks, tracked,
                cancelled, stoppers, healthEvents>>

-----------------------------------------------------------------------------
\* What a result says.  The results of a check that raised are unknown as well; they
\* are told apart by their message, and called "error" here.
Statuses == {"healthy", "warning", "unhealthy", "unknown", "error"}
TaskIds  == DOMAIN checkTasks
Live     == {t \in TaskIds : checkTasks[t].pc # "done"}

HealthEvent == healthEvents < HealthEvents /\ healthEvents' = healthEvents + 1

\* The default checks, registered when the monitor is made.
HealthInit ==
    /\ registered = Checks
    /\ results = [c \in Checks |-> <<>>] /\ failureCounts = [c \in Checks |-> 0]
    /\ monitoring = FALSE /\ checkTasks = <<>> /\ tracked = {} /\ cancelled = {}
    /\ stoppers = [s \in Stoppers |-> {}]
    /\ healthEvents = 0

-----------------------------------------------------------------------------
(* Registering.  No task is made for a new check, nor ended with its check. *)

\* Fault for RegisterCheck: the results of an older check of the name are kept.
RegisterKeepsResults(c) ==
    /\ HealthEvent
    /\ registered' = registered \cup {c}
    /\ failureCounts' = [failureCounts EXCEPT ![c] = 0]
    /\ UNCHANGED <<results, monitoring, checkTasks, tracked, cancelled, stoppers>>

RegisterCheck(c) ==
    /\ HealthEvent
    /\ registered' = registered \cup {c}
    /\ results' = [results EXCEPT ![c] = <<>>]
    /\ failureCounts' = [failureCounts EXCEPT ![c] = 0]
    /\ UNCHANGED <<monitoring, checkTasks, tracked, cancelled, stoppers>>

UnregisterCheck(c) ==
    /\ c \in registered /\ HealthEvent
    /\ registered' = registered \ {c}
    /\ results' = [results EXCEPT ![c] = <<>>]
    /\ failureCounts' = [failureCounts EXCEPT ![c] = -1]
    /\ UNCHANGED <<monitoring, checkTasks, tracked, cancelled, stoppers>>

-----------------------------------------------------------------------------
(* Starting and stopping.                                                  *)

StartMonitor ==
    /\ ~monitoring /\ HealthEvent
    /\ Len(checkTasks) + Cardinality(registered) <= CheckTasks
    /\ monitoring' = TRUE
    /\ checkTasks' = checkTasks \o
                       SetToSeq({[check |-> c, pc |-> "asleep"] : c \in registered})
    /\ tracked' = tracked \cup (DOMAIN checkTasks' \ TaskIds)
    /\ UNCHANGED <<registered, results, failureCounts, cancelled, stoppers>>

\* Cancel every task of the list, and wait for them all.
StopMonitor(s) ==
    /\ monitoring /\ stoppers[s] = {} /\ HealthEvent
    /\ monitoring' = FALSE
    /\ cancelled' = cancelled \cup (tracked \cap Live)
    /\ stoppers' = [stoppers EXCEPT ![s] = tracked]
    /\ UNCHANGED <<registered, results, failureCounts, checkTasks, tracked>>

\* They have ended: the list is emptied, of what a start() has added as well.
StopReturns(s) ==
    /\ stoppers[s] # {} /\ stoppers[s] \cap Live = {}
    /\ stoppers' = [stoppers EXCEPT ![s] = {}]
    /\ tracked' = {}
    /\ UNCHANGED <<registered, results, failureCounts, monitoring, checkTasks, cancelled,
                   healthEvents>>

-----------------------------------------------------------------------------
(* The task of a check.                                                    *)

Moves(t, pc) == checkTasks' = [checkTasks EXCEPT ![t].pc = pc]

\* Fault for NextRound: a task only ends when it is cancelled.
NextRoundAlways(t) ==
    /\ checkTasks[t].pc = "asleep" /\ t \notin cancelled
    /\ Moves(t, "checking")
    /\ UNCHANGED <<registered, results, failureCounts, monitoring, tracked, cancelled,
                   stoppers, healthEvents>>

\* It is created, or its sleep is over: the next round, while the monitor runs.
NextRound(t) ==
    /\ checkTasks[t].pc = "asleep" /\ t \notin cancelled
    /\ Moves(t, IF monitoring THEN "checking" ELSE "done")
    /\ UNCHANGED <<registered, results, failureCounts, monitoring, tracked, cancelled,
                   stoppers, healthEvents>>

\* _store_result keeps the latest.
Stored(rs, new) == LET all == rs \o new
                   IN IF Len(all) > History THEN SubSeq(all, Len(all) - History + 1, Len(all))
                                            ELSE all

\* One more failure.
OneMore(n) == IF n < MaxFailures THEN n + 1 ELSE n

\* The check answers, fails, or exceeds its timeout, which counts as unhealthy.  Every
\* other answer sets the count to zero, one that is unknown too.  A check that raises
\* leaves the count alone.  When the count is gone with its check, adding one raises
\* KeyError, and an error follows; setting it to zero brings it back.  A cancellation
\* that comes together with the answer is lost (asyncio.wait_for, before Python 3.12).
CheckReturns(t) ==
    /\ checkTasks[t].pc = "checking"
    /\ \E r \in Statuses :
         LET c     == checkTasks[t].check
             known == failureCounts[c] # -1
         IN /\ results' = [results EXCEPT ![c] =
                             Stored(@, IF r = "unhealthy" /\ ~known THEN <<r, "error">> ELSE <<r>>)]
            /\ failureCounts' = [failureCounts EXCEPT ![c] =
                                   CASE r = "error"     -> @
                                     [] r = "unhealthy" -> IF known THEN OneMore(@) ELSE @
                                     [] OTHER           -> 0]
    /\ Moves(t, "asleep")
    /\ cancelled' = cancelled \ {t}
    /\ UNCHANGED <<registered, monitoring, tracked, stoppers, healthEvents>>

CancelledEnds(t) ==
    /\ t \in cancelled
    /\ Moves(t, "done") /\ cancelled' = cancelled \ {t}
    /\ UNCHANGED <<registered, results, failureCounts, monitoring, tracked, stoppers,
                   healthEvents>>

CheckTask(t) == NextRound(t) \/ CheckReturns(t) \/ CancelledEnds(t)

HealthNext ==
    \/ \E c \in Checks : RegisterCheck(c) \/ UnregisterCheck(c)
    \/ StartMonitor \/ \E s \in Stoppers : StopMonitor(s) \/ StopReturns(s)
    \/ \E t \in TaskIds : CheckTask(t)

\* The event loop runs every task that is ready, and a timeout ends every check.
HealthFairness ==
    /\ \A t \in 1 .. CheckTasks : WF_healthVars(t \in TaskIds /\ CheckTask(t))
    /\ \A s \in Stoppers : WF_healthVars(StopReturns(s))

HealthSpec == HealthInit /\ [][HealthNext]_healthVars /\ HealthFairness

-----------------------------------------------------------------------------
HealthTypeOK ==
    /\ registered \subseteq Checks
    /\ results \in [Checks -> Seq(Statuses)] /\ failureCounts \in [Checks -> -1 .. MaxFailures]
    /\ monitoring \in BOOLEAN
    /\ checkTasks \in Seq([check : Checks, pc : {"asleep", "checking", "done"}])
    /\ Len(checkTasks) <= CheckTasks
    /\ tracked \subseteq TaskIds /\ cancelled \subseteq Live
    /\ stoppers \in [Stoppers -> SUBSET TaskIds]
    /\ healthEvents \in 0 .. HealthEvents

\* An answer, and not unhealthy.
Good(r) == r \in {"healthy", "warning", "unknown"}

\* The latest results of a check, back to the last good one, by their places.
Streak(c) == {n \in DOMAIN results[c] : \A k \in n .. Len(results[c]) : ~Good(results[c][k])}

Failures(c) == {n \in Streak(c) : results[c][n] = "unhealthy"}

\* The count of failures that the summary gives of a registered check is the number of
\* unhealthy results since its last answer that was not (as far as the results go
\* back): what the tasks of a check that was taken out or replaced still store, the
\* KeyError they may run into, and checks that raise, never put the two out of step.
FailuresCounted ==
    \A c \in Checks :
        LET bad == Cardinality(Failures(c))
            min == IF bad < MaxFailures THEN bad ELSE MaxFailures
        IN /\ c \in registered => failureCounts[c] # -1
           /\ failureCounts[c] # -1 =>
                IF Cardinality(Streak(c)) < History THEN failureCounts[c] = min
                                                    ELSE failureCounts[c] >= min

\* Once the monitor is stopped for good, every stop() returns and no task is left, not
\* even one that a start() made while stop() waited and that stop() then forgot, or
\* one that lost its cancellation.
MonitorStops ==
    <>[](~monitoring) => <>[](Live = {} /\ \A s \in Stoppers : stoppers[s] = {})
===============================================================================
