---------------------------- MODULE SecurityAudit ----------------------------
(***************************************************************************)
(* The security audit service: events are examined for anomalies as they   *)
(* are logged, and go through a queue in memory to one processor that saves    *)
(* each in the database and then in the encrypted log of the day           *)
(* (core/security_audit_service.py, api/routes/security_audit.py).         *)
(*                                                                         *)
(* Left out: what an event says beyond its source and kind, risk scores,   *)
(* what the query for unusual hours answers (a statistic over the table),  *)
(* and the table of anomalies, which is only written.  The step after the two saves calls a method     *)
(* that does not exist; the error is caught, and nothing depends on it.    *)
(***************************************************************************)
EXTENDS Integers, Sequences, FiniteSets, SequencesExt

CONSTANTS
    Sources,        \* the callers, each with an address and, maybe, a user
    Kinds,          \* the kinds of events: what is "failure" is a failed login,
                    \* what is "user" has a known user
    MaxEvents,      \* bound on the events that are logged
    MaxFailed,      \* max_failed_logins
    MaxRequests,    \* suspicious_request_threshold
    Hour, Minute,   \* the two windows, in ticks
    SaveFailures,   \* bound on the failures of the database and the file
    MaxExits        \* bound on the ends of the process

ASSUME AuditAssumption ==
    /\ MaxEvents \in Nat /\ SaveFailures \in Nat /\ MaxExits \in Nat
    /\ MaxFailed \in Nat \ {0} /\ MaxRequests \in Nat \ {0}
    /\ Hour \in Nat \ {0} /\ Minute \in Nat \ {0} /\ Minute <= Hour

VARIABLES
    events,         \* history: every event logged: age in ticks, and in which life
    reported,       \* history: the failed logins that were found to be brute force
    attempts,       \* failed_login_attempts: which, and how long ago, for each source
    querying,       \* how many calls of each source await the query for unusual hours
    tally,          \* history: the requests counted in this life, and what was said of them
    usage,          \* api_usage_patterns: requests and age of last_reset
    auditQueue,     \* event_queue
    auditor,        \* processing_task
    database,       \* what was committed to the tables, in order
    journal,        \* what was written to the encrypted log, in order
    dropped,        \* history: the saves that failed, were cancelled or lost
    auditFaults     \* how many failures and exits there were

detection == <<events, reported, attempts, querying, tally, usage>>
saving    == <<auditQueue, auditor, database, journal, dropped, auditFaults>>
auditVars == <<detection, saving>>

-----------------------------------------------------------------------------
\* Older than the longest window is all the same.
Oldest == Hour + 1
Older(age) == IF age < Oldest THEN age + 1 ELSE age

\* The same for the short one.
Past == Minute + 1
GoesBy(age) == IF age < Past THEN age + 1 ELSE age

AttemptType == [event : 1 .. MaxEvents, age : 0 .. Oldest]
EventType == [source : Sources, kind : Kinds, age : 0 .. Oldest, life : 0 .. MaxExits]

CountedType == [source : Sources, age : 0 .. Past, verdict : {"burst", "usual"}]

NoUsage == [requests |-> 0, reset |-> 0, known |-> FALSE]
Off     == [pc |-> "off", event |-> 0]
Ready   == [pc |-> "ready", event |-> 0]

Forgotten ==
    /\ attempts' = [s \in Sources |-> {}]
    /\ querying' = [s \in Sources |-> 0]
    /\ tally' = <<>>
    /\ usage' = [s \in Sources |-> NoUsage]

AuditInit ==
    /\ events = <<>> /\ reported = {}
    /\ attempts = [s \in Sources |-> {}] /\ usage = [s \in Sources |-> NoUsage]
    /\ querying = [s \in Sources |-> 0] /\ tally = <<>>
    /\ auditQueue = <<>> /\ auditor = Ready
    /\ database = <<>> /\ journal = <<>> /\ dropped = {}
    /\ auditFaults = [failures |-> 0, exits |-> 0]

-----------------------------------------------------------------------------
(* Logging and detection.  The call queues the event and looks for brute force     *)
(* without suspending; a known user's call then awaits a query, and counts *)
(* the request when it is answered, whatever was logged meanwhile.         *)

This(n) == [event |-> n, age |-> 0]

\* Fault for Attempts: an attempt of an hour ago counts too.
AttemptsInclusive(s, kind, n) ==
    IF "failure" \in kind THEN {a \in attempts[s] \cup {This(n)} : a.age <= Hour} ELSE attempts[s]

\* _detect_brute_force: the attempts of the last hour, with this one.
Attempts(s, kind, n) ==
    IF "failure" \in kind THEN {a \in attempts[s] \cup {This(n)} : a.age < Hour} ELSE attempts[s]

IsBruteForce(s, kind, n) ==
    "failure" \in kind /\ Cardinality(Attempts(s, kind, n)) >= MaxFailed

LogEvent(s, kind) ==
    LET n == Len(events) + 1
    IN /\ n <= MaxEvents
       /\ events' = Append(events, [source |-> s, kind |-> kind, age |-> 0,
                                   life |-> auditFaults.exits])
       /\ auditQueue' = Append(auditQueue, n)
       /\ attempts' = [attempts EXCEPT ![s] = Attempts(s, kind, n)]
       /\ reported' = IF IsBruteForce(s, kind, n) THEN reported \cup {n} ELSE reported
       /\ querying' = IF "user" \in kind THEN [querying EXCEPT ![s] = @ + 1] ELSE querying
       /\ UNCHANGED <<tally, usage, auditor, database, journal, dropped, auditFaults>>

\* Fault for Usage: the pattern of the user is made anew each time.
UsageForgotten(s) == [requests |-> 1, reset |-> 0, known |-> TRUE]

\* _detect_high_frequency_requests: the requests since last_reset, which is set
\* anew when it is more than a minute ago.
Usage(s) ==
    IF usage[s].known /\ usage[s].reset <= Minute
    THEN [usage[s] EXCEPT !.requests = @ + 1]
    ELSE [requests |-> 1, reset |-> 0, known |-> TRUE]

Verdict(s) == IF Usage(s).requests > MaxRequests THEN "burst" ELSE "usual"

\* The query is answered, or has failed, which is the same here.
CountRequest(s) ==
    /\ querying[s] > 0
    /\ querying' = [querying EXCEPT ![s] = @ - 1]
    /\ usage' = [usage EXCEPT ![s] = Usage(s)]
    /\ tally' = Append(tally, [source |-> s, age |-> 0, verdict |-> Verdict(s)])
    /\ UNCHANGED <<events, reported, attempts, saving>>

AuditTick ==
    /\ events' = [n \in DOMAIN events |-> [events[n] EXCEPT !.age = Older(@)]]
    /\ attempts' = [s \in Sources |-> {[a EXCEPT !.age = Older(@)] : a \in attempts[s]}]
    /\ tally' = [i \in DOMAIN tally |-> [tally[i] EXCEPT !.age = GoesBy(@)]]
    /\ usage' = [s \in Sources |-> [usage[s] EXCEPT !.reset = GoesBy(@)]]
    /\ UNCHANGED <<reported, querying, saving>>

-----------------------------------------------------------------------------
(* The processor.                                                          *)

\* Fault for TakeEvent: it waits for two events.
TakeEventInPairs ==
    /\ auditor.pc = "ready"
    /\ Len(auditQueue) >= 2
    /\ auditor' = [pc |-> "database", event |-> Head(auditQueue)]
    /\ auditQueue' = Tail(auditQueue)
    /\ UNCHANGED <<detection, database, journal, dropped, auditFaults>>

TakeEvent ==
    /\ auditor.pc = "ready"
    /\ auditQueue # <<>>
    /\ auditor' = [pc |-> "database", event |-> Head(auditQueue)]
    /\ auditQueue' = Tail(auditQueue)
    /\ UNCHANGED <<detection, database, journal, dropped, auditFaults>>

Fails == /\ auditFaults.failures < SaveFailures
         /\ auditFaults' = [auditFaults EXCEPT !.failures = @ + 1]

\* A failure of the database is logged, and the file is written all the same.
SaveToDatabase ==
    /\ auditor.pc = "database"
    /\ \/ database' = Append(database, auditor.event) /\ UNCHANGED <<dropped, auditFaults>>
       \/ Fails /\ dropped' = dropped \cup {<<"database", auditor.event>>} /\ UNCHANGED database
    /\ auditor' = [auditor EXCEPT !.pc = "file"]
    /\ UNCHANGED <<detection, auditQueue, journal>>

SaveToLog ==
    /\ auditor.pc = "file"
    /\ \/ journal' = Append(journal, auditor.event) /\ UNCHANGED <<dropped, auditFaults>>
       \/ Fails /\ dropped' = dropped \cup {<<"file", auditor.event>>} /\ UNCHANGED journal
    /\ auditor' = Ready
    /\ UNCHANGED <<detection, auditQueue, database>>

\* The saves an interruption leaves undone; the one it hits may be done or not.
Interrupted ==
    /\ \/ UNCHANGED <<database, journal>>
       \/ auditor.pc = "database" /\ database' = Append(database, auditor.event)
          /\ UNCHANGED journal
       \/ auditor.pc = "file" /\ journal' = Append(journal, auditor.event)
          /\ UNCHANGED database

Undone == {<<where, auditor.event>> : where \in
             IF auditor.pc = "database" THEN {"database", "file"}
             ELSE IF auditor.pc = "file" THEN {"file"} ELSE {}}

-----------------------------------------------------------------------------
\* Fault for StartAudit: the queue is made anew.
StartAuditEmpty ==
    /\ auditor.pc = "off"
    /\ auditor' = Ready
    /\ auditQueue' = <<>>
    /\ UNCHANGED <<detection, database, journal, dropped, auditFaults>>

\* start(): an auditor, unless there is one that is not done.
StartAudit ==
    /\ auditor.pc = "off"
    /\ auditor' = Ready
    /\ UNCHANGED <<detection, auditQueue, database, journal, dropped, auditFaults>>

\* stop(): the auditor is cancelled at whatever it awaits.  What it was saving
\* is not put back.  What is queued waits for the next start.
StopAudit ==
    /\ auditor.pc # "off"
    /\ Interrupted
    /\ dropped' = dropped \cup Undone
    /\ auditor' = Off
    /\ UNCHANGED <<detection, auditQueue, auditFaults>>

\* The process ends, after a stop or without one, and another starts.
AuditExit ==
    /\ auditFaults.exits < MaxExits /\ auditFaults' = [auditFaults EXCEPT !.exits = @ + 1]
    /\ Interrupted
    /\ dropped' = dropped \cup Undone
                          \cup {"database", "file"} \X {auditQueue[i] : i \in DOMAIN auditQueue}
    /\ auditQueue' = <<>>
    /\ auditor' = Ready
    /\ Forgotten
    /\ UNCHANGED <<events, reported>>

-----------------------------------------------------------------------------
Process == TakeEvent \/ SaveToDatabase \/ SaveToLog

AuditNext ==
    \/ \E s \in Sources : CountRequest(s) \/ \E kind \in Kinds : LogEvent(s, kind)
    \/ AuditTick \/ Process \/ StartAudit \/ StopAudit \/ AuditExit

AuditFairness == WF_auditVars(Process)

AuditSpec == AuditInit /\ [][AuditNext]_auditVars /\ AuditFairness
-----------------------------------------------------------------------------
AuditTypeOK ==
    /\ events \in Seq(EventType)
    /\ reported \subseteq 1 .. MaxEvents
    /\ querying \in [Sources -> Nat] /\ tally \in Seq(CountedType)
    /\ attempts \in [Sources -> SUBSET AttemptType]
    /\ usage \in [Sources -> [requests : Nat, reset : 0 .. Past, known : BOOLEAN]]
    /\ auditQueue \in Seq(1 .. MaxEvents)
    /\ auditor \in [pc : {"off", "ready", "database", "file"}, event : 0 .. MaxEvents]
    /\ database \in Seq(1 .. MaxEvents) /\ journal \in Seq(1 .. MaxEvents)
    /\ dropped \subseteq {"database", "file"} \X (1 .. MaxEvents)
    /\ auditFaults \in [failures : 0 .. SaveFailures, exits : 0 .. MaxExits]

Increasing(q) == \A i, j \in DOMAIN q : i < j => q[i] < q[j]

\* Every event is saved in each place at most once and in the order it was
\* logged, and one that is not there, and is neither waiting nor being saved, was
\* given up by a failed save, a cancelled one, or the end of the process:
\* whatever is stopped and started, nothing else loses an event.
Audited ==
    /\ Increasing(database) /\ Increasing(journal)
    /\ \A n \in DOMAIN events :
         n \in Range(auditQueue) \/
         /\ \/ n \in Range(database) \/ <<"database", n>> \in dropped
            \/ auditor = [pc |-> "database", event |-> n]
         /\ \/ n \in Range(journal) \/ <<"file", n>> \in dropped
            \/ auditor.pc \in {"database", "file"} /\ auditor.event = n

\* The failed logins of a source in this life of the process, younger than t.
RecentFailures(s, t) ==
    {n \in DOMAIN events : /\ events[n].source = s /\ "failure" \in events[n].kind
                          /\ events[n].age < t /\ events[n].life = auditFaults.exits}

\* A failed login is reported exactly when it is at least the MaxFailed-th of its
\* address within the hour, whatever came and went before.
BruteForceReported ==
    [][\A n \in DOMAIN events' \ DOMAIN events :
         (n \in reported') <=>
             /\ "failure" \in events'[n].kind
             /\ Cardinality(RecentFailures(events'[n].source, Hour)) + 1 >= MaxFailed]_auditVars

\* The window of the request counter is fixed, not sliding, and requests are counted
\* when their queries are answered.  A user none of whose requests is reported may
\* have had twice the threshold of them counted within a minute, but no more than
\* that.
BurstReported ==
    \A s \in Sources :
        LET counted == {i \in DOMAIN tally : tally[i].source = s /\ tally[i].age <= Minute}
        IN Cardinality(counted) > 2 * MaxRequests => \E i \in counted : tally[i].verdict = "burst"

\* What log_event takes in is kept, and what is suspicious about it noticed.
AuditKept == Audited /\ BurstReported

\* While there is an auditor, a queued event does not wait for ever.
AuditProcessed ==
    \A n \in 1 .. MaxEvents :
        (n \in Range(auditQueue)) ~> (n \notin Range(auditQueue) \/ auditor.pc = "off")
===============================================================================
