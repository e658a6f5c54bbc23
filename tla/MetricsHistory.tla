---------------------------- MODULE MetricsHistory -----------------------------
(***************************************************************************)
(* The history of container metrics (core/metrics_collector.py): a worker  *)
(* measures the monitored containers every few seconds and appends what it *)
(* measured, and the alerts that follow, to a file of that day; a cleaner  *)
(* removes old files once a day; queries read the files of the days that   *)
(* they ask for, one after the other.                                      *)
(*                                                                         *)
(* All of it runs in one event loop, given up at an await: opening and     *)
(* writing a file, each file read, the sleeps.  Time is counted in ticks   *)
(* and a day has DayTicks of them; midnight may pass at any await.  It is  *)
(* UTC; only the cleaner takes the times of its files in local time.       *)
(***************************************************************************)
EXTENDS DayFiles, Integers, FiniteSets

CONSTANTS
    MetricContainers,   \* containers
    RetentionDays,      \* retention_days (7 in the code)
    Offsets,            \* how far local time is ahead of UTC, in ticks: there is more
                        \* than one, as daylight saving comes and goes
    Windows,            \* how far back queries ask, in ticks
    Measures,           \* bound: measures ever stored, each with its alert, if any
    MetricHorizon       \* bound: the last tick

ASSUME HistoryAssumption ==
    /\ IsFiniteSet(MetricContainers) /\ RetentionDays \in Nat \ {0}
    /\ {Measures, MetricHorizon} \subseteq Nat
    /\ Windows \subseteq Nat \ {0} /\ Offsets \subseteq Int /\ Offsets # {}

VARIABLES
    metricClock,
    collectorOn,    \* is_running
    watched,        \* monitored_containers
    round,          \* what the collection worker has before it: containers, lines
    cleanerDue,     \* when the cleaner wakes up
    metricFiles,    \* what the files hold
    writtenAt,      \* when the files that exist were last written
    query,          \* the query being answered
    measured        \* history: every line ever written

historyVars == <<metricClock, collectorOn, watched, round, cleanerDue, metricFiles,
                 writtenAt, query, measured>>

-----------------------------------------------------------------------------
LineKinds == {"metric", "alert"}

\* A line which the cleaner leaves until the next tick is over, wherever the host is.
Retained(line) == \A o \in Offsets : line.at + o > metricClock - RetentionDays * DayTicks

\* A line is in the file of the day of its timestamp, of its kind.
FileOf(line) == [kind |-> line.kind, day |-> DayOf(line.at)]

NoRound == [todo |-> {}, lines |-> {}]
NoQuery == [pc |-> "none", kind |-> "metric", window |-> 0, from |-> 0, read |-> 0,
            day |-> 0, got |-> {}, due |-> {}]
Asking  == query.pc \in {"reading", "opening"}

HistoryInit ==
    /\ metricClock = 0
    /\ collectorOn = FALSE /\ watched = {} /\ round = NoRound /\ cleanerDue = -1
    /\ metricFiles = {} /\ writtenAt = <<>> /\ measured = {}
    /\ query = NoQuery

\* Bound of the model: the time ticks at most once while a query is answered.
MetricTick ==
    /\ metricClock < MetricHorizon
    /\ Asking => metricClock = query.from + query.window
    /\ metricClock' = metricClock + 1
    /\ UNCHANGED <<collectorOn, watched, round, cleanerDue, metricFiles, writtenAt,
                   query, measured>>

-----------------------------------------------------------------------------
(* Starting and stopping.                                                  *)

\* The containers that Docker lists join the monitored ones.  One that is gone stays:
\* the failure of its measure is caught where it happens, in collecting it.
Discover == \E running \in SUBSET MetricContainers : watched' = watched \cup running

StartCollector ==
    /\ ~collectorOn
    /\ collectorOn' = TRUE
    /\ Discover
    /\ cleanerDue' = metricClock + DayTicks
    /\ UNCHANGED <<metricClock, round, metricFiles, writtenAt, query, measured>>

\* A line goes to its file, in a thread of its own.
WriteTo(l) ==
    /\ metricFiles' = metricFiles \cup {l} /\ measured' = measured \cup {l}
    /\ writtenAt' = [f \in DOMAIN writtenAt \cup {FileOf(l)} |->
                        IF f = FileOf(l) THEN metricClock ELSE writtenAt[f]]

\* The line that comes next: that of the measure, and then those of its alerts.
NextLine(l) ==
    /\ l \in round.lines
    /\ l.kind = "alert" => \A k \in round.lines : k.kind = "alert"

\* Both tasks are cancelled, and end at the await they are suspended in.  A line that
\* is being written then is either lost or written all the same; those after it are lost.
StopCollector ==
    /\ collectorOn
    /\ collectorOn' = FALSE /\ watched' = {} /\ round' = NoRound /\ cleanerDue' = -1
    /\ \/ UNCHANGED <<metricFiles, writtenAt, measured>>
       \/ \E l \in round.lines : NextLine(l) /\ WriteTo(l)
    /\ UNCHANGED <<metricClock, query>>

-----------------------------------------------------------------------------
(* The collection worker.                                                  *)

\* A round begins, after the sleep that ends the last one.
BeginRound ==
    /\ collectorOn /\ round = NoRound
    /\ Discover
    /\ round' = [NoRound EXCEPT !.todo = watched']
    /\ UNCHANGED <<metricClock, collectorOn, cleanerDue, metricFiles, writtenAt, query,
                   measured>>

\* The measure of one container, if Docker has one, and whether it crosses a threshold.
TakeMeasure(c) ==
    /\ collectorOn /\ round.lines = {} /\ c \in round.todo
    /\ \E kinds \in {{}, {"metric"}, LineKinds} :
         /\ kinds # {} => Cardinality({l \in measured : l.kind = "metric"}) < Measures
         /\ round' = [todo  |-> round.todo \ {c},
                      lines |-> {[kind |-> k, of |-> c, at |-> metricClock] : k \in kinds}]
    /\ UNCHANGED <<metricClock, collectorOn, watched, cleanerDue, metricFiles, writtenAt,
                   query, measured>>

WriteLine ==
    /\ collectorOn
    /\ \E l \in round.lines :
         /\ NextLine(l) /\ WriteTo(l)
         /\ round' = [round EXCEPT !.lines = @ \ {l}]
    /\ UNCHANGED <<metricClock, collectorOn, watched, cleanerDue, query>>

-----------------------------------------------------------------------------
(* The cleaner: the files not written to for the time of retention.        *)

\* Fault for Stale: a day too early.
StaleADayEarly(f, offset) == writtenAt[f] + offset < metricClock - (RetentionDays - 1) * DayTicks

\* The time of the file is local time, the one it is compared with is not.
Stale(f, offset) == writtenAt[f] + offset < metricClock - RetentionDays * DayTicks

CleanFiles ==
    /\ collectorOn /\ cleanerDue <= metricClock
    /\ \E offset \in Offsets :
         LET kept == {f \in DOMAIN writtenAt : ~Stale(f, offset)}
         IN  /\ metricFiles' = {l \in metricFiles : FileOf(l) \in kept}
             /\ writtenAt' = [f \in kept |-> writtenAt[f]]
    /\ cleanerDue' = metricClock + DayTicks
    /\ UNCHANGED <<metricClock, collectorOn, watched, round, query, measured>>

-----------------------------------------------------------------------------
(* Queries.                                                                *)

AskRecent(kind, window) ==
    /\ query.pc = "none"
    /\ query' = [NoQuery EXCEPT
           !.pc = "reading", !.kind = kind, !.window = window, !.from = metricClock - window,
           !.due = {l \in measured : /\ l.kind = kind /\ l.at >= metricClock - window
                                     /\ Retained(l)}]
    /\ UNCHANGED <<metricClock, collectorOn, watched, round, cleanerDue, metricFiles,
                   writtenAt, measured>>

\* The file of the next day is passed over if it is not there, or else opened.
FindFile ==
    /\ query.pc = "reading" /\ query.read < FilesRead(query.window)
    /\ LET day == DayRead(metricClock, query.read)
       IN  query' = IF [kind |-> query.kind, day |-> day] \in DOMAIN writtenAt
                    THEN [query EXCEPT !.pc = "opening", !.day = day]
                    ELSE [query EXCEPT !.read = @ + 1]
    /\ UNCHANGED <<metricClock, collectorOn, watched, round, cleanerDue, metricFiles,
                   writtenAt, measured>>

\* When the cleaner has removed it by then, the error is caught outside the loop: the
\* answer is empty, whatever the other files hold.
ReadFile ==
    /\ query.pc = "opening"
    /\ LET f == [kind |-> query.kind, day |-> query.day]
       IN  query' = IF f \in DOMAIN writtenAt
                    THEN [query EXCEPT
                            !.pc = "reading", !.read = @ + 1,
                            !.got = @ \cup {l \in metricFiles : FileOf(l) = f /\ l.at >= query.from}]
                    ELSE [query EXCEPT !.pc = "failed", !.got = {}]
    /\ UNCHANGED <<metricClock, collectorOn, watched, round, cleanerDue, metricFiles,
                   writtenAt, measured>>

Answer ==
    /\ query.pc = "reading" /\ query.read = FilesRead(query.window)
    /\ query' = [query EXCEPT !.pc = "answered"]
    /\ UNCHANGED <<metricClock, collectorOn, watched, round, cleanerDue, metricFiles,
                   writtenAt, measured>>

\* The caller has its answer, and the next may ask.
Answered ==
    /\ query.pc \in {"answered", "failed"}
    /\ query' = NoQuery
    /\ UNCHANGED <<metricClock, collectorOn, watched, round, cleanerDue, metricFiles,
                   writtenAt, measured>>

-----------------------------------------------------------------------------
HistoryNext ==
    \/ MetricTick \/ StartCollector \/ StopCollector
    \/ BeginRound \/ WriteLine \/ CleanFiles
    \/ \E c \in MetricContainers : TakeMeasure(c)
    \/ \E kind \in LineKinds, window \in Windows : AskRecent(kind, window)
    \/ FindFile \/ ReadFile \/ Answer \/ Answered

-----------------------------------------------------------------------------
MetricLines == [kind : LineKinds, of : MetricContainers, at : 0 .. MetricHorizon]

HistoryTypeOK ==
    /\ metricClock \in 0 .. MetricHorizon /\ collectorOn \in BOOLEAN
    /\ {watched, round.todo} \subseteq SUBSET MetricContainers
    /\ round.lines \subseteq MetricLines /\ measured \subseteq MetricLines
    /\ cleanerDue \in Int
    /\ metricFiles \subseteq measured
    /\ DOMAIN writtenAt = {FileOf(l) : l \in metricFiles}
    /\ query.pc \in {"none", "reading", "opening", "answered", "failed"} /\ query.got \subseteq measured

\* As many days as such a query reads files are well within the retention.
WellWithin(window) ==
    \A o \in Offsets : RetentionDays * DayTicks + o >= FilesRead(window) * DayTicks

\* A query answers with every line that was written before it was asked, is no older
\* than it asks for, and not so old that the cleaner may take it (by a clock that is
\* ahead or behind), though midnight may pass between the files it reads, and though a
\* line may be written after the midnight of its timestamp.  Only one that reads files
\* that are about as old as files get may lose its answer to the cleaner.
RecentFound ==
    /\ query.pc = "answered" => query.due \subseteq query.got
    /\ query.pc = "failed" => ~WellWithin(query.window)
===============================================================================
