------------------------------ MODULE LogBuffers ------------------------------
(***************************************************************************)
(* The log collector: one task per container reads the lines Docker        *)
(* streams into a buffer, and the task itself, a worker, remove_container  *)
(* and stop append the buffer to a file and clear it                       *)
(* (core/log_collector.py, api/routes/centralized_logs.py).                *)
(*                                                                         *)
(* Docker's stream is a blocking iterator that follows the container: while*)
(* a task waits for the next line nothing else of the event loop runs, and *)
(* the task gives the loop up only for the awaits of a flush, one for each *)
(* entry, or when it ends.  An entry is the number of its line.            *)
(***************************************************************************)
EXTENDS Integers, Sequences, FiniteSets, Functions

CONSTANTS
    LogContainers,  \* the containers of Docker
    BufferSize,     \* buffer_size
    Lines,          \* bound on the lines collected of each container
    Tasks,          \* the tasks that may be created
    LogStops,       \* bound on the calls of /stop
    WriteFailures   \* bound on the failures of opening, writing and closing

ASSUME LogAssumption ==
    /\ BufferSize \in Nat \ {0} /\ Lines \in Nat /\ LogStops \in Nat /\ WriteFailures \in Nat
    /\ IsFiniteSet(Tasks) /\ IsFiniteSet(LogContainers)
    /\ {"worker", "remove", "stop"} \cap Tasks = {}

VARIABLES
    collecting,     \* is_running
    monitored,      \* monitored_containers
    holder,         \* collection_tasks: the task of a container, if any
    tasks,          \* the tasks themselves
    lists,          \* the buffers ever made
    buffers,        \* log_buffers: which of them a container has, 0 if none
    flushers,       \* whoever flushes, and where it is
    reading,        \* the task that holds the event loop, waiting for a line, if any
    logFiles,       \* the file of each container
    collected,      \* how many lines of each container were collected
    spoiled,        \* containers whose lines something spoiled, see SavedOnce
    logFaults       \* how many stops and failures there were

logVars == <<collecting, monitored, holder, tasks, lists, buffers, flushers, reading,
             logFiles, collected, spoiled, logFaults>>

-----------------------------------------------------------------------------
Flushers == Tasks \cup {"worker", "remove", "stop"}
ListIds  == 1 .. Cardinality(LogContainers) * (LogStops + 1)

FlushType == [pc : {"idle", "over", "writing", "closing"}, todo : SUBSET LogContainers,
              on : SUBSET LogContainers, list : {0} \cup ListIds, written : Nat]
NoFlush == [pc |-> "idle", todo |-> {}, on |-> {}, list |-> 0, written |-> 0]

TaskType == [of : SUBSET LogContainers, cancelled : BOOLEAN,
             pc : {"none", "created", "reading", "done"}]
NoTask   == [of |-> {}, cancelled |-> FALSE, pc |-> "none"]
OverTask == [NoTask EXCEPT !.pc = "done"]

Buffer(c) == IF buffers[c] = 0 THEN <<>> ELSE lists[buffers[c]]

FlushingOn(c) == {f \in Flushers : c \in flushers[f].on}

LogInit ==
    /\ collecting = FALSE /\ monitored = {} /\ holder = [c \in LogContainers |-> {}]
    /\ tasks = [t \in Tasks |-> NoTask]
    /\ lists = [l \in ListIds |-> <<>>] /\ buffers = [c \in LogContainers |-> 0]
    /\ flushers = [f \in Flushers |-> NoFlush] /\ reading = {}
    /\ logFiles = [c \in LogContainers |-> <<>>] /\ collected = [c \in LogContainers |-> 0]
    /\ spoiled = {} /\ logFaults = [stops |-> 0, failures |-> 0]

-----------------------------------------------------------------------------
\* _flush_all_buffers and _flush_container_buffer up to their next await: of the
\* containers of S, those with an empty buffer are passed over; the file of the
\* next is opened, and an iterator over the list itself begins.
OpenFile(c, S) == [pc |-> "writing", todo |-> S \ {c}, on |-> {c}, list |-> buffers[c],
                   written |-> 0]

Flush(f, S) == LET full == {c \in S : Buffer(c) # <<>>}
            IN IF full = {} THEN {[NoFlush EXCEPT !.pc = IF f = "stop" THEN "over" ELSE "idle"]}
               ELSE {OpenFile(c, S) : c \in full}

\* A flush of a buffer that begins during another one.
Overlaps(flush) == {c \in flush.on : FlushingOn(c) # {}}

(* The calls of the API.                                                   *)

\* add_container for each of S that is not monitored: a task each.
Add(S) ==
    LET new == CHOOSE n \in [S \ monitored -> {t \in Tasks : tasks[t].pc = "none"}] :
                   IsInjective(n)
    IN /\ Cardinality(S \ monitored) <= Cardinality({t \in Tasks : tasks[t].pc = "none"})
       /\ monitored' = monitored \cup S
       /\ holder' = [c \in LogContainers |-> IF c \in DOMAIN new THEN {new[c]} ELSE holder[c]]
       /\ tasks' = [t \in Tasks |->
                       IF t \in Range(new)
                       THEN [of |-> {c \in DOMAIN new : new[c] = t}, cancelled |-> FALSE,
                             pc |-> "created"]
                       ELSE tasks[t]]

\* start(): the containers that run are discovered.  When stop() is still busy,
\* it will throw away what is collected from now on.
StartCollecting ==
    /\ ~collecting
    /\ collecting' = TRUE
    /\ \E running \in SUBSET LogContainers : Add(running)
    /\ spoiled' = IF flushers["stop"].pc = "idle" THEN spoiled ELSE LogContainers
    /\ UNCHANGED <<lists, buffers, flushers, reading, logFiles, collected, logFaults>>

AddContainer(c) ==
    /\ c \notin monitored
    /\ Add({c})
    /\ UNCHANGED <<collecting, lists, buffers, flushers, reading, logFiles, collected, spoiled,
                   logFaults>>

\* A task that is cancelled before it first ran does nothing at all, not even its
\* finally; another one gets the exception where it is suspended.
Cancel(S) == [t \in Tasks |-> IF t \notin S \/ tasks[t].pc = "done" THEN tasks[t]
                              ELSE IF tasks[t].pc = "created" THEN OverTask
                              ELSE [tasks[t] EXCEPT !.cancelled = TRUE]]

\* Fault for RemoveContainer: the entry of the task is left to the task.
RemoveKeepsTask(c) ==
    /\ c \in monitored
    /\ flushers["remove"].pc = "idle"
    /\ monitored' = monitored \ {c}
    /\ tasks' = Cancel(holder[c])
    /\ \E flush \in Flush("remove", {c}) :
         /\ flushers' = [flushers EXCEPT !["remove"] = flush]
         /\ spoiled' = spoiled \cup Overlaps(flush)
    /\ UNCHANGED <<collecting, holder, lists, buffers, reading, logFiles, collected, logFaults>>

RemoveContainer(c) ==
    /\ c \in monitored
    /\ flushers["remove"].pc = "idle"
    /\ monitored' = monitored \ {c}
    /\ holder' = [holder EXCEPT ![c] = {}]
    /\ tasks' = Cancel(holder[c])
    /\ \E flush \in Flush("remove", {c}) :
         /\ flushers' = [flushers EXCEPT !["remove"] = flush]
         /\ spoiled' = spoiled \cup Overlaps(flush)
    /\ UNCHANGED <<collecting, lists, buffers, reading, logFiles, collected, logFaults>>

\* stop(): the tasks and the worker are cancelled, then everything is flushed.
StopCollecting ==
    /\ collecting
    /\ logFaults.stops < LogStops /\ logFaults' = [logFaults EXCEPT !.stops = @ + 1]
    /\ flushers["stop"].pc = "idle"
    /\ collecting' = FALSE
    /\ tasks' = Cancel(UNION {holder[c] : c \in LogContainers})
    /\ \E flush \in Flush("stop", {c \in LogContainers : buffers[c] # 0}) :
         /\ flushers' = [flushers EXCEPT !["worker"] = NoFlush, !["stop"] = flush]
         /\ spoiled' = spoiled \cup Overlaps(flush) \cup flushers["worker"].on
    /\ UNCHANGED <<monitored, holder, lists, buffers, reading, logFiles, collected>>

\* ... and the state is cleared.
StopEnds ==
    /\ flushers["stop"].pc = "over"
    /\ flushers' = [flushers EXCEPT !["stop"] = NoFlush]
    /\ monitored' = {} /\ holder' = [c \in LogContainers |-> {}]
    /\ buffers' = [c \in LogContainers |-> 0]
    /\ UNCHANGED <<collecting, tasks, lists, reading, logFiles, collected, spoiled, logFaults>>

-----------------------------------------------------------------------------
(* A task.                                                                 *)

\* It runs for the first time, and asks Docker for the stream.
TaskStarts(t) ==
    /\ tasks[t].pc = "created"
    /\ tasks' = [tasks EXCEPT ![t].pc = "reading"]
    /\ reading' = {t}
    /\ UNCHANGED <<collecting, monitored, holder, lists, buffers, flushers, logFiles, collected,
                   spoiled, logFaults>>

\* The finally of a task: whoever the container is monitored by now, it is not
\* monitored any more, and the entry of its task goes.
TaskEnds(t) ==
    /\ tasks' = [tasks EXCEPT ![t] = OverTask]
    /\ monitored' = monitored \ tasks[t].of
    /\ holder' = [c \in LogContainers |-> IF c \in tasks[t].of THEN {} ELSE holder[c]]

\* One more line goes to the buffer, which is made if there is none.
Collect(c) ==
    LET line == collected[c] + 1
        l == CHOOSE k \in ListIds : /\ lists[k] = <<>>
                                    /\ \A f \in Flushers : flushers[f].list # k
                                    /\ \A d \in LogContainers : buffers[d] # k
    IN /\ line <= Lines
       /\ collected' = [collected EXCEPT ![c] = line]
       /\ IF buffers[c] = 0
          THEN buffers' = [buffers EXCEPT ![c] = l] /\ lists' = [lists EXCEPT ![l] = <<line>>]
          ELSE UNCHANGED buffers /\ lists' = [lists EXCEPT ![buffers[c]] = Append(@, line)]

\* Docker has a line for the task, which goes on to wait for the next one, or, when
\* the buffer is full, begins to flush it and lets others run.
ReadLine(t) ==
    /\ flushers[t].pc = "idle" /\ collecting
    /\ \E c \in tasks[t].of :
         /\ c \in monitored
         /\ Collect(c)
         /\ spoiled' = IF FlushingOn(c) = {} THEN spoiled ELSE spoiled \cup {c}
         /\ IF Len(Buffer(c)) + 1 < BufferSize
            THEN UNCHANGED <<flushers, reading>>
            ELSE /\ flushers' = [flushers EXCEPT ![t] = [OpenFile(c, {}) EXCEPT !.list = buffers'[c]]]
                 /\ reading' = {}
    /\ UNCHANGED <<collecting, monitored, holder, tasks, logFiles, logFaults>>

\* The stream ends, fails, or could not be had at all; or the test of the loop says
\* stop, after a line that is not kept.
StreamEnds(t) ==
    /\ TaskEnds(t) /\ reading' = {}
    /\ UNCHANGED <<collecting, lists, buffers, flushers, logFiles, collected, spoiled, logFaults>>

\* The exception of a cancellation arrives, which no handler in between catches.
TaskCancelled(t) ==
    /\ tasks[t].pc = "reading" /\ tasks[t].cancelled
    /\ TaskEnds(t)
    /\ flushers' = [flushers EXCEPT ![t] = NoFlush]
    /\ spoiled' = spoiled \cup flushers[t].on
    /\ UNCHANGED <<collecting, lists, buffers, reading, logFiles, collected, logFaults>>

-----------------------------------------------------------------------------
(* Flushing.                                                               *)

\* Fault for WorkerFlushes: it waits for a full buffer.
WorkerFlushesFull ==
    /\ collecting
    /\ flushers["worker"].pc = "idle"
    /\ \E c \in LogContainers : Len(Buffer(c)) >= BufferSize
    /\ \E flush \in Flush("worker", {c \in LogContainers : Len(Buffer(c)) >= BufferSize}) :
         /\ flushers' = [flushers EXCEPT !["worker"] = flush]
         /\ spoiled' = spoiled \cup Overlaps(flush)
    /\ UNCHANGED <<collecting, monitored, holder, tasks, lists, buffers, reading, logFiles,
                   collected, logFaults>>

WorkerFlushes ==
    /\ collecting
    /\ flushers["worker"].pc = "idle"
    /\ \E c \in LogContainers : Buffer(c) # <<>>
    /\ \E flush \in Flush("worker", {c \in LogContainers : buffers[c] # 0}) :
         /\ flushers' = [flushers EXCEPT !["worker"] = flush]
         /\ spoiled' = spoiled \cup Overlaps(flush)
    /\ UNCHANGED <<collecting, monitored, holder, tasks, lists, buffers, reading, logFiles,
                   collected, logFaults>>

WriteEntry(f) ==
    /\ flushers[f].pc = "writing"
    /\ flushers[f].written < Len(lists[flushers[f].list])
    /\ logFiles' = [c \in LogContainers |->
                      IF c \in flushers[f].on \ spoiled
                      THEN Append(logFiles[c], lists[flushers[f].list][flushers[f].written + 1])
                      ELSE logFiles[c]]
    /\ flushers' = [flushers EXCEPT ![f].written = @ + 1]
    /\ UNCHANGED <<collecting, monitored, holder, tasks, lists, buffers, reading, collected, spoiled,
                   logFaults>>

CloseFile(f) ==
    /\ flushers[f].pc = "writing"
    /\ flushers[f].written >= Len(lists[flushers[f].list])
    /\ flushers' = [flushers EXCEPT ![f].pc = "closing"]
    /\ UNCHANGED <<collecting, monitored, holder, tasks, lists, buffers, reading, logFiles,
                   collected, spoiled, logFaults>>

\* On to the next container, if there is one; if not, a task goes on reading.
FlushNext(f, spoilt) ==
    \E flush \in Flush(f, flushers[f].todo) :
        /\ flushers' = [flushers EXCEPT ![f] = flush]
        /\ spoiled' = spoiled \cup spoilt \cup Overlaps(flush)
        /\ reading' = {f} \cap Tasks

\* Fault for ClearBuffer: the buffer is not cleared.
ClearBufferNot(f) ==
    /\ flushers[f].pc = "closing"
    /\ FlushNext(f, {})
    /\ UNCHANGED <<collecting, monitored, holder, tasks, lists, buffers, logFiles, collected,
                   logFaults>>

\* The file is closed: the buffer the container has now is cleared, whatever it
\* holds by now.
ClearBuffer(f) ==
    /\ flushers[f].pc = "closing"
    /\ FlushNext(f, {})
    /\ lists' = [l \in ListIds |-> IF \E c \in flushers[f].on : buffers[c] = l THEN <<>> ELSE lists[l]]
    /\ UNCHANGED <<collecting, monitored, holder, tasks, buffers, logFiles, collected, logFaults>>

\* Opening, writing or closing fails: the buffer stays as it is.
FlushFails(f) ==
    /\ flushers[f].pc \in {"writing", "closing"}
    /\ logFaults.failures < WriteFailures /\ logFaults' = [logFaults EXCEPT !.failures = @ + 1]
    /\ FlushNext(f, flushers[f].on)
    /\ UNCHANGED <<collecting, monitored, holder, tasks, lists, buffers, logFiles, collected>>

-----------------------------------------------------------------------------
\* A task that was cancelled goes no further.
FlushStep(f) ==
    /\ f \in Tasks => ~tasks[f].cancelled
    /\ WriteEntry(f) \/ CloseFile(f) \/ ClearBuffer(f) \/ FlushFails(f)

LoopFree == reading = {}

LogNext ==
    \/ \E t \in reading : ReadLine(t) \/ StreamEnds(t)
    \/ /\ LoopFree
       /\ \/ StartCollecting \/ StopCollecting \/ StopEnds \/ WorkerFlushes
          \/ \E c \in LogContainers : AddContainer(c) \/ RemoveContainer(c)
          \/ \E t \in Tasks : TaskStarts(t) \/ TaskCancelled(t)
          \/ \E f \in Flushers : FlushStep(f)

\* Whoever is ready has its turn, in the order of the event loop's queue, if the loop
\* is free again and again; that some flush of those that are ready goes on is enough.
\* Nothing is assumed of Docker.
LogFairness ==
    /\ SF_logVars(LoopFree /\ \E f \in Flushers : FlushStep(f))
    /\ SF_logVars(LoopFree /\ WorkerFlushes)

LogSpec == LogInit /\ [][LogNext]_logVars /\ LogFairness

-----------------------------------------------------------------------------
LogTypeOK ==
    /\ collecting \in BOOLEAN /\ monitored \subseteq LogContainers
    /\ holder \in [LogContainers -> SUBSET Tasks]
    /\ tasks \in [Tasks -> TaskType]
    /\ lists \in [ListIds -> Seq(1 .. Lines)]
    /\ buffers \in [LogContainers -> {0} \cup ListIds]
    /\ flushers \in [Flushers -> FlushType] /\ reading \subseteq Tasks
    /\ logFiles \in [LogContainers -> Seq(1 .. Lines)]
    /\ collected \in [LogContainers -> 0 .. Lines]
    /\ spoiled \subseteq LogContainers
    /\ logFaults \in [stops : 0 .. LogStops, failures : 0 .. WriteFailures]

\* Whoever adds, removes, cancels or stops, and in whatever order the cancelled
\* tasks wind down, a container is monitored exactly while it has a task.
MonitoredHasTask == monitored = {c \in LogContainers : holder[c] # {}}

\* A buffer is cleared of what is in the file and of nothing else: whenever
\* nobody is in the middle of a flush, the file and the buffer hold every line
\* collected, once and in order.  What spoils it is a second flush of the buffer
\* that begins during another, a line collected during one, a flush that fails or
\* is cancelled, and a start while stop still flushes; there is nothing else.
SavedOnce ==
    \A c \in LogContainers :
        (c \notin spoiled /\ FlushingOn(c) = {}) =>
            logFiles[c] \o Buffer(c) = [i \in 1 .. collected[c] |-> i]

\* What the containers log is collected: each monitored container keeps a task, and
\* no entry is saved twice.
LogsCollected == MonitoredHasTask /\ SavedOnce

\* What is in a buffer does not stay there while the collector runs, as long as no
\* container that has nothing to say keeps the event loop for good: then all the
\* process waits for its next line.
Drained ==
    \A c \in LogContainers :
        []<>LoopFree => ((Buffer(c) # <<>>) ~> (Buffer(c) = <<>> \/ ~collecting))
===============================================================================
