------------------------------- MODULE LogIndex --------------------------------
(***************************************************************************)
(* The index of log entries in memory beside its copy in SQLite            *)
(* (core/log_optimization_service.py): an entry is put in memory and then  *)
(* saved, searches are answered from memory and their answers kept for a   *)
(* while, a worker forgets old entries, and a start loads the copy.        *)
(*                                                                         *)
(* Memory is only changed between two awaits, so all its dictionaries are  *)
(* one set here, and one query stands for all.                             *)
(***************************************************************************)
EXTENDS Integers, FiniteSets, FiniteSetsExt

CONSTANTS
    LogIds,         \* log entries
    SearchTtl,      \* cache_ttl_seconds
    Retention,      \* retention_days
    IndexOffsets,   \* how far local time may be ahead of UTC
    LoadLimit,      \* entries that a start loads (100000 in the code)
    IndexStarts,    \* bound: starts
    IndexHorizon    \* bound: time

ASSUME IndexAssumption ==
    /\ IsFiniteSet(LogIds) /\ {SearchTtl, Retention, LoadLimit} \subseteq Nat
    /\ IndexOffsets \subseteq Int /\ IndexOffsets # {}
    /\ IndexStarts \in Nat /\ IndexHorizon \in Nat

VARIABLES
    inMemory,       \* search_index
    onDisk,         \* log_index
    pendingSaves,         \* entries whose save is in progress
    searchCache,    \* the answers kept, with the time they were found: at most one
    indexUp,        \* the service runs
    indexStarts,
    now,
    acknowledged,   \* history: the entries whose call returned, with the time it did
    missed          \* history: what the latest search should have found, and did not

logIndexVars == <<inMemory, onDisk, pendingSaves, searchCache, indexUp, indexStarts, now,
                  acknowledged, missed>>

-----------------------------------------------------------------------------
Instants == 0 .. IndexHorizon
Logged   == [id : LogIds, at : Instants]

\* An entry bears the time of Docker, UTC, and its age is taken by the local clock: with
\* clocks o apart it is past the retention by o too early, or too late.
PastBy(e, o)     == now + o - e.at > Retention
PastRetention(e) == \E o \in IndexOffsets : PastBy(e, o)

LogIndexInit ==
    /\ inMemory = {} /\ onDisk = {} /\ pendingSaves = {} /\ searchCache = {}
    /\ indexUp = FALSE /\ indexStarts = 0 /\ now = 0
    /\ acknowledged = {} /\ missed = {}

\* _load_search_index: the newest.
StartIndex ==
    /\ ~indexUp /\ indexStarts < IndexStarts
    /\ indexUp' = TRUE /\ indexStarts' = indexStarts + 1
    /\ \E S \in SUBSET onDisk :
         /\ Cardinality(S) = Min({Cardinality(onDisk), LoadLimit})
         /\ \A d \in onDisk \ S, e \in S : d.at <= e.at
         /\ inMemory' = inMemory \cup S
    /\ UNCHANGED <<onDisk, pendingSaves, searchCache, now, acknowledged, missed>>

\* The process ends; what was being saved may be on disk or not.
ExitIndex ==
    /\ indexUp
    /\ indexUp' = FALSE
    /\ \E S \in SUBSET pendingSaves : onDisk' = onDisk \cup S
    /\ inMemory' = {} /\ pendingSaves' = {} /\ searchCache' = {}
    /\ UNCHANGED <<indexStarts, now, acknowledged, missed>>

-----------------------------------------------------------------------------
(* index_log_entry.                                                        *)

IndexEntry(i) ==
    /\ indexUp /\ \A e \in inMemory \cup pendingSaves \cup onDisk : e.id # i
    /\ inMemory' = inMemory \cup {[id |-> i, at |-> now]}
    /\ pendingSaves' = pendingSaves \cup {[id |-> i, at |-> now]}
    /\ UNCHANGED <<onDisk, searchCache, indexUp, indexStarts, now, acknowledged, missed>>

\* Fault for SaveEntry: the call returns without waiting for the commit.
SaveLater(e) ==
    /\ e \in pendingSaves
    /\ acknowledged' = acknowledged \cup {[entry |-> e, at |-> now]}
    /\ \/ pendingSaves' = pendingSaves \ {e} /\ onDisk' = onDisk \cup {e}
       \/ UNCHANGED <<pendingSaves, onDisk>>
    /\ UNCHANGED <<inMemory, searchCache, indexUp, indexStarts, now, missed>>

\* One transaction for the entry and its terms; then the call returns.
SaveEntry(e) ==
    /\ e \in pendingSaves
    /\ pendingSaves' = pendingSaves \ {e} /\ onDisk' = onDisk \cup {e}
    /\ acknowledged' = acknowledged \cup {[entry |-> e, at |-> now]}
    /\ UNCHANGED <<inMemory, searchCache, indexUp, indexStarts, now, missed>>

\* It fails, and the call with it; the entry stays in memory.
SaveFails(e) ==
    /\ e \in pendingSaves
    /\ pendingSaves' = pendingSaves \ {e}
    /\ UNCHANGED <<inMemory, onDisk, searchCache, indexUp, indexStarts, now, acknowledged,
                   missed>>

-----------------------------------------------------------------------------
(* search_logs_optimized and the workers.                                  *)

\* What a search has to find: entries that were acknowledged before the oldest answer
\* that may be kept, are by no clock older than the retention, and not crowded out of a
\* load.
Due == {e \in Logged :
          /\ ~PastRetention(e)
          /\ \E a \in acknowledged : a.entry = e /\ now - a.at >= SearchTtl
          /\ Cardinality({d \in onDisk : d.at >= e.at}) <= LoadLimit}

FreshAnswers == {c \in searchCache : now - c.at < SearchTtl}

SearchEntries ==
    /\ indexUp
    /\ \/ \E c \in FreshAnswers : missed' = Due \ c.found /\ UNCHANGED searchCache
       \/ /\ FreshAnswers = {}
          /\ missed' = Due \ inMemory
          /\ searchCache' = {[found |-> inMemory, at |-> now]}
    /\ UNCHANGED <<inMemory, onDisk, pendingSaves, indexUp, indexStarts, now, acknowledged>>

CleanAnswers ==
    /\ indexUp
    /\ searchCache' = {c \in searchCache : now - c.at <= SearchTtl}
    /\ UNCHANGED <<inMemory, onDisk, pendingSaves, indexUp, indexStarts, now, acknowledged,
                   missed>>

\* _log_rotation_worker.  Its transaction fails at the second statement (the full-text
\* table reads a column that log_index does not have) and is rolled back, so the rows
\* stay and a later start loads them again.
ForgetOld ==
    /\ indexUp
    /\ \E o \in IndexOffsets : inMemory' = {e \in inMemory : ~PastBy(e, o)}
    /\ UNCHANGED <<onDisk, pendingSaves, searchCache, indexUp, indexStarts, now, acknowledged,
                   missed>>

TimePasses ==
    /\ now < IndexHorizon /\ now' = now + 1
    /\ UNCHANGED <<inMemory, onDisk, pendingSaves, searchCache, indexUp, indexStarts, acknowledged,
                   missed>>

LogIndexNext ==
    \/ StartIndex \/ ExitIndex
    \/ \E i \in LogIds : IndexEntry(i)
    \/ \E e \in pendingSaves : SaveEntry(e) \/ SaveFails(e)
    \/ SearchEntries \/ CleanAnswers \/ ForgetOld \/ TimePasses

LogIndexSpec == LogIndexInit /\ [][LogIndexNext]_logIndexVars

-----------------------------------------------------------------------------
LogIndexTypeOK ==
    /\ inMemory \subseteq Logged /\ onDisk \subseteq Logged /\ pendingSaves \subseteq Logged
    /\ searchCache \subseteq [found : SUBSET Logged, at : Instants]
    /\ indexUp \in BOOLEAN /\ indexStarts \in 0 .. IndexStarts /\ now \in Instants
    /\ acknowledged \subseteq [entry : Logged, at : Instants] /\ missed \subseteq Logged

\* A search finds every entry that was acknowledged at least the life of a kept answer
\* ago, whether the program was restarted since or not, until the entry is older than
\* the retention by the local clock, though the entry's own time is UTC (where local time
\* is ahead, that is as much too early); and there is at most one answer kept for a query.
SearchFinds == missed = {} /\ Cardinality(searchCache) <= 1
===============================================================================
