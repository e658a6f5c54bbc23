------------------------------- MODULE LogSearch -------------------------------
(***************************************************************************)
(* The search index over the log files (core/log_search_service.py): the   *)
(* full indexing at the start and on demand, the worker's incremental one, *)
(* and their two transactions for a batch of lines.  The collector appends *)
(* lines to a container's file meanwhile, and rotates it.                  *)
(*                                                                         *)
(* Indexers run in tasks of one event loop and give it up at each call of  *)
(* the database.  A line is a number, and stands for its terms.            *)
(***************************************************************************)
EXTENDS Integers, Sequences, FiniteSets, FiniteSetsExt

CONSTANTS
    Rebuilds,       \* background tasks of /index/rebuild
    BatchSize,      \* index_batch_size
    LogLines,       \* bound: lines written
    Rotations,      \* bound: rotations of the file
    SearchEvents    \* bound: rotations, rebuilds, wake-ups of the worker, failures
                    \* and ends of the process, taken together

ASSUME SearchAssumption ==
    /\ IsFiniteSet(Rebuilds) /\ {"start", "worker"} \cap Rebuilds = {}
    /\ BatchSize \in Nat \ {0} /\ LogLines \in Nat /\ Rotations \in Nat
    /\ SearchEvents \in Nat

VARIABLES
    files,      \* the container's files, the oldest first
    rows,       \* log_index
    terms,      \* log_search_index: the terms of a line under the id of its row
    nextId,     \* AUTOINCREMENT of log_index
    searching,  \* whether the service was made
    indexers,   \* what each task is about
    lame,       \* history: paths some of whose lines were given up, in an error or when
                \* the process ended
    skewed,     \* history: paths whose file another has taken the place of
    searchEvents

indexVars == <<files, rows, terms, nextId, searching, indexers, lame, skewed, searchEvents>>

-----------------------------------------------------------------------------
Indexers == {"start", "worker"} \cup Rebuilds
Paths    == 0 .. Rotations      \* <container>.jsonl, and what it is renamed to

FileAt(p) == Len(files) - p                 \* the file under a path
Listed    == {p \in Paths : FileAt(p) >= 1} \* glob("containers/*.jsonl")

IndexRow == [path : Paths, line : 1 .. LogLines, id : Nat, text : 1 .. LogLines]

\* A task: the paths it has left, the path and the file it is at, the lines of the
\* batch, the last it has asked the id of, and the ids it has found.
IndexerType == [pc : {"idle", "clear", "files", "rows", "ids", "terms"},
                todo : SUBSET Paths, path : Paths, file : 0 .. Rotations + 1,
                from : 0 .. LogLines, to : 0 .. LogLines,
                asked : 0 .. LogLines, found : SUBSET (Nat \X (1 .. LogLines))]

NotIndexing == [pc |-> "idle", todo |-> {}, path |-> 0, file |-> 0, from |-> 0, to |-> 0,
                asked |-> 0, found |-> {}]

\* One of the events whose number is bounded.
Counts == searchEvents < SearchEvents /\ searchEvents' = searchEvents + 1

Others(i) == {j \in Indexers \ {i} : indexers[j].pc # "idle"}

SearchInit ==
    /\ files = <<<<>>>> /\ rows = {} /\ terms = {} /\ nextId = 1
    /\ searching = FALSE /\ indexers = [i \in Indexers |-> NotIndexing]
    /\ lame = {} /\ skewed = {}
    /\ searchEvents = 0

-----------------------------------------------------------------------------
(* The collector.                                                          *)

LinesWritten == Max({0} \cup UNION {Range(files[g]) : g \in DOMAIN files})

AppendLine ==
    /\ LinesWritten < LogLines
    /\ files' = [files EXCEPT ![Len(files)] = Append(@, LinesWritten + 1)]
    /\ UNCHANGED <<rows, terms, nextId, searching, indexers, lame, skewed, searchEvents>>

\* _rotate_log_file renames the file; who has it open goes on reading it.
Rotate ==
    /\ Len(files) <= Rotations /\ files[Len(files)] # <<>>
    /\ Counts
    /\ files' = Append(files, <<>>)
    /\ skewed' = Listed
    /\ UNCHANGED <<rows, terms, nextId, searching, indexers, lame>>

-----------------------------------------------------------------------------
(* Who indexes.                                                            *)

Becomes(i, task) == indexers' = [indexers EXCEPT ![i] = task]

\* The first request that needs the service makes it and waits for start(); the
\* next ones find it made.
StartSearch ==
    /\ ~searching
    /\ searching' = TRUE
    /\ Becomes("start", [NotIndexing EXCEPT !.pc = "clear"])
    /\ UNCHANGED <<files, rows, terms, nextId, lame, skewed, searchEvents>>

Rebuild(i) ==
    /\ searching /\ indexers[i].pc = "idle" /\ Counts
    /\ Becomes(i, [NotIndexing EXCEPT !.pc = "clear"])
    /\ UNCHANGED <<files, rows, terms, nextId, searching, lame, skewed>>

\* _incremental_index: the files that look recent, which depends on the clocks.
WakeIndexer ==
    /\ searching /\ indexers["worker"].pc = "idle" /\ Counts
    /\ \E S \in SUBSET Listed : Becomes("worker", [NotIndexing EXCEPT !.pc = "files", !.todo = S])
    /\ UNCHANGED <<files, rows, terms, nextId, searching, lame, skewed>>

-----------------------------------------------------------------------------
(* _reindex_all and _index_file.                                           *)

\* Fault for Clear: the ids begin anew, as without AUTOINCREMENT.
ClearResetsIds(i) ==
    /\ indexers[i].pc = "clear"
    /\ rows' = {} /\ terms' = {} /\ nextId' = 1
    /\ Becomes(i, [NotIndexing EXCEPT !.pc = "files", !.todo = Listed])
    /\ lame' = {} /\ skewed' = IF Others(i) = {} THEN {} ELSE skewed
    /\ UNCHANGED <<files, searching, searchEvents>>

\* One transaction empties both tables; then the files are listed.
Clear(i) ==
    /\ indexers[i].pc = "clear"
    /\ rows' = {} /\ terms' = {}
    /\ Becomes(i, [NotIndexing EXCEPT !.pc = "files", !.todo = Listed])
    /\ lame' = {} /\ skewed' = IF Others(i) = {} THEN {} ELSE skewed
    /\ UNCHANGED <<files, nextId, searching, searchEvents>>

RowsOfPath(p) == {r \in rows : r.path = p}

\* The last line of a path that is indexed.
LastLine(p) == Max({0} \cup {r.line : r \in RowsOfPath(p)})

\* The next batch, from a line of the open file on.
Take(task, n) ==
    LET last == Len(files[task.file])
    IN [task EXCEPT !.pc = "rows", !.from = n, !.asked = n, !.found = {},
                    !.to = IF n + BatchSize <= last THEN n + BatchSize ELSE last]

\* A batch without lines ends the file.
Proceed(i, task) ==
    Becomes(i, IF task.from < task.to THEN task
             ELSE IF task.todo = {} THEN NotIndexing
             ELSE [NotIndexing EXCEPT !.pc = "files", !.todo = task.todo])

OpenLog(i) ==
    /\ indexers[i].pc = "files"
    /\ \/ indexers[i].todo = {} /\ Becomes(i, NotIndexing)
       \/ \E p \in indexers[i].todo :
            LET n == IF i = "worker" THEN LastLine(p) ELSE 0
            IN Proceed(i, Take([indexers[i] EXCEPT !.path = p, !.file = FileAt(p),
                                                    !.todo = @ \ {p}], n))
    /\ UNCHANGED <<files, rows, terms, nextId, searching, lame, skewed, searchEvents>>

Batch(i) == (indexers[i].from + 1) .. indexers[i].to

\* INSERT OR REPLACE: a line that was indexed gets a new row, and a new id.
InsertRows(i) ==
    /\ indexers[i].pc = "rows"
    /\ LET t == indexers[i]
       IN rows' = {r \in rows : r.path # t.path \/ r.line \notin Batch(i)} \cup
                  {[path |-> t.path, line |-> n, id |-> nextId + n - t.from - 1,
                    text |-> files[t.file][n]] : n \in Batch(i)}
    /\ nextId' = nextId + Cardinality(Batch(i))
    /\ Becomes(i, [indexers[i] EXCEPT !.pc = "ids"])
    /\ UNCHANGED <<files, terms, searching, lame, skewed, searchEvents>>

\* The ids, one query each, of whoever's rows are there by now.
LookUpId(i) ==
    /\ indexers[i].pc = "ids"
    /\ LET t    == indexers[i]
           n    == t.asked + 1
           mine == {r \in rows : r.path = t.path /\ r.line = n}
       IN Becomes(i, [t EXCEPT !.pc = IF n = t.to THEN "terms" ELSE "ids", !.asked = n,
                               !.found = @ \cup {<<r.id, files[t.file][n]>> : r \in mine}])
    /\ UNCHANGED <<files, rows, terms, nextId, searching, lame, skewed, searchEvents>>

\* The terms, and on to the next batch, unless this was the rest of the file.
InsertTerms(i) ==
    /\ indexers[i].pc = "terms"
    /\ terms' = terms \cup indexers[i].found
    /\ LET t == indexers[i]
       IN Proceed(i, IF t.to - t.from < BatchSize THEN [t EXCEPT !.from = t.to]
                                                  ELSE Take(t, t.to))
    /\ UNCHANGED <<files, rows, nextId, searching, lame, skewed, searchEvents>>

\* The path at which a task leaves something undone when it is interrupted: not the
\* worker, while it has inserted nothing.
CutAt(i) == {p \in {indexers[i].path} :
               \/ indexers[i].pc \in {"ids", "terms"}
               \/ indexers[i].pc = "rows" /\ i # "worker"}

\* A statement or the file fails.  In _index_file the error is caught, and the next
\* file is taken; nobody comes back to this one's lines but a full indexing, unless
\* it was the worker and had not inserted any.
IndexFails(i) ==
    /\ Counts
    /\ \/ indexers[i].pc = "clear" /\ Becomes(i, NotIndexing) /\ UNCHANGED lame
       \/ \E p \in indexers[i].todo :
            /\ indexers[i].pc = "files" /\ Becomes(i, [indexers[i] EXCEPT !.todo = @ \ {p}])
            /\ lame' = IF i = "worker" THEN lame ELSE lame \cup {p}
       \/ /\ indexers[i].pc \in {"rows", "ids", "terms"}
          /\ lame' = lame \cup CutAt(i)
          /\ Proceed(i, [indexers[i] EXCEPT !.to = indexers[i].from])
    /\ UNCHANGED <<files, rows, terms, nextId, searching, skewed>>

\* The process ends; the files and the database stay.  A full indexing gives up the
\* path it is at and those it has left.
SearchExit ==
    /\ searching /\ Counts
    /\ searching' = FALSE /\ indexers' = [i \in Indexers |-> NotIndexing]
    /\ lame' = lame \cup (UNION {CutAt(i) : i \in Indexers})
                    \cup (UNION {indexers[i].todo : i \in Indexers \ {"worker"}})
    /\ UNCHANGED <<files, rows, terms, nextId, skewed>>

IndexStep(i) == \/ Clear(i) \/ OpenLog(i) \/ InsertRows(i) \/ LookUpId(i) \/ InsertTerms(i)
                \/ IndexFails(i)

SearchNext ==
    \/ AppendLine \/ Rotate
    \/ StartSearch \/ WakeIndexer \/ SearchExit
    \/ \E i \in Rebuilds : Rebuild(i)
    \/ \E i \in Indexers : IndexStep(i)

SearchSpec == SearchInit /\ [][SearchNext]_indexVars

-----------------------------------------------------------------------------
SearchTypeOK ==
    /\ files \in Seq(Seq(1 .. LogLines)) /\ Len(files) \in 1 .. Rotations + 1
    /\ rows \subseteq IndexRow /\ nextId \in Nat \ {0}
    /\ terms \subseteq Nat \X (1 .. LogLines)
    /\ searching \in BOOLEAN /\ indexers \in [Indexers -> IndexerType]
    /\ lame \subseteq Paths /\ skewed \subseteq Paths
    /\ searchEvents \in 0 .. SearchEvents

\* Whenever nobody is indexing, what the index holds of a file is a beginning of it:
\* no line is missing below one that is indexed (the worker never looks there
\* again), each row is of the line it names, and a search finds it by the terms of
\* that line and by no others, although full indexings and the worker may have cut one
\* another short, and the process may have ended.  What spoils a file, until the next
\* full indexing, is a rotation, an error in the middle of it, and an end of the
\* process in the middle of it or before a full indexing has come to it.
IndexWhole ==
    (\A i \in Indexers : indexers[i].pc = "idle") =>
        \A p \in Listed \ (lame \cup skewed) :
            /\ {r.line : r \in RowsOfPath(p)} = 1 .. LastLine(p)
            /\ \A r \in RowsOfPath(p) :
                 /\ r.line \in DOMAIN files[FileAt(p)] /\ r.text = files[FileAt(p)][r.line]
                 /\ {t \in terms : t[1] = r.id} = {<<r.id, r.text>>}
===============================================================================
