------------------------------- MODULE DayFiles --------------------------------
(***************************************************************************)
(* Files of lines, one a day (metrics_2025-01-31.jsonl): the metrics and   *)
(* alerts of core/metrics_collector.py, the trends and recommendations of  *)
(* core/advanced_analytics.py.  A query for the last hours reads the files *)
(* of as many days back, and reckons each day from the time it is when it  *)
(* comes to that file, not from the time the query began.                  *)
(***************************************************************************)
EXTENDS Integers

CONSTANT DayTicks       \* ticks of a day

ASSUME DayAssumption == DayTicks \in Nat \ {0}

DayOf(t) == t \div DayTicks

\* Fault for FilesRead: no file in reserve for a midnight.
FilesReadShort(window) == window \div DayTicks + 1

\* How many files a query for a window of ticks reads.
FilesRead(window) == window \div DayTicks + 2

\* The day whose file is read after `read` others, at the time t.
DayRead(t, read) == DayOf(t - read * DayTicks)
===============================================================================
