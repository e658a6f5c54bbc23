------------------------------- MODULE Analytics -------------------------------
(***************************************************************************)
(* The hourly analysis of core/advanced_analytics.py: it works out a trend *)
(* for each container from the recent metrics, appends the trends to the   *)
(* file of the day, reads the trends of the last hours back from the files *)
(* and appends a recommendation for each that calls for one.               *)
(*                                                                         *)
(* It gives up the event loop at each file; midnight may pass then, and    *)
(* between the time a trend carries and the day its file is named for.     *)
(***************************************************************************)
EXTENDS DayFiles, Integers, FiniteSets

CONSTANTS
    Analysed,           \* containers with metrics
    TrendWindow,        \* how far back trends are read for recommendations, in ticks
    Passes,             \* bound: passes of the analysis
    AnalysisHorizon     \* bound: the last tick

ASSUME AnalysisAssumption ==
    /\ IsFiniteSet(Analysed) /\ TrendWindow \in Nat \ {0}
    /\ {Passes, AnalysisHorizon} \subseteq Nat

VARIABLES
    analysisClock,
    analysing,      \* is_running
    pass,           \* the pass of the analysis worker
    passes,         \* how many there have been
    trendFiles,     \* the trends in the files, with the day of their file
    advice          \* the recommendations that were stored: pass and trend

analysisVars == <<analysisClock, analysing, pass, passes, trendFiles, advice>>

-----------------------------------------------------------------------------
\* A trend is of a pass and a container, carries the time it was worked out at, and may
\* call for a recommendation (a load too high, too low, rising).
Trends == [of : Analysed, pass : 1 .. Passes, at : 0 .. AnalysisHorizon, telling : BOOLEAN]

NoPass == [pc |-> "sleep", trends |-> {}, from |-> 0, read |-> 0, got |-> {}, began |-> 0]

AnalysisInit ==
    /\ analysisClock = 0
    /\ analysing = FALSE /\ pass = NoPass /\ passes = 0
    /\ trendFiles = {} /\ advice = {}

\* Bound of the model: the time ticks at most once in a pass, which goes on for seconds.
AnalysisTick ==
    /\ analysisClock < AnalysisHorizon
    /\ pass.pc # "sleep" => analysisClock = pass.began
    /\ analysisClock' = analysisClock + 1
    /\ UNCHANGED <<analysing, pass, passes, trendFiles, advice>>

StartAnalysis ==
    /\ ~analysing
    /\ analysing' = TRUE
    /\ UNCHANGED <<analysisClock, pass, passes, trendFiles, advice>>

-----------------------------------------------------------------------------
(* Storing.  The file is that of the day it is opened on.                  *)

StoredToday(trends) == {[day |-> DayOf(analysisClock), trend |-> t] : t \in trends}

\* What there is to write: the trends of the pass, and then the recommendations.
Unstored == IF pass.pc = "store" THEN pass.trends ELSE {}

AllRead == pass.pc = "read" /\ pass.read = FilesRead(TrendWindow)
Unadvised ==
    IF AllRead THEN {[pass |-> passes, trend |-> t] : t \in {u \in pass.got : u.telling}}
    ELSE {}

\* The worker is cancelled where it is suspended.  The lines that it has written by then
\* are in the file.
StopAnalysis ==
    /\ analysing
    /\ analysing' = FALSE /\ pass' = NoPass
    /\ \E written \in SUBSET Unstored : trendFiles' = trendFiles \cup StoredToday(written)
    /\ \E written \in SUBSET Unadvised : advice' = advice \cup written
    /\ UNCHANGED <<analysisClock, passes>>

-----------------------------------------------------------------------------
(* A pass.                                                                 *)

\* The metrics of some containers are enough for a trend.  A pass begins an hour after
\* the end of the last one, or at once when the analysis is started.
WorkOutTrends ==
    /\ analysing /\ pass.pc = "sleep" /\ passes < Passes
    /\ passes' = passes + 1
    /\ \E cs \in SUBSET Analysed, telling \in SUBSET Analysed :
         /\ telling \subseteq cs
         /\ pass' = [NoPass EXCEPT
                !.pc = IF cs = {} THEN "recent" ELSE "store", !.began = analysisClock,
                !.trends = {[of |-> c, pass |-> passes', at |-> analysisClock,
                             telling |-> c \in telling] : c \in cs}]
    /\ UNCHANGED <<analysisClock, analysing, trendFiles, advice>>

\* An error while they are written leaves the rest out, and the pass goes on.
StoreTrends ==
    /\ pass.pc = "store"
    /\ \E written \in SUBSET Unstored : trendFiles' = trendFiles \cup StoredToday(written)
    /\ pass' = [pass EXCEPT !.pc = "recent"]
    /\ UNCHANGED <<analysisClock, analysing, passes, advice>>

\* The trends of the last hours, from the files.
ReadRecent ==
    /\ pass.pc = "recent"
    /\ pass' = [pass EXCEPT !.pc = "read", !.from = analysisClock - TrendWindow]
    /\ UNCHANGED <<analysisClock, analysing, passes, trendFiles, advice>>

ReadTrendFile ==
    /\ pass.pc = "read" /\ pass.read < FilesRead(TrendWindow)
    /\ pass' = [pass EXCEPT
           !.read = @ + 1,
           !.got = @ \cup {s.trend : s \in {r \in trendFiles :
                                              /\ r.day = DayRead(analysisClock, pass.read)
                                              /\ r.trend.at >= pass.from}}]
    /\ UNCHANGED <<analysisClock, analysing, passes, trendFiles, advice>>

\* An error while they are written is caught, and leaves the rest out.
Recommend ==
    /\ AllRead
    /\ \/ advice' = advice \cup Unadvised /\ pass' = [pass EXCEPT !.pc = "told"]
       \/ \E written \in SUBSET Unadvised :
            advice' = advice \cup written /\ pass' = [pass EXCEPT !.pc = "cut"]
    /\ UNCHANGED <<analysisClock, analysing, passes, trendFiles>>

EndPass ==
    /\ pass.pc \in {"told", "cut"}
    /\ pass' = NoPass
    /\ UNCHANGED <<analysisClock, analysing, passes, trendFiles, advice>>

AnalysisNext ==
    \/ AnalysisTick \/ StartAnalysis \/ StopAnalysis
    \/ WorkOutTrends \/ StoreTrends \/ ReadRecent \/ ReadTrendFile \/ Recommend \/ EndPass

-----------------------------------------------------------------------------
AnalysisTypeOK ==
    /\ analysisClock \in 0 .. AnalysisHorizon /\ analysing \in BOOLEAN
    /\ pass.pc \in {"sleep", "store", "recent", "read", "told", "cut"}
    /\ {pass.trends, pass.got} \subseteq SUBSET Trends
    /\ passes \in 0 .. Passes
    /\ \A s \in trendFiles : s.trend \in Trends /\ s.day \in 0 .. DayOf(AnalysisHorizon)
    /\ advice \subseteq [pass : 1 .. Passes, trend : Trends]

\* A pass that comes to its end without an error in storing what it recommends has
\* recommended something for each trend of the last hours that is in the files and
\* calls for it, its own among them, though midnight may have passed since it stored
\* them, or may pass while it reads them back.
PassRecommends ==
    pass.pc = "told" =>
        \A s \in trendFiles :
            s.trend.telling /\ s.trend.at >= pass.from =>
                [pass |-> passes, trend |-> s.trend] \in advice
===============================================================================
