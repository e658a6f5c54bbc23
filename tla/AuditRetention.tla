---------------------------- MODULE AuditRetention ----------------------------
(***************************************************************************)
(* The retention of the encrypted audit logs: a cleaner compresses the log *)
(* of a day when it is old and removes the original, and removes the       *)
(* compressed one when it is very old (core/security_audit_service.py).    *)
(* Every start() of the service and every call of /maintenance/cleanup     *)
(* begins another cleaner, which never ends.  The logs of different days   *)
(* have nothing in common, so one of them is enough.                       *)
(***************************************************************************)
EXTENDS Naturals, FiniteSets

CONSTANTS
    Cleaners,       \* the cleaners that may be begun
    CompressFailures, \* bound on the failures to read, open or write
    ServiceExits    \* bound on the ends of the process

ASSUME RetentionAssumption ==
    Cleaners # {} /\ CompressFailures \in Nat /\ ServiceExits \in Nat

VARIABLES
    logAge,         \* within the retention, past it, or past the second one
    plain,          \* whether the log of the day is there
    compressed,     \* its compressed form: absent, an incomplete file, or whole
    cleaners,       \* where each cleaner is
    lossy,          \* history: a compression failed, or was interrupted
    retentionFaults

retentionVars == <<logAge, plain, compressed, cleaners, lossy, retentionFaults>>

-----------------------------------------------------------------------------
\* start() begins a cleaner.  They are all alike.
OneAsleep == [[k \in Cleaners |-> "none"] EXCEPT ![CHOOSE k \in Cleaners : TRUE] = "asleep"]

RetentionInit ==
    /\ logAge = "kept" /\ plain = TRUE /\ compressed = "absent"
    /\ cleaners = OneAsleep
    /\ lossy = FALSE /\ retentionFaults = [failures |-> 0, exits |-> 0]

GrowsOld ==
    /\ \/ logAge = "kept" /\ logAge' = "expired"
       \/ logAge = "expired" /\ logAge' = "ancient"
    /\ UNCHANGED <<plain, compressed, cleaners, lossy, retentionFaults>>

BeginCleaner(k) ==
    /\ cleaners[k] = "none"
    /\ cleaners' = [cleaners EXCEPT ![k] = "asleep"]
    /\ UNCHANGED <<logAge, plain, compressed, lossy, retentionFaults>>

Goto(k, pc) == cleaners' = [cleaners EXCEPT ![k] = pc]

\* Fault for CleanerWakes: a log that has a compressed file is passed over.
CleanerWakesPassesOver(k) ==
    /\ cleaners[k] = "asleep"
    /\ Goto(k, IF plain /\ logAge # "kept" /\ compressed = "absent" THEN "reading" ELSE "ancients")
    /\ UNCHANGED <<logAge, plain, compressed, lossy, retentionFaults>>

\* Once a day.  The log is compressed unless a compressed file is there, whole or
\* not; then comes its removal.
CleanerWakes(k) ==
    /\ cleaners[k] = "asleep"
    /\ IF plain /\ logAge # "kept"
       THEN Goto(k, IF compressed = "absent" THEN "reading" ELSE "removing")
       ELSE Goto(k, "ancients")
    /\ UNCHANGED <<logAge, plain, compressed, lossy, retentionFaults>>

\* _compress_log_file: read it all, create or truncate the target, write it all.
\* Another cleaner may have removed the log before it is read.
ReadLog(k) ==
    /\ cleaners[k] = "reading"
    /\ Goto(k, IF plain THEN "opening" ELSE "removing")
    /\ UNCHANGED <<logAge, plain, compressed, lossy, retentionFaults>>

OpenTarget(k) ==
    /\ cleaners[k] = "opening"
    /\ compressed' = "incomplete"
    /\ Goto(k, "writing")
    /\ UNCHANGED <<logAge, plain, lossy, retentionFaults>>

WriteTarget(k) ==
    /\ cleaners[k] = "writing"
    /\ compressed' = "whole"
    /\ Goto(k, "removing")
    /\ UNCHANGED <<logAge, plain, lossy, retentionFaults>>

\* A failure is logged, and the original is removed all the same.
CompressFails(k) ==
    /\ cleaners[k] \in {"reading", "opening", "writing"}
    /\ retentionFaults.failures < CompressFailures
    /\ retentionFaults' = [retentionFaults EXCEPT !.failures = @ + 1]
    /\ lossy' = TRUE
    /\ Goto(k, "removing")
    /\ UNCHANGED <<logAge, plain, compressed>>

\* A log that is gone already raises, and ends the round of this cleaner.
RemoveLog(k) ==
    /\ cleaners[k] = "removing"
    /\ plain' = FALSE
    /\ Goto(k, IF plain THEN "ancients" ELSE "asleep")
    /\ UNCHANGED <<logAge, compressed, lossy, retentionFaults>>

\* Fault for RemoveAncient: it goes by the first retention.
RemoveAncientEarly(k) ==
    /\ cleaners[k] = "ancients"
    /\ compressed' = IF logAge # "kept" THEN "absent" ELSE compressed
    /\ Goto(k, "asleep")
    /\ UNCHANGED <<logAge, plain, lossy, retentionFaults>>

\* The second loop of the round.
RemoveAncient(k) ==
    /\ cleaners[k] = "ancients"
    /\ compressed' = IF logAge = "ancient" THEN "absent" ELSE compressed
    /\ Goto(k, "asleep")
    /\ UNCHANGED <<logAge, plain, lossy, retentionFaults>>

\* The process ends; the next one begins a cleaner.
RetentionExit ==
    /\ retentionFaults.exits < ServiceExits
    /\ retentionFaults' = [retentionFaults EXCEPT !.exits = @ + 1]
    /\ lossy' = (lossy \/ \E k \in Cleaners : cleaners[k] = "writing")
    /\ cleaners' = OneAsleep
    /\ UNCHANGED <<logAge, plain, compressed>>

-----------------------------------------------------------------------------
Clean(k) == \/ CleanerWakes(k) \/ ReadLog(k) \/ OpenTarget(k) \/ WriteTarget(k)
            \/ CompressFails(k) \/ RemoveLog(k) \/ RemoveAncient(k)

RetentionNext ==
    \/ GrowsOld \/ RetentionExit
    \/ \E k \in Cleaners : BeginCleaner(k) \/ Clean(k)

RetentionFairness == \A k \in Cleaners : WF_retentionVars(Clean(k))

RetentionSpec == RetentionInit /\ [][RetentionNext]_retentionVars /\ RetentionFairness

-----------------------------------------------------------------------------
RetentionTypeOK ==
    /\ logAge \in {"kept", "expired", "ancient"} /\ plain \in BOOLEAN /\ lossy \in BOOLEAN
    /\ compressed \in {"absent", "incomplete", "whole"}
    /\ cleaners \in [Cleaners -> {"none", "asleep", "reading", "opening", "writing",
                                  "removing", "ancients"}]
    /\ retentionFaults \in [failures : 0 .. CompressFailures, exits : 0 .. ServiceExits]

\* Until its second retention is over, a day's log is there, or whole in
\* compressed form, or held by a cleaner that is writing it, however many cleaners
\* are at it: it can be lost only by a compression that failed or was cut short
\* by the end of the process.
LogKept ==
    (logAge # "ancient" /\ ~lossy) =>
        plain \/ compressed = "whole" \/ \E k \in Cleaners : cleaners[k] = "writing"

\* A log past its retention does not stay uncompressed, and past the second one it
\* is gone.
LogCleaned ==
    /\ (logAge # "kept") ~> ~plain
    /\ (logAge = "ancient") ~> [](~plain /\ compressed = "absent")
===============================================================================
