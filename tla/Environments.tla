----------------------------- MODULE Environments -----------------------------
(***************************************************************************)
(* One environment of the environment service: its row, with a             *)
(* configuration in JSON, and the rows of its variables                    *)
(* (core/environment_service.py, api/routes/environment.py).               *)
(*                                                                         *)
(* Every request has a session of its own.  A call reads, decides, and     *)
(* commits, and other calls commit in between.  The name is unique in the  *)
(* table; nothing makes the key of a variable unique.  A session may       *)
(* or may not flush before it queries (see Promotions).  Left out: the     *)
(* status, the description, the health records (random numbers), and the   *)
(* audit event after the commit, whose call raises: the caller is told of  *)
(* an error although the change is there.                                  *)
(***************************************************************************)
EXTENDS Naturals, FiniteSets

CONSTANTS
    EnvCalls,       \* the calls of the API
    Settings,       \* keys of the configuration
    VarKeys         \* keys of the variables

VARIABLES
    flushing,       \* whether a query flushes what was deleted before
    envRow,         \* whether the environment exists
    config,         \* who set each setting last, as the row has it
    lastSet,        \* history: who committed a change of each setting last
    variables,      \* the rows of the variables: a key, and the call that added it
    valueBy,        \* the call whose value each row has
    storedBy,       \* history: the call that set each variable last, none if it was removed
    unstored,       \* history: variables that the call which set them last has removed itself
    envCalls,       \* where each call is, and what it has read
    stale,          \* history: settings that a call wrote back which had missed their change
    crossed         \* history: variables of which two calls overlapped

rowVars == <<variables, valueBy, storedBy, unstored>>
envVars == <<flushing, envRow, config, lastSet, rowVars, envCalls, stale, crossed>>

-----------------------------------------------------------------------------
Nobody == "nobody"
Row == [key : VarKeys, by : EnvCalls]

CallType == [pc : {"idle", "creating", "updating", "setting", "storing", "done", "failed"},
             base : [Settings -> EnvCalls \cup {Nobody}],    \* the configuration it read
             missed : SUBSET Settings,                       \* history: set since it read
             keys : SUBSET (Settings \cup VarKeys),          \* what it changes
             removes : SUBSET Row,                           \* the rows it deletes
             finds : SUBSET Row]                             \* the row it will update

Fresh == [s \in Settings |-> Nobody]
IdleCall == [pc |-> "idle", base |-> Fresh, missed |-> {}, keys |-> {}, removes |-> {}, finds |-> {}]
Ended(pc) == [IdleCall EXCEPT !.pc = pc]

RowsOf(k) == {r \in variables : r.key = k}

EnvInit ==
    /\ flushing \in BOOLEAN
    /\ envRow \in BOOLEAN
    /\ config = Fresh /\ lastSet = Fresh
    /\ variables = {} /\ valueBy = [r \in Row |-> r.by]
    /\ storedBy = [k \in VarKeys |-> {}] /\ unstored = {}
    /\ envCalls = [c \in EnvCalls |-> IdleCall]
    /\ stale = {} /\ crossed = {}

-----------------------------------------------------------------------------
(* create_environment: the name is looked up, then inserted, the variables *)
(* with it; the index on the name refuses the second of two inserts.       *)

CreateEnvironment(c, K) ==
    /\ envCalls[c].pc = "idle"
    /\ envCalls' = [envCalls EXCEPT ![c] = IF envRow THEN Ended("failed")
                                           ELSE [IdleCall EXCEPT !.pc = "creating", !.keys = K]]
    /\ UNCHANGED <<flushing, envRow, config, lastSet, rowVars, stale, crossed>>

InsertEnvironment(c) ==
    /\ envCalls[c].pc = "creating"
    /\ IF envRow THEN /\ envCalls' = [envCalls EXCEPT ![c] = Ended("failed")]
                      /\ UNCHANGED <<envRow, variables, valueBy, storedBy>>
       ELSE /\ envRow' = TRUE
            /\ variables' = {[key |-> k, by |-> c] : k \in envCalls[c].keys}
            /\ valueBy' = [r \in Row |-> IF r \in variables' THEN c ELSE valueBy[r]]
            /\ storedBy' = [k \in VarKeys |-> IF k \in envCalls[c].keys THEN {c} ELSE {}]
            /\ envCalls' = [envCalls EXCEPT ![c] = Ended("done")]
    /\ UNCHANGED <<flushing, config, lastSet, unstored, stale, crossed>>

-----------------------------------------------------------------------------
(* update_environment: the whole configuration is read, merged, and        *)
(* written back.                                                           *)

ReadEnvironment(c, K) ==
    /\ envCalls[c].pc = "idle"
    /\ envCalls' = [envCalls EXCEPT ![c] =
                      IF ~envRow THEN Ended("failed")
                      ELSE [IdleCall EXCEPT !.pc = "updating", !.base = config, !.keys = K]]
    /\ UNCHANGED <<flushing, envRow, config, lastSet, rowVars, stale, crossed>>

\* Fault for UpdateEnvironment: the configuration is replaced, not merged.
UpdateReplaces(c) ==
    /\ envCalls[c].pc = "updating"
    /\ LET K == envCalls[c].keys
       IN /\ config' = [s \in Settings |-> IF s \in K THEN c ELSE Nobody]
          /\ lastSet' = [s \in Settings |-> IF s \in K THEN c ELSE lastSet[s]]
          /\ stale' = (stale \cup envCalls[c].missed) \ K
          /\ envCalls' = [d \in EnvCalls |->
                            IF d = c THEN Ended("done")
                            ELSE IF envCalls[d].pc = "updating" THEN [envCalls[d] EXCEPT !.missed = @ \cup K]
                            ELSE envCalls[d]]
    /\ UNCHANGED <<flushing, envRow, rowVars, crossed>>

UpdateEnvironment(c) ==
    /\ envCalls[c].pc = "updating"
    /\ LET K == envCalls[c].keys
       IN /\ config' = [s \in Settings |-> IF s \in K THEN c ELSE envCalls[c].base[s]]
          /\ lastSet' = [s \in Settings |-> IF s \in K THEN c ELSE lastSet[s]]
          /\ stale' = (stale \cup envCalls[c].missed) \ K
          /\ envCalls' = [d \in EnvCalls |->
                            IF d = c THEN Ended("done")
                            ELSE IF envCalls[d].pc = "updating" THEN [envCalls[d] EXCEPT !.missed = @ \cup K]
                            ELSE envCalls[d]]
    /\ UNCHANGED <<flushing, envRow, rowVars, crossed>>

-----------------------------------------------------------------------------
(* set_environment_variables, of one key.                                  *)

Setting(k) == {d \in EnvCalls : /\ envCalls[d].pc \in {"setting", "storing"}
                                /\ k \in envCalls[d].keys}

\* The environment is looked up; with overwrite, all rows are to be deleted.
BeginSetting(c, k, overwrite) ==
    /\ envCalls[c].pc = "idle"
    /\ envCalls' = [envCalls EXCEPT ![c] =
                      IF ~envRow THEN Ended("failed")
                      ELSE [IdleCall EXCEPT !.pc = "setting", !.keys = {k},
                                            !.removes = IF overwrite THEN variables ELSE {}]]
    /\ crossed' = IF envRow /\ Setting(k) # {} THEN crossed \cup {k} ELSE crossed
    /\ UNCHANGED <<flushing, envRow, config, lastSet, rowVars, stale>>

\* The rows of the key: one is updated, none means a new one, and more than one
\* raises.  Without the flush, the rows to be deleted are among them.
LookUpKey(c) ==
    /\ envCalls[c].pc = "setting"
    /\ LET found == {r \in variables : r.key \in envCalls[c].keys}
                    \ IF flushing THEN envCalls[c].removes ELSE {}
       IN envCalls' = [envCalls EXCEPT ![c] =
                         IF Cardinality(found) > 1 THEN Ended("failed")
                         ELSE [@ EXCEPT !.pc = "storing", !.finds = found]]
    /\ UNCHANGED <<flushing, envRow, config, lastSet, rowVars, stale, crossed>>

\* Fault for Updated: a row that somebody has deleted meanwhile is passed over.
UpdatedIfThere(c) == (envCalls[c].finds \cap variables) \ envCalls[c].removes

\* Fault for Inserted: the row that is there is not looked at, and another one added.
InsertedAgain(c) == {[key |-> k, by |-> c] : k \in envCalls[c].keys}

\* The rows that a call adds, those that it updates, and the variables whose row it
\* updates and removes at once: the value they were to have is gone with the row.
Inserted(c) == {[key |-> k, by |-> c] : k \in IF envCalls[c].finds = {} THEN envCalls[c].keys ELSE {}}
Updated(c) == envCalls[c].finds \ envCalls[c].removes
SelfRemoved(c) == {r.key : r \in envCalls[c].finds \cap envCalls[c].removes}

\* The commit.  The update of a row that somebody has deleted meanwhile raises;
\* deleting it again does not.
StoreVariable(c) ==
    /\ envCalls[c].pc = "storing"
    /\ IF Updated(c) \subseteq variables
       THEN /\ variables' = (variables \ envCalls[c].removes) \cup Inserted(c)
            /\ valueBy' = [r \in Row |-> IF r \in Updated(c) \cup Inserted(c) THEN c ELSE valueBy[r]]
            /\ storedBy' = [k \in VarKeys |->
                              IF k \in envCalls[c].keys THEN {c}
                              ELSE IF RowsOf(k) \cap envCalls[c].removes = {} THEN storedBy[k] ELSE {}]
            /\ unstored' = (unstored \ envCalls[c].keys) \cup SelfRemoved(c)
            /\ envCalls' = [envCalls EXCEPT ![c] = Ended("done")]
       ELSE /\ envCalls' = [envCalls EXCEPT ![c] = Ended("failed")]
            /\ UNCHANGED rowVars
    /\ UNCHANGED <<flushing, envRow, config, lastSet, stale, crossed>>

-----------------------------------------------------------------------------
\* The process ends and rolls back what is not committed.
EnvExit ==
    /\ \E c \in EnvCalls : envCalls[c].pc \notin {"idle", "done", "failed"}
    /\ envCalls' = [c \in EnvCalls |-> IF envCalls[c].pc \in {"idle", "done"} THEN envCalls[c]
                                       ELSE Ended("failed")]
    /\ UNCHANGED <<flushing, envRow, config, lastSet, rowVars, stale, crossed>>

EnvNext ==
    \/ EnvExit
    \/ \E c \in EnvCalls :
         \/ \E K \in SUBSET VarKeys : CreateEnvironment(c, K)
         \/ \E K \in SUBSET Settings : ReadEnvironment(c, K)
         \/ \E k \in VarKeys, overwrite \in BOOLEAN : BeginSetting(c, k, overwrite)
         \/ InsertEnvironment(c) \/ UpdateEnvironment(c) \/ LookUpKey(c) \/ StoreVariable(c)

EnvSpec == EnvInit /\ [][EnvNext]_envVars

-----------------------------------------------------------------------------
EnvTypeOK ==
    /\ flushing \in BOOLEAN
    /\ envRow \in BOOLEAN
    /\ config \in [Settings -> EnvCalls \cup {Nobody}]
    /\ lastSet \in [Settings -> EnvCalls \cup {Nobody}]
    /\ variables \subseteq Row /\ valueBy \in [Row -> EnvCalls]
    /\ storedBy \in [VarKeys -> SUBSET EnvCalls] /\ unstored \subseteq VarKeys
    /\ envCalls \in [EnvCalls -> CallType]
    /\ stale \subseteq Settings /\ crossed \subseteq VarKeys

\* A setting is what the last call that changed it made it, unless a call that
\* changes another setting had read the row before and wrote it back after.
ConfigKept == \A s \in Settings \ stale : config[s] = lastSet[s]

\* A variable has one row at most, so that it can be set again, unless two calls
\* that set it were under way at the same time.
KeysOnce == \A k \in VarKeys \ crossed : Cardinality(RowsOf(k)) <= 1

\* A variable is there, with the value of the last call that set it, until a call
\* that overwrites removes it.  Besides two calls that overlap there is one exception:
\* a call that overwrites a variable which was there, without the flush, removes it.
ValuesKept ==
    \A k \in VarKeys \ (crossed \cup unstored) : {valueBy[r] : r \in RowsOf(k)} = storedBy[k]

\* What update_environment and set_environment_variables wrote is there, unless it is
\* in one of the three cases in which the code loses it (stale, crossed, unstored).
EnvironmentKept == ConfigKept /\ KeysOnce /\ ValuesKept
===============================================================================
