---------------------------- MODULE ReleaseProofs ----------------------------
(***************************************************************************)
(* What brings a build to an environment: the .env files, the row of an    *)
(* environment with its variables, the promotions of builds to it, and the *)
(* builds themselves.  For any number of each, of callers and of           *)
(* interruptions, and any limit of concurrent builds.                      *)
(***************************************************************************)
EXTENDS Environments, Promotions, EnvFiles, CICDBuilds, FiniteSetTheorems, TLAPS

(***************************************************************************)
(* The .env files.                                                         *)
(***************************************************************************)
(* A file that is whole is its last whole version; one that was cut, and is *)
(* not excused, has that version in its backup.                             *)
WholeIsNewest ==
    \A p \in EnvPaths : contents[p] \in {NoFile, Cut, newest[p]}

CutHasBackup ==
    \A p \in EnvPaths :
        contents[p] = Cut /\ p \notin excused => contents[BackupOf[p]] = newest[p]

(* How far the update is: what it has read is still in the file, until the  *)
(* backup has been written.                                                 *)
UpdateKeepsText ==
    update # NoSave =>
        /\ update.step # "saving" => contents[update.path] = update.text
        /\ update.step = "copying" => contents[BackupOf[update.path]] = Cut
        /\ update.step = "save" => contents[BackupOf[update.path]] = update.text
        /\ update.text \in {Cut, newest[update.path]} \ {NoFile}
        /\ update.text = Cut => update.step = "copy" \/ update.path \in excused

FilesInv == EnvFilesTypeOK /\ WholeIsNewest /\ CutHasBackup /\ UpdateKeepsText /\ Recoverable

LEMMA FilesTypeStep ==
    ASSUME EnvFilesTypeOK, [EnvFilesNext]_envFileVars PROVE EnvFilesTypeOK'
<1> USE EnvFilesAssumption DEF EnvFilesAssumption, EnvFilesTypeOK, NoFile, Cut, At
<1>1. ASSUME NEW p \in EnvPaths, Provided(p) PROVE EnvFilesTypeOK'
    BY <1>1 DEF Provided
<1>2. ASSUME NEW p \in EnvPaths, BeginUpdate(p) PROVE EnvFilesTypeOK'
    BY <1>2 DEF BeginUpdate
<1>3. ASSUME NEW p \in EnvPaths, DeleteFile(p) PROVE EnvFilesTypeOK'
    BY <1>3 DEF DeleteFile, Excused
<1>4. CASE OpenBackup
    BY <1>4 DEF OpenBackup, Excused
<1>5. CASE WriteBackup
    BY <1>5 DEF WriteBackup
<1>6. CASE OpenEnvFile
    BY <1>6 DEF OpenEnvFile
<1>7. CASE WriteEnvFile
    BY <1>7 DEF WriteEnvFile
<1>8. CASE CutOff
    BY <1>8 DEF CutOff
<1>9. CASE UNCHANGED envFileVars
    BY <1>9 DEF envFileVars
<1> QED
    BY <1>1, <1>2, <1>3, <1>4, <1>5, <1>6, <1>7, <1>8, <1>9 DEF EnvFilesNext

LEMMA FilesStep == ASSUME FilesInv, [EnvFilesNext]_envFileVars PROVE FilesInv'
<1>0. EnvFilesTypeOK'
    BY FilesTypeStep DEF FilesInv
<1> USE <1>0, EnvFilesAssumption
    DEF FilesInv, EnvFilesAssumption, EnvFilesTypeOK, NoFile, Cut, At,
        WholeIsNewest, CutHasBackup, UpdateKeepsText, Recoverable
<1>1. ASSUME NEW p \in EnvPaths, Provided(p) PROVE FilesInv'
    BY <1>1 DEF Provided
<1>2. ASSUME NEW p \in EnvPaths, BeginUpdate(p) PROVE FilesInv'
    BY <1>2 DEF BeginUpdate
<1>3. ASSUME NEW p \in EnvPaths, DeleteFile(p) PROVE FilesInv'
    BY <1>3 DEF DeleteFile, Excused, Whole
<1>4. CASE OpenBackup
  <2> DEFINE p == update.path
  <2>1. /\ update # NoSave /\ p \in EnvPaths /\ update.step = "copy"
        /\ contents' = [contents EXCEPT ![BackupOf[p]] = Cut]
        /\ excused' = excused \cup Excused(BackupOf[p], p)
        /\ update' = [update EXCEPT !.step = "copying"] /\ newest' = newest
      BY <1>4 DEF OpenBackup
  <2>2. /\ update'.path = p /\ update'.text = update.text /\ update'.step = "copying"
        /\ contents[p] = update.text
      BY <2>1
  <2>3. \A q \in EnvPaths : contents'[q] = contents[q] /\ newest'[q] = newest[q]
      BY <2>1
  <2>4. \A q \in EnvPaths : contents'[BackupOf[q]] =
                             IF BackupOf[q] = BackupOf[p] THEN Cut ELSE contents[BackupOf[q]]
      BY <2>1
  <2>5. \A q \in EnvPaths : contents'[DeletedOf[q]] = contents[DeletedOf[q]]
      BY <2>1
  <2>6. \A q \in EnvPaths : q \notin excused' /\ BackupOf[q] = BackupOf[p] =>
                               q \notin excused /\ contents[q] = newest[q] /\ contents[q] # Cut
      BY <2>1, <2>2 DEF Excused, Whole
  <2>7. WholeIsNewest' /\ CutHasBackup' /\ Recoverable'
      BY <2>1, <2>3, <2>4, <2>5, <2>6
  <2>8. update.text = Cut => p \in excused'
      BY <2>1, <2>2 DEF Excused
  <2>9. UpdateKeepsText'
      BY <2>1, <2>2, <2>3, <2>4, <2>8
  <2> QED
      BY <2>7, <2>9
<1>5. CASE WriteBackup
    BY <1>5 DEF WriteBackup
<1>6. CASE OpenEnvFile
    BY <1>6 DEF OpenEnvFile
<1>7. CASE WriteEnvFile
    BY <1>7 DEF WriteEnvFile
<1>8. CASE CutOff
    BY <1>8 DEF CutOff
<1>9. CASE UNCHANGED envFileVars
    BY <1>9 DEF envFileVars
<1> QED
    BY <1>1, <1>2, <1>3, <1>4, <1>5, <1>6, <1>7, <1>8, <1>9 DEF EnvFilesNext

LEMMA FilesInit == EnvFilesInit => FilesInv
    BY EnvFilesAssumption
    DEF EnvFilesInit, FilesInv, EnvFilesAssumption, EnvFilesTypeOK, NoFile, Cut,
        WholeIsNewest, CutHasBackup, UpdateKeepsText, Recoverable

(* The last whole version of a .env file can be had back (env_manager.py). *)
THEOREM RecoverableHolds == EnvFilesSpec => []Recoverable
<1>1. FilesInv => Recoverable
    BY DEF FilesInv
<1> QED
    BY FilesInit, FilesStep, <1>1, PTL DEF EnvFilesSpec

(***************************************************************************)
(* The environment's row and its variables.                                *)
(***************************************************************************)

(* A call that has read the configuration knows who set each setting last, *)
(* except where it has missed a change or the row was wrong already.       *)
BaseIsLast ==
    \A c \in EnvCalls : envCalls[c].pc = "updating" =>
        \A s \in Settings : s \notin stale /\ s \notin envCalls[c].missed =>
                            envCalls[c].base[s] = lastSet[s]

(* One row at most has a key: KeysOnce without counting.                   *)
OneRow ==
    \A r, q \in variables : r.key = q.key /\ r.key \notin crossed => r = q

SetsVariable(c) == envCalls[c].pc \in {"setting", "storing"}

(* Only an environment that is there has variables, and calls that set one. *)
RowsHaveEnvironment ==
    /\ variables # {} => envRow
    /\ \A c \in EnvCalls : 
          SetsVariable(c) => envRow /\ \E k \in VarKeys : envCalls[c].keys = {k}

(* Two calls that set a key at once are noticed.                           *)
SettersCross ==
    \A c, d \in EnvCalls : SetsVariable(c) /\ SetsVariable(d) /\ c # d =>
        envCalls[c].keys \cap envCalls[d].keys \subseteq crossed

(* What a call has found is all there is of its key, but for what it removes. *)
FindsCover ==
    \A c \in EnvCalls : envCalls[c].pc = "storing" =>
        \A r \in variables : 
            r.key \in envCalls[c].keys \ crossed => r \in envCalls[c].removes \cup envCalls[c].finds

(* What a call has found is of its key.                                    *)
FindsOfKey ==
    \A c \in EnvCalls : envCalls[c].pc = "storing" => \A r \in envCalls[c].finds : r.key \in envCalls[c].keys

(* ValuesKept without sets of values: the row of a variable has the value   *)
(* of the call that set it last, and there is one if there was such a call. *)
RowsHaveValue ==
    \A k \in VarKeys \ (crossed \cup unstored) :
        /\ \A r \in RowsOf(k) : storedBy[k] = {valueBy[r]}
        /\ RowsOf(k) = {} => storedBy[k] = {}

(* An update changes settings, every other call variables.                 *)
KeysOfKind ==
    \A c \in EnvCalls :
        /\ envCalls[c].pc = "updating" => envCalls[c].keys \subseteq Settings
        /\ envCalls[c].pc \in {"creating", "setting", "storing"} => envCalls[c].keys \subseteq VarKeys

EnvTyped == EnvTypeOK /\ KeysOfKind
ConfigInv == ConfigKept /\ BaseIsLast
VariablesInv == OneRow /\ RowsHaveEnvironment /\ SettersCross /\ FindsCover
ValuesInv == FindsOfKey /\ RowsHaveValue
EnvInv == EnvTyped /\ ConfigInv /\ VariablesInv /\ ValuesInv

LEMMA CallsAreCalls ==
    /\ IdleCall \in CallType
    /\ \A pc \in {"done", "failed"} : Ended(pc) \in CallType /\ Ended(pc).pc = pc
    BY DEF IdleCall, CallType, Ended, Fresh

LEMMA EnvInitially == EnvInit => EnvInv
    BY CallsAreCalls
    DEF EnvInit, EnvInv, EnvTyped, KeysOfKind, EnvTypeOK, ConfigInv, ConfigKept, BaseIsLast, VariablesInv, OneRow,
        RowsHaveEnvironment, SettersCross, FindsCover, SetsVariable, IdleCall, Fresh, Nobody, ValuesInv, FindsOfKey,
        RowsHaveValue, RowsOf, Row

LEMMA EnvTypeStep == ASSUME EnvTyped, [EnvNext]_envVars PROVE EnvTyped'
<1> USE CallsAreCalls DEF EnvTyped, EnvTypeOK, KeysOfKind, rowVars
<1>1. ASSUME NEW c \in EnvCalls, NEW K \in SUBSET VarKeys, CreateEnvironment(c, K)
      PROVE  EnvTyped'
  <2>1. [IdleCall EXCEPT !.pc = "creating", !.keys = K] \in CallType
      BY DEF CallType, IdleCall, Fresh, Nobody
  <2> QED
      BY <1>1, <2>1 DEF CreateEnvironment
<1>2. ASSUME NEW c \in EnvCalls, NEW K \in SUBSET Settings, ReadEnvironment(c, K)
      PROVE  EnvTyped'
  <2>1. [IdleCall EXCEPT !.pc = "updating", !.base = config, !.keys = K] \in CallType
      BY DEF CallType, IdleCall, Fresh, Nobody
  <2> QED
      BY <1>2, <2>1 DEF ReadEnvironment
<1>3. ASSUME NEW c \in EnvCalls, NEW k \in VarKeys, NEW o \in BOOLEAN, BeginSetting(c, k, o)
      PROVE  EnvTyped'
  <2>1. [IdleCall EXCEPT !.pc = "setting", !.keys = {k},
                         !.removes = IF o THEN variables ELSE {}] \in CallType
      BY DEF CallType, IdleCall, Fresh, Nobody
  <2> QED
      BY <1>3, <2>1 DEF BeginSetting
<1>4. ASSUME NEW c \in EnvCalls, InsertEnvironment(c) PROVE EnvTyped'
  <2>1. ~envRow => variables' \subseteq Row
      BY <1>4 DEF InsertEnvironment, Row
  <2>2. variables' \subseteq Row /\ envRow' \in BOOLEAN
      BY <1>4, <2>1 DEF InsertEnvironment
  <2>3. storedBy' \in [VarKeys -> SUBSET EnvCalls] /\ valueBy' \in [Row -> EnvCalls]
      BY <1>4 DEF InsertEnvironment
  <2> QED
      BY <1>4, <2>2, <2>3 DEF InsertEnvironment
<1>5. ASSUME NEW c \in EnvCalls, UpdateEnvironment(c) PROVE EnvTyped'
  <2> DEFINE K == envCalls[c].keys
  <2>1. config' \in [Settings -> EnvCalls \cup {Nobody}] /\ lastSet' \in [Settings -> EnvCalls \cup {Nobody}]
      BY <1>5 DEF UpdateEnvironment, CallType
  <2>2. stale' \subseteq Settings
      BY <1>5 DEF UpdateEnvironment, CallType
  <2>3. ASSUME NEW d \in EnvCalls
        PROVE  /\ envCalls'[d] \in CallType /\ envCalls'[d].pc \in {envCalls[d].pc, "done"}
               /\ envCalls'[d].pc # "done" => envCalls'[d].keys = envCalls[d].keys
    <3>1. CASE d # c /\ envCalls[d].pc = "updating"
      <4>1. envCalls'[d] = [envCalls[d] EXCEPT !.missed = envCalls[d].missed \cup K]
          BY <1>5, <3>1 DEF UpdateEnvironment
      <4>2. K \subseteq Settings
          BY <1>5 DEF UpdateEnvironment
      <4>3. envCalls[d] \in CallType /\ envCalls[d].missed \cup K \subseteq Settings
          BY <4>2 DEF CallType
      <4> HIDE DEF K, EnvTyped
      <4>4. envCalls'[d] \in CallType
          BY <4>1, <4>3 DEF CallType
      <4> QED
          BY <4>1, <4>3, <4>4 DEF CallType
    <3> QED
        BY <1>5, <3>1 DEF UpdateEnvironment
  <2>4. DOMAIN envCalls' = EnvCalls /\ envCalls' = [d \in EnvCalls |-> envCalls'[d]]
      BY <1>5 DEF UpdateEnvironment
  <2> QED
      BY <1>5, <2>1, <2>2, <2>3, <2>4 DEF UpdateEnvironment
<1>6. ASSUME NEW c \in EnvCalls, LookUpKey(c) PROVE EnvTyped'
  <2> DEFINE found == {r \in variables : r.key \in envCalls[c].keys}
                      \ IF flushing THEN envCalls[c].removes ELSE {}
  <2>1. found \subseteq Row
      OBVIOUS
  <2> HIDE DEF found
  <2>2. [envCalls[c] EXCEPT !.pc = "storing", !.finds = found] \in CallType
      BY <2>1 DEF CallType
  <2>3. envCalls' = [envCalls EXCEPT ![c] = 
                      IF Cardinality(found) > 1 THEN Ended("failed")
                      ELSE [envCalls[c] EXCEPT !.pc = "storing", !.finds = found]]
      BY <1>6 DEF LookUpKey, found
  <2>4. envCalls' \in [EnvCalls -> CallType]
      BY <2>2, <2>3
  <2>5. KeysOfKind'
    <3>1. envCalls[c].pc = "setting"
        BY <1>6 DEF LookUpKey
    <3>2. ASSUME NEW d \in EnvCalls 
          PROVE  \/ envCalls'[d] = envCalls[d] \/ envCalls'[d].pc = "failed" 
                 \/ envCalls'[d].pc = "storing" /\ envCalls'[d].keys = envCalls[d].keys /\ d = c
        BY <2>2, <2>3 DEF CallType
    <3> QED
        BY <3>1, <3>2
  <2> QED
      BY <1>6, <2>4, <2>5 DEF LookUpKey
<1>7. ASSUME NEW c \in EnvCalls, StoreVariable(c) PROVE EnvTyped'
  <2>1. Inserted(c) \subseteq Row /\ Updated(c) \subseteq Row
      BY <1>7 DEF StoreVariable, Row, Inserted, Updated, CallType
  <2>2. SelfRemoved(c) \subseteq VarKeys
      BY DEF SelfRemoved, CallType, Row
  <2>3. variables' \subseteq Row /\ valueBy' \in [Row -> EnvCalls]
    <3>1. CASE UNCHANGED rowVars
        BY <3>1
    <3>2. CASE /\ variables' = (variables \ envCalls[c].removes) \cup Inserted(c)
               /\ valueBy' = [r \in Row |-> IF r \in Updated(c) \cup Inserted(c) THEN c ELSE valueBy[r]]
        BY <2>1, <3>2
    <3> QED
        BY <1>7, <3>1, <3>2 DEF StoreVariable
  <2>4. storedBy' \in [VarKeys -> SUBSET EnvCalls] /\ unstored' \subseteq VarKeys
      BY <1>7, <2>2 DEF StoreVariable
  <2>5. envCalls' \in [EnvCalls -> CallType] /\ KeysOfKind'
      BY <1>7 DEF StoreVariable
  <2> QED
      BY <1>7, <2>3, <2>4, <2>5 DEF StoreVariable
<1>8. CASE EnvExit
    BY <1>8 DEF EnvExit
<1>9. CASE UNCHANGED envVars
    BY <1>9 DEF envVars
<1> QED
    BY <1>1, <1>2, <1>3, <1>4, <1>5, <1>6, <1>7, <1>8, <1>9 DEF EnvNext

(* A step that is not an update leaves the configuration alone, and whoever *)
(* is updating afterwards either was or has read the configuration now.     *)
LEMMA ConfigStays ==
    ASSUME EnvTyped, ConfigInv, config' = config, lastSet' = lastSet, stale' = stale,
           \A c \in EnvCalls : envCalls'[c].pc = "updating" =>
              \/ envCalls'[c] = envCalls[c] 
              \/ envCalls'[c].base = config
    PROVE  ConfigInv'
    BY DEF ConfigInv, ConfigKept, BaseIsLast

LEMMA ConfigStep == ASSUME EnvTyped, ConfigInv, [EnvNext]_envVars PROVE ConfigInv'
<1> USE CallsAreCalls DEF EnvTyped, EnvTypeOK, rowVars
<1>1. ASSUME NEW c \in EnvCalls, NEW K \in SUBSET VarKeys, CreateEnvironment(c, K)
      PROVE  ConfigInv'
    BY <1>1, ConfigStays DEF CreateEnvironment, IdleCall
<1>2. ASSUME NEW c \in EnvCalls, NEW K \in SUBSET Settings, ReadEnvironment(c, K)
      PROVE  ConfigInv'
    BY <1>2, ConfigStays DEF ReadEnvironment, IdleCall
<1>3. ASSUME NEW c \in EnvCalls, NEW k \in VarKeys, NEW o \in BOOLEAN, BeginSetting(c, k, o)
      PROVE  ConfigInv'
    BY <1>3, ConfigStays DEF BeginSetting, IdleCall
<1>4. ASSUME NEW c \in EnvCalls, InsertEnvironment(c) PROVE ConfigInv'
    BY <1>4, ConfigStays DEF InsertEnvironment
<1>5. ASSUME NEW c \in EnvCalls, UpdateEnvironment(c) PROVE ConfigInv'
  <2> DEFINE K == envCalls[c].keys
  <2>1. \A s \in Settings : 
          /\ config'[s] = IF s \in K THEN c ELSE envCalls[c].base[s]
          /\ lastSet'[s] = IF s \in K THEN c ELSE lastSet[s]
      BY <1>5 DEF UpdateEnvironment
  <2>2. stale' = (stale \cup envCalls[c].missed) \ K /\ envCalls[c].pc = "updating"
      BY <1>5 DEF UpdateEnvironment
  <2>3. ConfigKept'
      BY <2>1, <2>2 DEF ConfigInv, ConfigKept, BaseIsLast
  <2>4. ASSUME NEW d \in EnvCalls, envCalls'[d].pc = "updating"
        PROVE  /\ envCalls[d].pc = "updating" /\ envCalls'[d].base = envCalls[d].base
               /\ envCalls'[d].missed = envCalls[d].missed \cup K
    <3>1. envCalls'[d] = IF d = c THEN Ended("done")
                         ELSE IF envCalls[d].pc = "updating"
                         THEN [envCalls[d] EXCEPT !.missed = envCalls[d].missed \cup K]
                         ELSE envCalls[d]
        BY <1>5 DEF UpdateEnvironment
    <3>2. d # c /\ envCalls[d].pc = "updating"
        BY <2>4, <3>1
    <3> QED
        BY <3>1, <3>2 DEF CallType
  <2>5. BaseIsLast'
      BY <2>1, <2>2, <2>4 DEF ConfigInv, BaseIsLast
  <2> QED
      BY <2>3, <2>5 DEF ConfigInv
<1>6. ASSUME NEW c \in EnvCalls, LookUpKey(c) PROVE ConfigInv'
  <2>1. \A d \in EnvCalls : d # c => envCalls'[d] = envCalls[d]
      BY <1>6 DEF LookUpKey
  <2>2. envCalls'[c].pc # "updating"
      BY <1>6 DEF LookUpKey, CallType
  <2> QED
      BY <1>6, <2>1, <2>2, ConfigStays DEF LookUpKey
<1>7. ASSUME NEW c \in EnvCalls, StoreVariable(c) PROVE ConfigInv'
    BY <1>7, ConfigStays DEF StoreVariable
<1>8. CASE EnvExit
    BY <1>8, ConfigStays DEF EnvExit
<1>9. CASE UNCHANGED envVars
    BY <1>9, ConfigStays DEF envVars
<1> QED
    BY <1>1, <1>2, <1>3, <1>4, <1>5, <1>6, <1>7, <1>8, <1>9 DEF EnvNext

(* A step that changes neither rows nor what is noticed, and after which    *)
(* every call that sets a variable did so before, keeps what is said.       *)
LEMMA VariablesStay ==
    ASSUME EnvTyped, VariablesInv, variables' \subseteq variables, envRow' = envRow, crossed' = crossed,
           \A c \in EnvCalls : SetsVariable(c)' =>
              \/ envCalls'[c] = envCalls[c] 
              \/ /\ SetsVariable(c) /\ envCalls'[c].keys = envCalls[c].keys
                 /\ \A r \in variables : r.key \in envCalls[c].keys =>
                        r \in envCalls'[c].removes \cup envCalls'[c].finds
    PROVE  VariablesInv'
<1> USE DEF VariablesInv, SetsVariable, RowsHaveEnvironment, SettersCross, FindsCover
<1>1. OneRow'
    BY DEF OneRow
<1>2. RowsHaveEnvironment'
    OBVIOUS
<1>3. SettersCross'
    OBVIOUS
<1>4. FindsCover'
    OBVIOUS
<1> QED
    BY <1>1, <1>2, <1>3, <1>4

LEMMA VariablesStep == ASSUME EnvTyped, VariablesInv, [EnvNext]_envVars PROVE VariablesInv'
<1> USE CallsAreCalls DEF EnvTyped, EnvTypeOK, SetsVariable, rowVars
<1>1. ASSUME NEW c \in EnvCalls, NEW K \in SUBSET VarKeys, CreateEnvironment(c, K)
      PROVE  VariablesInv'
    BY <1>1, VariablesStay DEF CreateEnvironment, IdleCall
<1>2. ASSUME NEW c \in EnvCalls, NEW K \in SUBSET Settings, ReadEnvironment(c, K)
      PROVE  VariablesInv'
    BY <1>2, VariablesStay DEF ReadEnvironment, IdleCall
<1>3. ASSUME NEW c \in EnvCalls, NEW k \in VarKeys, NEW o \in BOOLEAN, BeginSetting(c, k, o)
      PROVE  VariablesInv'
  <2>1. CASE ~envRow
      BY <1>3, <2>1, VariablesStay DEF BeginSetting
  <2>2. CASE envRow
    <3>1. /\ envCalls'[c].pc = "setting" /\ envCalls'[c].keys = {k}
          /\ \A d \in EnvCalls : d # c => envCalls'[d] = envCalls[d]
          /\ crossed' = IF Setting(k) # {} THEN crossed \cup {k} ELSE crossed
          /\ variables' = variables /\ envRow' = envRow
        BY <1>3, <2>2 DEF BeginSetting, IdleCall
    <3>2. crossed \subseteq crossed'
        BY <3>1
    <3>3. OneRow'
        BY <3>1, <3>2 DEF VariablesInv, OneRow
    <3>4. RowsHaveEnvironment'
        BY <3>1, <2>2 DEF VariablesInv, RowsHaveEnvironment
    <3>5. \A d \in EnvCalls : SetsVariable(d) /\ k \in envCalls[d].keys => k \in crossed'
        BY <3>1 DEF Setting
    <3>6. SettersCross'
        BY <3>1, <3>2, <3>5 DEF VariablesInv, SettersCross
    <3>7. FindsCover'
        BY <3>1, <3>2 DEF VariablesInv, FindsCover
    <3> QED
        BY <3>3, <3>4, <3>6, <3>7 DEF VariablesInv
  <2> QED
      BY <2>1, <2>2
<1>4. ASSUME NEW c \in EnvCalls, InsertEnvironment(c) PROVE VariablesInv'
  <2>1. CASE envRow
      BY <1>4, <2>1, VariablesStay DEF InsertEnvironment
  <2>2. CASE ~envRow
    <3>1. /\ variables' = {[key |-> k, by |-> c] : k \in envCalls[c].keys} /\ envRow' = TRUE
          /\ crossed' = crossed
        BY <1>4, <2>2 DEF InsertEnvironment
    <3>2. OneRow'
        BY <3>1 DEF OneRow
    <3>3. \A d \in EnvCalls : ~SetsVariable(d)'
        BY <1>4, <2>2 DEF InsertEnvironment, VariablesInv, RowsHaveEnvironment
    <3> QED
        BY <3>1, <3>2, <3>3
        DEF VariablesInv, RowsHaveEnvironment, SettersCross, FindsCover
  <2> QED
      BY <2>1, <2>2
<1>5. ASSUME NEW c \in EnvCalls, UpdateEnvironment(c) PROVE VariablesInv'
  <2>1. \A d \in EnvCalls : envCalls'[d] = envCalls[d] \/ envCalls'[d].pc \in {"done", "updating"}
    <3>1. \A d \in EnvCalls : d # c /\ envCalls[d].pc = "updating" =>
            envCalls'[d] = [envCalls[d] EXCEPT !.missed = envCalls[d].missed \cup envCalls[c].keys]
        BY <1>5 DEF UpdateEnvironment
    <3> QED
        BY <1>5, <3>1 DEF UpdateEnvironment, CallType
  <2> QED
      BY <1>5, <2>1, VariablesStay DEF UpdateEnvironment
<1>6. ASSUME NEW c \in EnvCalls, LookUpKey(c) PROVE VariablesInv'
  <2> DEFINE found == {r \in variables : r.key \in envCalls[c].keys}
                      \ IF flushing THEN envCalls[c].removes ELSE {}
  <2>0. envCalls' = [envCalls EXCEPT ![c] =
                      IF Cardinality(found) > 1 THEN Ended("failed")
                      ELSE [envCalls[c] EXCEPT !.pc = "storing", !.finds = found]]
      BY <1>6 DEF LookUpKey
  <2>1. \A r \in variables : r.key \in envCalls[c].keys => r \in envCalls[c].removes \cup found
      OBVIOUS
  <2> HIDE DEF found
  <2>3. envCalls[c].pc = "setting"
      BY <1>6 DEF LookUpKey
  <2>4. \/ envCalls'[c].pc = "failed"
        \/ /\ envCalls'[c].keys = envCalls[c].keys /\ envCalls'[c].removes = envCalls[c].removes
           /\ envCalls'[c].finds = found
      BY <2>0 DEF CallType
  <2>5. \A d \in EnvCalls : d # c => envCalls'[d] = envCalls[d]
      BY <2>0
  <2>6. variables' = variables /\ envRow' = envRow /\ crossed' = crossed
      BY <1>6 DEF LookUpKey
  <2> QED
      BY <2>1, <2>3, <2>4, <2>5, <2>6, VariablesStay
<1>7. ASSUME NEW c \in EnvCalls, StoreVariable(c) PROVE VariablesInv'
  <2>1. /\ envCalls'[c].pc \in {"done", "failed"} /\ envCalls[c].pc = "storing"
        /\ \A d \in EnvCalls : d # c => envCalls'[d] = envCalls[d]
        /\ envRow' = envRow /\ crossed' = crossed
      BY <1>7 DEF StoreVariable
  <2>2. CASE variables' \subseteq variables
      BY <2>1, <2>2, VariablesStay
  <2>3. CASE ~(variables' \subseteq variables)
    <3>1. PICK k \in VarKeys : envCalls[c].keys = {k}
        BY <2>1 DEF VariablesInv, RowsHaveEnvironment
    <3>2. /\ envCalls[c].finds = {}
          /\ variables' = (variables \ envCalls[c].removes) \cup {[key |-> k, by |-> c]}
        BY <1>7, <2>3, <3>1 DEF StoreVariable, Inserted
    <3>3. \A r \in variables' : r.key = k /\ k \notin crossed => r = [key |-> k, by |-> c]
        BY <2>1, <3>1, <3>2 DEF VariablesInv, FindsCover
    <3>4. OneRow'
        BY <2>1, <3>2, <3>3 DEF VariablesInv, OneRow
    <3>5. RowsHaveEnvironment'
        BY <2>1 DEF VariablesInv, RowsHaveEnvironment
    <3>6. SettersCross'
        BY <2>1 DEF VariablesInv, SettersCross
    <3>7. ASSUME NEW d \in EnvCalls, envCalls'[d].pc = "storing", NEW r \in variables',
                 r.key \in envCalls'[d].keys \ crossed'
          PROVE  r \in envCalls'[d].removes \cup envCalls'[d].finds
      <4>1. d # c /\ envCalls'[d] = envCalls[d]
          BY <2>1, <3>7
      <4>2. r.key # k
          BY <2>1, <3>1, <3>7, <4>1 DEF VariablesInv, SettersCross
      <4> QED
          BY <2>1, <3>2, <3>7, <4>1, <4>2 DEF VariablesInv, FindsCover
    <3>8. FindsCover'
        BY <3>7 DEF FindsCover
    <3> QED
        BY <3>4, <3>5, <3>6, <3>8 DEF VariablesInv
  <2> QED
      BY <2>2, <2>3
<1>8. CASE EnvExit
    BY <1>8, VariablesStay DEF EnvExit
<1>9. CASE UNCHANGED envVars
    BY <1>9, VariablesStay DEF envVars
<1> QED
    BY <1>1, <1>2, <1>3, <1>4, <1>5, <1>6, <1>7, <1>8, <1>9 DEF EnvNext

(* A step that changes no rows, and after which every call that stores has *)
(* found rows of its key.                                                  *)
LEMMA ValuesStay ==
    ASSUME ValuesInv, UNCHANGED rowVars, crossed \subseteq crossed',
           \A c \in EnvCalls : envCalls'[c].pc = "storing" =>
              envCalls'[c] = envCalls[c] \/ \A r \in envCalls'[c].finds : r.key \in envCalls'[c].keys
    PROVE  ValuesInv'
    BY DEF ValuesInv, FindsOfKey, RowsHaveValue, RowsOf, rowVars

LEMMA ValuesStep == ASSUME EnvTyped, VariablesInv, ValuesInv, [EnvNext]_envVars PROVE ValuesInv'
<1> USE CallsAreCalls DEF EnvTyped, EnvTypeOK
<1>1. ASSUME NEW c \in EnvCalls, NEW K \in SUBSET VarKeys, CreateEnvironment(c, K)
      PROVE  ValuesInv'
    BY <1>1, ValuesStay DEF CreateEnvironment, IdleCall
<1>2. ASSUME NEW c \in EnvCalls, NEW K \in SUBSET Settings, ReadEnvironment(c, K)
      PROVE  ValuesInv'
    BY <1>2, ValuesStay DEF ReadEnvironment, IdleCall
<1>3. ASSUME NEW c \in EnvCalls, NEW k \in VarKeys, NEW o \in BOOLEAN, BeginSetting(c, k, o)
      PROVE  ValuesInv'
    BY <1>3, ValuesStay DEF BeginSetting, IdleCall
<1>4. ASSUME NEW c \in EnvCalls, InsertEnvironment(c) PROVE ValuesInv'
  <2>1. CASE envRow
      BY <1>4, <2>1, ValuesStay DEF InsertEnvironment, rowVars
  <2>2. CASE ~envRow
    <3>1. /\ variables' = {[key |-> k, by |-> c] : k \in envCalls[c].keys}
          /\ storedBy' = [k \in VarKeys |-> IF k \in envCalls[c].keys THEN {c} ELSE {}]
          /\ \A d \in EnvCalls : envCalls'[d] = envCalls[d] \/ envCalls'[d].pc = "done"
        BY <1>4, <2>2 DEF InsertEnvironment
    <3>2. FindsOfKey'
        BY <3>1 DEF ValuesInv, FindsOfKey
    <3>3. /\ variables' \subseteq Row
          /\ \A r \in Row : r \in variables' => valueBy'[r] = c
      <4>1. envCalls[c].keys \subseteq VarKeys
          BY <1>4 DEF InsertEnvironment, EnvTyped, KeysOfKind
      <4>2. valueBy' = [r \in Row |-> IF r \in variables' THEN c ELSE valueBy[r]]
          BY <1>4, <2>2 DEF InsertEnvironment
      <4> QED
          BY <3>1, <4>1, <4>2 DEF Row
    <3>4. ASSUME NEW k \in VarKeys
          PROVE  /\ \A r \in RowsOf(k)' : storedBy'[k] = {valueBy'[r]}
                 /\ RowsOf(k)' = {} => storedBy'[k] = {}
      <4>1. \A r \in RowsOf(k)' : r \in Row /\ valueBy'[r] = c /\ k \in envCalls[c].keys
          BY <3>1, <3>3 DEF RowsOf
      <4>2. k \in envCalls[c].keys => [key |-> k, by |-> c] \in RowsOf(k)'
          BY <3>1 DEF RowsOf
      <4> QED
          BY <3>1, <4>1, <4>2
    <3>5. RowsHaveValue'
        BY <3>4 DEF RowsHaveValue
    <3> QED
        BY <3>2, <3>5 DEF ValuesInv
  <2> QED
      BY <2>1, <2>2
<1>5. ASSUME NEW c \in EnvCalls, UpdateEnvironment(c) PROVE ValuesInv'
  <2>1. \A d \in EnvCalls : envCalls'[d] = envCalls[d] \/ envCalls'[d].pc \in {"done", "updating"}
    <3>1. \A d \in EnvCalls : d # c /\ envCalls[d].pc = "updating" =>
            envCalls'[d] = [envCalls[d] EXCEPT !.missed = envCalls[d].missed \cup envCalls[c].keys]
        BY <1>5 DEF UpdateEnvironment
    <3> QED
        BY <1>5, <3>1 DEF UpdateEnvironment, CallType
  <2> QED
      BY <1>5, <2>1, ValuesStay DEF UpdateEnvironment
<1>6. ASSUME NEW c \in EnvCalls, LookUpKey(c) PROVE ValuesInv'
  <2> DEFINE found == {r \in variables : r.key \in envCalls[c].keys}
                      \ IF flushing THEN envCalls[c].removes ELSE {}
  <2>0. envCalls' = [envCalls EXCEPT ![c] =
                      IF Cardinality(found) > 1 THEN Ended("failed")
                      ELSE [envCalls[c] EXCEPT !.pc = "storing", !.finds = found]]
      BY <1>6 DEF LookUpKey
  <2>1. \A r \in found : r.key \in envCalls[c].keys
      OBVIOUS
  <2> HIDE DEF found
  <2>2. \/ envCalls'[c].pc = "failed"
        \/ envCalls'[c].keys = envCalls[c].keys /\ envCalls'[c].finds = found
      BY <2>0 DEF CallType
  <2>3. \A d \in EnvCalls : d # c => envCalls'[d] = envCalls[d]
      BY <2>0
  <2>4. UNCHANGED <<rowVars, crossed>>
      BY <1>6 DEF LookUpKey
  <2> QED
      BY <2>1, <2>2, <2>3, <2>4, ValuesStay
<1>7. ASSUME NEW c \in EnvCalls, StoreVariable(c) PROVE ValuesInv'
  <2>1. /\ envCalls'[c].pc \in {"done", "failed"} /\ envCalls[c].pc = "storing" /\ crossed' = crossed
        /\ \A d \in EnvCalls : d # c => envCalls'[d] = envCalls[d]
      BY <1>7 DEF StoreVariable
  <2>2. CASE UNCHANGED rowVars
      BY <2>1, <2>2, ValuesStay
  <2>3. CASE ~UNCHANGED rowVars
    <3> DEFINE call == envCalls[c]
    <3>1. /\ Updated(c) \subseteq variables
          /\ variables' = (variables \ call.removes) \cup Inserted(c)
          /\ \A r \in Row : valueBy'[r] = IF r \in Updated(c) \cup Inserted(c) THEN c ELSE valueBy[r]
          /\ \A k \in VarKeys : storedBy'[k] =
                IF k \in call.keys THEN {c}
                ELSE IF RowsOf(k) \cap call.removes = {} THEN storedBy[k] ELSE {}
          /\ unstored' = (unstored \ call.keys) \cup SelfRemoved(c)
        BY <1>7, <2>3 DEF StoreVariable
    <3>2. /\ \A r \in call.finds : r.key \in call.keys
          /\ Inserted(c) = {[key |-> k, by |-> c] : k \in IF call.finds = {} THEN call.keys ELSE {}}
          /\ Updated(c) = call.finds \ call.removes
          /\ SelfRemoved(c) = {r.key : r \in call.finds \cap call.removes}
        BY <2>1 DEF Inserted, Updated, SelfRemoved, ValuesInv, FindsOfKey
    <3>3. FindsOfKey'
        BY <2>1 DEF ValuesInv, FindsOfKey
    <3>4. variables \subseteq Row /\ call.keys \subseteq VarKeys /\ Inserted(c) \subseteq Row
        BY <2>1, <3>2 DEF EnvTyped, KeysOfKind, Row
    <3> HIDE DEF call
    <3>5. ASSUME NEW k \in VarKeys, k \notin crossed, k \notin unstored', k \in call.keys
          PROVE  (\A r \in RowsOf(k)' : storedBy'[k] = {valueBy'[r]}) /\ RowsOf(k)' # {}
      <4>1. storedBy'[k] = {c} /\ \A r \in call.finds : r.key = k => r \notin call.removes
          BY <3>1, <3>2, <3>5
      <4>2. call.keys = {k}
          BY <2>1, <3>5 DEF VariablesInv, RowsHaveEnvironment, SetsVariable, call
      <4>3. \A r \in variables : r.key = k => r \in call.removes \cup call.finds
          BY <2>1, <3>5 DEF VariablesInv, FindsCover, call
      <4>4. \A r \in variables' : r.key = k => r \in Updated(c) \cup Inserted(c) /\ r \in Row
          BY <3>1, <3>2, <3>4, <4>3
      <4>5. \A r \in RowsOf(k)' : valueBy'[r] = c
          BY <3>1, <4>4 DEF RowsOf
      <4>6. RowsOf(k)' # {}
        <5>1. CASE call.finds = {}
          <6>1. [key |-> k, by |-> c] \in variables'
              BY <3>1, <3>2, <3>5, <5>1
          <6> QED
              BY <6>1 DEF RowsOf
        <5>2. CASE call.finds # {}
          <6>1. PICK r \in call.finds : r.key = k
              BY <3>2, <4>2, <5>2
          <6>2. r \in variables'
              BY <3>1, <3>2, <4>1, <6>1
          <6> QED
              BY <6>1, <6>2 DEF RowsOf
        <5> QED
            BY <5>1, <5>2
      <4> QED
          BY <4>1, <4>5, <4>6
    <3>6. ASSUME NEW k \in VarKeys, k \notin crossed, k \notin unstored', k \notin call.keys
          PROVE  /\ \A r \in RowsOf(k)' : storedBy'[k] = {valueBy'[r]}
                 /\ RowsOf(k)' = {} => storedBy'[k] = {}
      <4>1. /\ k \notin unstored /\ RowsOf(k)' = RowsOf(k) \ call.removes
            /\ \A r \in RowsOf(k) : r \in Row /\ valueBy'[r] = valueBy[r]
        <5>1. k \notin unstored
            BY <3>1, <3>6
        <5>2. \A r \in Inserted(c) \cup Updated(c) : r.key # k
            BY <3>2, <3>6
        <5>3. RowsOf(k)' = RowsOf(k) \ call.removes
            BY <3>1, <5>2 DEF RowsOf
        <5>4. \A r \in RowsOf(k) : r \in Row /\ r.key = k
            BY <3>4 DEF RowsOf
        <5>5. \A r \in RowsOf(k) : valueBy'[r] = valueBy[r]
            BY <3>1, <5>2, <5>4
        <5> QED
            BY <5>1, <5>3, <5>4, <5>5
      <4>2. /\ \A r \in RowsOf(k) : storedBy[k] = {valueBy[r]}
            /\ RowsOf(k) = {} => storedBy[k] = {}
          BY <3>6, <4>1 DEF ValuesInv, RowsHaveValue
      <4>3. CASE RowsOf(k) \cap call.removes = {}
          BY <3>1, <3>6, <4>1, <4>2, <4>3
      <4>4. CASE RowsOf(k) \cap call.removes # {}
        <5>1. \A r, q \in RowsOf(k) : r = q
            BY <3>6 DEF VariablesInv, OneRow, RowsOf
        <5>2. RowsOf(k)' = {} /\ storedBy'[k] = {}
            BY <3>1, <3>6, <4>1, <4>4, <5>1
        <5> QED
            BY <5>2
      <4> QED
          BY <4>3, <4>4
    <3>7. RowsHaveValue'
        BY <2>1, <3>5, <3>6 DEF RowsHaveValue
    <3> QED
        BY <3>3, <3>7 DEF ValuesInv
  <2> QED
      BY <2>2, <2>3
<1>8. CASE EnvExit
    BY <1>8, ValuesStay DEF EnvExit
<1>9. CASE UNCHANGED envVars
    BY <1>9, ValuesStay DEF envVars
<1> QED
    BY <1>1, <1>2, <1>3, <1>4, <1>5, <1>6, <1>7, <1>8, <1>9 DEF EnvNext

LEMMA ValuesAreKept == ASSUME ValuesInv PROVE ValuesKept
<1> SUFFICES ASSUME NEW k \in VarKeys \ (crossed \cup unstored)
             PROVE  {valueBy[r] : r \in RowsOf(k)} = storedBy[k]
    BY DEF ValuesKept
<1>1. /\ \A r \in RowsOf(k) : storedBy[k] = {valueBy[r]}
      /\ RowsOf(k) = {} => storedBy[k] = {}
    BY DEF ValuesInv, RowsHaveValue
<1>2. CASE RowsOf(k) = {}
    BY <1>1, <1>2
<1>3. CASE RowsOf(k) # {}
    BY <1>1, <1>3
<1> QED
    BY <1>2, <1>3

LEMMA OneRowCounted == ASSUME EnvTyped, OneRow PROVE KeysOnce
<1> SUFFICES ASSUME NEW k \in VarKeys \ crossed PROVE Cardinality(RowsOf(k)) <= 1
    BY DEF KeysOnce
<1>1. CASE RowsOf(k) = {}
    BY <1>1, FS_EmptySet
<1>2. CASE RowsOf(k) # {}
  <2>1. PICK r : r \in RowsOf(k)
      BY <1>2
  <2>2. RowsOf(k) = {r}
      BY <2>1 DEF RowsOf, OneRow
  <2>3. Cardinality({r}) = 1
      BY FS_Singleton
  <2> QED
      BY <2>2, <2>3
<1> QED
    BY <1>1, <1>2

(* Settings and variables are what was written last                        *)
(* (environment_service.py: update_environment, set_environment_variables). *)
THEOREM EnvironmentKeptHolds == EnvSpec => []EnvironmentKept
<1>1. EnvInv /\ [EnvNext]_envVars => EnvInv'
    BY EnvTypeStep, ConfigStep, VariablesStep, ValuesStep DEF EnvInv
<1>2. EnvInv => EnvironmentKept
    BY OneRowCounted, ValuesAreKept DEF EnvInv, ConfigInv, VariablesInv, EnvironmentKept
<1> QED
    BY EnvInitially, <1>1, <1>2, PTL DEF EnvSpec

(***************************************************************************)
(* Promotions.  The bound on the votes is left out: the counts are any     *)
(* numbers.                                                                *)
(***************************************************************************)
PromotionRow == [status : {"none", "pending", "approved", "rejected", "in_progress", "completed"},
                 required : Nat, received : Nat, demanded : Nat]
PromotionCall == [pc : {"idle", "creating", "voting", "deploying", "committing"},
                  of : SUBSET Promos, yes : BOOLEAN, row : PromotionRow]

PromotionsTyped ==
    /\ autoflush \in BOOLEAN /\ target \in Demands
    /\ promotions \in [Promos -> PromotionRow]
    /\ votes \in [Promos -> [for : Nat, against : Nat]]
    /\ voters \in [Voters -> PromotionCall]

(* With the approval that is being committed there are enough.             *)
Enough(p, entry) == votes[p].for + CountsOwn + 1 >= entry.required

(* A call that makes a promotion is the only one on it, and deploys it only *)
(* if nothing is demanded.                                                 *)
Creates(v, p) ==
    /\ ~voters[v].yes
    /\ \/ voters[v].pc = "deploying" /\ voters[v].row.demanded = 0
       \/ voters[v].pc = "committing" /\ voters[v].row.status = "pending"
       \/ /\ voters[v].pc = "committing" /\ voters[v].row.status = "completed"
          /\ voters[v].row.demanded = 0

(* A call that votes on it deploys it only when it has seen enough.        *)
Judges(v, p) ==
    LET entry == voters[v].row
    IN /\ entry.demanded = promotions[p].demanded
       /\ \/ voters[v].pc = "voting" /\ entry.status = "pending"
          \/ voters[v].pc = "deploying" /\ voters[v].yes /\ Enough(p, entry)
          \/ voters[v].pc = "committing" /\ ~voters[v].yes /\ entry.status = "rejected"
          \/ /\ voters[v].pc = "committing" /\ voters[v].yes
             /\ entry.status = "completed" /\ Enough(p, entry)
          \/ /\ voters[v].pc = "committing" /\ voters[v].yes
             /\ entry.status = "pending" /\ (p \notin blind => ~Enough(p, entry))

CallFits(v, p) ==
    /\ voters[v].of = {p} /\ voters[v].row.required = voters[v].row.demanded
    /\ IF promotions[p].status = "none" THEN Creates(v, p) ELSE Judges(v, p)

CallsFit == \A v \in Voters : \A p \in voters[v].of : CallFits(v, p)

RowsFit ==
    \A p \in Promos :
        /\ promotions[p].required = promotions[p].demanded
        /\ promotions[p].status = "none" => votes[p].for = 0 /\ p \notin blind

(* Calls on one promotion are noticed; while there is but one, nothing has  *)
(* been decided.                                                           *)
Alone ==
    \A p \in Promos \ blind : \A v \in Voters : p \in voters[v].of =>
        /\ promotions[p].status \in {"none", "pending"}
        /\ \A w \in Voters : p \in voters[w].of => w = v

PromotionInv == PromotionsTyped /\ CallsFit /\ RowsFit /\ Alone /\ QuorumJudged

LEMMA PromotionInitially == PromotionInit => PromotionInv
    BY PromotionAssumption
    DEF PromotionAssumption, PromotionInit, PromotionInv, PromotionsTyped, CallsFit, RowsFit, Alone, CallFits,
        QuorumJudged, QuorumButOne, PendingIsShort, NoRow, NoCall, PromotionRow, PromotionCall

(* Only v moves, and no row: it is enough to look at v.                     *)
LEMMA OneCallMoves ==
    ASSUME PromotionInv, NEW v \in Voters, NEW call \in PromotionCall,
           voters' = [voters EXCEPT ![v] = call], call.of \subseteq voters[v].of,
           UNCHANGED <<promotions, votes, autoflush, target, blind>>,
           \A p \in call.of : CallFits(v, p)'
    PROVE  PromotionInv'
<1> USE DEF PromotionInv, PromotionsTyped
<1>1. \A w \in Voters : voters'[w] = IF w = v THEN call ELSE voters[w]
    OBVIOUS
<1>2. PromotionsTyped'
    OBVIOUS
<1>3. ASSUME NEW w \in Voters, NEW p \in voters'[w].of PROVE CallFits(w, p)'
    BY <1>1, <1>3 DEF CallsFit, CallFits, Creates, Judges, Enough, CountsOwn
<1>4. CallsFit' 
    BY <1>3 DEF CallsFit
<1>5. RowsFit' /\ QuorumJudged'
    BY DEF RowsFit, QuorumJudged, QuorumButOne, PendingIsShort, CountsOwn
<1>6. Alone'
    BY <1>1 DEF Alone
<1> QED
    BY <1>2, <1>4, <1>5, <1>6

LEMMA PromotionStep == ASSUME PromotionInv, [PromotionNext]_promotionVars PROVE PromotionInv'
<1> USE DEF PromotionInv, PromotionsTyped
<1>1. CASE ChangeTarget
    BY <1>1 DEF ChangeTarget, CallsFit, CallFits, Creates, Judges, Enough, CountsOwn, RowsFit, Alone,
                QuorumJudged, QuorumButOne, PendingIsShort
<1>2. ASSUME NEW S \in SUBSET Voters, Abort(S) PROVE PromotionInv'
  <2>1. \A w \in Voters : voters'[w] = voters[w] \/ voters'[w] = NoCall
      BY <1>2 DEF Abort
  <2>2. NoCall \in PromotionCall /\ NoCall.of = {}
      BY DEF NoCall, PromotionCall, NoRow, PromotionRow
  <2>3. voters' \in [Voters -> PromotionCall] /\ UNCHANGED <<autoflush, target, promotions, votes, blind>>
      BY <1>2, <2>2 DEF Abort
  <2>4. \A w \in Voters : \A p \in voters'[w].of : voters'[w] = voters[w]
      BY <2>1, <2>2
  <2>5. CallsFit'
      BY <2>3, <2>4 DEF CallsFit, CallFits, Creates, Judges, Enough, CountsOwn
  <2>6. RowsFit' /\ QuorumJudged'
      BY <2>3 DEF RowsFit, QuorumJudged, QuorumButOne, PendingIsShort, CountsOwn
  <2>7. Alone'
      BY <2>3, <2>4 DEF Alone
  <2> QED
      BY <2>3, <2>5, <2>6, <2>7
<1>3. ASSUME NEW v \in Voters, NEW p \in Promos, NEW b \in BOOLEAN, Promote(v, p, b)
      PROVE  PromotionInv'
  <2> DEFINE waits == target.require /\ ~b
             need == IF waits THEN target.min ELSE 0
             entry == [status |-> IF waits THEN "pending" ELSE "in_progress",
                     required |-> need, received |-> 0, demanded |-> need]
             call == [pc |-> IF waits THEN "committing" ELSE "deploying", of |-> {p},
                      yes |-> FALSE, row |-> entry]
  <2>1. /\ voters' = [voters EXCEPT ![v] = call] /\ promotions[p].status = "none"
        /\ \A w \in Voters : p \notin voters[w].of
        /\ UNCHANGED <<autoflush, target, promotions, votes, blind>>
      BY <1>3 DEF Promote
  <2>2. call \in PromotionCall
      BY PromotionAssumption DEF PromotionAssumption, Demands, PromotionCall, PromotionRow
  <2>3. \A w \in Voters : voters'[w] = IF w = v THEN call ELSE voters[w]
      BY <2>1
  <2>4. PromotionsTyped'
      BY <2>1, <2>2
  <2>5. CallFits(v, p)'
      BY <2>1, <2>3 DEF CallFits, Creates
  <2> HIDE DEF entry, need, waits
  <2>6. ASSUME NEW w \in Voters, NEW q \in voters'[w].of PROVE CallFits(w, q)'
    <3>1. CASE w = v
        BY <2>3, <2>5, <2>6, <3>1
    <3>2. CASE w # v
        BY <2>1, <2>3, <2>6, <3>2 DEF CallsFit, CallFits, Creates, Judges, Enough, CountsOwn
    <3> QED
        BY <3>1, <3>2
  <2>7. CallsFit'
      BY <2>6 DEF CallsFit
  <2>8. RowsFit' /\ QuorumJudged'
      BY <2>1 DEF RowsFit, QuorumJudged, QuorumButOne, PendingIsShort, CountsOwn
  <2>9. Alone'
      BY <2>1, <2>3 DEF Alone
  <2> QED
      BY <2>4, <2>7, <2>8, <2>9
<1>4. ASSUME NEW v \in Voters, NEW p \in Promos, NEW b \in BOOLEAN, BeginVote(v, p, b)
      PROVE  PromotionInv'
  <2> DEFINE call == [pc |-> "voting", of |-> {p}, yes |-> b, row |-> promotions[p]]
  <2>1. /\ voters' = [voters EXCEPT ![v] = call] /\ promotions[p].status = "pending"
        /\ blind' = blind \cup {q \in {p} : \E w \in Voters : q \in voters[w].of}
        /\ UNCHANGED <<autoflush, target, promotions, votes>>
      BY <1>4 DEF BeginVote
  <2>2. call \in PromotionCall
      BY DEF PromotionCall
  <2>3. \A w \in Voters : voters'[w] = IF w = v THEN call ELSE voters[w]
      BY <2>1
  <2>4. PromotionsTyped'
      BY <2>1, <2>2
  <2>5. CallFits(v, p)'
      BY <2>1, <2>3 DEF CallFits, Judges, RowsFit
  <2>6. ASSUME NEW w \in Voters, NEW q \in voters'[w].of PROVE CallFits(w, q)'
    <3>1. CASE w = v
        BY <2>3, <2>5, <2>6, <3>1
    <3>2. CASE w # v
        BY <2>1, <2>3, <2>6, <3>2 DEF CallsFit, CallFits, Creates, Judges, Enough, CountsOwn
    <3> QED
        BY <3>1, <3>2
  <2>7. CallsFit'
      BY <2>6 DEF CallsFit
  <2>8. RowsFit' /\ QuorumJudged'
      BY <2>1 DEF RowsFit, QuorumJudged, QuorumButOne, PendingIsShort, CountsOwn
  <2>9. Alone'
      BY <2>1, <2>3 DEF Alone
  <2> QED
      BY <2>4, <2>7, <2>8, <2>9
<1>5. ASSUME NEW v \in Voters, Vote(v) PROVE PromotionInv'
  <2>1. PICK p \in voters[v].of :
          voters' = [voters EXCEPT ![v] =
            IF ~voters[v].yes
            THEN [voters[v] EXCEPT !.pc = "committing", !.row.status = "rejected"]
            ELSE IF Counted(p) >= voters[v].row.required
            THEN [voters[v] EXCEPT !.pc = "deploying", !.row.status = "in_progress", 
                                   !.row.received = Counted(p)]
            ELSE [voters[v] EXCEPT !.pc = "committing", !.row.received = Counted(p)]]
      BY <1>5 DEF Vote
  <2>2. voters[v].pc = "voting" /\ UNCHANGED <<autoflush, target, promotions, votes, blind>>
      BY <1>5 DEF Vote
  <2> DEFINE call == voters'[v]
  <2>3. p \in Promos /\ Counted(p) \in Nat /\ voters[v] \in PromotionCall
      BY DEF Counted, CountsOwn, PromotionCall
  <2>4. /\ call \in PromotionCall /\ call.of = voters[v].of /\ call.yes = voters[v].yes
        /\ call.row.required = voters[v].row.required /\ call.row.demanded = voters[v].row.demanded
        /\ \/ ~call.yes /\ call.pc = "committing" /\ call.row.status = "rejected"
           \/ call.yes /\ call.pc = "deploying" /\ Counted(p) >= call.row.required
           \/ /\ call.yes /\ call.pc = "committing" /\ call.row.status = voters[v].row.status
              /\ ~(Counted(p) >= call.row.required)
      BY <2>1, <2>3 DEF PromotionCall, PromotionRow
  <2>5. voters' = [voters EXCEPT ![v] = call]
      BY <2>1
  <2>6. CallFits(v, p) /\ call.of = {p}
      BY <2>4 DEF CallsFit, CallFits
  <2>7. CallFits(v, p)'
      BY <2>2, <2>4, <2>6 DEF CallFits, Creates, Judges, Enough, Counted, CountsOwn
  <2> QED
      BY <2>2, <2>4, <2>5, <2>6, <2>7, OneCallMoves
<1>6. ASSUME NEW v \in Voters, Deployed(v) PROVE PromotionInv'
  <2> DEFINE call == [voters[v] EXCEPT !.pc = "committing", !.row.status = "completed"]
  <2>1. /\ voters[v].pc = "deploying" /\ UNCHANGED <<autoflush, target, promotions, votes, blind>>
        /\ voters' = [voters EXCEPT ![v].pc = "committing", ![v].row.status = "completed"]
      BY <1>6 DEF Deployed
  <2>2. /\ call \in PromotionCall /\ call.of = voters[v].of /\ call.yes = voters[v].yes
        /\ call.pc = "committing" /\ call.row.status = "completed"
        /\ call.row.required = voters[v].row.required /\ call.row.demanded = voters[v].row.demanded
    <3>1. voters[v] \in PromotionCall
        OBVIOUS
    <3> HIDE DEF PromotionInv, PromotionsTyped
    <3> QED
        BY <3>1 DEF PromotionCall, PromotionRow
  <2>3. voters' = [voters EXCEPT ![v] = call]
      BY <2>1
  <2>4. ASSUME NEW p \in call.of PROVE CallFits(v, p)'
    <3>1. CallFits(v, p)
        BY <2>2, <2>4 DEF CallsFit
    <3>2. voters'[v] = call
        BY <2>3
    <3> HIDE DEF call
    <3> QED
        BY <2>1, <2>2, <3>1, <3>2 DEF CallFits, Creates, Judges, Enough, CountsOwn
  <2> HIDE DEF call
  <2> QED
      BY <2>1, <2>2, <2>3, <2>4, OneCallMoves
<1>7. ASSUME NEW v \in Voters, Commit(v) PROVE PromotionInv'
  <2> DEFINE entry == voters[v].row
  <2>1. PICK p \in voters[v].of :
          /\ promotions' = [promotions EXCEPT ![p] = Written(p, entry)]
          /\ votes' = IF promotions[p].status = "none" THEN votes
                      ELSE IF voters[v].yes THEN [votes EXCEPT ![p].for = @ + 1]
                      ELSE [votes EXCEPT ![p].against = @ + 1]
      BY <1>7 DEF Commit
  <2>2. /\ voters[v].pc = "committing" /\ UNCHANGED <<autoflush, target, blind>>
        /\ voters' = [voters EXCEPT ![v] = NoCall]
      BY <1>7 DEF Commit
  <2>3. p \in Promos /\ entry \in PromotionRow /\ voters[v].yes \in BOOLEAN
      BY DEF PromotionCall
  <2>4. CallFits(v, p)
      BY DEF CallsFit
  <2>5. /\ Written(p, entry) \in PromotionRow
        /\ Written(p, entry).required = entry.required /\ Written(p, entry).demanded = entry.demanded
        /\ Written(p, entry).status = IF entry.status = "pending" /\ promotions[p].status # "none"
                                    THEN promotions[p].status ELSE entry.status
      BY <2>3 DEF Written, PromotionRow
  <2>6. /\ \A q \in Promos : q # p => promotions'[q] = promotions[q] /\ votes'[q] = votes[q]
        /\ promotions'[p] = Written(p, entry)
      BY <2>1, <2>3
  <2>7. votes'[p].for = IF promotions[p].status # "none" /\ voters[v].yes
                        THEN votes[p].for + 1 ELSE votes[p].for
      BY <2>1, <2>3
  <2>8. votes' \in [Promos -> [for : Nat, against : Nat]]
      BY <2>1, <2>3
  <2>9. NoCall \in PromotionCall /\ NoCall.of = {}
      BY DEF NoCall, PromotionCall, NoRow, PromotionRow
  <2>10. \A w \in Voters : voters'[w] = IF w = v THEN NoCall ELSE voters[w]
      BY <2>2
  <2>11. PromotionsTyped'
      BY <2>1, <2>2, <2>5, <2>8, <2>9
  <2>12. promotions'[p].status # "none"
      BY <2>2, <2>4, <2>5, <2>6 DEF CallFits, Creates, Judges
  <2>13. ASSUME NEW w \in Voters, NEW q \in voters'[w].of PROVE CallFits(w, q)'
    <3>1. w # v /\ voters'[w] = voters[w] /\ CallFits(w, q) /\ q \in Promos
        BY <2>9, <2>10, <2>13 DEF CallsFit, PromotionCall
    <3>2. CASE q # p
        BY <2>2, <2>6, <3>1, <3>2 DEF CallFits, Creates, Judges, Enough, CountsOwn
    <3>3. CASE q = p
      <4>1. p \in blind /\ promotions[p].status # "none"
          BY <2>3, <3>1, <3>3, <2>10, <2>13 DEF Alone, RowsFit
      <4>2. promotions'[p].demanded = promotions[p].demanded
          BY <2>4, <2>5, <2>6, <4>1 DEF CallFits, Judges
      <4>3. votes'[p].for >= votes[p].for /\ votes'[p].for \in Nat /\ votes[p].for \in Nat
          BY <2>3, <2>7
      <4>4. voters[w].row.required \in Nat
          BY <3>1 DEF PromotionCall, PromotionRow
      <4>5. Enough(p, voters[w].row) => Enough(p, voters[w].row)'
          BY <2>2, <3>1, <4>3, <4>4 DEF Enough, CountsOwn
      <4> QED
          BY <2>2, <2>12, <3>1, <3>3, <4>1, <4>2, <4>5 DEF CallFits, Judges
    <3> QED
        BY <3>2, <3>3
  <2>14. CallsFit'
      BY <2>13 DEF CallsFit
  <2>15. RowsFit'
      BY <2>2, <2>4, <2>5, <2>6, <2>12 DEF RowsFit, CallFits
  <2>16. Alone'
    <3>1. ASSUME NEW q \in Promos \ blind, NEW w \in Voters, q \in voters'[w].of
          PROVE  w # v /\ q # p /\ voters'[w] = voters[w]
        BY <2>3, <2>9, <2>10, <3>1 DEF Alone
    <3> QED
        BY <2>2, <2>6, <2>10, <3>1 DEF Alone
  <2>17. votes[p].for \in Nat /\ entry.required \in Nat
      BY <2>3 DEF PromotionRow
  <2>18. QuorumButOne'
    <3>1. SUFFICES ASSUME NEW q \in Promos, promotions'[q].status = "completed", promotions'[q].demanded > 0
                   PROVE  votes'[q].for >= 1 /\ votes'[q].for + CountsOwn >= promotions'[q].demanded
        BY <2>2 DEF QuorumButOne, CountsOwn
    <3>2. CASE q # p
        BY <2>6, <3>1, <3>2 DEF QuorumJudged, QuorumButOne
    <3>3. CASE q = p
        BY <2>2, <2>4, <2>5, <2>6, <2>7, <2>17, <3>1, <3>3
        DEF QuorumJudged, QuorumButOne, CallFits, Creates, Judges, Enough, CountsOwn
    <3> QED
        BY <3>2, <3>3
  <2>19. PendingIsShort'
    <3>1. SUFFICES ASSUME NEW q \in Promos \ blind, promotions'[q].status = "pending", votes'[q].for > 0
                   PROVE  votes'[q].for + CountsOwn < promotions'[q].required
        BY <2>2 DEF PendingIsShort, CountsOwn
    <3>2. CASE q # p
        BY <2>6, <3>1, <3>2 DEF QuorumJudged, PendingIsShort
    <3>3. CASE q = p
        BY <2>2, <2>4, <2>5, <2>6, <2>7, <2>17, <3>1, <3>3
        DEF RowsFit, CallFits, Creates, Judges, Enough, CountsOwn
    <3> QED
        BY <3>2, <3>3
  <2> QED
      BY <2>11, <2>14, <2>15, <2>16, <2>18, <2>19 DEF QuorumJudged
<1>9. CASE UNCHANGED promotionVars
    BY <1>9 DEF promotionVars, CallsFit, CallFits, Creates, Judges, Enough, CountsOwn, RowsFit, Alone,
                QuorumJudged, QuorumButOne, PendingIsShort
<1> QED
    BY <1>1, <1>2, <1>3, <1>4, <1>5, <1>6, <1>7, <1>9 DEF PromotionNext

LEMMA PromotionInvHolds == PromotionSpec => []PromotionInv
    BY PromotionInitially, PromotionStep, PTL DEF PromotionSpec

(* The status of a promotion agrees with its votes (approve_promotion).    *)
THEOREM QuorumJudgedHolds == PromotionSpec => []QuorumJudged
<1>1. PromotionInv => QuorumJudged
    BY DEF PromotionInv
<1> QED
    BY PromotionInvHolds, <1>1, PTL

(* What was decided stays, unless votes overlapped (approve_promotion).    *)
THEOREM OutcomeKeptHolds == PromotionSpec => OutcomeKept
<1>1. ASSUME PromotionInv, [PromotionNext]_promotionVars
      PROVE  [\A p \in Promos \ blind' :
                promotions[p].status \in {"completed", "rejected"} =>
                   promotions'[p].status = promotions[p].status]_promotionVars
  <2> SUFFICES ASSUME PromotionNext, NEW p \in Promos \ blind', promotions[p].status \in {"completed", "rejected"}
               PROVE  promotions'[p].status = promotions[p].status
      BY <1>1
  <2>1. ASSUME NEW v \in Voters, Commit(v) PROVE promotions'[p].status = promotions[p].status
    <3>0. blind' = blind /\ p \in Promos \ blind /\ Alone
        BY <1>1, <2>1 DEF Commit, PromotionInv
    <3>1. p \notin voters[v].of
        BY <3>0 DEF Alone
    <3> QED
        BY <1>1, <2>1, <3>1 DEF Commit, PromotionInv, PromotionsTyped
  <2>2. ASSUME promotions' = promotions PROVE promotions'[p].status = promotions[p].status
      BY <2>2
  <2> QED
      BY <2>1, <2>2 DEF PromotionNext, ChangeTarget, Abort, Promote, BeginVote, Vote, Deployed
<1> QED
    BY PromotionInvHolds, <1>1, PTL DEF PromotionSpec, OutcomeKept

(***************************************************************************)
(* The types of the promotions, with the bound on the votes.               *)
(***************************************************************************)

Calls(p) == {v \in Voters : p \in voters[v].of}

(* A call on a promotion casts at most one vote: those there are and those *)
(* that may come are no more than MaxVotes.                                *)
VotesFit ==
    \A p \in Promos :
        /\ promotions[p].status = "none" => votes[p].against = 0
        /\ IsFiniteSet(Calls(p))
        /\ votes[p].for + votes[p].against + Cardinality(Calls(p)) <= MaxVotes

VotingInv == PromotionInv /\ PromotionTypeOK /\ VotesFit

LEMMA NobodyCalls == IsFiniteSet({}) /\ Cardinality({}) = 0 /\ NoRow \in RowType /\ NoCall \in VoterType
    BY FS_EmptySet, PromotionAssumption DEF PromotionAssumption, NoRow, RowType, NoCall, VoterType

LEMMA VotingInitially == PromotionInit => VotingInv
<1> SUFFICES ASSUME PromotionInit PROVE VotingInv
    OBVIOUS
<1>1. PromotionTypeOK
    BY NobodyCalls, PromotionAssumption DEF PromotionAssumption, PromotionInit, PromotionTypeOK
<1>2. VotesFit
  <2>1. \A p \in Promos : Calls(p) = {}
      BY DEF PromotionInit, Calls, NoCall
  <2> QED
      BY <2>1, NobodyCalls, PromotionAssumption DEF PromotionAssumption, PromotionInit, VotesFit
<1> QED
    BY <1>1, <1>2, PromotionInitially DEF VotingInv

(* While no vote is committed, it is enough that no call comes in.         *)
LEMMA FewerCalls ==
    ASSUME VotesFit, UNCHANGED <<promotions, votes>>, PromotionTypeOK,
           NEW p \in Promos, Calls(p)' \subseteq Calls(p)
    PROVE  /\ promotions'[p].status = "none" => votes'[p].against = 0
           /\ IsFiniteSet(Calls(p)')
           /\ votes'[p].for + votes'[p].against + Cardinality(Calls(p)') <= MaxVotes
<1>1. /\ IsFiniteSet(Calls(p)') /\ Cardinality(Calls(p)') \in Nat /\ Cardinality(Calls(p)) \in Nat
      /\ Cardinality(Calls(p)') <= Cardinality(Calls(p))
    BY FS_Subset, FS_CardinalityType DEF VotesFit
<1>2. votes[p].for \in Nat /\ votes[p].against \in Nat /\ MaxVotes \in Nat
    BY PromotionAssumption DEF PromotionTypeOK, PromotionAssumption
<1> QED
    BY <1>1, <1>2 DEF VotesFit

LEMMA VotingStep == ASSUME VotingInv, [PromotionNext]_promotionVars PROVE VotingInv'
<1> USE DEF VotingInv
<1>0. /\ MaxVotes \in Nat \ {0} /\ MaxApprovals \in Nat \ {0} /\ ConfigChanges \in Nat /\ Aborts \in Nat
      /\ PromotionInv'
    BY PromotionAssumption, PromotionStep DEF PromotionAssumption
<1>1. CASE ChangeTarget
  <2>1. /\ promotionFaults' \in [changes : 0 .. ConfigChanges, aborts : 0 .. Aborts]
        /\ target' \in Demands /\ UNCHANGED <<autoflush, promotions, votes, voters, blind>>
      BY <1>0, <1>1 DEF ChangeTarget, PromotionTypeOK
  <2> QED
      BY <1>0, <2>1 DEF PromotionTypeOK, VotesFit, Calls
<1>2. ASSUME NEW S \in SUBSET Voters, Abort(S) PROVE VotingInv'
  <2>1. /\ promotionFaults' \in [changes : 0 .. ConfigChanges, aborts : 0 .. Aborts]
        /\ UNCHANGED <<autoflush, target, promotions, votes, blind>>
      BY <1>0, <1>2 DEF Abort, PromotionTypeOK
  <2>2. voters' \in [Voters -> VoterType]
      BY <1>2, NobodyCalls DEF Abort, PromotionTypeOK
  <2>3. \A p \in Promos : Calls(p)' \subseteq Calls(p)
      BY <1>2 DEF Abort, Calls, NoCall
  <2>4. VotesFit'
      BY <2>1, <2>3, FewerCalls DEF VotesFit
  <2> QED
      BY <1>0, <2>1, <2>2, <2>4 DEF PromotionTypeOK
<1>3. ASSUME NEW v \in Voters, NEW p \in Promos, NEW b \in BOOLEAN, Promote(v, p, b) PROVE VotingInv'
  <2> DEFINE waits == target.require /\ ~b
             need == IF waits THEN target.min ELSE 0
             entry == [status |-> IF waits THEN "pending" ELSE "in_progress",
                     required |-> need, received |-> 0, demanded |-> need]
             call == [pc |-> IF waits THEN "committing" ELSE "deploying", of |-> {p},
                      yes |-> FALSE, row |-> entry]
  <2>1. /\ voters' = [voters EXCEPT ![v] = call] /\ promotions[p].status = "none"
        /\ \A w \in Voters : p \notin voters[w].of
        /\ UNCHANGED <<autoflush, target, promotions, votes, blind, promotionFaults>>
      BY <1>3 DEF Promote
  <2>2. need \in 0 .. MaxApprovals
      BY <1>0 DEF PromotionTypeOK, Demands
  <2> HIDE DEF need
  <2>3. call \in VoterType /\ call.of = {p}
      BY <1>0, <2>2 DEF VoterType, RowType
  <2> HIDE DEF call
  <2>4. voters' \in [Voters -> VoterType]
      BY <2>1, <2>3 DEF PromotionTypeOK
  <2>5. \A w \in Voters : voters'[w] = IF w = v THEN call ELSE voters[w]
      BY <2>1 DEF PromotionTypeOK
  <2>6. Calls(p)' = {v} /\ \A q \in Promos \ {p} : Calls(q)' \subseteq Calls(q)
      BY <2>1, <2>3, <2>5 DEF Calls
  <2>7. IsFiniteSet(Calls(p)') /\ Cardinality(Calls(p)') = 1
      BY <2>6, FS_Singleton
  <2>8. votes[p].for = 0 /\ votes[p].against = 0
      BY <2>1 DEF PromotionInv, RowsFit, VotesFit
  <2>9. VotesFit'
    <3>1. votes'[p].against = 0 /\ votes'[p].for + votes'[p].against + Cardinality(Calls(p)') <= MaxVotes
        BY <1>0, <2>1, <2>7, <2>8
    <3>2. ASSUME NEW q \in Promos \ {p}
          PROVE  /\ promotions'[q].status = "none" => votes'[q].against = 0
                 /\ IsFiniteSet(Calls(q)')
                 /\ votes'[q].for + votes'[q].against + Cardinality(Calls(q)') <= MaxVotes
        BY <2>1, <2>6, FewerCalls
    <3> QED
        BY <2>7, <3>1, <3>2 DEF VotesFit
  <2> QED
      BY <1>0, <2>1, <2>4, <2>9 DEF PromotionTypeOK
<1>4. ASSUME NEW v \in Voters, NEW p \in Promos, NEW b \in BOOLEAN, BeginVote(v, p, b) PROVE VotingInv'
  <2> DEFINE call == [pc |-> "voting", of |-> {p}, yes |-> b, row |-> promotions[p]]
  <2>1. /\ voters' = [voters EXCEPT ![v] = call] 
        /\ votes[p].for + votes[p].against + Cardinality(Calls(p)) < MaxVotes
        /\ blind' \subseteq blind \cup {p} /\ promotions[p].status = "pending"
        /\ UNCHANGED <<autoflush, target, promotions, votes, promotionFaults>>
      BY <1>4 DEF BeginVote, Calls
  <2>2. call \in VoterType /\ call.of = {p}
      BY DEF PromotionTypeOK, VoterType
  <2> HIDE DEF call
  <2>3. voters' \in [Voters -> VoterType]
      BY <2>1, <2>2 DEF PromotionTypeOK
  <2>4. \A w \in Voters : voters'[w] = IF w = v THEN call ELSE voters[w]
      BY <2>1 DEF PromotionTypeOK
  <2>5. Calls(p)' \subseteq Calls(p) \cup {v} /\ \A q \in Promos \ {p} : Calls(q)' \subseteq Calls(q)
      BY <2>2, <2>4 DEF Calls
  <2>6. /\ IsFiniteSet(Calls(p)') /\ Cardinality(Calls(p)') \in Nat /\ Cardinality(Calls(p)) \in Nat
        /\ Cardinality(Calls(p)') <= Cardinality(Calls(p)) + 1
    <3>0. IsFiniteSet(Calls(p)) /\ Cardinality(Calls(p)) \in Nat
        BY FS_CardinalityType DEF VotesFit
    <3>1. /\ IsFiniteSet(Calls(p) \cup {v}) /\ Cardinality(Calls(p)) \in Nat
          /\ Cardinality(Calls(p) \cup {v}) <= Cardinality(Calls(p)) + 1
        BY <3>0, FS_AddElement
    <3>2. /\ IsFiniteSet(Calls(p)') /\ Cardinality(Calls(p)') \in Nat /\ Cardinality(Calls(p) \cup {v}) \in Nat
          /\ Cardinality(Calls(p)') <= Cardinality(Calls(p) \cup {v})
        BY <2>5, <3>1, FS_Subset, FS_CardinalityType
    <3> QED
        BY <3>1, <3>2
  <2>7. votes[p].for \in Nat /\ votes[p].against \in Nat
      BY DEF PromotionTypeOK
  <2>8. votes'[p].for + votes'[p].against + Cardinality(Calls(p)') <= MaxVotes
      BY <1>0, <2>1, <2>6, <2>7
  <2>9. VotesFit'
      BY <2>1, <2>5, <2>6, <2>8, FewerCalls DEF VotesFit
  <2> QED
      BY <1>0, <2>1, <2>3, <2>9 DEF PromotionTypeOK
<1>5. ASSUME NEW v \in Voters, Vote(v) \/ Deployed(v) PROVE VotingInv'
  <2>1. voters' = [voters EXCEPT ![v] = voters'[v]]
        /\ UNCHANGED <<autoflush, target, promotions, votes, blind, promotionFaults>>
      BY <1>5 DEF Vote, Deployed
  <2>2. voters[v] \in VoterType /\ voters[v].row \in RowType
      BY DEF PromotionTypeOK, VoterType
  <2>3. voters'[v] \in VoterType /\ voters'[v].of = voters[v].of
    <3>0. PICK c \in VoterType, u \in {voters'[v]} : c = voters[v]
        BY <2>2
    <3>1. CASE Vote(v)
      <4>1. PICK p \in voters[v].of :
              voters' = [voters EXCEPT ![v] =
                IF ~voters[v].yes
                THEN [voters[v] EXCEPT !.pc = "committing", !.row.status = "rejected"]
                ELSE IF Counted(p) >= voters[v].row.required
                THEN [voters[v] EXCEPT !.pc = "deploying", !.row.status = "in_progress", 
                                       !.row.received = Counted(p)]
                ELSE [voters[v] EXCEPT !.pc = "committing", !.row.received = Counted(p)]]
          BY <3>1 DEF Vote
      <4>2. p \in Promos /\ votes[p].for \in 0 .. MaxVotes
          BY <2>2 DEF PromotionTypeOK, VoterType
      <4>3. PICK n \in 0 .. MaxVotes + 2 : n = Counted(p)
          BY <1>0, <4>2 DEF Counted, CountsOwn
      <4>4. \/ u = [c EXCEPT !.pc = "committing", !.row.status = "rejected"]
            \/ u = [c EXCEPT !.pc = "deploying", !.row.status = "in_progress", !.row.received = n]
            \/ u = [c EXCEPT !.pc = "committing", !.row.received = n]
          BY <3>0, <4>1, <4>3 DEF PromotionTypeOK
      <4>5. u \in VoterType /\ u.of = c.of
        <5>1. ASSUME u = [c EXCEPT !.pc = "committing", !.row.status = "rejected"]
              PROVE  u \in VoterType /\ u.of = c.of
            BY ONLY <5>1, c \in VoterType DEF VoterType, RowType
        <5>2. ASSUME u = [c EXCEPT !.pc = "deploying", !.row.status = "in_progress", !.row.received = n]
              PROVE  u \in VoterType /\ u.of = c.of
            BY ONLY <5>2, c \in VoterType, n \in 0 .. MaxVotes + 2 DEF VoterType, RowType
        <5>3. ASSUME u = [c EXCEPT !.pc = "committing", !.row.received = n]
              PROVE  u \in VoterType /\ u.of = c.of
            BY ONLY <5>3, c \in VoterType, n \in 0 .. MaxVotes + 2 DEF VoterType, RowType
        <5> QED
            BY <4>4, <5>1, <5>2, <5>3
      <4> QED
          BY <3>0, <4>5
    <3>2. CASE Deployed(v)
      <4>1. u = [c EXCEPT !.pc = "committing", !.row.status = "completed"]
          BY <3>0, <3>2 DEF Deployed, PromotionTypeOK
      <4>2. u \in VoterType /\ u.of = c.of
          BY ONLY <4>1, c \in VoterType DEF VoterType, RowType
      <4> QED
          BY <3>0, <4>2
    <3> QED
        BY <1>5, <3>1, <3>2
  <2>4. voters' \in [Voters -> VoterType] /\ \A w \in Voters : voters'[w].of = voters[w].of
      BY <2>1, <2>3 DEF PromotionTypeOK
  <2>5. \A p \in Promos : Calls(p)' = Calls(p)
      BY <2>4 DEF Calls
  <2>6. VotesFit'
      BY <2>1, <2>5, FewerCalls DEF VotesFit
  <2> QED
      BY <1>0, <2>1, <2>4, <2>6 DEF PromotionTypeOK
<1>6. ASSUME NEW v \in Voters, Commit(v) PROVE VotingInv'
  <2>1. PICK p \in voters[v].of :
          /\ promotions' = [promotions EXCEPT ![p] = Written(p, voters[v].row)]
          /\ votes' = IF promotions[p].status = "none" THEN votes
                      ELSE IF voters[v].yes THEN [votes EXCEPT ![p].for = @ + 1]
                      ELSE [votes EXCEPT ![p].against = @ + 1]
      BY <1>6 DEF Commit
  <2>2. /\ voters[v].pc = "committing" /\ UNCHANGED <<autoflush, target, blind, promotionFaults>>
        /\ voters' = [voters EXCEPT ![v] = NoCall]
      BY <1>6 DEF Commit
  <2>3. p \in Promos /\ voters[v].row \in RowType /\ promotions[p] \in RowType
      BY DEF PromotionTypeOK, VoterType
  <2>4. /\ Written(p, voters[v].row) \in RowType
        /\ Written(p, voters[v].row).status = 
              IF voters[v].row.status = "pending" /\ promotions[p].status # "none"
              THEN promotions[p].status ELSE voters[v].row.status
      BY <2>3 DEF Written, RowType
  <2>5. promotions'[p].status # "none"
    <3>1. CallFits(v, p)
        BY DEF PromotionInv, CallsFit
    <3>2. promotions'[p] = Written(p, voters[v].row)
        BY <2>1, <2>3 DEF PromotionTypeOK
    <3> QED
        BY <2>2, <2>4, <3>1, <3>2 DEF CallFits, Creates, Judges
  <2>6. voters' \in [Voters -> VoterType] /\ promotions' \in [Promos -> RowType]
      BY <2>1, <2>2, <2>4, NobodyCalls DEF PromotionTypeOK
  <2>7. \A q \in Promos : Calls(q)' \subseteq Calls(q) \ {v}
      BY <2>2 DEF Calls, NoCall, PromotionTypeOK
  <2>8. v \in Calls(p)
      BY DEF Calls
  <2>9. /\ IsFiniteSet(Calls(p)') /\ Cardinality(Calls(p)') \in Nat
        /\ Cardinality(Calls(p)) \in Nat /\ Cardinality(Calls(p)') + 1 <= Cardinality(Calls(p))
    <3>1. /\ IsFiniteSet(Calls(p) \ {v}) /\ Cardinality(Calls(p) \ {v}) = Cardinality(Calls(p)) - 1
          /\ Cardinality(Calls(p)) \in Nat
        BY <2>3, <2>8, FS_RemoveElement, FS_CardinalityType DEF VotesFit
    <3>2. /\ IsFiniteSet(Calls(p)') /\ Cardinality(Calls(p)') \in Nat /\ Cardinality(Calls(p) \ {v}) \in Nat
          /\ Cardinality(Calls(p)') <= Cardinality(Calls(p) \ {v})
        BY <2>3, <2>7, <3>1, FS_Subset, FS_CardinalityType
    <3> QED
        BY <3>1, <3>2
  <2>10. /\ votes[p].for \in Nat /\ votes[p].against \in Nat
         /\ votes'[p] \in [for : Nat, against : Nat]
         /\ votes'[p].for + votes'[p].against <= votes[p].for + votes[p].against + 1
         /\ \A q \in Promos \ {p} : votes'[q] = votes[q] /\ promotions'[q] = promotions[q]
         /\ DOMAIN votes' = Promos /\ votes' = [q \in Promos |-> votes'[q]]
    <3>1. votes[p] \in [for : Nat, against : Nat]
        BY <2>3 DEF PromotionTypeOK
    <3>2. votes'[p] \in {votes[p], [votes[p] EXCEPT !.for = votes[p].for + 1],
                         [votes[p] EXCEPT !.against = votes[p].against + 1]}
        BY <2>1, <2>3 DEF PromotionTypeOK
    <3>3. /\ votes'[p] \in [for : Nat, against : Nat]
          /\ votes'[p].for + votes'[p].against <= votes[p].for + votes[p].against + 1
        BY <3>1, <3>2
    <3>4. /\ \A q \in Promos \ {p} : votes'[q] = votes[q] /\ promotions'[q] = promotions[q]
          /\ DOMAIN votes' = Promos /\ votes' = [q \in Promos |-> votes'[q]]
        BY <2>1, <2>3 DEF PromotionTypeOK
    <3> QED
        BY <3>1, <3>3, <3>4
  <2>11. votes'[p].for + votes'[p].against + Cardinality(Calls(p)') <= MaxVotes
    <3>1. votes[p].for + votes[p].against + Cardinality(Calls(p)) <= MaxVotes
        BY <2>3 DEF VotesFit
    <3>2. votes'[p].for \in Nat /\ votes'[p].against \in Nat
        BY <2>10
    <3> QED
        BY <1>0, <2>9, <2>10, <3>1, <3>2
  <2>12. VotesFit'
    <3>1. ASSUME NEW q \in Promos \ {p}
          PROVE  /\ promotions'[q].status = "none" => votes'[q].against = 0
                 /\ IsFiniteSet(Calls(q)')
                 /\ votes'[q].for + votes'[q].against + Cardinality(Calls(q)') <= MaxVotes
      <4>1. /\ IsFiniteSet(Calls(q)') /\ Cardinality(Calls(q)') \in Nat /\ Cardinality(Calls(q)) \in Nat
            /\ Cardinality(Calls(q)') <= Cardinality(Calls(q))
          BY <2>7, FS_Subset, FS_CardinalityType DEF VotesFit
      <4>2. votes[q].for \in Nat /\ votes[q].against \in Nat
          BY DEF PromotionTypeOK
      <4> QED
          BY <1>0, <2>10, <4>1, <4>2 DEF VotesFit
    <3> QED
        BY <2>5, <2>9, <2>11, <3>1 DEF VotesFit
  <2>13. votes'[p] \in [for : 0 .. MaxVotes, against : 0 .. MaxVotes]
    <3>1. votes'[p].for \in Nat /\ votes'[p].against \in Nat
        BY <2>10
    <3>2. votes'[p].for <= MaxVotes /\ votes'[p].against <= MaxVotes
        BY <1>0, <2>9, <2>11, <3>1
    <3> QED
        BY <1>0, <2>10, <3>1, <3>2
  <2>14. votes' \in [Promos -> [for : 0 .. MaxVotes, against : 0 .. MaxVotes]]
    <3>1. \A q \in Promos : votes'[q] \in [for : 0 .. MaxVotes, against : 0 .. MaxVotes]
        BY <2>10, <2>13 DEF PromotionTypeOK
    <3> QED
        BY <2>10, <3>1
  <2> QED
      BY <1>0, <2>2, <2>6, <2>12, <2>14 DEF PromotionTypeOK
<1>7. CASE UNCHANGED promotionVars
    BY <1>0, <1>7 DEF promotionVars, PromotionTypeOK, VotesFit, Calls
<1> QED
    BY <1>1, <1>2, <1>3, <1>4, <1>5, <1>6, <1>7 DEF PromotionNext

(* The variables of the promotions keep their types, and no promotion gets *)
(* more votes than MaxVotes (approve_promotion).                           *)
THEOREM PromotionTypeCorrect == PromotionSpec => []PromotionTypeOK
<1>1. VotingInv => PromotionTypeOK
    BY DEF VotingInv
<1> QED
    BY VotingInitially, VotingStep, <1>1, PTL DEF PromotionSpec

(***************************************************************************)
(* The builds: the active ones are those that execute, and there are never *)
(* more of them than the limit allows.                                     *)
(***************************************************************************)
USE BuildAssumption DEF BuildAssumption

(* A build on its way to the processor has no task yet, and is on its way  *)
(* once; only a task that was started can have been killed, and only a     *)
(* build that has a row is being cancelled.                                *)
Waiting ==
    /\ \A b \in Builds : row[b] = "none" => task[b] = "none" /\ b \notin putting
    /\ \A b \in putting : task[b] = "none" /\ \A i \in DOMAIN build_queue : build_queue[i] # b
    /\ \A i \in DOMAIN build_queue : task[build_queue[i]] = "none" /\ row[build_queue[i]] # "none"
    /\ \A i, j \in DOMAIN build_queue : build_queue[i] = build_queue[j] => i = j
    /\ \A b \in killed : task[b] # "none"
    /\ \A b \in Builds : cancels[b] # "none" => row[b] # "none"

(* What the processor has checked still holds when it starts a build.      *)
Capacity ==
    /\ IsFiniteSet(active_builds) /\ Cardinality(active_builds) <= MaxConcurrent
    /\ processor = "get" => Cardinality(active_builds) < MaxConcurrent

BuildInv == BuildTypeOK /\ Waiting /\ ExecutingIsTracked /\ Capacity

LEMMA BuildInitInv == BuildInit => BuildInv
<1> SUFFICES ASSUME BuildInit PROVE BuildInv
    OBVIOUS
<1> USE DEF BuildInit
<1>1. BuildTypeOK
    BY DEF BuildTypeOK
<1>2. Waiting
    BY DEF Waiting
<1>3. ExecutingIsTracked
    BY DEF ExecutingIsTracked, Executing, Alive
<1>4. Capacity
    BY FS_EmptySet DEF Capacity
<1> QED
    BY <1>1, <1>2, <1>3, <1>4 DEF BuildInv

(* A status is written to the row of a build, or the write is lost.        *)
LEMMA WriteKeepsType ==
    ASSUME BuildTypeOK, NEW b \in Builds, NEW s \in Unfinished \cup Completed, Write(b, s)
    PROVE  /\ row' \in [Builds -> {"none"} \cup Unfinished \cup Completed]
           /\ lost' \subseteq Builds
           /\ \A c \in Builds \ {b} : row'[c] = row[c]
           /\ row'[b] \in {row[b], s}
    BY DEF BuildTypeOK, Write

LEMMA BuildTypeStep == BuildTypeOK /\ [BuildNext]_buildVars => BuildTypeOK'
<1> SUFFICES ASSUME BuildTypeOK, [BuildNext]_buildVars PROVE BuildTypeOK'
    OBVIOUS
<1>1. CASE Processor
    BY <1>1 DEF Processor, CheckCapacity, StartBuild, BuildTypeOK, Alive
<1>2. ASSUME NEW b \in Builds, TriggerBuild(b) \/ PutBuild(b) \/ CancelTask(b)
      PROVE  BuildTypeOK'
    <2>1. CASE TriggerBuild(b)
        BY <2>1 DEF TriggerBuild, BuildTypeOK, Unfinished
    <2>2. CASE PutBuild(b)
        BY <2>2 DEF PutBuild, BuildTypeOK
    <2>3. CASE CancelTask(b)
        BY <2>3 DEF CancelTask, BuildTypeOK
    <2> QED
        BY <1>2, <2>1, <2>2, <2>3
<1>3. ASSUME NEW b \in Builds, Begin(b) PROVE BuildTypeOK'
    BY <1>3 DEF Begin, Goes, BuildTypeOK, Alive
<1>4. ASSUME NEW b \in Builds, MarkInProgress(b) PROVE BuildTypeOK'
    <2>1. row' \in [Builds -> {"none"} \cup Unfinished \cup Completed] /\ lost' \subseteq Builds
        BY <1>4, WriteKeepsType DEF MarkInProgress, Unfinished
    <2> QED
        BY <1>4, <2>1 DEF MarkInProgress, Goes, BuildTypeOK, Alive
<1>5. ASSUME NEW b \in Builds, Report(b) PROVE BuildTypeOK'
    <2>1. row' \in [Builds -> {"none"} \cup Unfinished \cup Completed] /\ lost' \subseteq Builds
        <3>1. CASE Write(b, "success") \/ Write(b, "failure")
            BY <3>1, WriteKeepsType DEF Completed
        <3>2. CASE UNCHANGED <<row, lost>>
            BY <3>2 DEF BuildTypeOK
        <3> QED
            BY <1>5, <3>1, <3>2 DEF Report
    <2> QED
        BY <1>5, <2>1 DEF Report, Ends, Goes, BuildTypeOK, Alive
<1>6. ASSUME NEW b \in Builds, ReportError(b) \/ MarkCancelled(b) PROVE BuildTypeOK'
    <2>1. row' \in [Builds -> {"none"} \cup Unfinished \cup Completed] /\ lost' \subseteq Builds
        BY <1>6, WriteKeepsType DEF ReportError, MarkCancelled, Completed
    <2> QED
        BY <1>6, <2>1 DEF ReportError, MarkCancelled, Ends, Goes, BuildTypeOK
<1>7. ASSUME NEW b \in Builds, Interrupt(b) PROVE BuildTypeOK'
    <2>1. InFlight(b) \subseteq Unfinished \cup Completed
        BY <1>7 DEF Interrupt, InFlight, Unfinished, Completed
    <2>2. row' \in [Builds -> {"none"} \cup Unfinished \cup Completed]
        BY <1>7, <2>1 DEF Interrupt, BuildTypeOK
    <2> QED
        BY <1>7, <2>2 DEF Interrupt, Ends, Goes, BuildTypeOK, Alive
<1>8. ASSUME NEW b \in Builds, CancelRead(b) \/ CancelCommit(b) PROVE BuildTypeOK'
    <2>1. CASE CancelRead(b)
        BY <2>1 DEF CancelRead, BuildTypeOK
    <2>2. CASE CancelCommit(b)
        <3>1. row' \in [Builds -> {"none"} \cup Unfinished \cup Completed] /\ lost' \subseteq Builds
            BY <2>2, WriteKeepsType DEF CancelCommit, Completed
        <3> QED
            BY <2>2, <3>1 DEF CancelCommit, BuildTypeOK
    <2> QED
        BY <1>8, <2>1, <2>2
<1>9. CASE RestartBuilds
    BY <1>9 DEF RestartBuilds, BuildTypeOK
<1>10. CASE UNCHANGED buildVars
    BY <1>10 DEF buildVars, BuildTypeOK
<1> QED
    BY <1>1, <1>2, <1>3, <1>4, <1>5, <1>6, <1>7, <1>8, <1>9, <1>10
       DEF BuildNext, Task, Call

-----------------------------------------------------------------------------
(* A task that has been started moves on, and rows that exist remain.      *)
LEMMA TaskMovesKeepWaiting ==
    ASSUME BuildTypeOK, Waiting, NEW b \in Builds, task[b] # "none",
           NEW at, at # "none", task' = [task EXCEPT ![b] = at],
           UNCHANGED <<putting, build_queue, killed, cancels>>,
           \A c \in Builds : (row'[c] = "none") <=> (row[c] = "none")
    PROVE  Waiting'
<1>1. \A c \in Builds : (task'[c] = "none") <=> (task[c] = "none")
    BY DEF BuildTypeOK
<1>2. \A i \in DOMAIN build_queue : build_queue[i] \in Builds
    BY DEF BuildTypeOK
<1>3. putting \subseteq Builds /\ killed \subseteq Builds
    BY DEF BuildTypeOK
<1> QED
    BY <1>1, <1>2, <1>3 DEF Waiting

(* Nothing that Waiting speaks of changes.                                 *)
LEMMA NothingStartsKeepsWaiting ==
    ASSUME BuildTypeOK, Waiting, UNCHANGED <<task, putting, build_queue>>,
           \A b \in killed' : task[b] # "none",
           \A b \in Builds : cancels'[b] # "none" => row[b] # "none",
           \A c \in Builds : (row'[c] = "none") <=> (row[c] = "none")
    PROVE  Waiting'
<1>1. \A i \in DOMAIN build_queue : build_queue[i] \in Builds
    BY DEF BuildTypeOK
<1> QED
    BY <1>1 DEF Waiting

LEMMA WaitingStep == BuildInv /\ [BuildNext]_buildVars => Waiting'
<1> SUFFICES ASSUME BuildInv, [BuildNext]_buildVars PROVE Waiting'
    OBVIOUS
<1>0. BuildTypeOK /\ Waiting /\ ExecutingIsTracked
    BY DEF BuildInv
<1>a. /\ build_queue \in Seq(Builds) /\ task \in [Builds -> {"none", "done"} \cup Alive]
      /\ \A i \in DOMAIN build_queue : build_queue[i] \in Builds
      /\ putting \subseteq Builds /\ killed \subseteq Builds
    BY <1>0 DEF BuildTypeOK
<1>b. \A b \in active_builds : b \in Builds /\ task[b] # "none"
    BY <1>0 DEF ExecutingIsTracked, Executing, Alive
<1>c. ASSUME NEW b \in Builds, task[b] # "none", NEW s \in Unfinished \cup Completed, Write(b, s)
      PROVE  \A c \in Builds : (row'[c] = "none") <=> (row[c] = "none")
    <2>1. row[b] # "none" /\ s # "none"
        BY <1>0, <1>c DEF Waiting, Unfinished, Completed
    <2> QED
        BY <1>0, <1>c, <2>1, WriteKeepsType
<1>1. CASE CheckCapacity
    BY <1>0, <1>1, NothingStartsKeepsWaiting DEF CheckCapacity, Waiting
<1>2. CASE StartBuild
    <2>0. PICK h : h = Head(build_queue)
        OBVIOUS
    <2>1. /\ build_queue # <<>> /\ build_queue' = Tail(build_queue)
          /\ task' = [task EXCEPT ![h] = "new"] /\ UNCHANGED <<row, putting, killed>>
        BY <1>2, <2>0 DEF StartBuild
    <2>2. /\ 1 \in DOMAIN build_queue /\ h = build_queue[1] /\ h \in Builds
          /\ \A i \in DOMAIN build_queue' : /\ i \in Nat /\ i + 1 \in DOMAIN build_queue
                                           /\ i # 0 /\ build_queue'[i] = build_queue[i + 1]
        BY <1>a, <2>0, <2>1
    <2>3. \A i \in DOMAIN build_queue' : build_queue'[i] # h
        <3> SUFFICES ASSUME NEW i \in DOMAIN build_queue', build_queue'[i] = h PROVE FALSE
            OBVIOUS
        <3>1. i + 1 = 1
            BY <1>0, <2>2 DEF Waiting
        <3> QED
            BY <2>2, <3>1
    <2>4. \A c \in Builds \ {h} : task'[c] = task[c]
        BY <1>a, <2>1
    <2>5. row[h] # "none" /\ h \notin putting
        BY <1>0, <2>2 DEF Waiting
    <2>6. task'[h] = "new"
        BY <1>a, <2>1, <2>2
    <2>7. \A b \in Builds : row'[b] = "none" => task'[b] = "none" /\ b \notin putting'
        BY <1>0, <2>1, <2>4, <2>5 DEF Waiting
    <2>8. \A b \in putting' : task'[b] = "none" /\ \A i \in DOMAIN build_queue' : build_queue'[i] # b
        BY <1>0, <1>a, <2>1, <2>2, <2>4, <2>5 DEF Waiting
    <2>9. \A i \in DOMAIN build_queue' : task'[build_queue'[i]] = "none" /\ row'[build_queue'[i]] # "none"
        BY <1>0, <1>a, <2>1, <2>2, <2>3, <2>4 DEF Waiting
    <2>10. \A i, j \in DOMAIN build_queue' : build_queue'[i] = build_queue'[j] => i = j
        <3> SUFFICES ASSUME NEW i \in DOMAIN build_queue', NEW j \in DOMAIN build_queue',
                            build_queue'[i] = build_queue'[j]
                     PROVE  i = j
            OBVIOUS
        <3>1. i + 1 = j + 1
            BY <1>0, <2>2 DEF Waiting
        <3> QED
            BY <2>2, <3>1
    <2>11. \A b \in killed' : task'[b] # "none"
        BY <1>0, <1>a, <2>1, <2>4, <2>6 DEF Waiting
    <2>12. \A b \in Builds : cancels'[b] # "none" => row'[b] # "none"
        BY <1>0, <1>2 DEF StartBuild, Waiting
    <2> QED
        BY <2>7, <2>8, <2>9, <2>10, <2>11, <2>12 DEF Waiting
<1>3. ASSUME NEW b \in Builds, TriggerBuild(b) PROVE Waiting'
    <2>1. /\ row[b] = "none" /\ row' = [row EXCEPT ![b] = "pending"] /\ putting' = putting \cup {b}
          /\ UNCHANGED <<build_queue, task, killed>>
        BY <1>3 DEF TriggerBuild
    <2>2. \A i \in DOMAIN build_queue : build_queue[i] # b
        BY <1>0, <2>1 DEF Waiting
    <2>3. row'[b] = "pending" /\ \A c \in Builds \ {b} : row'[c] = row[c]
        BY <1>0, <2>1 DEF BuildTypeOK
    <2>4. \A c \in Builds : cancels'[c] # "none" => row'[c] # "none"
        BY <1>0, <1>3, <2>3 DEF TriggerBuild, Waiting
    <2> QED
        BY <1>0, <1>a, <2>1, <2>2, <2>3, <2>4 DEF Waiting
<1>4. ASSUME NEW b \in Builds, PutBuild(b) PROVE Waiting'
    <2>1. /\ b \in putting /\ putting' = putting \ {b} /\ build_queue' = Append(build_queue, b)
          /\ UNCHANGED <<row, task, killed>>
        BY <1>4 DEF PutBuild
    <2>2. /\ Len(build_queue) \in Nat /\ DOMAIN build_queue = 1 .. Len(build_queue)
          /\ DOMAIN build_queue' = 1 .. Len(build_queue) + 1
          /\ build_queue'[Len(build_queue) + 1] = b
          /\ \A i \in DOMAIN build_queue : build_queue'[i] = build_queue[i]
        BY <1>a, <2>1
    <2>3. task[b] = "none" /\ row[b] # "none" /\ \A i \in DOMAIN build_queue : build_queue[i] # b
        BY <1>0, <2>1 DEF Waiting
    <2>4. \A i \in DOMAIN build_queue' : i \in DOMAIN build_queue \/ i = Len(build_queue) + 1
        BY <2>2
    <2>5. \A i, j \in DOMAIN build_queue' : build_queue'[i] = build_queue'[j] => i = j
        BY <1>0, <2>2, <2>3, <2>4 DEF Waiting
    <2>6. \A i \in DOMAIN build_queue' : task'[build_queue'[i]] = "none" /\ row'[build_queue'[i]] # "none"
        BY <1>0, <2>1, <2>2, <2>3, <2>4 DEF Waiting
    <2>7. \A c \in putting' : task'[c] = "none" /\ \A i \in DOMAIN build_queue' : build_queue'[i] # c
        BY <1>0, <2>1, <2>2, <2>4 DEF Waiting
    <2>8. \A c \in Builds : cancels'[c] # "none" => row'[c] # "none"
        BY <1>0, <1>4 DEF PutBuild, Waiting
    <2> QED
        BY <1>0, <2>1, <2>5, <2>6, <2>7, <2>8 DEF Waiting
<1>5. ASSUME NEW b \in Builds, CancelTask(b) PROVE Waiting'
    <2>1. \A c \in Builds : cancels'[c] # "none" => row[c] # "none"
        BY <1>0, <1>5 DEF CancelTask, Waiting, BuildTypeOK
    <2>2. \A c \in killed' : task[c] # "none"
        BY <1>0, <1>5, <1>b DEF CancelTask, Waiting
    <2> QED
        BY <1>0, <1>5, <2>1, <2>2, NothingStartsKeepsWaiting DEF CancelTask
<1>6. ASSUME NEW b \in Builds, CancelRead(b) PROVE Waiting'
    <2>1. \A c \in Builds : cancels'[c] # "none" => row[c] # "none"
        BY <1>0, <1>6 DEF CancelRead, Waiting, BuildTypeOK
    <2>2. \A c \in killed' : task[c] # "none"
        BY <1>0, <1>6 DEF CancelRead, Waiting
    <2> QED
        BY <1>0, <1>6, <2>1, <2>2, NothingStartsKeepsWaiting DEF CancelRead
<1>7. ASSUME NEW b \in Builds, CancelCommit(b) PROVE Waiting'
    <2>1. Write(b, "cancelled") /\ cancels' = [cancels EXCEPT ![b] = "none"] /\ row[b] # "none"
        BY <1>0, <1>7 DEF CancelCommit, Waiting
    <2>2. \A c \in Builds : (row'[c] = "none") <=> (row[c] = "none")
        BY <1>0, <2>1, WriteKeepsType DEF Completed
    <2>3. \A c \in Builds : cancels'[c] # "none" => row[c] # "none"
        BY <1>0, <2>1 DEF Waiting, BuildTypeOK
    <2>4. \A c \in killed' : task[c] # "none"
        BY <1>0, <1>7 DEF CancelCommit, Waiting
    <2> QED
        BY <1>0, <1>7, <2>2, <2>3, <2>4, NothingStartsKeepsWaiting DEF CancelCommit
<1>8. ASSUME NEW b \in Builds, Begin(b) PROVE Waiting'
    BY <1>0, <1>8, TaskMovesKeepWaiting DEF Begin, Running, Goes
<1>9. ASSUME NEW b \in Builds, MarkInProgress(b) PROVE Waiting'
    <2>1. task[b] # "none" /\ Write(b, "in_progress") /\ task' = [task EXCEPT ![b] = "steps"]
        BY <1>9 DEF MarkInProgress, Running, Goes
    <2>2. \A c \in Builds : (row'[c] = "none") <=> (row[c] = "none")
        BY <1>c, <2>1 DEF Unfinished
    <2> QED
        BY <1>0, <1>9, <2>1, <2>2, TaskMovesKeepWaiting DEF MarkInProgress
<1>10. ASSUME NEW b \in Builds, Report(b) PROVE Waiting'
    <2>1. task[b] # "none"
        BY <1>10 DEF Report, Running
    <2>2. \A c \in Builds : (row'[c] = "none") <=> (row[c] = "none")
        BY <1>10, <1>c, <2>1 DEF Report, Completed
    <2>3. task' = [task EXCEPT ![b] = "done"] \/ task' = [task EXCEPT ![b] = "failing"]
        BY <1>10 DEF Report, Ends, Goes
    <2> QED
        BY <1>0, <1>10, <2>1, <2>2, <2>3, TaskMovesKeepWaiting DEF Report
<1>11. ASSUME NEW b \in Builds, ReportError(b) \/ MarkCancelled(b) PROVE Waiting'
    <2>1. task[b] # "none" /\ task' = [task EXCEPT ![b] = "done"]
        BY <1>11 DEF ReportError, MarkCancelled, Running, Ends, Goes
    <2>2. \A c \in Builds : (row'[c] = "none") <=> (row[c] = "none")
        BY <1>11, <1>c, <2>1 DEF ReportError, MarkCancelled, Completed
    <2> QED
        BY <1>0, <1>11, <2>1, <2>2, TaskMovesKeepWaiting DEF ReportError, MarkCancelled
<1>12. ASSUME NEW b \in Builds, Interrupt(b) PROVE Waiting'
    <2>1. task[b] # "none" /\ row[b] # "none"
        BY <1>0, <1>12 DEF Interrupt, Waiting
    <2>2. \A s \in InFlight(b) : s # "none"
        BY <1>12 DEF Interrupt, InFlight
    <2>3. \A c \in Builds : (row'[c] = "none") <=> (row[c] = "none")
        BY <1>0, <1>12, <2>1, <2>2 DEF Interrupt, BuildTypeOK
    <2>4. task' = [task EXCEPT ![b] = "done"] \/ task' = [task EXCEPT ![b] = "cancelling"]
        BY <1>12 DEF Interrupt, Ends, Goes
    <2> QED
        BY <1>0, <1>12, <2>1, <2>3, <2>4, TaskMovesKeepWaiting DEF Interrupt
<1>13. CASE RestartBuilds
    BY <1>0, <1>13 DEF RestartBuilds, Waiting, BuildTypeOK
<1>14. CASE UNCHANGED buildVars
    BY <1>0, <1>14, NothingStartsKeepsWaiting DEF buildVars, Waiting
<1> QED
    BY <1>1, <1>2, <1>3, <1>4, <1>5, <1>6, <1>7, <1>8, <1>9, <1>10, <1>11, <1>12, <1>13, <1>14
       DEF BuildNext, Processor, Task, Call

-----------------------------------------------------------------------------
(* The task of a build that executes stays in this set, or leaves it       *)
(* together with the entry in active_builds.                               *)
LEMMA TaskMovesKeepTracked ==
    ASSUME BuildTypeOK, ExecutingIsTracked, UNCHANGED killed, NEW b \in Builds, NEW at,
           task[b] \in Alive, task' = [task EXCEPT ![b] = at],
           \/ at \in Alive /\ UNCHANGED active_builds
           \/ at = "done" /\ active_builds' = active_builds \ {b}
    PROVE  ExecutingIsTracked'
    BY DEF BuildTypeOK, ExecutingIsTracked, Executing, Alive

LEMMA TrackedStep == BuildInv /\ [BuildNext]_buildVars => ExecutingIsTracked'
<1> SUFFICES ASSUME BuildInv, [BuildNext]_buildVars PROVE ExecutingIsTracked'
    OBVIOUS
<1>0. BuildTypeOK /\ Waiting /\ ExecutingIsTracked
    BY DEF BuildInv
<1>1. CASE UNCHANGED <<active_builds, task, killed>>
    BY <1>0, <1>1 DEF ExecutingIsTracked, Executing
<1>2. CASE StartBuild
    <2>0. PICK h : h = Head(build_queue)
        OBVIOUS
    <2>1. /\ build_queue # <<>> /\ task' = [task EXCEPT ![h] = "new"]
          /\ active_builds' = active_builds \cup {h} /\ UNCHANGED killed
        BY <1>2, <2>0 DEF StartBuild
    <2>2. h \in Builds /\ 1 \in DOMAIN build_queue /\ h = build_queue[1]
        BY <1>0, <2>0, <2>1 DEF BuildTypeOK
    <2>3. h \notin killed
        BY <1>0, <2>2 DEF Waiting
    <2> QED
        BY <1>0, <2>1, <2>2, <2>3 DEF ExecutingIsTracked, Executing, BuildTypeOK, Alive
<1>3. ASSUME NEW b \in Builds, CancelTask(b) PROVE ExecutingIsTracked'
    BY <1>0, <1>3 DEF CancelTask, ExecutingIsTracked, Executing
<1>4. ASSUME NEW b \in Builds, Begin(b) \/ MarkInProgress(b) PROVE ExecutingIsTracked'
    BY <1>0, <1>4, TaskMovesKeepTracked DEF Begin, MarkInProgress, Running, Goes, Alive
<1>5. ASSUME NEW b \in Builds, Report(b) PROVE ExecutingIsTracked'
    <2>1. task[b] \in Alive /\ UNCHANGED killed
        BY <1>5 DEF Report, Running, Alive
    <2>2. \/ task' = [task EXCEPT ![b] = "failing"] /\ UNCHANGED active_builds
          \/ task' = [task EXCEPT ![b] = "done"] /\ active_builds' = active_builds \ {b}
        BY <1>5 DEF Report, Ends, Goes
    <2> QED
        BY <1>0, <2>1, <2>2, TaskMovesKeepTracked DEF Alive
<1>6. ASSUME NEW b \in Builds, ReportError(b) \/ MarkCancelled(b) PROVE ExecutingIsTracked'
    BY <1>0, <1>6, TaskMovesKeepTracked
       DEF ReportError, MarkCancelled, Running, Ends, Goes, Alive
<1>7. ASSUME NEW b \in Builds, Interrupt(b) PROVE ExecutingIsTracked'
    <2>1. task[b] \in Alive /\ UNCHANGED killed
        BY <1>7 DEF Interrupt, Alive
    <2>2. \/ task' = [task EXCEPT ![b] = "cancelling"] /\ UNCHANGED active_builds
          \/ task' = [task EXCEPT ![b] = "done"] /\ active_builds' = active_builds \ {b}
        BY <1>7 DEF Interrupt, Ends, Goes
    <2> QED
        BY <1>0, <2>1, <2>2, TaskMovesKeepTracked DEF Alive
<1>8. CASE RestartBuilds
    BY <1>0, <1>8 DEF RestartBuilds, ExecutingIsTracked, Executing, Alive
<1>9. ASSUME NEW b \in Builds, TriggerBuild(b) \/ Call(b) PROVE ExecutingIsTracked'
    BY <1>1, <1>9 DEF TriggerBuild, Call, PutBuild, CancelRead, CancelCommit
<1> QED
    BY <1>1, <1>2, <1>3, <1>4, <1>5, <1>6, <1>7, <1>8, <1>9
       DEF BuildNext, Processor, CheckCapacity, Task, buildVars

-----------------------------------------------------------------------------
(* Taking entries out of active_builds leaves the limit as it is.          *)
LEMMA FewerKeepCapacity ==
    ASSUME Capacity, active_builds' \subseteq active_builds, UNCHANGED processor
    PROVE  Capacity'
<1>1. /\ IsFiniteSet(active_builds') /\ Cardinality(active_builds') \in Nat
      /\ Cardinality(active_builds) \in Nat
      /\ Cardinality(active_builds') <= Cardinality(active_builds)
    BY FS_Subset, FS_CardinalityType DEF Capacity
<1> QED
    BY <1>1 DEF Capacity

LEMMA CapacityStep == BuildInv /\ [BuildNext]_buildVars => Capacity'
<1> SUFFICES ASSUME BuildInv, [BuildNext]_buildVars PROVE Capacity'
    OBVIOUS
<1>0. Capacity
    BY DEF BuildInv
<1>1. CASE CheckCapacity
    BY <1>0, <1>1 DEF CheckCapacity, Capacity
<1>2. CASE StartBuild
    <2>0. PICK h : h = Head(build_queue)
        OBVIOUS
    <2>1. /\ processor = "get" /\ processor' = "check"
          /\ active_builds' = active_builds \cup {h}
        BY <1>2, <2>0 DEF StartBuild
    <2>2. /\ IsFiniteSet(active_builds) /\ Cardinality(active_builds) \in Nat
          /\ Cardinality(active_builds) < MaxConcurrent
        BY <1>0, <2>1, FS_CardinalityType DEF Capacity
    <2>3. /\ IsFiniteSet(active_builds')
          /\ \/ Cardinality(active_builds') = Cardinality(active_builds)
             \/ Cardinality(active_builds') = Cardinality(active_builds) + 1
        BY <2>1, <2>2, FS_AddElement
    <2> QED
        BY <2>1, <2>2, <2>3 DEF Capacity
<1>3. CASE active_builds' \subseteq active_builds /\ UNCHANGED processor
    BY <1>0, <1>3, FewerKeepCapacity
<1>4. CASE RestartBuilds
    BY <1>4, FS_EmptySet DEF RestartBuilds, Capacity
<1>5. ASSUME NEW b \in Builds, TriggerBuild(b) \/ CancelTask(b) \/ Call(b) PROVE Capacity'
    BY <1>3, <1>5 DEF TriggerBuild, CancelTask, Call, PutBuild, CancelRead, CancelCommit
<1>6. ASSUME NEW b \in Builds, Task(b) PROVE Capacity'
    BY <1>3, <1>6 DEF Task, Begin, MarkInProgress, Report, ReportError, Interrupt,
                      MarkCancelled, Ends
<1>7. CASE UNCHANGED buildVars
    BY <1>3, <1>7 DEF buildVars
<1> QED
    BY <1>1, <1>2, <1>4, <1>5, <1>6, <1>7 DEF BuildNext, Processor

-----------------------------------------------------------------------------
(* The invariant is inductive and holds in every behaviour.                *)
LEMMA BuildInvHolds == BuildSpec => []BuildInv
<1>1. BuildInv /\ [BuildNext]_buildVars => BuildInv'
    BY BuildTypeStep, WaitingStep, TrackedStep, CapacityStep DEF BuildInv
<1> QED
    BY BuildInitInv, <1>1, PTL DEF BuildSpec

(* Every variable of the CI/CD service keeps its type, for any builds and  *)
(* any limit.                                                              *)
THEOREM BuildTypeCorrect == BuildSpec => []BuildTypeOK
<1>1. BuildInv => BuildTypeOK
    BY DEF BuildInv
<1> QED
    BY BuildInvHolds, <1>1, PTL

(* The entries of active_builds are exactly the builds whose task executes *)
(* and was not cancelled, at every await of _execute_build, cancel_build   *)
(* and the processor.                                                      *)
THEOREM TrackedHolds == BuildSpec => []ExecutingIsTracked
<1>1. BuildInv => ExecutingIsTracked
    BY DEF BuildInv
<1> QED
    BY BuildInvHolds, <1>1, PTL

(* However many builds are triggered and cancelled, no more of them        *)
(* execute at once than max_concurrent_builds.                             *)
THEOREM LimitHolds == BuildSpec => []AtMostConcurrent
<1>1. BuildInv => AtMostConcurrent
    BY DEF BuildInv, ExecutingIsTracked, Capacity, AtMostConcurrent
<1> QED
    BY BuildInvHolds, <1>1, PTL

(* Both together, as the runs check them.                                  *)
THEOREM BuildsBoundedHolds == BuildSpec => []BuildsBounded
<1>1. ExecutingIsTracked /\ AtMostConcurrent => BuildsBounded
    BY DEF BuildsBounded
<1> QED
    BY TrackedHolds, LimitHolds, <1>1, PTL
===============================================================================
