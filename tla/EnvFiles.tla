------------------------------- MODULE EnvFiles -------------------------------
(***************************************************************************)
(* The .env files that the routes of api/routes/env_files.py rewrite and   *)
(* delete through core/env_manager.py.  A handler awaits nothing, so that  *)
(* requests do not overlap; but a write may fail half-way, and the process *)
(* may end in the middle of one.                                           *)
(*                                                                         *)
(* A file is the version that its last write gave it: what the variables   *)
(* are is left out, and so are the routes that only read.  POST /env/files *)
(* raises before it saves (a Path has no ctime), so a file comes from      *)
(* elsewhere.                                                              *)
(***************************************************************************)
EXTENDS Integers

CONSTANTS
    EnvPaths,       \* the files
    Copies,         \* names of copies
    BackupOf,       \* with_suffix('.env.backup'): files of one folder may share it
    DeletedOf,      \* with_suffix('.env.deleted')
    MaxVersions,    \* bound: versions written
    Interruptions   \* bound: writes that fail or are cut off

ASSUME EnvFilesAssumption ==
    /\ EnvPaths \cap Copies = {} /\ MaxVersions \in Nat /\ Interruptions \in Nat
    /\ BackupOf \in [EnvPaths -> Copies] /\ DeletedOf \in [EnvPaths -> Copies]
    /\ \A p, q \in EnvPaths : BackupOf[p] # DeletedOf[q]

VARIABLES
    contents,       \* the version in each file, NoFile, or Cut
    update,         \* the update under way: [path, text, step], or NoSave
    version,        \* the last version that was written
    broken,         \* writes interrupted so far
    newest,         \* history: the last whole version of each file
    excused         \* history: files that another has cost its copy, see Excused

envFileVars == <<contents, update, version, broken, newest, excused>>

NoFile == 0
Cut == -1           \* opened for writing, and not written to the end
NoSave == [path |-> "none"]

EnvFilesInit ==
    /\ contents = [f \in EnvPaths \cup Copies |-> NoFile]
    /\ update = NoSave /\ version = 0 /\ broken = 0
    /\ newest = [p \in EnvPaths |-> NoFile] /\ excused = {}

Whole(v) == v > NoFile

\* Files whose last whole version may be lost when copy c is overwritten: those that
\* share the copy with p and are not whole themselves, and p when it is cut already.
Excused(c, p) ==
    {q \in EnvPaths : /\ c \in {BackupOf[q], DeletedOf[q]}
                      /\ IF q = p THEN contents[q] = Cut ELSE ~Whole(contents[q])}

\* The file is put there by hand, or by another program.
Provided(p) ==
    /\ update = NoSave /\ contents[p] = NoFile /\ version < MaxVersions
    /\ version' = version + 1
    /\ contents' = [contents EXCEPT ![p] = version']
    /\ newest' = [newest EXCEPT ![p] = version']
    /\ excused' = excused \ {p}
    /\ UNCHANGED <<update, broken>>

-----------------------------------------------------------------------------
(* PUT /env/files/{path}: the file is loaded (404 without it; one that was *)
(* cut is loaded with the lines it has), then saved with a backup.         *)
BeginUpdate(p) ==
    /\ update = NoSave /\ contents[p] # NoFile /\ version < MaxVersions
    /\ version' = version + 1
    /\ update' = [path |-> p, text |-> contents[p], step |-> "copy"]
    /\ UNCHANGED <<contents, broken, newest, excused>>

At(step) == update # NoSave /\ update.step = step

\* backup_path.write_text(path.read_text()): the file has been read when the backup
\* is opened.
OpenBackup ==
    /\ At("copy")
    /\ LET p == update.path
       IN  /\ contents' = [contents EXCEPT ![BackupOf[p]] = Cut]
           /\ excused' = excused \cup Excused(BackupOf[p], p)
           /\ update' = [update EXCEPT !.step = "copying"]
    /\ UNCHANGED <<version, broken, newest>>

WriteBackup ==
    /\ At("copying")
    /\ contents' = [contents EXCEPT ![BackupOf[update.path]] = update.text]
    /\ update' = [update EXCEPT !.step = "save"]
    /\ UNCHANGED <<version, broken, newest, excused>>

\* Fault for OpenEnvFile: the file is opened before its backup has been made.
OpenEnvFileFirst ==
    /\ At("copy")
    /\ contents' = [contents EXCEPT ![update.path] = Cut]
    /\ update' = [update EXCEPT !.step = "saving"]
    /\ UNCHANGED <<version, broken, newest, excused>>

OpenEnvFile ==
    /\ At("save")
    /\ contents' = [contents EXCEPT ![update.path] = Cut]
    /\ update' = [update EXCEPT !.step = "saving"]
    /\ UNCHANGED <<version, broken, newest, excused>>

WriteEnvFile ==
    /\ At("saving")
    /\ contents' = [contents EXCEPT ![update.path] = version]
    /\ newest' = [newest EXCEPT ![update.path] = version]
    /\ excused' = excused \ {update.path}
    /\ update' = NoSave
    /\ UNCHANGED <<version, broken>>

\* A write fails (the request is answered with an error), or the process ends: what
\* was opened and not written stays cut.
CutOff ==
    /\ update # NoSave /\ broken < Interruptions
    /\ broken' = broken + 1 /\ update' = NoSave
    /\ UNCHANGED <<contents, version, newest, excused>>

-----------------------------------------------------------------------------
\* DELETE /env/files/{path}: the file is renamed, and replaces one of that name.
DeleteFile(p) ==
    /\ update = NoSave /\ contents[p] # NoFile
    /\ LET c == DeletedOf[p]
       IN  /\ contents' = [contents EXCEPT ![c] = contents[p], ![p] = NoFile]
           /\ excused' = excused \cup (Excused(c, p) \ {p})
    /\ UNCHANGED <<update, version, broken, newest>>

EnvFilesNext ==
    \/ \E p \in EnvPaths : Provided(p) \/ BeginUpdate(p) \/ DeleteFile(p)
    \/ OpenBackup \/ WriteBackup \/ OpenEnvFile \/ WriteEnvFile \/ CutOff

EnvFilesSpec == EnvFilesInit /\ [][EnvFilesNext]_envFileVars

-----------------------------------------------------------------------------
EnvFilesTypeOK ==
    /\ contents \in [EnvPaths \cup Copies -> -1 .. MaxVersions]
    /\ update \in {NoSave} \cup
                  [path : EnvPaths, text : -1 .. MaxVersions,
                   step : {"copy", "copying", "save", "saving"}]
    /\ version \in 0 .. MaxVersions /\ broken \in 0 .. Interruptions
    /\ newest \in [EnvPaths -> 0 .. MaxVersions] /\ excused \subseteq EnvPaths

\* A file that is rewritten or deleted can be had back: its last whole version is in
\* the file, in its backup or in its deleted copy, whatever write was cut off and when;
\* unless another file took over the name of the copy, or the file was already cut
\* when it was saved once more.
Recoverable ==
    \A p \in EnvPaths :
        newest[p] # NoFile /\ p \notin excused =>
            newest[p] \in {contents[p], contents[BackupOf[p]], contents[DeletedOf[p]]}
===============================================================================
