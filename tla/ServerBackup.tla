---------------------------- MODULE ServerBackup ----------------------------
(***************************************************************************)
(* Backup and restore of the server's data directory: the daily, manual    *)
(* and pre-restore backups, their verification and rotation, and the swap  *)
(* of the database and the blob directory by the restore command, while    *)
(* uploads complete and with a crash or a failing call between any two     *)
(* steps.  Modelled from server/server_backup.go, runtime.go, storage.go   *)
(* and cmd/beresta-server/main.go; of blob_store.go only the two steps     *)
(* that move files and the two that commit rows.                           *)
(*                                                                         *)
(* A database is the set of its complete blobs.  A file that may be absent *)
(* is a set with at most one element, its contents.                        *)
(***************************************************************************)
EXTENDS Naturals, FiniteSets

CONSTANTS
    Blob,
    Keep,       \* Backups.KeepDaily
    MaxBackups, \* bound on the backups made
    MaxDays,
    MaxFaults,
    FaultAt,    \* the steps at which a call may fail
    CrashAt     \* the steps at which the process may die

VARIABLES
    db, files,           \* beresta.db and blobs/
    asideDb, asideFiles, \* the rollback paths of a restore
    backups,   \* published backups: [id, kind, day, rows, files]
    process,   \* "down", "serving", or the command that holds the data lock
    writeMu,   \* who holds Storage.writeMu
    upload,    \* the blob whose files were moved and whose row was not yet
    job,       \* the backup or restore under way
    day, made, faults,
    committed, \* history: blobs completed and not collected
    outcome    \* history: what the last restore was to leave, and what it reported

paths == <<db, files, asideDb, asideFiles>>
vars == <<paths, backups, process, writeMu, upload, job, day, made, faults, committed, outcome>>

Idle == [at |-> "idle", kind |-> "none", day |-> 0, rows |-> {}, files |-> {},
         victims |-> {}, source |-> {}]
NoRestore == [returned |-> "none", before |-> {}, source |-> {}]

Init ==
    /\ db = {} /\ files = {} /\ asideDb = {} /\ asideFiles = {}
    /\ backups = {} /\ process = "down" /\ writeMu = "free" /\ upload = {}
    /\ job = Idle /\ day = 1 /\ made = 0 /\ faults = 0
    /\ committed = {} /\ outcome = NoRestore

Content(path) == UNION path
At(step) == job.at = step
Step(step) == job' = [job EXCEPT !.at = step]

\* VerifyServerBackup checks the files of the manifest and then the state:
\* every complete blob of the database is there.
VerifyServerState(rows, present) == rows \subseteq present
Verifies(b) == VerifyServerState(b.rows, b.files)

-----------------------------------------------------------------------------
(* Initialize, Serve and Close. *)

\* Initialize takes the data lock, makes the directories and opens the
\* database, which creates a missing one.
Initialize(as) ==
    /\ process = "down"
    /\ process' = as
    /\ db' = IF db = {} THEN {{}} ELSE db
    /\ files' = IF files = {} THEN {{}} ELSE files
    /\ outcome' = NoRestore

\* databaseHasTodayBackup
databaseHasTodayBackup ==
    \E b \in backups : b.kind = "daily" /\ b.day = day /\ Verifies(b)

NewBackup(kind) ==
    [Idle EXCEPT !.at = "snapshot", !.kind = kind, !.day = day]

\* EnsureDailyServerBackup
EnsureDailyServerBackup ==
    job' = IF ~databaseHasTodayBackup /\ made < MaxBackups THEN NewBackup("daily") ELSE Idle

\* Serve makes the daily backup before it listens.
Serve ==
    /\ Initialize("starting")
    /\ EnsureDailyServerBackup
    /\ UNCHANGED <<asideDb, asideFiles, backups, writeMu, upload, day, made, faults, committed>>

Listen ==
    /\ process = "starting" /\ job = Idle
    /\ process' = "serving"
    /\ UNCHANGED <<paths, backups, writeMu, upload, job, day, made, faults, committed, outcome>>

runBackupScheduler ==
    /\ process = "serving" /\ job = Idle
    /\ EnsureDailyServerBackup
    /\ UNCHANGED <<paths, backups, process, writeMu, upload, day, made, faults, committed, outcome>>

Close ==
    /\ process # "down" /\ job = Idle /\ upload = {}
    /\ process' = "down"
    /\ UNCHANGED <<paths, backups, writeMu, upload, job, day, made, faults, committed, outcome>>

Tick ==
    /\ day < MaxDays
    /\ day' = day + 1
    /\ UNCHANGED <<paths, backups, process, writeMu, upload, job, made, faults, committed, outcome>>

-----------------------------------------------------------------------------
(* The blob store, as far as it moves files and commits rows. *)

\* CompleteBlob moves the staged files into place under writeMu.
CompleteBlob(b) ==
    /\ process = "serving" /\ writeMu = "free" /\ b \notin Content(db)
    /\ files' = {Content(files) \cup {b}}
    /\ upload' = {b} /\ writeMu' = "blob"
    /\ UNCHANGED <<db, asideDb, asideFiles, backups, process, job, day, made, faults, committed, outcome>>

CompleteCommit ==
    /\ process = "serving" /\ upload # {}
    /\ db' = {Content(db) \cup upload}
    /\ committed' = committed \cup upload
    /\ upload' = {} /\ writeMu' = "free"
    /\ UNCHANGED <<files, asideDb, asideFiles, backups, process, job, day, made, faults, outcome>>

\* collectBlob moves a blob without references to the trash, then removes its
\* row.
CollectMove(b) ==
    /\ process = "gc" /\ upload = {} /\ b \in Content(db) \cap Content(files)
    /\ files' = {Content(files) \ {b}}
    /\ upload' = {b} /\ writeMu' = "blob"
    /\ UNCHANGED <<db, asideDb, asideFiles, backups, process, job, day, made, faults, committed, outcome>>

CollectCommit ==
    /\ process = "gc" /\ upload # {}
    /\ db' = {Content(db) \ upload}
    /\ committed' = committed \ upload
    /\ upload' = {} /\ writeMu' = "free"
    /\ UNCHANGED <<files, asideDb, asideFiles, backups, process, job, day, made, faults, outcome>>

-----------------------------------------------------------------------------
(* CreateServerBackup. *)

\* VACUUM INTO, under writeMu.
Snapshot ==
    /\ At("snapshot") /\ writeMu = "free"
    /\ writeMu' = "backup"
    /\ job' = [job EXCEPT !.at = "walk", !.rows = Content(db)]
    /\ UNCHANGED <<paths, backups, process, upload, day, made, faults, committed, outcome>>

\* WalkDir links or copies one file after the other.
WalkFile(b) ==
    /\ At("walk") /\ b \in Content(files) \ job.files
    /\ job' = [job EXCEPT !.files = @ \cup {b}]
    /\ UNCHANGED <<paths, backups, process, writeMu, upload, day, made, faults, committed, outcome>>

\* The manifest is written and the staging directory renamed.
PublishBackup ==
    /\ At("walk") /\ Content(files) \subseteq job.files
    /\ made' = made + 1
    /\ backups' = backups \cup {[id |-> made + 1, kind |-> job.kind, day |-> job.day,
                                 rows |-> job.rows, files |-> job.files]}
    /\ Step("verify")
    /\ UNCHANGED <<paths, process, writeMu, upload, day, faults, committed, outcome>>

Published == CHOOSE b \in backups : b.id = made

Newer(b) == {c \in backups : c.kind = "daily" /\ Verifies(c) /\ c.id > b.id}

\* rotateServerBackups: the daily backups that verify, without the newest Keep.
rotateServerBackups ==
    {b \in backups : b.kind = "daily" /\ Verifies(b) /\ Cardinality(Newer(b)) >= Keep}

\* The call returns and releases the lock if it had it: a command ends with it,
\* a failed one too; the server goes on.
Return ==
    /\ job' = Idle
    /\ writeMu' = IF writeMu = "backup" THEN "free" ELSE writeMu
    /\ process' = IF process \in {"backup", "restore"} THEN "down" ELSE process

\* The published backup is verified; a daily one goes on to the rotation and
\* a pre-restore one to the restore, for which it closes the database.
VerifyPublished ==
    /\ At("verify")
    /\ IF ~Verifies(Published) THEN Return
       ELSE CASE job.kind = "daily" ->
                   job' = [job EXCEPT !.at = "rotate", !.victims = rotateServerBackups]
                   /\ UNCHANGED <<process, writeMu>>
              [] job.kind = "manual" -> Return
              [] job.kind = "pre-restore" -> Step("stage") /\ writeMu' = "free" /\ UNCHANGED process
    /\ UNCHANGED <<paths, backups, upload, day, made, faults, committed, outcome>>

RemoveExcess ==
    /\ At("rotate") /\ job.victims # {}
    /\ \E b \in job.victims :
         /\ backups' = backups \ {b}
         /\ job' = [job EXCEPT !.victims = @ \ {b}]
    /\ UNCHANGED <<paths, process, writeMu, upload, day, made, faults, committed, outcome>>

Rotated ==
    /\ At("rotate") /\ job.victims = {}
    /\ Return
    /\ UNCHANGED <<paths, backups, upload, day, made, faults, committed, outcome>>

-----------------------------------------------------------------------------
(* The commands, and the restore. *)

\* A backup that does not verify ends the restore command; one that does is
\* preceded by a backup of the present state.
runCommand(command) ==
    /\ Initialize(command)
    /\ \/ command = "gc" /\ UNCHANGED job
       \/ command = "backup" /\ made < MaxBackups /\ job' = NewBackup("manual")
       \/ /\ command = "restore" /\ made < MaxBackups
          /\ \E b \in backups :
               Verifies(b) /\ job' = [NewBackup("pre-restore") EXCEPT !.source = {b}]
    /\ UNCHANGED <<asideDb, asideFiles, backups, writeMu, upload, day, made, faults, committed>>

Source == CHOOSE b \in job.source : TRUE
Before == [db |-> db, files |-> files]

\* Nothing saves the present state.
RestoreUnsaved ==
    /\ At("snapshot") /\ job.kind = "pre-restore"
    /\ Step("database")
    /\ outcome' = [returned |-> "running", before |-> {Before}, source |-> job.source]
    /\ UNCHANGED <<paths, backups, process, writeMu, upload, day, made, faults, committed>>

\* The backup is verified again and copied beside the live files.
StageRestore ==
    /\ At("stage")
    /\ Step("database")
    /\ outcome' = [returned |-> "running", before |-> {Before}, source |-> job.source]
    /\ UNCHANGED <<paths, backups, process, writeMu, upload, day, made, faults, committed>>

Swap(step, next) ==
    /\ At(step) /\ Step(next)
    /\ UNCHANGED <<backups, process, writeMu, upload, day, made, faults, committed, outcome>>

MoveDatabase ==
    /\ Swap("database", "blobs")
    /\ asideDb' = db /\ db' = {} /\ UNCHANGED <<files, asideFiles>>

MoveBlobs ==
    /\ Swap("blobs", "publish")
    /\ asideFiles' = files /\ files' = {} /\ UNCHANGED <<db, asideDb>>

PublishDatabase ==
    /\ Swap("publish", "published")
    /\ db' = {Source.rows} /\ UNCHANGED <<files, asideDb, asideFiles>>

PublishBlobs ==
    /\ Swap("published", "clean")
    /\ files' = {Source.files} /\ UNCHANGED <<db, asideDb, asideFiles>>

\* The rollback copies are removed and the command ends.
CleanRestore ==
    /\ At("clean")
    /\ asideDb' = {} /\ asideFiles' = {}
    /\ Return
    /\ outcome' = [outcome EXCEPT !.returned = "restored"]
    /\ UNCHANGED <<db, files, backups, upload, day, made, faults, committed>>

-----------------------------------------------------------------------------
(* Faults. *)

Fault(steps) == job.at \in steps /\ faults < MaxFaults /\ faults' = faults + 1

\* A call of CreateServerBackup or of the staging fails; what is published
\* stays.
BackupFails ==
    /\ Fault(FaultAt \cap {"snapshot", "walk", "verify", "rotate", "stage", "database"})
    /\ Return
    /\ outcome' = IF At("database") THEN [outcome EXCEPT !.returned = "failed"] ELSE outcome
    /\ UNCHANGED <<paths, backups, upload, day, made, committed>>

\* A rename fails: the deferred function puts the database back, and the blobs
\* when they had been moved.
Rollback ==
    /\ Fault(FaultAt \cap {"blobs", "publish", "published"})
    /\ db' = asideDb /\ asideDb' = {}
    /\ IF At("blobs") THEN UNCHANGED <<files, asideFiles>>
       ELSE files' = asideFiles /\ asideFiles' = {}
    /\ Return
    /\ outcome' = [outcome EXCEPT !.returned = "failed"]
    /\ UNCHANGED <<backups, upload, day, made, committed>>

\* A rollback copy cannot be removed: the restore is complete all the same.
CleanFails ==
    /\ Fault(FaultAt \cap {"clean"})
    /\ Return
    /\ outcome' = [outcome EXCEPT !.returned = "restored"]
    /\ UNCHANGED <<paths, backups, upload, day, made, committed>>

\* A step of the blob store fails, and what was moved is moved back.
BlobFails ==
    /\ "blob" \in FaultAt /\ upload # {} /\ faults < MaxFaults
    /\ faults' = faults + 1
    /\ files' = IF process = "gc" THEN {Content(files) \cup upload} ELSE {Content(files) \ upload}
    /\ upload' = {} /\ writeMu' = "free"
    /\ UNCHANGED <<db, asideDb, asideFiles, backups, process, job, day, made, committed, outcome>>

Crash ==
    /\ process # "down" /\ faults < MaxFaults
    /\ job.at \in CrashAt
    /\ upload # {} => process \in CrashAt
    /\ faults' = faults + 1
    /\ process' = "down" /\ job' = Idle /\ writeMu' = "free" /\ upload' = {}
    /\ outcome' = NoRestore
    /\ UNCHANGED <<paths, backups, day, made, committed>>

Next ==
    \/ Serve \/ Listen \/ runBackupScheduler \/ Close \/ Tick
    \/ \E b \in Blob : CompleteBlob(b) \/ CollectMove(b) \/ WalkFile(b)
    \/ CompleteCommit \/ CollectCommit
    \/ Snapshot \/ PublishBackup \/ VerifyPublished \/ RemoveExcess \/ Rotated
    \/ \E command \in {"backup", "restore", "gc"} : runCommand(command)
    \/ StageRestore \/ MoveDatabase \/ MoveBlobs \/ PublishDatabase \/ PublishBlobs \/ CleanRestore
    \/ BackupFails \/ Rollback \/ CleanFails \/ BlobFails \/ Crash

Spec == Init /\ [][Next]_vars

-----------------------------------------------------------------------------
(* Properties. *)

\* Every complete blob of the database has its files whenever requests are
\* served: an interrupted upload leaves files without a row, never a row
\* without files, and a restore swaps both or none.
ServesWhole == process = "serving" => Content(db) \subseteq Content(files)

\* When the restore command returns, database and blobs are those of the
\* backup, or both are those it found.
RestoreAllOrNothing ==
    process = "down" =>
      /\ outcome.returned = "restored" => \A b \in outcome.source : db = {b.rows} /\ files = {b.files}
      /\ outcome.returned = "failed" => \A b \in outcome.before : db = b.db /\ files = b.files

\* A blob that was completed and not collected is in the live database, or with
\* its files in a backup that verifies, wherever a restore was interrupted.
CommittedRecoverable ==
    \A c \in committed :
      c \in Content(db) \/ \E b \in backups : Verifies(b) /\ c \in b.rows

=============================================================================
