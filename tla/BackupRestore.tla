---------------------------- MODULE BackupRestore ----------------------------
(***************************************************************************)
(* Backups of the client database and its replacement by one of them       *)
(* (core/account/backup.go, core/account/restore.go).  A backup set is     *)
(* staged, published by a rename and then listed in the catalog, which is  *)
(* a table of the very database it describes.  RestoreWhole takes a safety *)
(* backup, prepares the chosen one under a fresh key, moves the live files *)
(* aside, and swaps database and key envelope, file by file.  Each file    *)
(* operation and each transaction is one step; a step may fail and the     *)
(* process may die at it.                                                  *)
(***************************************************************************)
EXTENDS Naturals, FiniteSets, FiniteSetsExt

CONSTANTS
    Edit,         \* changes the user makes, each once
    None,         \* no file, no content, no backup
    Retention,    \* dailyBackupRetention
    MaxBackups,   \* bound: backups made
    MaxFaults,    \* bound: failed steps and crashes together
    FaultAt,      \* phases whose file or database operation may fail
    CrashAt,      \* phases in which the process may die
    EditsDuringRestore   \* whether commands run beside RestoreWhole

VARIABLES
    \* ---- durable
    file,       \* path -> database or None (the -shm file holds no data)
    envelope,   \* the key that the key envelope wraps; None when torn
    set,        \* published backup sets: the database each holds, or None
    \* ---- the account object and its running operation
    conn,       \* a.db is an open connection to file["db"]
    op,         \* "manual", "daily" or "restore"
    pc,         \* the phase it is in
    target,     \* backup being restored
    staged,     \* content of the staging directory
    victim,     \* backup being rotated out
    oldEnvelope,\* envelope read before the swap
    \* ---- history
    made,       \* number of backups begun; the last one's identifier and key
    kind,       \* kind of each backup
    before,     \* the live database when RestoreWhole closed it
    result,     \* how the last operation ended
    committed,  \* edits whose transaction committed
    listed,     \* backups that have had a catalog row
    faults      \* failed steps and crashes so far

disk == <<file, envelope, set>>
running == <<op, target, staged, victim, oldEnvelope>>
history == <<made, kind, before, result, committed, listed>>
vars == <<disk, conn, pc, running, history, faults>>

Backup == 1..MaxBackups
Path == {"db", "wal", "db.aside", "wal.aside", "prepared"}

Init ==
    /\ file = [p \in Path |-> IF p = "db"
                 THEN [edits |-> {}, rows |-> {}, corrupt |-> {}, key |-> 0]
                 ELSE None]
    /\ envelope = 0
    /\ set = [b \in Backup |-> None]
    /\ conn = TRUE
    /\ op = "manual"
    /\ pc = "idle"
    /\ target = None
    /\ staged = None
    /\ victim = None
    /\ oldEnvelope = None
    /\ made = 0
    /\ kind = [b \in Backup |-> "manual"]
    /\ before = None
    /\ result = "none"
    /\ committed = {}
    /\ listed = {}
    /\ faults = 0

-----------------------------------------------------------------------------
Live == file["db"]

\* The step of phase p goes well ...
At(p) == pc = p /\ UNCHANGED faults

\* ... or fails.
FailsAt(p) ==
    /\ pc = p
    /\ p \in FaultAt
    /\ faults < MaxFaults
    /\ faults' = faults + 1

Return(r) == pc' = "idle" /\ result' = r

\* store.Open: the key fits, and a write-ahead log beside the database is its
\* own.
Opens ==
    /\ file["db"] # None
    /\ envelope = file["db"].key
    /\ file["wal"] \in {None, file["db"]}

\* A note command commits.  The session it took before RestoreWhole locked the
\* account serves it until the connection is closed.
Commit(e) ==
    /\ conn
    /\ e \notin committed
    /\ op = "restore" /\ pc # "idle" => EditsDuringRestore
    /\ committed' = committed \cup {e}
    /\ file' = [file EXCEPT !["db"].edits = @ \cup {e}]
    /\ before' = None
    /\ UNCHANGED <<envelope, set, conn, pc, running, made, kind, result,
                   listed, faults>>

-----------------------------------------------------------------------------
(***************************************************************************)
(* CreateBackup, alone, for the day or for a restore.                      *)
(***************************************************************************)
Begin(k, b) ==
    /\ At("idle")
    /\ conn
    /\ made < MaxBackups
    /\ made' = made + 1
    /\ kind' = [kind EXCEPT ![made + 1] = k]
    /\ op' = k
    /\ target' = b
    /\ pc' = "export"
    /\ before' = None
    /\ result' = "none"
    /\ UNCHANGED <<disk, conn, staged, victim, oldEnvelope, committed, listed>>

CreateManual == Begin("manual", None)

\* A day without a backup; on any other EnsureDailyBackup does nothing.
EnsureDaily == Begin("daily", None)

RestoreWhole(b) == Begin("restore", b) /\ b \in Live.rows

\* The export is a consistent snapshot; it cannot list the backup it becomes.
Export ==
    /\ At("export")
    /\ staged' = Live
    /\ pc' = "publish"
    /\ UNCHANGED <<disk, conn, op, target, victim, oldEnvelope, history>>

Publish ==
    /\ At("publish")
    /\ set' = [set EXCEPT ![made] = staged]
    /\ staged' = None
    /\ pc' = "catalog"
    /\ UNCHANGED <<file, envelope, conn, op, target, victim, oldEnvelope,
                   history>>

\* What follows a backup depends on who asked for it.
Proceed ==
    \/ op = "manual" /\ Return("ok")
    \/ op = "daily" /\ pc' = "rotate" /\ UNCHANGED result
    \/ op = "restore" /\ pc' = "verify" /\ UNCHANGED result

Catalog ==
    /\ At("catalog")
    /\ file' = [file EXCEPT !["db"].rows = @ \cup {made}]
    /\ listed' = listed \cup {made}
    /\ Proceed
    /\ UNCHANGED <<envelope, set, conn, running, made, kind, before,
                   committed>>

BackupFails ==
    /\ FailsAt("export") \/ FailsAt("publish") \/ FailsAt("catalog")
    /\ staged' = None
    /\ Return("failed")
    /\ UNCHANGED <<disk, conn, op, target, victim, oldEnvelope, made, kind,
                   before, committed, listed>>

(***************************************************************************)
(* rotateDailyBackups and VerifyBackup.                                    *)
(***************************************************************************)
ValidDaily == {b \in Live.rows \ Live.corrupt : kind[b] = "daily"}

Excess == {b \in ValidDaily :
             Cardinality({c \in ValidDaily : c > b}) >= Retention}

RotateRemove ==
    /\ At("rotate")
    /\ Excess # {}
    /\ victim' = Max(Excess)
    /\ set' = [set EXCEPT ![Max(Excess)] = None]
    /\ pc' = "unlist"
    /\ UNCHANGED <<file, envelope, conn, op, target, staged, oldEnvelope,
                   history>>

Unlist ==
    /\ At("unlist")
    /\ file' = [file EXCEPT !["db"].rows = @ \ {victim},
                            !["db"].corrupt = @ \ {victim}]
    /\ pc' = "rotate"
    /\ UNCHANGED <<envelope, set, conn, running, history>>

RotateDone ==
    /\ At("rotate")
    /\ Excess = {}
    /\ Return("ok")
    /\ UNCHANGED <<disk, conn, running, made, kind, before, committed, listed>>

\* RemoveAll may have removed part of the set: what is left verifies no more.
RotateFails ==
    /\ FailsAt("rotate") \/ FailsAt("unlist")
    /\ \/ pc = "rotate" /\ Excess # {} /\ set' = [set EXCEPT ![Max(Excess)] = None]
       \/ UNCHANGED set
    /\ Return("failed")
    /\ UNCHANGED <<file, envelope, conn, running, made, kind, before,
                   committed, listed>>

\* VerifyBackup of one row, as the pass at startup does for every row.
Classified(b) ==
    file' = [file EXCEPT !["db"].corrupt =
                IF set[b] = None THEN @ \cup {b} ELSE @ \ {b}]

VerifyBackup(b) ==
    /\ At("idle")
    /\ conn
    /\ b \in Live.rows
    /\ Classified(b)
    /\ before' = None
    /\ UNCHANGED <<envelope, set, conn, pc, running, made, kind, result,
                   committed, listed>>

-----------------------------------------------------------------------------
(***************************************************************************)
(* RestoreWhole after its safety backup.                                   *)
(***************************************************************************)
Verify ==
    /\ At("verify")
    /\ Classified(target)
    /\ \/ set[target] = None /\ Return("failed")
       \/ set[target] # None /\ pc' = "prepare" /\ UNCHANGED result
    /\ UNCHANGED <<envelope, set, conn, running, made, kind, before,
                   committed, listed>>

\* The decrypted snapshot, encrypted again under a fresh key.
Prepare ==
    /\ At("prepare")
    /\ file' = [file EXCEPT !["prepared"] = [set[target] EXCEPT !.key = made]]
    /\ pc' = "close"
    /\ UNCHANGED <<envelope, set, conn, running, history>>

PrepareFails ==
    /\ FailsAt("verify") \/ FailsAt("prepare")
    /\ Return("failed")
    /\ UNCHANGED <<disk, conn, running, made, kind, before, committed, listed>>

\* The connection ends; SQLite may or may not have folded its log away.
Closed ==
    /\ conn' = FALSE
    /\ before' = Live
    /\ \E w \in {None, Live} :
          file' = [file EXCEPT !["wal"] = w,
                               !["prepared"] = IF pc' = "idle" THEN None ELSE @]

CloseLive ==
    /\ At("close")
    /\ pc' = "read"
    /\ Closed
    /\ UNCHANGED <<envelope, set, running, made, kind, result, committed,
                   listed>>

\* sql.DB counts as closed also when Close reports an error.
CloseFails ==
    /\ FailsAt("close")
    /\ Return("failed")
    /\ Closed
    /\ UNCHANGED <<envelope, set, running, made, kind, committed, listed>>

ReadEnvelope ==
    /\ At("read")
    /\ oldEnvelope' = envelope
    /\ pc' = "aside"
    /\ UNCHANGED <<disk, conn, op, target, staged, victim, history>>

\* restoreDatabaseFile returns no connection and does not roll back.
ReadFails ==
    /\ FailsAt("read")
    /\ Return("failed")
    /\ file' = [file EXCEPT !["prepared"] = None]
    /\ UNCHANGED <<envelope, set, conn, running, made, kind, before,
                   committed, listed>>

Rename(from, to) == file' = [file EXCEPT ![from] = None, ![to] = file[from]]

\* First the database, then its log.
MoveAside ==
    /\ At("aside")
    /\ \/ Live # None /\ Rename("db", "db.aside")
       \/ Live = None /\ file["wal"] # None /\ Rename("wal", "wal.aside")
    /\ UNCHANGED <<envelope, set, conn, pc, running, history>>

Swap ==
    /\ At("aside")
    /\ Live = None /\ file["wal"] = None
    /\ Rename("prepared", "db")
    /\ pc' = "envelope"
    /\ UNCHANGED <<envelope, set, conn, running, history>>

WriteEnvelope ==
    /\ At("envelope")
    /\ envelope' = made
    /\ pc' = "open"
    /\ UNCHANGED <<file, set, conn, running, history>>

\* Mutant: a database that does not open is reported without a rollback.
OpenNoRollback ==
    /\ FailsAt("open")
    /\ Return("failed")
    /\ UNCHANGED <<disk, conn, running, made, kind, before, committed, listed>>

OpenFails ==
    /\ FailsAt("open")
    /\ pc' = "undo"
    /\ UNCHANGED <<disk, conn, running, history>>

\* A failed rename, or a failed write, which may leave the envelope torn.
SwapFails ==
    /\ FailsAt("aside") \/ FailsAt("envelope")
    /\ envelope' \in {envelope} \cup (IF pc = "envelope" THEN {None} ELSE {})
    /\ pc' = "undo"
    /\ UNCHANGED <<file, set, conn, running, history>>

\* The new database is open; the old files are removed.
OpenRestored ==
    /\ At("open")
    /\ Opens
    /\ conn' = TRUE
    /\ file' = [file EXCEPT !["db.aside"] = None, !["wal.aside"] = None]
    /\ pc' = "register"
    /\ UNCHANGED <<envelope, set, running, history>>

\* Mutant: the safety backup is not listed again.
RegisterForgotten ==
    /\ At("register")
    /\ pc' = "reregister"
    /\ UNCHANGED <<disk, conn, running, history>>

\* The restored catalog predates the safety backup ...
Register ==
    /\ At("register")
    /\ file' = [file EXCEPT !["db"].rows = @ \cup {made}]
    /\ pc' = "reregister"
    /\ UNCHANGED <<envelope, set, conn, running, history>>

\* ... and as a rule the backup it came from.
Reregister ==
    /\ At("reregister")
    /\ file' = [file EXCEPT !["db"].rows = @ \cup {target}]
    /\ Return("ok")
    /\ UNCHANGED <<envelope, set, conn, running, made, kind, before,
                   committed, listed>>

RegisterFails ==
    /\ FailsAt("register") \/ FailsAt("reregister")
    /\ Return("failed")
    /\ UNCHANGED <<disk, conn, running, made, kind, before, committed, listed>>

(***************************************************************************)
(* The rollback.  A second fault inside it is not modelled.                *)
(***************************************************************************)
\* The new database is removed if it had been moved into place.
Undo ==
    /\ At("undo")
    /\ \/ file["prepared"] # None /\ UNCHANGED file
       \/ file["prepared"] = None
          /\ file' = [file EXCEPT !["db"] = None, !["wal"] = None]
    /\ pc' = "putback"
    /\ UNCHANGED <<envelope, set, conn, running, history>>

PutBack ==
    /\ At("putback")
    /\ \/ file["db.aside"] # None /\ Rename("db.aside", "db")
       \/ file["db.aside"] = None /\ file["wal.aside"] # None
          /\ Rename("wal.aside", "wal")
    /\ UNCHANGED <<envelope, set, conn, pc, running, history>>

PutBackDone ==
    /\ At("putback")
    /\ file["db.aside"] = None /\ file["wal.aside"] = None
    /\ pc' = "oldenvelope"
    /\ UNCHANGED <<disk, conn, running, history>>

RestoreEnvelope ==
    /\ At("oldenvelope")
    /\ envelope' = oldEnvelope
    /\ pc' = "reopen"
    /\ UNCHANGED <<file, set, conn, running, history>>

Reopen ==
    /\ At("reopen")
    /\ conn' = Opens
    /\ file' = [file EXCEPT !["wal"] = IF Opens THEN None ELSE @,
                            !["prepared"] = None]
    /\ Return("failed")
    /\ UNCHANGED <<envelope, set, running, made, kind, before, committed,
                   listed>>

-----------------------------------------------------------------------------
(***************************************************************************)
(* The process dies and is started again.                                  *)
(***************************************************************************)
\* An envelope being written may be whole, untouched or torn, a set being
\* removed may be gone; an open database leaves its log, staging directories
\* are never used again.
Crash ==
    /\ pc \in CrashAt
    /\ faults < MaxFaults
    /\ faults' = faults + 1
    /\ \E w \in {None, Live} :
          file' = [file EXCEPT !["wal"] = IF conn THEN w ELSE @,
                               !["prepared"] = None]
    /\ envelope' \in {envelope} \cup
          (IF pc = "envelope" THEN {made, None}
           ELSE IF pc = "oldenvelope" THEN {oldEnvelope, None} ELSE {})
    /\ \/ UNCHANGED set
       \/ pc = "rotate" /\ Excess # {} /\ set' = [set EXCEPT ![Max(Excess)] = None]
    /\ conn' = FALSE
    /\ pc' = "down"
    /\ staged' = None
    /\ before' = None
    /\ result' = "none"
    /\ UNCHANGED <<op, target, victim, oldEnvelope, made, kind, committed,
                   listed>>

Restart ==
    /\ At("down")
    /\ Opens
    /\ conn' = TRUE
    /\ file' = [file EXCEPT !["wal"] = None]
    /\ pc' = "idle"
    /\ UNCHANGED <<envelope, set, running, history>>

BackupStep ==
    \/ CreateManual \/ EnsureDaily \/ Export \/ Publish \/ Catalog \/ BackupFails
    \/ RotateRemove \/ Unlist \/ RotateDone \/ RotateFails
    \/ \E b \in Backup : VerifyBackup(b)

RestoreStep ==
    \/ \E b \in Backup : RestoreWhole(b)
    \/ Verify \/ Prepare \/ PrepareFails \/ CloseLive \/ CloseFails
    \/ ReadEnvelope \/ ReadFails \/ MoveAside \/ Swap \/ WriteEnvelope \/ SwapFails
    \/ OpenRestored \/ OpenFails \/ Register \/ Reregister \/ RegisterFails
    \/ Undo \/ PutBack \/ PutBackDone \/ RestoreEnvelope \/ Reopen

Next ==
    \/ \E e \in Edit : Commit(e)
    \/ BackupStep \/ RestoreStep \/ Crash \/ Restart

Spec == Init /\ [][Next]_vars

-----------------------------------------------------------------------------
(***************************************************************************)
(* Properties.                                                             *)
(***************************************************************************)
\* A fault at any single boundary of restoreDatabaseFile leaves either the
\* complete original database or the complete restored one, never a mix, and
\* the envelope of its key.
EitherDatabase ==
    pc \in {"idle", "down"} =>
        /\ Opens
        /\ before # None => \/ Live = before
                            \/ Live.edits = set[target].edits /\ file["wal"] = None

\* RestoreWhole never returns without a connection, and a process that died
\* can be started again: the rollback always reopens a database, and what is
\* on disk opens with the envelope beside it.
Available ==
    /\ pc = "idle" => conn
    /\ pc = "down" => Opens

\* When RestoreWhole returns, the database is the restored one on success and
\* exactly the one it closed on failure, never a mix.
AllOrNothing ==
    pc = "idle" /\ before # None =>
        /\ result = "failed" => Live = before /\ file["wal"] \in {None, Live}
        /\ result = "ok" => Live.edits = set[target].edits

\* Backups found from the live catalog, and from the catalogs inside them.
Discoverable ==
    LET exists(b) == set[b] # None
        step[n \in 0..MaxBackups] ==
            IF n = 0 THEN {b \in Live.rows : exists(b)}
            ELSE step[n - 1] \cup
                 {b \in UNION {set[c].rows : c \in step[n - 1]} : exists(b)}
    IN step[MaxBackups]

\* No sequence of edits, backups, rotations and restores loses an edit: it is
\* in the live database or in a backup the user can find, since RestoreWhole
\* lists its safety backup in the database it has put in place.
EditsRecoverable ==
    pc = "idle" /\ conn =>
        \A e \in committed : \/ e \in Live.edits
                             \/ \E b \in Discoverable : e \in set[b].edits

\* A published set that CreateBackup or RestoreWhole has reported stays
\* discoverable until it is removed: neither a rotation, wherever it stops,
\* nor a restored older catalog hides a set that is still on disk.
SetsDiscoverable ==
    pc = "idle" /\ conn =>
        \A b \in listed : set[b] # None => b \in Discoverable
=============================================================================
