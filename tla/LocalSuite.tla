----------------------------- MODULE LocalSuite -----------------------------
(***************************************************************************)
(* The data of one device as one specification: backups and restores, the  *)
(* notes of a workspace, and the account's own files.  A behaviour belongs *)
(* to one profile, chosen at the start; variables that its component does  *)
(* not have are NotUsed.                                                   *)
(*                                                                         *)
(*   backup_safe    faults that every property of a restore withstands     *)
(*   backup_any     faults and crashes in the phases the constants name    *)
(*   notes_deep     the notes, in two profiles whose bounds differ         *)
(*   notes_wide                                                            *)
(*   account        crashes, and calls that fail once a schema is there    *)
(*   account_any    every step may fail and a written file may be torn     *)
(***************************************************************************)
EXTENDS HLC

CONSTANTS
    None,                                                        \* no file; no note row
    Edit, Retention, MaxBackups, MaxBackupFaults,                \* BackupRestore
    FaultPhases, CrashPhases,       \* phases in which a step may fail, and the process die
    SafeFaults, SafeCrashes,        \* those of backup_safe, which has one fault
    Device, Note, NoteRetention, Creators, MaxOps, MaxWall, MaxNoteFaults, \* NoteReplica
    MaxKey, MaxVersion, AccountFaults, MaxAccountFaults,         \* AccountFiles
    MaxCleanFaults                  \* bound: faults of profile account

VARIABLES profile,
          file, envelope, set, conn, op, pc, target, staged, victim, oldEnvelope, made, kind, before,
          result, committed, listed, faults,
          clock, saved, notes, rows, outbox, log, cursor, candidates, collected,
          db, unlock, copies, blobs, newest, session, job, drawn, account, used

Backups == INSTANCE BackupRestore WITH
    MaxFaults <- MaxBackupFaults, EditsDuringRestore <- FALSE, FaultAt <- FaultPhases, CrashAt <- CrashPhases
Replica == INSTANCE NoteReplica WITH
    Retention <- NoteRetention, MaxFaults <- MaxNoteFaults,
    Kinds <- {"deleted", "notebook", "tag", "flags"}, Features <- {"gc", "revision"}
Account == INSTANCE AccountFiles WITH Faulty <- AccountFaults, MaxFaults <- MaxAccountFaults

\* The phases of RestoreWhole between the first rename and the opened database,
\* and of its rollback.
SwapPhases == {"aside", "envelope", "open", "undo", "putback", "oldenvelope", "reopen"}

\* A database file.
Database == [edits : SUBSET Edit, rows : SUBSET (1..MaxBackups), corrupt : SUBSET (1..MaxBackups), key : Nat]

ASSUME LocalConstants ==
    /\ MaxBackups \in Nat /\ MaxKey \in Nat /\ MaxWall \in Nat
    /\ None \notin Nat /\ None \notin Database
    /\ CrashPhases \cap SwapPhases = {}
    /\ SafeFaults \cap {"close", "read", "register", "reregister"} = {}
    /\ Device \subseteq Nat \ {0}

NotUsed == 0

backupOnly == <<file, set, conn, op, pc, target, staged, victim, oldEnvelope, made, kind, before,
                result, committed, listed>>
notesOnly == <<clock, saved, notes, rows, outbox, log, cursor, candidates, collected>>
accountOnly == <<db, unlock, copies, blobs, newest, session, job, drawn, account, used>>
vars == <<profile, envelope, faults, backupOnly, notesOnly, accountOnly>>

NoBackup ==
    /\ file = NotUsed /\ set = NotUsed /\ conn = NotUsed /\ op = NotUsed /\ pc = NotUsed
    /\ target = NotUsed /\ staged = NotUsed /\ victim = NotUsed /\ oldEnvelope = NotUsed
    /\ made = NotUsed /\ kind = NotUsed /\ before = NotUsed /\ result = NotUsed
    /\ committed = NotUsed /\ listed = NotUsed
NoNotes ==
    /\ clock = NotUsed /\ saved = NotUsed /\ notes = NotUsed /\ rows = NotUsed /\ outbox = NotUsed
    /\ log = NotUsed /\ cursor = NotUsed /\ candidates = NotUsed /\ collected = NotUsed
NoAccount ==
    /\ db = NotUsed /\ unlock = NotUsed /\ copies = NotUsed /\ blobs = NotUsed /\ newest = NotUsed
    /\ session = NotUsed /\ job = NotUsed /\ drawn = NotUsed /\ account = NotUsed /\ used = NotUsed

Restoring == profile \in {"backup_safe", "backup_any"}
Notes == profile \in {"notes_deep", "notes_wide"}
Accounts == profile \in {"account", "account_any"}

\* One fault, in a phase whose failure or crash leaves a restore complete.
SafeStep ==
    faults' # faults =>
        /\ faults' = 1
        /\ IF pc' = "down" THEN pc \in SafeCrashes ELSE pc \in SafeFaults

\* A crash that tears no file, or a call that fails after the migrations.
CleanStep ==
    faults' # faults =>
        /\ faults' <= MaxCleanFaults
        /\ (Account!Crash /\ envelope' = envelope) \/ (Account!Fail /\ job.at \in {"insert", "load"})

LocalInit ==
    \/ Restoring /\ Backups!Init /\ NoNotes /\ NoAccount
    \/ Notes /\ Replica!Init /\ envelope = NotUsed /\ NoBackup /\ NoAccount
    \/ Accounts /\ Account!Init /\ NoBackup /\ NoNotes

RestoreNext ==
    /\ Restoring /\ Backups!Next /\ (profile = "backup_safe" => SafeStep)
    /\ UNCHANGED <<profile, notesOnly, accountOnly>>
NotesNext ==
    /\ Notes /\ Replica!Next
    /\ UNCHANGED <<profile, envelope, backupOnly, accountOnly>>
AccountNext ==
    /\ Accounts /\ Account!Next /\ (profile = "account" => CleanStep)
    /\ UNCHANGED <<profile, backupOnly, notesOnly>>

LocalNext == RestoreNext \/ NotesNext \/ AccountNext

LocalSpec == LocalInit /\ [][LocalNext]_vars
-----------------------------------------------------------------------------
\* A restore is atomic: a fault at any boundary leaves the complete original
\* database or the complete restored one with the envelope of its key, and when
\* RestoreWhole returns it is the one its result says, with a connection to it.
RestoreAtomic ==
    /\ Restoring => Backups!EitherDatabase
    /\ profile = "backup_safe" => Backups!AllOrNothing /\ Backups!Available

\* Every committed edit is in the live database or in a backup the user can
\* find, and a set that was reported can be found until it is removed.
EditsRecoverable == profile = "backup_safe" => Backups!EditsRecoverable /\ Backups!SetsDiscoverable

\* A replica is what its operations say: registers hold the latest write, the
\* body has every edit that no later deletion supersedes, and the search index
\* follows.
ReplicaFollowsOperations ==
    Notes => Replica!RegistersAreLatest /\ Replica!EditsAreKept /\ Replica!IndexInStep

\* A local command is never superseded by a write applied before it.
LocalEditTakesEffect == [][Notes => Replica!TakesEffect]_vars

\* An account that Create returned stays openable until it is wiped, a copy is on
\* disk before a migration changes it, and no crash leaves an encrypted database
\* without a record of its key.
AccountRecoverable ==
    /\ Accounts => Account!AccountKept /\ Account!CopiedBeforeMigration
    /\ profile = "account" => Account!KeyRecorded
=============================================================================
