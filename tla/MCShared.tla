------------------------------ MODULE MCShared ------------------------------
(***************************************************************************)
(* What devices share through the server, for TLC: attachments, snapshots  *)
(* and the compacted log, workspace keys, the server's blobs, its sessions *)
(* under a transport two goroutines share, its rate limiter, invites, and  *)
(* the backups of its data.  Each behaviour is one of one profile, chosen  *)
(* at the start; a variable that the profile's component does not have     *)
(* stays at NotUsed.                                                       *)
(***************************************************************************)
EXTENDS ServerSuite, TLC

VARIABLES work, memo, log,
          revoked, challenges, sessions, issued, session, requests, caller, granted, calls,
          db, file, aged, add, gc, remote, snap, versions, clock,
          seqOf, rows, old, compacted, snaps, active, recent, dev,
          current, member, envelope, signed, grant, held, pending, outbox, cursor, blocked,
          job, changes,
          data, files, asideDb, asideFiles, backups, process, writeMu, upload, running, day, made,
          committed, outcome

Attachments == INSTANCE AttachmentSync WITH
    Devices <- {"d1", "d2"}, Blobs <- {1}, Adders <- (1 :> {"d1"}), Serial <- TRUE,
    Collecting <- TRUE, MaxVersions <- 2, MaxClock <- 2, MaxFaults <- 0

\* Two snapshots and the local collection; and one snapshot with a fault.
Authors == ("o1" :> "d1") @@ ("o2" :> "d2")
Snapshots == INSTANCE SnapshotLog WITH
    Devices <- {"d1", "d2"}, Founders <- {"d1"}, Ops <- {"o1", "o2"}, Author <- Authors,
    LongOutage <- FALSE, LocalGC <- TRUE, MaxSnaps <- 2, MaxFaults <- 0
SnapshotsFaulty == INSTANCE SnapshotLog WITH
    Devices <- {"d1", "d2"}, Founders <- {"d1"}, Ops <- {"o1", "o2"}, Author <- Authors,
    LongOutage <- FALSE, LocalGC <- FALSE, MaxSnaps <- 1, MaxFaults <- 1

\* Three users and no operations; two users and operations; and two changes
\* that may fall into the same second.
KeysShared == INSTANCE WorkspaceKeys WITH
    Owner <- "own", Members <- {"m1", "m2"}, UI <- "ui", Concurrent <- FALSE, SameSecond <- FALSE,
    Faulty <- {"list", "rotate"}, MaxKey <- 3, MaxTime <- 9, MaxOps <- 0, MaxChanges <- 3, MaxFaults <- 1
KeysRead == INSTANCE WorkspaceKeys WITH
    Owner <- "own", Members <- {"m1"}, UI <- "ui", Concurrent <- FALSE, SameSecond <- FALSE,
    Faulty <- {"list", "rotate"}, MaxKey <- 3, MaxTime <- 9, MaxOps <- 1, MaxChanges <- 3, MaxFaults <- 1
KeysTied == INSTANCE WorkspaceKeys WITH
    Owner <- "own", Members <- {"m1"}, UI <- "ui", Concurrent <- FALSE, SameSecond <- TRUE,
    Faulty <- {"list", "rotate"}, MaxKey <- 3, MaxTime <- 2, MaxOps <- 0, MaxChanges <- 3, MaxFaults <- 1

Auth == INSTANCE Sessions WITH
    Callers <- {"p1", "p2"}, MaxTokens <- 5, MaxTime <- 2, ChallengeTTL <- 1, SessionTTL <- 3,
    MaxFaults <- 0, MaxCalls <- 3

\* Faults and crashes that every property withstands; and a process that dies
\* anywhere, between the renames of a restore and of the collection included.
BackupFaults == {"snapshot", "walk", "verify", "rotate", "stage", "database", "blobs", "publish",
                 "published", "clean", "blob"}
BackupCrashes == {"idle", "serving", "snapshot", "walk", "verify", "rotate", "stage", "database", "clean"}
Server == INSTANCE ServerBackup WITH
    Blob <- {"x", "y"}, Keep <- 1, MaxBackups <- 3, MaxDays <- 2, MaxFaults <- 1,
    FaultAt <- BackupFaults, CrashAt <- BackupCrashes, db <- data, job <- running
ServerAny == INSTANCE ServerBackup WITH
    Blob <- {"x", "y"}, Keep <- 1, MaxBackups <- 3, MaxDays <- 2, MaxFaults <- 1,
    FaultAt <- BackupFaults, CrashAt <- BackupCrashes \cup {"blobs", "publish", "published", "gc"},
    db <- data, job <- running

authVars == <<revoked, challenges, sessions, issued, session, requests, caller, granted, calls>>
attachVars == <<db, file, aged, add, gc, remote, snap, versions, clock>>
snapVars == <<seqOf, rows, old, compacted, snaps, active, recent, dev>>
keyVars == <<current, member, envelope, signed, grant, held, pending, outbox, cursor, blocked, job, changes>>
backupVars == <<data, files, asideDb, asideFiles, backups, process, writeMu, upload, running, day, made,
                committed, outcome>>
vars == <<serverVars, work, memo, log, authVars, backupVars, attachVars, snapVars, keyVars>>

NoAuth == /\ revoked = NotUsed /\ challenges = NotUsed /\ sessions = NotUsed /\ issued = NotUsed
          /\ session = NotUsed /\ requests = NotUsed /\ caller = NotUsed /\ granted = NotUsed
          /\ calls = NotUsed
NoAttach == /\ db = NotUsed /\ file = NotUsed /\ aged = NotUsed /\ add = NotUsed /\ gc = NotUsed
            /\ remote = NotUsed /\ snap = NotUsed /\ versions = NotUsed /\ clock = NotUsed
NoSnap == /\ seqOf = NotUsed /\ rows = NotUsed /\ old = NotUsed /\ compacted = NotUsed
          /\ snaps = NotUsed /\ active = NotUsed /\ recent = NotUsed /\ dev = NotUsed
NoKey == /\ current = NotUsed /\ member = NotUsed /\ envelope = NotUsed /\ signed = NotUsed
         /\ grant = NotUsed /\ held = NotUsed /\ pending = NotUsed /\ outbox = NotUsed
         /\ cursor = NotUsed /\ blocked = NotUsed /\ job = NotUsed /\ changes = NotUsed
NoBackup == /\ data = NotUsed /\ files = NotUsed /\ asideDb = NotUsed /\ asideFiles = NotUsed
            /\ backups = NotUsed /\ process = NotUsed /\ writeMu = NotUsed /\ upload = NotUsed
            /\ running = NotUsed /\ day = NotUsed /\ made = NotUsed /\ committed = NotUsed
            /\ outcome = NotUsed
NoServer == NoBlob /\ NoLimit /\ NoEnrol
NoWork == work = NotUsed /\ memo = NotUsed

InitShared ==
    \/ /\ profile = "attachments" /\ Attachments!Init
       /\ NoSnap /\ NoKey /\ now = NotUsed
    \/ /\ \/ profile = "snapshots" /\ Snapshots!Init
          \/ profile = "snapshots_faulty" /\ SnapshotsFaulty!Init
       /\ NoAttach /\ NoKey /\ now = NotUsed /\ log = NotUsed
    \/ /\ \/ profile = "keys" /\ KeysShared!Init
          \/ profile = "keys_read" /\ KeysRead!Init
          \/ profile = "keys_tied" /\ KeysTied!Init
       /\ NoAttach /\ NoSnap /\ NoWork

Init ==
    \/ InitShared /\ NoServer /\ NoAuth /\ NoBackup
    \/ /\ \/ ServerInit /\ NoAuth /\ NoBackup
          \/ profile = "auth" /\ Auth!Init /\ NoServer /\ NoBackup
          \/ /\ profile \in {"server_backup", "server_backup_any"} /\ Server!Init
             /\ NoServer /\ NoAuth /\ now = NotUsed
       /\ NoAttach /\ NoSnap /\ NoKey /\ NoWork /\ log = NotUsed

NextShared ==
    \/ /\ profile = "attachments" /\ Attachments!Next
       /\ UNCHANGED <<snapVars, keyVars, now>>
    \/ /\ \/ profile = "snapshots" /\ Snapshots!Next
          \/ profile = "snapshots_faulty" /\ SnapshotsFaulty!Next
       /\ UNCHANGED <<attachVars, keyVars, now, log>>
    \/ /\ \/ profile = "keys" /\ KeysShared!Next
          \/ profile = "keys_read" /\ KeysRead!Next
          \/ profile = "keys_tied" /\ KeysTied!Next
       /\ UNCHANGED <<attachVars, snapVars, work, memo>>

keptVars == <<blobVars, limitVars, enrolVars>>
Next ==
    /\ UNCHANGED profile
    /\ \/ NextShared /\ UNCHANGED <<keptVars, authVars, backupVars>>
       \/ /\ \/ ServerNext /\ UNCHANGED <<authVars, backupVars>>
             \/ profile = "auth" /\ Auth!Next /\ UNCHANGED <<keptVars, backupVars>>
             \/ /\ \/ profile = "server_backup" /\ Server!Next
                   \/ profile = "server_backup_any" /\ ServerAny!Next
                /\ UNCHANGED <<keptVars, authVars, now>>
          /\ UNCHANGED <<attachVars, snapVars, keyVars, work, memo, log>>

Spec == Init /\ [][Next]_vars
-----------------------------------------------------------------------------
\* What a note refers to can be read: the file of a catalogued attachment is the
\* one its manifest describes, and the complete ciphertext is on the server
\* before a reference is.
AttachmentsReadable ==
    profile = "attachments" => Attachments!FileMatchesRow /\ Attachments!ReferencesFetchable

\* Every operation is kept, under one number: whatever was compacted, a device
\* at any cursor can still catch up, and no operation is numbered twice.
HistoryKept ==
    /\ profile = "snapshots" => Snapshots!HistoryRecoverable /\ Snapshots!NumberedOnce
    /\ profile = "snapshots_faulty" =>
          SnapshotsFaulty!HistoryRecoverable /\ SnapshotsFaulty!NumberedOnce

\* A revocation takes the current key from the member that was removed, or a
\* rotation is still owed, and from nobody else: the device that rotates can
\* read all the server accepted.
RotationSound ==
    /\ profile = "keys" => KeysShared!RotationOwed
    /\ profile = "keys_read" => KeysRead!RotationOwed /\ KeysRead!OwnerReads
    /\ profile = "keys_tied" => KeysTied!RotationOwed

\* Callers that share a transport do not make each other's requests fail, and a
\* revoked device has no session.
RefusedOnlyIfRevoked ==
    profile = "auth" => Auth!RefusedOnlyIfRevoked /\ Auth!RevokedHasNoSession

\* What a user completed is in the live database or in a backup that verifies;
\* a restore leaves database and blobs of one of them, or both as they were,
\* and a server that serves has the files of every complete blob.
ServerRecoverable ==
    /\ profile = "server_backup" =>
          /\ Server!CommittedRecoverable
          /\ Server!RestoreAllOrNothing /\ Server!ServesWhole
    /\ profile = "server_backup_any" => Server!CommittedRecoverable
=============================================================================
