----------------------------- MODULE MCReplication -----------------------------
(***************************************************************************)
(* What must reach every device in the end, for TLC: operations, expired   *)
(* uploads, attachments, snapshots and workspace keys, each component      *)
(* under its own fairness.  A behaviour belongs to one profile, chosen at  *)
(* the start; the variables of the other components stay at their initial  *)
(* values, and nothing is asked of them.                                   *)
(***************************************************************************)
EXTENDS Naturals, TLC

VARIABLES profile,
          members, latest, number, queued, sentSeq, notes, directory, position, applied, inbox,
          pc, from, answer, bad, batch, late,
          row, staging, final, trash, used, reserved, op, todo, mode, rotated, cut, faults,
          db, file, aged, add, gc, cycle, known, refs, remote, snap, versions, clock, crashes,
          seqOf, rows, old, compacted, snaps, active, recent, dev, work, memo, outages,
          keyId, member, envelope, signed, log, grant, held, pending, outbox, cursor, blocked, job,
          now, changes, failures

Synced == INSTANCE SyncLog WITH
    Device <- {"d1", "d2"}, Worker <- {"w1", "w2"}, Op <- {"n", "m"},
    HostOf <- ("w1" :> "d1") @@ ("w2" :> "d2"), Author <- ("n" :> "d1") @@ ("m" :> "d2"),
    BodyOp <- {"n"}, Target <- ("n" :> "n") @@ ("m" :> "n"), Founders <- {"d1", "d2"}, BatchSize <- 1,
    seqOf <- number, row <- queued, cursor <- position
Stored == INSTANCE BlobStorage WITH
    Users <- {"u1"}, Nobody <- "nobody", Blobs <- {1, 2}, Chunks <- {1}, Versions <- {1},
    OldKey <- {}, Refs <- {}, Quota <- 2, Faulty <- {"put", "complete", "sweep"}, MaxFaults <- 1
\* Two attachments; and one that a crash interrupts.
Attachments == INSTANCE AttachmentSync WITH
    Devices <- {"d1", "d2"}, Blobs <- {1, 2}, Adders <- (1 :> {"d1"}) @@ (2 :> {"d1"}), Serial <- TRUE,
    Collecting <- FALSE, MaxVersions <- 2, MaxClock <- 2, MaxFaults <- 0,
    work <- cycle, memo <- known, log <- refs, faults <- crashes
AttachmentsFaulty == INSTANCE AttachmentSync WITH
    Devices <- {"d1", "d2"}, Blobs <- {1, 2}, Adders <- (1 :> {"d1"}) @@ (2 :> {}), Serial <- TRUE,
    Collecting <- FALSE, MaxVersions <- 2, MaxClock <- 2, MaxFaults <- 1,
    work <- cycle, memo <- known, log <- refs, faults <- crashes
Snapshots == INSTANCE SnapshotLog WITH
    Devices <- {"d1", "d2"}, Founders <- {"d1"}, Ops <- {"o1"}, Author <- ("o1" :> "d1"),
    LongOutage <- FALSE, LocalGC <- TRUE, MaxSnaps <- 1, MaxFaults <- 0, faults <- outages
Keyed == INSTANCE WorkspaceKeys WITH
    Owner <- "own", Members <- {"m1"}, UI <- "ui", Concurrent <- FALSE, SameSecond <- FALSE,
    Faulty <- {"list", "rotate", "accept"}, MaxKey <- 3, MaxTime <- 9, MaxOps <- 0, MaxChanges <- 3,
    MaxFaults <- 1, current <- keyId, faults <- failures

syncVars == <<members, latest, number, queued, sentSeq, notes, directory, position, applied, inbox,
              pc, from, answer, bad, batch, late>>
blobVars == <<row, staging, final, trash, used, reserved, op, todo, mode, rotated, cut, faults>>
attachVars == <<db, file, aged, add, gc, cycle, known, refs, remote, snap, versions, clock, crashes>>
snapVars == <<seqOf, rows, old, compacted, snaps, active, recent, dev, work, memo, outages>>
keyVars == <<keyId, member, envelope, signed, log, grant, held, pending, outbox, cursor, blocked, job,
             now, changes, failures>>
vars == <<profile, syncVars, blobVars, attachVars, snapVars, keyVars>>

Init ==
    /\ profile \in {"sync", "blobs", "attachments", "attachments_faulty", "snapshots", "keys"}
    /\ Synced!Init /\ Stored!Init /\ Attachments!Init
    /\ Snapshots!Init /\ Keyed!Init /\ (profile # "keys" => keyId = 1)

Next ==
    /\ UNCHANGED profile
    /\ \/ /\ profile = "sync" /\ Synced!Next
          /\ UNCHANGED <<blobVars, attachVars, snapVars, keyVars>>
       \/ /\ profile = "blobs" /\ Stored!Next
          /\ UNCHANGED <<syncVars, attachVars, snapVars, keyVars>>
       \/ /\ \/ profile = "attachments" /\ Attachments!Next
             \/ profile = "attachments_faulty" /\ AttachmentsFaulty!Next
          /\ UNCHANGED <<syncVars, blobVars, snapVars, keyVars>>
       \/ /\ profile = "snapshots" /\ Snapshots!Next
          /\ UNCHANGED <<syncVars, blobVars, attachVars, keyVars>>
       \/ /\ profile = "keys" /\ Keyed!Next
          /\ UNCHANGED <<syncVars, blobVars, attachVars, snapVars>>

Is(p) == profile = p
Attaching == profile \in {"attachments", "attachments_faulty"}

Fairness ==
    /\ <>[][Is("sync") => Synced!Settled]_syncVars
    /\ \A w \in {"w1", "w2"} : WF_syncVars(Is("sync") /\ Synced!WorkerStep(w))
    /\ WF_blobVars(Is("blobs") /\ Stored!Step)
    /\ SF_blobVars(Is("blobs") /\ Stored!GarbageCollectBlobs)
    /\ \A d \in {"d1", "d2"} :
          /\ WF_attachVars(Attaching /\ (Attachments!AddStep(d) \/ Attachments!CollectBlob(d)))
          /\ WF_attachVars(Attaching /\ Attachments!CycleStep(d))
          /\ SF_attachVars(Attaching /\ Attachments!Pull(d))
          /\ WF_snapVars(Is("snapshots") /\ Snapshots!CycleStep(d))
    /\ \A t \in {"own", "m1", "ui"} : WF_keyVars(Is("keys") /\ Keyed!Continue(t))
    /\ \A u \in {"own", "m1"} :
          /\ SF_keyVars(Is("keys") /\ Keyed!Prepare(u))
          /\ WF_keyVars(Is("keys") /\ Keyed!RetryQuarantined(u))

Spec == Init /\ [][Next]_vars /\ Fairness
-----------------------------------------------------------------------------
\* Every operation is in the end applied on every device.
Convergence == Synced!Convergence

\* An upload that has expired is collected or completed.
ExpiredReleased == Stored!ExpiredReleased

\* Every referenced attachment reaches every device.
AttachmentsArrive == Attaching => Attachments!AttachmentsArrive

\* Every active device catches up, also past a compaction.
CatchesUp == profile = "snapshots" => Snapshots!CatchesUp

\* Every active member's device reaches the current key.
CurrentKeyReached == Keyed!CurrentKeyReached
=============================================================================
