---------------------------- MODULE AttachmentSync ----------------------------
(***************************************************************************)
(* Attachments on several devices: the catalog row, the published blob     *)
(* file, the reference a note holds, the copy on the server, and the       *)
(* encrypted catalog that devices exchange inside snapshots.               *)
(*   core/account/attachments.go      AddAttachment, RemoveAttachment      *)
(*   core/account/attachment_sync.go  SynchronizeWorkspaceAttachments      *)
(*   core/account/gc.go               RunGarbageCollection, blobs only     *)
(*   core/store/attachments.go, blob.go                                    *)
(*   desktop/sync.go                  the worker's snapshot hooks          *)
(*                                                                         *)
(* A blob stands for one plaintext of the workspace: its identity is the   *)
(* content address.  Each encryption of it takes fresh nonces, so that the *)
(* file and the manifest are numbered by a version: two encryptions of the *)
(* same plaintext agree on the blob and differ in the version.  There is   *)
(* one note, and one register for each blob it may refer to.               *)
(***************************************************************************)
EXTENDS Integers, Sequences, SequencesExt, FiniteSets

CONSTANTS Devices,
          Blobs,        \* naturals: ListAttachments is walked in this order
          Adders,       \* Adders[b]: the devices whose user attaches b
          Serial,       \* TRUE: one command, cycle or collection at a time
          Collecting,   \* TRUE: the user runs the local garbage collection
          MaxVersions, MaxClock, MaxFaults

VARIABLES db,       \* db[d]: rows, references, orphan marks, outbox, cursor
          file,     \* file[d][b]: the version published in the blob store, 0 none
          aged,     \* aged[d]: blobs whose file is older than the retention
          add,      \* add[d]: the AddAttachment in progress
          gc,       \* gc[d]: the garbage collection in progress
          work,     \* work[d]: the sync cycle in progress
          memo,     \* memo[d]: what the worker remembers between cycles
          log,      \* the server's operations
          remote,   \* remote[b]: the server's blob
          snap,     \* the newest snapshot on the server
          versions, clock, faults

vars == <<db, file, aged, add, gc, work, memo, log, remote, snap, versions, clock, faults>>

NoRow       == -1
Placeholder == 0
NoAdd       == [at |-> "idle", blob |-> 0, v |-> 0]
NoGC        == [at |-> "idle", todo |-> {}, blob |-> 0]
NoWork      == [at |-> "idle", base |-> 0, todo |-> {}, listed |-> <<>>, blob |-> 0,
                local |-> FALSE, cat |-> <<>>]
NoMemo      == [seq |-> 0, cat |-> <<>>, seen |-> 0]
EmptyDB     == [row    |-> [b \in Blobs |-> NoRow],
                ref    |-> [b \in Blobs |-> [on |-> FALSE, t |-> 0]],
                orphan |-> [b \in Blobs |-> "no"],
                out    |-> <<>>, cursor |-> 0]

Init == /\ db = [d \in Devices |-> EmptyDB]
        /\ file = [d \in Devices |-> [b \in Blobs |-> 0]]
        /\ aged = [d \in Devices |-> {}]
        /\ add = [d \in Devices |-> NoAdd]
        /\ gc = [d \in Devices |-> NoGC]
        /\ work = [d \in Devices |-> NoWork]
        /\ memo = [d \in Devices |-> NoMemo]
        /\ log = <<>>
        /\ remote = [b \in Blobs |-> [st |-> "none", v |-> 0]]
        /\ snap = [id |-> 0, base |-> 0, row |-> EmptyDB.row]
        /\ versions = 0 /\ clock = 0 /\ faults = 0

Resting(d) == add[d].at = "idle" /\ gc[d].at = "idle" /\ work[d].at = "idle"
MayStart   == Serial => \A d \in Devices : Resting(d)

-----------------------------------------------------------------------------
(* The attachment tables of one device, as functions from table to table.  *)

CreateAttachment(D, b, v) ==
    IF D.row[b] = NoRow \/ (D.row[b] = Placeholder /\ v > 0)
      THEN [D EXCEPT !.row[b] = v] ELSE D

EnsureAttachmentPlaceholder(D, b) ==
    IF D.row[b] = NoRow THEN [D EXCEPT !.row[b] = Placeholder, !.orphan[b] = "no"] ELSE D

reconcileAttachmentOrphan(D, b) ==
    [D EXCEPT !.orphan[b] = IF D.ref[b].on THEN "no" ELSE IF @ = "no" THEN "new" ELSE @]

SetNoteAttachment(D, b, on, t) ==
    reconcileAttachmentOrphan(
        IF t > D.ref[b].t THEN [D EXCEPT !.ref[b] = [on |-> on, t |-> t]] ELSE D, b)

DeleteAttachment(D, b) ==
    [D EXCEPT !.row[b] = NoRow, !.orphan[b] = "no", !.ref[b] = [on |-> FALSE, t |-> 0]]

ListOrphanedAttachments(D) == {b \in Blobs : D.row[b] # NoRow /\ D.orphan[b] = "old"}

applyMetadata(D, op) ==
    SetNoteAttachment(EnsureAttachmentPlaceholder(D, op.blob), op.blob, op.on, op.t)

\* Pulled operations after the cursor, up to a sequence number.
ApplyPage(D, upTo) ==
    IF upTo <= D.cursor THEN D
    ELSE [FoldLeft(applyMetadata, D, SubSeq(log, D.cursor + 1, upTo)) EXCEPT !.cursor = upTo]

\* commitNoteMetadata: the register and the outbox row in one transaction.
CommitReference(D, b, on, t) ==
    [SetNoteAttachment(D, b, on, t) EXCEPT !.out = Append(@, [blob |-> b, on |-> on, t |-> t])]

-----------------------------------------------------------------------------
(* AddAttachment: look, publish the file, record the row, commit.          *)

AddAttachment(d, b) ==
    /\ MayStart /\ add[d].at = "idle" /\ d \in Adders[b] /\ clock < MaxClock
    /\ \/ db[d].row[b] > 0
          /\ add' = [add EXCEPT ![d] = [at |-> "commit", blob |-> b, v |-> db[d].row[b]]]
          /\ UNCHANGED versions
       \/ db[d].row[b] <= Placeholder /\ file[d][b] = 0 /\ versions < MaxVersions
          /\ versions' = versions + 1
          /\ add' = [add EXCEPT ![d] = [at |-> "publish", blob |-> b, v |-> versions + 1]]
    /\ UNCHANGED <<db, file, aged, gc, work, memo, log, remote, snap, clock, faults>>

\* Publish finds the file of a download that finished meanwhile: nothing is
\* written, no chunk is recorded and the empty manifest is refused.
publishAttachment(d) ==
    LET b == add[d].blob IN
    /\ add[d].at = "publish"
    /\ IF file[d][b] = 0
         THEN /\ file' = [file EXCEPT ![d][b] = add[d].v]
              /\ add' = [add EXCEPT ![d].at = "record"]
         ELSE /\ add' = [add EXCEPT ![d] = NoAdd]
              /\ UNCHANGED file
    /\ UNCHANGED <<db, aged, gc, work, memo, log, remote, snap, versions, clock, faults>>

recordAttachment(d) ==
    /\ add[d].at = "record"
    /\ db' = [db EXCEPT ![d] = CreateAttachment(@, add[d].blob, add[d].v)]
    /\ add' = [add EXCEPT ![d].at = "commit"]
    /\ UNCHANGED <<file, aged, gc, work, memo, log, remote, snap, versions, clock, faults>>

\* The foreign key of note_attachments refuses a blob whose row is gone.
commitAttachment(d) ==
    /\ add[d].at = "commit"
    /\ add' = [add EXCEPT ![d] = NoAdd]
    /\ IF db[d].row[add[d].blob] = NoRow
         THEN UNCHANGED <<db, clock>>
         ELSE /\ clock' = clock + 1
              /\ db' = [db EXCEPT ![d] = CommitReference(@, add[d].blob, TRUE, clock + 1)]
    /\ UNCHANGED <<file, aged, gc, work, memo, log, remote, snap, versions, faults>>

RemoveAttachment(d, b) ==
    /\ MayStart /\ clock < MaxClock /\ db[d].ref[b].on
    /\ clock' = clock + 1
    /\ db' = [db EXCEPT ![d] = CommitReference(@, b, FALSE, clock + 1)]
    /\ UNCHANGED <<file, aged, add, gc, work, memo, log, remote, snap, versions, faults>>

-----------------------------------------------------------------------------
(* RunGarbageCollection: list the candidates, then collect one by one.     *)

Age(d) ==
    /\ Collecting /\ MayStart /\ Resting(d)
    /\ aged' = [aged EXCEPT ![d] = {b \in Blobs : file[d][b] # 0}]
    /\ db' = [db EXCEPT ![d].orphan = [b \in Blobs |-> IF @[b] = "new" THEN "old" ELSE @[b]]]
    /\ <<aged, db>>' # <<aged, db>>
    /\ UNCHANGED <<file, add, gc, work, memo, log, remote, snap, versions, clock, faults>>

RunGarbageCollection(d) ==
    /\ Collecting /\ MayStart /\ gc[d].at = "idle"
    /\ LET rowless == {b \in aged[d] : file[d][b] # 0 /\ db[d].row[b] = NoRow}
           found   == ListOrphanedAttachments(db[d]) \cup rowless
       IN /\ found # {}
          /\ gc' = [gc EXCEPT ![d] = [at |-> "row", todo |-> found, blob |-> 0]]
    /\ UNCHANGED <<db, file, aged, add, work, memo, log, remote, snap, versions, clock, faults>>

collectBlob(d) ==
    \/ /\ gc[d].at = "row"
       /\ \E b \in gc[d].todo :
            /\ db' = [db EXCEPT ![d] = DeleteAttachment(@, b)]
            /\ gc' = [gc EXCEPT ![d] = [at |-> "file", todo |-> @.todo \ {b}, blob |-> b]]
       /\ UNCHANGED <<file, aged>>
    \/ /\ gc[d].at = "file"
       /\ file' = [file EXCEPT ![d][gc[d].blob] = 0]
       /\ aged' = [aged EXCEPT ![d] = @ \ {gc[d].blob}]
       /\ gc' = [gc EXCEPT ![d] = IF @.todo = {} THEN NoGC ELSE [@ EXCEPT !.at = "row"]]
       /\ UNCHANGED db

CollectBlob(d) ==
    /\ collectBlob(d)
    /\ UNCHANGED <<add, work, memo, log, remote, snap, versions, clock, faults>>

-----------------------------------------------------------------------------
(* One sync cycle: pull, review, the attachment pass, push, publish.       *)

Cycle(d, next) == work' = [work EXCEPT ![d] = next]

Pull(d) ==
    /\ MayStart /\ work[d].at = "idle"
    /\ db' = [db EXCEPT ![d] = ApplyPage(@, Len(log))]
    /\ Cycle(d, [NoWork EXCEPT !.at = "review", !.base = Len(log)])
    /\ UNCHANGED <<file, aged, add, gc, memo, log, remote, snap, versions, clock, faults>>

\* The catalog before the operations, as ApplyWorkspaceSnapshot has it.
applySnapshotCatalog(D) ==
    [D EXCEPT !.row = [b \in Blobs |-> CreateAttachment(D, b, snap.row[b]).row[b]]]
ApplyWorkspaceSnapshot(D) == ApplyPage(applySnapshotCatalog(D), snap.base)

ReviewSnapshot(d) ==
    /\ work[d].at = "review"
    /\ IF snap.id \in {0, memo[d].seen}
         THEN UNCHANGED <<db, memo>>
         ELSE /\ db' = [db EXCEPT ![d] = ApplyWorkspaceSnapshot(@)]
              /\ memo' = [memo EXCEPT ![d].seen = snap.id]
    /\ Cycle(d, [work[d] EXCEPT !.at = "list"])
    /\ UNCHANGED <<file, aged, add, gc, log, remote, snap, versions, clock, faults>>

ListAttachments(d) ==
    /\ work[d].at = "list"
    /\ Cycle(d, [work[d] EXCEPT !.at = "next", !.listed = db[d].row,
                                !.todo = {b \in Blobs : db[d].row[b] > 0}])
    /\ UNCHANGED <<db, file, aged, add, gc, memo, log, remote, snap, versions, clock, faults>>

\* The outcome of one attachment: the next one, or the error that ends the
\* cycle before anything is pushed.
Done(d)   == [work[d] EXCEPT !.at = "next", !.todo = @ \ {work[d].blob}]
Failed    == NoWork
Version(d) == work[d].listed[work[d].blob]

BeginBlob(b, v) ==
    IF remote[b].st = "none" THEN [remote EXCEPT ![b] = [st |-> "staging", v |-> v]] ELSE remote

validateRemoteAttachment(b, v, server) == server[b].v = v

synchronizeAttachment(d) ==
    /\ work[d].at = "next" /\ work[d].todo # {}
    /\ LET b      == CHOOSE x \in work[d].todo : \A y \in work[d].todo : x <= y
           v      == work[d].listed[b]
           local  == file[d][b] # 0
           after  == IF local THEN BeginBlob(b, v) ELSE remote
           here   == [work[d] EXCEPT !.blob = b, !.local = local]
       IN /\ remote' = after
          /\ Cycle(d, IF \/ after[b].st = "none"
                         \/ ~validateRemoteAttachment(b, v, after)
                         \/ after[b].st # "complete" /\ ~local
                        THEN Failed
                      ELSE IF after[b].st # "complete" THEN [here EXCEPT !.at = "upload"]
                      ELSE IF local THEN [here EXCEPT !.at = "next", !.todo = @ \ {b}]
                      ELSE [here EXCEPT !.at = "download"])
    /\ UNCHANGED <<db, file, aged, add, gc, memo, log, snap, versions, clock, faults>>

\* The hash of every local chunk is compared before it is sent.
uploadAttachmentChunks(d) ==
    LET b == work[d].blob IN
    /\ work[d].at = "upload"
    /\ IF file[d][b] = Version(d)
         THEN /\ remote' = IF remote[b].st = "staging" THEN [remote EXCEPT ![b].st = "chunks"]
                                                      ELSE remote
              /\ Cycle(d, [work[d] EXCEPT !.at = "complete"])
         ELSE Cycle(d, Failed) /\ UNCHANGED remote
    /\ UNCHANGED <<db, file, aged, add, gc, memo, log, snap, versions, clock, faults>>

CompleteBlob(d) ==
    LET b == work[d].blob IN
    /\ work[d].at = "complete"
    /\ IF remote[b].st \in {"chunks", "complete"}
         THEN /\ remote' = [remote EXCEPT ![b].st = "complete"]
              /\ Cycle(d, IF work[d].local THEN Done(d) ELSE [work[d] EXCEPT !.at = "download"])
         ELSE Cycle(d, Failed) /\ UNCHANGED remote
    /\ UNCHANGED <<db, file, aged, add, gc, memo, log, snap, versions, clock, faults>>

\* Every chunk is compared with the manifest; Publish keeps a file that
\* appeared meanwhile.
downloadAttachmentChunks(d) ==
    LET b == work[d].blob IN
    /\ work[d].at = "download"
    /\ IF file[d][b] # 0
         THEN Cycle(d, Done(d)) /\ UNCHANGED file
         ELSE IF remote[b].st = "complete" /\ remote[b].v = Version(d)
         THEN Cycle(d, Done(d)) /\ file' = [file EXCEPT ![d][b] = remote[b].v]
         ELSE Cycle(d, Failed) /\ UNCHANGED file
    /\ UNCHANGED <<db, aged, add, gc, memo, log, remote, snap, versions, clock, faults>>

\* The operations go out before the attachments.
PushFirst(d) ==
    /\ work[d].at = "next"
    /\ log' = log \o db[d].out
    /\ db' = [db EXCEPT ![d].out = <<>>]
    /\ Cycle(d, IF work[d].base = 0 THEN NoWork ELSE [work[d] EXCEPT !.at = "publish"])
    /\ UNCHANGED <<file, aged, add, gc, memo, remote, snap, versions, clock, faults>>

Push(d) ==
    /\ work[d].at = "next" /\ work[d].todo = {}
    /\ log' = log \o db[d].out
    /\ db' = [db EXCEPT ![d].out = <<>>]
    /\ Cycle(d, IF work[d].base = 0 THEN NoWork ELSE [work[d] EXCEPT !.at = "publish"])
    /\ UNCHANGED <<file, aged, add, gc, memo, remote, snap, versions, clock, faults>>

HasPendingSyncPlaceholders(D) == \E b \in Blobs : D.row[b] = Placeholder
WorkspaceCatalogDigest(D) == <<D.row, D.orphan>>

\* A change of the catalog alone is not published.
PublishSnapshotOnce(d) ==
    /\ work[d].at = "publish"
    /\ Cycle(d, IF HasPendingSyncPlaceholders(db[d]) \/ memo[d].seq # 0 THEN NoWork
                ELSE [work[d] EXCEPT !.at = "put", !.cat = WorkspaceCatalogDigest(db[d])])
    /\ UNCHANGED <<db, file, aged, add, gc, memo, log, remote, snap, versions, clock, faults>>

PublishSnapshot(d) ==
    /\ work[d].at = "publish"
    /\ Cycle(d, IF \/ HasPendingSyncPlaceholders(db[d])
                   \/ memo[d].seq # 0 /\ memo[d].cat = WorkspaceCatalogDigest(db[d])
                  THEN NoWork
                  ELSE [work[d] EXCEPT !.at = "put", !.cat = WorkspaceCatalogDigest(db[d])])
    /\ UNCHANGED <<db, file, aged, add, gc, memo, log, remote, snap, versions, clock, faults>>

\* CreateWorkspaceSnapshot and PutSnapshot.  The newest snapshot is the one
\* with the largest base; of equal ones the one stored last.
PutSnapshot(d) ==
    /\ work[d].at = "put"
    /\ LET newest == db[d].cursor >= snap.base
           seen   == IF newest THEN snap.id + 1 ELSE 0
       IN /\ snap' = IF newest THEN [id |-> seen, base |-> db[d].cursor, row |-> db[d].row] ELSE snap
          /\ memo' = [memo EXCEPT ![d] = [seq |-> work[d].base, cat |-> work[d].cat, seen |-> seen]]
    /\ Cycle(d, NoWork)
    /\ UNCHANGED <<db, file, aged, add, gc, log, remote, versions, clock, faults>>

-----------------------------------------------------------------------------
\* The process dies: what is in memory is lost, the database and files stay.
Crash(d) ==
    /\ faults < MaxFaults /\ faults' = faults + 1
    /\ add' = [add EXCEPT ![d] = NoAdd] /\ gc' = [gc EXCEPT ![d] = NoGC]
    /\ work' = [work EXCEPT ![d] = NoWork] /\ memo' = [memo EXCEPT ![d] = NoMemo]
    /\ UNCHANGED <<db, file, aged, log, remote, snap, versions, clock>>

AddStep(d)   == publishAttachment(d) \/ recordAttachment(d) \/ commitAttachment(d)
CycleStep(d) == \/ ReviewSnapshot(d) \/ ListAttachments(d) \/ synchronizeAttachment(d)
                \/ uploadAttachmentChunks(d) \/ CompleteBlob(d) \/ downloadAttachmentChunks(d)
                \/ Push(d) \/ PublishSnapshot(d) \/ PutSnapshot(d)

Next == \E d \in Devices :
            \/ \E b \in Blobs : AddAttachment(d, b) \/ RemoveAttachment(d, b)
            \/ AddStep(d) \/ Age(d) \/ RunGarbageCollection(d) \/ CollectBlob(d)
            \/ Pull(d) \/ CycleStep(d) \/ Crash(d)

Spec == Init /\ [][Next]_vars

\* A started command or cycle goes on; the worker's timer starts cycles.
Fairness == \A d \in Devices : /\ WF_vars(AddStep(d) \/ CollectBlob(d))
                               /\ WF_vars(CycleStep(d)) /\ SF_vars(Pull(d))
FairSpec == Spec /\ Fairness

-----------------------------------------------------------------------------

\* Publish before reference, delete in the reverse order (gc.go collectBlob):
\* the file a device has published for a catalogued attachment is the one its
\* manifest describes, so that what is on disk can be decrypted.
FileMatchesRow ==
    \A d \in Devices, b \in Blobs :
        db[d].row[b] > 0 /\ file[d][b] # 0 => file[d][b] = db[d].row[b]

\* attachment_sync.go: a note reference on the server is preceded by the
\* complete ciphertext, so that no device sees a reference it cannot fetch
\* (unless a later operation on the server has taken the reference back).
ReferencesFetchable ==
    \A i \in DOMAIN log :
        log[i].on /\ (\A j \in DOMAIN log : log[j].blob = log[i].blob => log[j].t <= log[i].t)
            => remote[log[i].blob].st = "complete"

\* Once nothing is edited any more, every attachment a note refers to is on
\* every device, and every outbox is empty.
Available(d, b) == db[d].ref[b].on => file[d][b] # 0 /\ file[d][b] = db[d].row[b]
AttachmentsArrive ==
    <>[](\A d \in Devices : db[d].out = <<>> /\ \A b \in Blobs : Available(d, b))

===============================================================================
