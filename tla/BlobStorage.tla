---------------------------- MODULE BlobStorage ----------------------------
(***************************************************************************)
(* The server's storage of encrypted attachments: the blobs table, the     *)
(* chunk files of an upload (server/blob_store.go) and the offline         *)
(* collection of `beresta-server gc` (cmd/beresta-server/main.go).         *)
(*                                                                         *)
(* Every write takes Storage.writeMu, so at most one operation is under    *)
(* way (op); between its file step and its row step the process can die    *)
(* or the request can be cancelled.  The exclusive lock on the data        *)
(* directory keeps the gc command and the serving process apart (mode).    *)
(* Each chunk counts one byte; a version is one encryption of the content  *)
(* (the same content encrypted twice has the same blob identifier and      *)
(* other bytes).  Requests that change nothing are left out.               *)
(***************************************************************************)
EXTENDS Naturals, FiniteSets, FiniteSetsExt, Functions

CONSTANTS Users, Nobody, Blobs, Chunks, Versions,
          OldKey,     \* the versions encrypted under the first workspace key
          Refs,       \* reference identifiers
          Quota,      \* limits.user_quota_bytes
          Faulty,     \* the operations a fault may interrupt
          MaxFaults   \* bound: how many faults happen

VARIABLES row,        \* blobs, blob_chunks and blob_references, by blob
          staging, final, trash,  \* the chunk files of a blob in each place
          used, reserved,         \* users.used_bytes, users.reserved_bytes
          op,         \* the write under way and the blob it is about
          todo,       \* what the listing of the running collection returned
          mode,       \* "serving", "gc" (complete blobs), "sweep" (staging)
          rotated,    \* the workspace key has been rotated
          cut,        \* history: the writes a fault has interrupted, by kind and blob
          faults

vars == <<row, staging, final, trash, used, reserved, op, todo, mode, rotated, cut, faults>>
files == <<staging, final, trash>>

Size == Cardinality(Chunks)

NoFiles == [c \in {} |-> 0]
NoRow == [state |-> "none", owner |-> Nobody, version |-> 0, uploaded |-> {}, refs |-> {}, old |-> FALSE]
NoOp == [kind |-> "none", blob |-> 0, chunk |-> 0]

Init ==
    /\ row = [b \in Blobs |-> NoRow]
    /\ staging = [b \in Blobs |-> NoFiles] /\ final = staging /\ trash = staging
    /\ used = [u \in Users |-> 0] /\ reserved = used
    /\ op = NoOp /\ todo = {} /\ mode = "serving" /\ rotated = FALSE /\ cut = {} /\ faults = 0

Idle == op = NoOp /\ mode = "serving"
CurrentKey(v) == (v \in OldKey) # rotated

\* verifyChunkFile on every declared chunk: the files in a place are those
\* the row declares.
verifyChunkFiles(place, b) ==
    \A c \in Chunks : c \in DOMAIN place[b] /\ place[b][c] = row[b].version

----------------------------------------------------------------------------
(* Upload. *)

\* BeginBlob: the current key and the quota are checked, the bytes reserved.
BeginBlob(u, b, v) ==
    /\ Idle /\ CurrentKey(v)
    /\ row[b].state = "none"
    /\ used[u] + reserved[u] + Size <= Quota
    /\ reserved' = [reserved EXCEPT ![u] = @ + Size]
    /\ row' = [row EXCEPT ![b] = [NoRow EXCEPT !.state = "staging", !.owner = u, !.version = v]]
    /\ UNCHANGED <<files, used, op, todo, mode, rotated, cut, faults>>

\* PutBlobChunk of contents of version v: a file that is already there is
\* verified, otherwise writeAtomicChunk writes it.
PutBlobChunk(b, c, v) ==
    /\ Idle /\ row[b].state = "staging" /\ v = row[b].version
    /\ c \in DOMAIN staging[b] => staging[b][c] = v
    /\ staging' = [staging EXCEPT ![b] = [d \in DOMAIN @ \cup {c} |-> IF d = c THEN v ELSE @[d]]]
    /\ op' = [kind |-> "put", blob |-> b, chunk |-> c]
    /\ UNCHANGED <<row, final, trash, used, reserved, todo, mode, rotated, cut, faults>>

\* ... and then uploaded_at is set.
PutRecord ==
    /\ op.kind = "put"
    /\ row' = [row EXCEPT ![op.blob].uploaded = @ \cup {op.chunk}]
    /\ op' = NoOp
    /\ UNCHANGED <<files, used, reserved, todo, mode, rotated, cut, faults>>

\* CompleteBlob, the files: every chunk of the directory that will be
\* published is verified; a directory published before a fault is used again.
CompleteBlobUnverified(b) ==
    /\ Idle /\ row[b].state = "staging"
    /\ final' = IF final[b] # NoFiles THEN final ELSE [final EXCEPT ![b] = staging[b]]
    /\ staging' = IF final[b] # NoFiles THEN staging ELSE [staging EXCEPT ![b] = NoFiles]
    /\ op' = [kind |-> "complete", blob |-> b, chunk |-> 0]
    /\ UNCHANGED <<row, trash, used, reserved, todo, mode, rotated, cut, faults>>

CompleteBlob(b) ==
    /\ verifyChunkFiles(IF final[b] # NoFiles THEN final ELSE staging, b)
    /\ CompleteBlobUnverified(b)

\* CompleteBlob, the transaction: reserved bytes become used bytes.
CompleteCommitKeepsReservation ==
    /\ op.kind = "complete"
    /\ row' = [row EXCEPT ![op.blob].state = "complete", ![op.blob].old = FALSE]
    /\ used' = [used EXCEPT ![row[op.blob].owner] = @ + Size]
    /\ op' = NoOp
    /\ UNCHANGED <<files, reserved, todo, mode, rotated, cut, faults>>

CompleteCommit ==
    /\ op.kind = "complete"
    /\ row' = [row EXCEPT ![op.blob].state = "complete", ![op.blob].old = FALSE]
    /\ used' = [used EXCEPT ![row[op.blob].owner] = @ + Size]
    /\ reserved' = [reserved EXCEPT ![row[op.blob].owner] = @ - Size]
    /\ op' = NoOp
    /\ UNCHANGED <<files, todo, mode, rotated, cut, faults>>

\* SetBlobReferenced: a reference identifier is bound to one blob; the age of
\* an unreferenced blob starts with the removal of its last reference.
SetBlobReferenced(b, r, referenced) ==
    /\ Idle /\ row[b].state = "complete"
    /\ IF referenced THEN \A d \in Blobs : r \notin row[d].refs ELSE r \in row[b].refs
    /\ row' = [row EXCEPT ![b].refs = IF referenced THEN @ \cup {r} ELSE @ \ {r},
                          ![b].old = FALSE]
    /\ UNCHANGED <<files, used, reserved, op, todo, mode, rotated, cut, faults>>

\* GetBlob and ReadBlobChunk: what a download of one chunk answers.
ReadBlobChunk(b, c) ==
    IF row[b].state # "complete" \/ c \notin DOMAIN final[b] THEN "not_found"
    ELSE IF final[b][c] = row[b].version THEN "ok" ELSE "conflict"

----------------------------------------------------------------------------
(* Collection, with the server stopped. *)

\* GarbageCollectBlobs, the listing: complete and unreferenced for 30 days.
GarbageCollectBlobs ==
    /\ Idle /\ mode' = "gc"
    /\ todo' = {b \in Blobs : row[b].state = "complete" /\ row[b].refs = {} /\ row[b].old}
    /\ UNCHANGED <<row, files, used, reserved, op, rotated, cut, faults>>

\* collectBlob, the files: the directory is renamed into the trash.
CollectMove ==
    /\ mode = "gc" /\ op = NoOp /\ todo # {}
    /\ LET b == Min(todo) IN
         /\ final[b] # NoFiles
         /\ trash' = [trash EXCEPT ![b] = final[b]]
         /\ final' = [final EXCEPT ![b] = NoFiles]
         /\ op' = [kind |-> "collect", blob |-> b, chunk |-> 0]
    /\ UNCHANGED <<row, staging, used, reserved, todo, mode, rotated, cut, faults>>

\* collectBlob, the transaction, and the removal of the trash.
CollectCommit ==
    /\ op.kind = "collect"
    /\ LET b == op.blob IN
         /\ used' = [used EXCEPT ![row[b].owner] = @ - Size]
         /\ row' = [row EXCEPT ![b] = NoRow]
         /\ trash' = [trash EXCEPT ![b] = NoFiles]
         /\ cut' = cut \ {<<"collect", b>>}
         /\ todo' = todo \ {b}
    /\ op' = NoOp
    /\ UNCHANGED <<staging, final, reserved, mode, rotated, faults>>

\* collectBlob cannot rename a directory that is not there: the command ends
\* with an error, before the sweep of the staging uploads.
CollectMissing ==
    /\ mode = "gc" /\ op = NoOp /\ todo # {} /\ final[Min(todo)] = NoFiles
    /\ mode' = "serving" /\ todo' = {}
    /\ UNCHANGED <<row, files, used, reserved, op, rotated, cut, faults>>

\* Uploads that have a chunk are not listed.
GarbageCollectEmptyUploads ==
    /\ mode = "gc" /\ op = NoOp /\ todo = {}
    /\ mode' = "sweep"
    /\ todo' = {b \in Blobs : row[b].state = "staging" /\ row[b].old /\ row[b].uploaded = {}}
    /\ UNCHANGED <<row, files, used, reserved, op, rotated, cut, faults>>

\* GarbageCollectStagingBlobs, the listing: uploads begun 24 hours ago.
GarbageCollectStagingBlobs ==
    /\ mode = "gc" /\ op = NoOp /\ todo = {}
    /\ mode' = "sweep"
    /\ todo' = {b \in Blobs : row[b].state = "staging" /\ row[b].old}
    /\ UNCHANGED <<row, files, used, reserved, op, rotated, cut, faults>>

SweepFiles ==
    /\ mode = "sweep" /\ op = NoOp /\ todo # {}
    /\ staging' = [staging EXCEPT ![Min(todo)] = NoFiles]
    /\ final' = [final EXCEPT ![Min(todo)] = NoFiles]
    /\ op' = [kind |-> "sweep", blob |-> Min(todo), chunk |-> 0]
    /\ UNCHANGED <<row, trash, used, reserved, todo, mode, rotated, cut, faults>>

\* ... and the row deleted, its reservation released.
SweepCommit ==
    /\ op.kind = "sweep"
    /\ LET b == op.blob IN
         /\ reserved' = [reserved EXCEPT ![row[b].owner] = @ - Size]
         /\ row' = [row EXCEPT ![b] = NoRow]
         /\ cut' = {x \in cut : x[2] # b}
         /\ todo' = todo \ {b}
    /\ op' = NoOp
    /\ UNCHANGED <<files, used, mode, rotated, faults>>

\* The command ends and the server is started again.
Serve ==
    /\ mode = "sweep" /\ op = NoOp /\ todo = {}
    /\ mode' = "serving"
    /\ UNCHANGED <<row, files, used, reserved, op, todo, rotated, cut, faults>>

----------------------------------------------------------------------------
(* The environment. *)

\* The retention time of a row passes.
Age(b) ==
    /\ Idle /\ row[b].state # "none" /\ ~row[b].old
    /\ row' = [row EXCEPT ![b].old = TRUE]
    /\ UNCHANGED <<files, used, reserved, op, todo, mode, rotated, cut, faults>>

\* RotateWorkspaceKey, which is all the storage of blobs sees of it.
RotateKey ==
    /\ Idle /\ ~rotated /\ rotated' = TRUE
    /\ UNCHANGED <<row, files, used, reserved, op, todo, mode, cut, faults>>

\* The process dies between the file step and the row step of a write, or the
\* request is cancelled there.
Crash ==
    /\ faults < MaxFaults /\ op.kind \in Faulty
    /\ faults' = faults + 1
    /\ op' = NoOp /\ mode' = "serving" /\ todo' = {}
    /\ cut' = cut \cup {<<op.kind, op.blob>>}
    /\ UNCHANGED <<row, files, used, reserved, rotated>>

\* The transaction of collectBlob fails: the deferred rename undoes the move,
\* and the command ends with the error.
CollectFails ==
    /\ faults < MaxFaults /\ op.kind = "collect"
    /\ faults' = faults + 1
    /\ final' = [final EXCEPT ![op.blob] = trash[op.blob]]
    /\ trash' = [trash EXCEPT ![op.blob] = NoFiles]
    /\ op' = NoOp /\ mode' = "serving" /\ todo' = {}
    /\ UNCHANGED <<row, staging, used, reserved, rotated, cut>>

Step ==
    \/ PutRecord \/ CompleteCommit
    \/ CollectMove \/ CollectCommit \/ CollectMissing
    \/ GarbageCollectStagingBlobs \/ SweepFiles \/ SweepCommit \/ Serve

Next ==
    \/ Step \/ GarbageCollectBlobs \/ RotateKey \/ Crash \/ CollectFails
    \/ \E b \in Blobs :
        \/ \E u \in Users, v \in Versions : BeginBlob(u, b, v)
        \/ \E c \in Chunks, v \in Versions : PutBlobChunk(b, c, v)
        \/ CompleteBlob(b)
        \/ \E r \in Refs, referenced \in BOOLEAN : SetBlobReferenced(b, r, referenced)
        \/ Age(b)

Spec == Init /\ [][Next]_vars

\* A command that runs goes on, and the administrator runs gc again and again
\* (SF: requests keep the server busy in between).
Fairness == WF_vars(Step) /\ SF_vars(GarbageCollectBlobs)
FairSpec == Spec /\ Fairness

----------------------------------------------------------------------------
(* Properties. *)

\* The bytes charged to a user are those of the user's blobs, whatever was
\* interrupted: reserved while an upload is staging, used once it is complete,
\* and together never above the quota.
QuotaAccounted ==
    \A u \in Users :
        /\ reserved[u] = Size * Cardinality({b \in Blobs : row[b].state = "staging" /\ row[b].owner = u})
        /\ used[u] = Size * Cardinality({b \in Blobs : row[b].state = "complete" /\ row[b].owner = u})
        /\ used[u] + reserved[u] <= Quota

\* No file of an earlier upload survives its row, where a later upload of the
\* same content under other bytes would meet it; only when a fault falls
\* between the publication and the commit of CompleteBlob can a chunk that is
\* sent again be left behind in the staging directory.
FilesMatchRow ==
    \A b \in Blobs :
        /\ \A c \in DOMAIN final[b] : final[b][c] = row[b].version
        /\ <<"complete", b>> \notin cut => \A c \in DOMAIN staging[b] : staging[b][c] = row[b].version

\* A complete blob can be downloaded chunk by chunk, also after a fault at any
\* point of its upload; the exception is a blob whose collection a fault has
\* interrupted after the rename, which stays complete without its files.
CompleteReadable ==
    \A b \in Blobs :
        row[b].state = "complete" /\ b # op.blob /\ <<"collect", b>> \notin cut
            => \A c \in Chunks : ReadBlobChunk(b, c) = "ok"

\* A chunk that the server reports as uploaded is on disk, so that a client
\* that resumes may skip it; the exception is an upload whose sweep a fault has
\* interrupted.
UploadedOnDisk ==
    \A b \in Blobs :
        row[b].state = "staging" /\ b # op.blob /\ <<"sweep", b>> \notin cut
            => row[b].uploaded \subseteq DOMAIN staging[b] \cup DOMAIN final[b]

\* An upload that has expired is collected or completed, so that its
\* reservation is released.
ExpiredReleased ==
    \A b \in Blobs : (row[b].state = "staging" /\ row[b].old) ~> (row[b].state # "staging")

=============================================================================
