----------------------------- MODULE BlobProofs -----------------------------
(***************************************************************************)
(* The rows, bytes and files of the server's blobs (BlobStorage), for      *)
(* every number of users, blobs, chunks and faults.                        *)
(***************************************************************************)
EXTENDS ServerSuite, FiniteSetTheorems, WellFoundedInduction, TLAPS

(***************************************************************************)
(* The server's blobs.                                                     *)
(***************************************************************************)
BlobRow == [state : {"none", "staging", "complete"}, owner : BlobUsers \cup {Nobody}, version : Versions \cup {0},
            uploaded : SUBSET Chunks, refs : SUBSET Refs, old : BOOLEAN]
BlobTypes ==
    /\ row \in [Blobs -> BlobRow]
    /\ \A b \in Blobs : row[b].state # "none" => row[b].owner \in BlobUsers
    /\ staging = [b \in Blobs |-> staging[b]]
    /\ final = [b \in Blobs |-> final[b]]
    /\ trash = [b \in Blobs |-> trash[b]]
    /\ used \in [BlobUsers -> Nat] /\ reserved \in [BlobUsers -> Nat]

\* The write under way and the listing of the running collection are about
\* blobs in the state they expect.
WriteExpects ==
    /\ \/ op = Stored!NoOp
       \/ /\ op.blob \in Blobs
          /\ \/ op.kind = "put" /\ mode = "serving" /\ row[op.blob].state = "staging" /\ op.chunk \in Chunks
             \/ op.kind = "complete" /\ mode = "serving" /\ row[op.blob].state = "staging"
             \/ op.kind = "collect" /\ mode = "gc" /\ row[op.blob].state = "complete"
             \/ op.kind = "sweep" /\ mode = "sweep" /\ row[op.blob].state = "staging"
    /\ mode \in {"serving", "gc", "sweep"}
    /\ todo \subseteq Blobs
    /\ mode = "serving" => todo = {}
    /\ mode = "gc" => \A b \in todo : row[b].state = "complete"
    /\ mode = "sweep" => \A b \in todo : row[b].state = "staging"
    /\ op.kind \in {"collect", "sweep"} => op.blob \in todo

StoredBlobs(state, u) == {b \in Blobs : row[b].state = state /\ row[b].owner = u}
Charged ==
    \A u \in BlobUsers :
        /\ reserved[u] = Cardinality(Chunks) * Cardinality(StoredBlobs("staging", u))
        /\ used[u] = Cardinality(Chunks) * Cardinality(StoredBlobs("complete", u))
        /\ used[u] + reserved[u] <= Quota

Writing(kind, b) == op.kind = kind /\ op.blob = b
FilesOf(b) ==
    /\ DOMAIN staging[b] \subseteq Chunks
    /\ \A c \in DOMAIN final[b] : final[b][c] = row[b].version
    /\ <<"complete", b>> \notin cut => \A c \in DOMAIN staging[b] : staging[b][c] = row[b].version
    /\ row[b].state = "none" => final[b] = Stored!NoFiles
    /\ row[b].state = "none" /\ <<"complete", b>> \notin cut => staging[b] = Stored!NoFiles
    /\ (row[b].state = "complete" \/ Writing("complete", b)) /\ <<"complete", b>> \notin cut
          => staging[b] = Stored!NoFiles
    /\ row[b].state = "staging" /\ ~Writing("complete", b) /\ <<"complete", b>> \notin cut
          => final[b] = Stored!NoFiles
    /\ Writing("put", b) => op.chunk \in DOMAIN staging[b]
    /\ Writing("complete", b) => Stored!verifyChunkFiles(final, b)
    /\ Writing("sweep", b) => staging[b] = Stored!NoFiles /\ final[b] = Stored!NoFiles
    /\ Writing("collect", b) =>
          /\ final[b] = Stored!NoFiles
          /\ \A c \in DOMAIN trash[b] : trash[b][c] = row[b].version
          /\ <<"collect", b>> \notin cut => Stored!verifyChunkFiles(trash, b)
    /\ row[b].state = "complete" /\ ~Writing("collect", b) /\ <<"collect", b>> \notin cut
          => Stored!verifyChunkFiles(final, b)
    /\ row[b].state = "staging" /\ ~Writing("sweep", b) /\ <<"sweep", b>> \notin cut
          => row[b].uploaded \subseteq DOMAIN staging[b] \cup DOMAIN final[b]
FilesTrue == \A b \in Blobs : FilesOf(b)

BlobInv == BlobTypes /\ WriteExpects /\ Charged /\ FilesTrue

\* A step that leaves the rows, the files and the write under way alone.
LEMMA FilesKept ==
    ASSUME FilesTrue, UNCHANGED <<row, staging, final, trash, cut, op>>
    PROVE  FilesTrue'
  <1> SUFFICES ASSUME NEW b \in Blobs, FilesOf(b) PROVE FilesOf(b)'
    BY Zenon DEF FilesTrue
  <1>1. \A kind : Writing(kind, b)' <=> Writing(kind, b)
    BY Zenon DEF Writing
  <1>2. /\ Stored!verifyChunkFiles(final, b)' <=> Stored!verifyChunkFiles(final, b)
        /\ Stored!verifyChunkFiles(trash, b)' <=> Stored!verifyChunkFiles(trash, b)
    BY Zenon DEF Stored!verifyChunkFiles
  <1> QED
    BY <1>1, <1>2, Zenon DEF FilesOf

\* An instance has its own copy of the operators of FiniteSets.
LEMMA StoredCardinality == \A S : Stored!Cardinality(S) = Cardinality(S)
  BY Zenon DEF Cardinality, Stored!Cardinality

\* The blob that a collection handles next is one of those it has listed.
LEMMA StoredMin == ASSUME NEW S \in SUBSET Nat, S # {} PROVE Stored!Min(S) \in S
  <1>1. PICK x \in S : \A y \in S : ~(<<y, x>> \in OpToRel(<, Nat))
    BY NatLessThanWellFounded, WFMin, Zenon
  <1>2. ASSUME NEW y \in S, y < x PROVE FALSE
    <2>1. <<y, x>> \in OpToRel(<, Nat)
      BY <1>2, Zenon DEF OpToRel
    <2> QED
      BY <1>1, <2>1, Zenon
  <1>3. \A y \in S : x \in Nat /\ y \in Nat /\ ~(y < x)
    BY <1>2, Zenon
  <1>4. \A y \in S : x <= y
    BY <1>3
  <1> QED
    BY <1>4, Zenon DEF Stored!Min

\* The store starts without rows and files.
LEMMA BlobInit == BlobConstants /\ Stored!Init => BlobInv
  <1> SUFFICES ASSUME BlobConstants, Stored!Init PROVE BlobInv
    OBVIOUS
  <1> USE DEF Stored!Init, Stored!NoRow, Stored!NoFiles
  <1>1. BlobTypes
    BY Zenon DEF BlobTypes, BlobRow
  <1>2. WriteExpects
    BY Zenon DEF WriteExpects, Stored!NoOp
  <1>3. FilesTrue
    BY DEF FilesTrue, FilesOf, Writing, Stored!NoOp
  <1>4. Charged
    <2> SUFFICES ASSUME NEW u \in BlobUsers
                 PROVE  /\ reserved[u] = Cardinality(Chunks) * Cardinality(StoredBlobs("staging", u))
                        /\ used[u] = Cardinality(Chunks) * Cardinality(StoredBlobs("complete", u))
                        /\ used[u] + reserved[u] <= Quota
      BY Zenon DEF Charged
    <2>1. StoredBlobs("staging", u) = {} /\ StoredBlobs("complete", u) = {}
      BY Zenon DEF StoredBlobs
    <2>2. Cardinality({}) = 0
      BY FS_EmptySet, Zenon
    <2>3. Cardinality(Chunks) \in Nat
      BY FS_CardinalityType, Zenon DEF BlobConstants
    <2>4. Cardinality(Chunks) * 0 = 0
      BY <2>3
    <2>5. used[u] = 0 /\ reserved[u] = 0
      OBVIOUS
    <2>6. Quota \in Nat
      BY Zenon DEF BlobConstants
    <2> HIDE DEF Stored!Init
    <2> QED
      BY <2>1, <2>2, <2>4, <2>5, <2>6
  <1> QED
    BY <1>1, <1>2, <1>3, <1>4, Zenon DEF BlobInv

\* The row that BeginBlob inserts.
LEMMA NewRow ==
    ASSUME NEW u \in BlobUsers, NEW v \in Versions
    PROVE  LET r == [Stored!NoRow EXCEPT !.state = "staging", !.owner = u, !.version = v] IN
           /\ r \in BlobRow /\ r.state = "staging" /\ r.owner = u /\ r.version = v /\ r.uploaded = {}
  <1>1. \A f \in BOOLEAN :
           LET r == [[state |-> "none", owner |-> Nobody, version |-> 0, uploaded |-> {}, refs |-> {}, old |-> f]
                        EXCEPT !.state = "staging", !.owner = u, !.version = v] IN
           /\ r \in BlobRow /\ r.state = "staging" /\ r.owner = u /\ r.version = v /\ r.uploaded = {}
    BY Zenon DEF BlobRow
  <1> QED
    BY <1>1, Zenon DEF Stored!NoRow

\* The row that a deletion leaves.
LEMMA NoRowForm ==
    /\ Stored!NoRow \in BlobRow /\ Stored!NoRow.state = "none" /\ Stored!NoRow.version = 0
    /\ Stored!NoRow.uploaded = {}
  BY Zenon DEF BlobRow, Stored!NoRow

\* The blobs that are charged to a user when one row changes.
LEMMA StoredBlobsChange ==
    ASSUME BlobConstants, BlobTypes, NEW b \in Blobs, NEW r, row' = [row EXCEPT ![b] = r], NEW u \in BlobUsers,
           NEW state \in {"staging", "complete"}
    PROVE  LET S == StoredBlobs(state, u)
               T == StoredBlobs(state, u)'
               was == row[b].state = state /\ row[b].owner = u
               is == r.state = state /\ r.owner = u
           IN  /\ Cardinality(S) \in Nat /\ Cardinality(T) \in Nat
               /\ (was <=> is) => T = S
               /\ is /\ ~was => Cardinality(T) = Cardinality(S) + 1
               /\ was /\ ~is => Cardinality(S) = Cardinality(T) + 1
  <1> DEFINE S == StoredBlobs(state, u)
             T == StoredBlobs(state, u)'
             was == row[b].state = state /\ row[b].owner = u
             is == r.state = state /\ r.owner = u
  <1>1. S \subseteq Blobs /\ T \subseteq Blobs
    BY Zenon DEF StoredBlobs
  <1>2. IsFiniteSet(S) /\ IsFiniteSet(T)
    BY <1>1, FS_Subset, Zenon DEF BlobConstants
  <1>3. Cardinality(S) \in Nat /\ Cardinality(T) \in Nat
    BY <1>2, FS_CardinalityType, Zenon
  <1>4. (b \in S <=> was) /\ (b \in T <=> is) /\ S \ {b} = T \ {b}
    BY Zenon DEF StoredBlobs, BlobTypes
  <1> HIDE DEF S, T, was, is
  <1>5. is /\ ~was => Cardinality(T) = Cardinality(S) + 1
    <2> SUFFICES ASSUME is, ~was PROVE Cardinality(T) = Cardinality(S) + 1
      OBVIOUS
    <2>1. T = S \cup {b} /\ b \notin S
      BY <1>4, Zenon
    <2> QED
      BY <1>2, <2>1, FS_AddElement, Zenon
  <1>6. was /\ ~is => Cardinality(S) = Cardinality(T) + 1
    <2> SUFFICES ASSUME was, ~is PROVE Cardinality(S) = Cardinality(T) + 1
      OBVIOUS
    <2>1. S = T \cup {b} /\ b \notin T
      BY <1>4, Zenon
    <2> QED
      BY <1>2, <2>1, FS_AddElement, Zenon
  <1>7. (was <=> is) => T = S
    BY <1>4
  <1>8. /\ Cardinality(S) \in Nat /\ Cardinality(T) \in Nat
        /\ (was <=> is) => T = S
        /\ is /\ ~was => Cardinality(T) = Cardinality(S) + 1
        /\ was /\ ~is => Cardinality(S) = Cardinality(T) + 1
    BY <1>3, <1>5, <1>6, <1>7, Zenon
  <1> QED
    BY <1>8, Zenon DEF S, T, was, is

Moved(u, b, r, state) == \* by how many blobs in a state user u changes
    (IF r.state = state /\ r.owner = u THEN 1 ELSE 0) - (IF row[b].state = state /\ row[b].owner = u THEN 1 ELSE 0)

\* One row changes, and the counters of every user change by what it moves.
LEMMA ChargeStep ==
    ASSUME BlobConstants, BlobTypes, Charged, NEW b \in Blobs, NEW r, row' = [row EXCEPT ![b] = r],
           \A u \in BlobUsers :
               /\ reserved'[u] = reserved[u] + Cardinality(Chunks) * Moved(u, b, r, "staging")
               /\ used'[u] = used[u] + Cardinality(Chunks) * Moved(u, b, r, "complete")
               /\ used'[u] + reserved'[u] <= used[u] + reserved[u] \/ used'[u] + reserved'[u] <= Quota
    PROVE  Charged'
  <1> SUFFICES ASSUME NEW u \in BlobUsers
               PROVE  /\ reserved'[u] = Cardinality(Chunks) * Cardinality(StoredBlobs("staging", u)')
                      /\ used'[u] = Cardinality(Chunks) * Cardinality(StoredBlobs("complete", u)')
                      /\ used'[u] + reserved'[u] <= Quota
    BY Zenon DEF Charged
  <1> DEFINE size == Cardinality(Chunks)
  <1>1. size \in Nat
    BY FS_CardinalityType, Zenon DEF BlobConstants
  <1>2. ASSUME NEW state \in {"staging", "complete"}
        PROVE  LET m == Moved(u, b, r, state) IN
               /\ m \in Int /\ Cardinality(StoredBlobs(state, u)) \in Nat /\ Cardinality(StoredBlobs(state, u)') \in Nat
               /\ Cardinality(StoredBlobs(state, u)') = Cardinality(StoredBlobs(state, u)) + m
    <2> DEFINE was == row[b].state = state /\ row[b].owner = u
               is == r.state = state /\ r.owner = u
    <2>1. /\ Cardinality(StoredBlobs(state, u)) \in Nat /\ Cardinality(StoredBlobs(state, u)') \in Nat
          /\ (was <=> is) => StoredBlobs(state, u)' = StoredBlobs(state, u)
          /\ is /\ ~was => Cardinality(StoredBlobs(state, u)') = Cardinality(StoredBlobs(state, u)) + 1
          /\ was /\ ~is => Cardinality(StoredBlobs(state, u)) = Cardinality(StoredBlobs(state, u)') + 1
      BY StoredBlobsChange, ZenonT(40)
    <2>2. Moved(u, b, r, state) = (IF is THEN 1 ELSE 0) - (IF was THEN 1 ELSE 0)
      BY Zenon DEF Moved
    <2> HIDE DEF was, is
    <2>3. CASE is /\ was
      BY <2>1, <2>2, <2>3
    <2>4. CASE is /\ ~was
      BY <2>1, <2>2, <2>4
    <2>5. CASE ~is /\ was
      BY <2>1, <2>2, <2>5
    <2>6. CASE ~is /\ ~was
      BY <2>1, <2>2, <2>6
    <2> QED
      BY <2>3, <2>4, <2>5, <2>6, ZenonT(40)
  <1>3. \A n \in Nat, m \in Int : n + m \in Nat => size * (n + m) = size * n + size * m
    BY <1>1
  <1>4. /\ reserved[u] = size * Cardinality(StoredBlobs("staging", u))
        /\ used[u] = size * Cardinality(StoredBlobs("complete", u))
        /\ used[u] + reserved[u] <= Quota
    BY Zenon DEF Charged
  <1>5. reserved'[u] = size * Cardinality(StoredBlobs("staging", u)')
    <2> DEFINE n == Cardinality(StoredBlobs("staging", u))
               p == Cardinality(StoredBlobs("staging", u)')
               m == Moved(u, b, r, "staging")
    <2>1. n \in Nat /\ p \in Nat /\ m \in Int /\ p = n + m
      BY <1>2, Zenon
    <2>2. reserved'[u] = size * n + size * m
      BY <1>4, Zenon
    <2>3. reserved'[u] = size * p
      <3> HIDE DEF n, p, m, size
      <3> QED
        BY <1>3, <2>1, <2>2, Zenon
    <2> QED
      BY <2>3, Zenon
  <1>6. used'[u] = size * Cardinality(StoredBlobs("complete", u)')
    <2> DEFINE n == Cardinality(StoredBlobs("complete", u))
               p == Cardinality(StoredBlobs("complete", u)')
               m == Moved(u, b, r, "complete")
    <2>1. n \in Nat /\ p \in Nat /\ m \in Int /\ p = n + m
      BY <1>2, Zenon
    <2>2. used'[u] = size * n + size * m
      BY <1>4, Zenon
    <2>3. used'[u] = size * p
      <3> HIDE DEF n, p, m, size
      <3> QED
        BY <1>3, <2>1, <2>2, Zenon
    <2> QED
      BY <2>3, Zenon
  <1>7. used[u] \in Nat /\ reserved[u] \in Nat /\ used'[u] \in Nat /\ reserved'[u] \in Nat /\ Quota \in Nat
    <2>1. \A n \in Nat : size * n \in Nat
      BY <1>1
    <2> QED
      BY <1>2, <1>5, <1>6, <2>1, Zenon DEF BlobTypes, BlobConstants
  <1>8. used'[u] + reserved'[u] <= Quota
    BY <1>4, <1>7
  <1> QED
    BY <1>5, <1>6, <1>8, Zenon

-----------------------------------------------------------------------------
\* Actions that write a row, by the row they write. BeginBlob's row r is an empty staging row.
Begun(u, b, v, r) == /\ row' = [row EXCEPT ![b] = r] /\ r.state = "staging" /\ r.owner = u
                     /\ r.version = v /\ r.uploaded = {}

LEMMA WritesBegin ==
    ASSUME BlobTypes, NEW u \in BlobUsers, NEW b \in Blobs, NEW v \in Versions, Stored!BeginBlob(u, b, v)
    PROVE  \E r \in BlobRow : Begun(u, b, v, r)
  <1> DEFINE r == [Stored!NoRow EXCEPT !.state = "staging", !.owner = u, !.version = v]
  <1>1. r \in BlobRow /\ r.state = "staging" /\ r.owner = u /\ r.version = v /\ r.uploaded = {}
    BY NewRow, Zenon
  <1>2. row' = [row EXCEPT ![b] = r]
    BY Zenon DEF Stored!BeginBlob
  <1> QED
    BY <1>1, <1>2, Zenon DEF Begun

\* ... and a row that keeps its state, owner and version.
Kept(b, r) == r.state = row[b].state /\ r.owner = row[b].owner /\ r.version = row[b].version

\* PutBlobChunk records the chunk.
LEMMA WritesPut ==
    ASSUME BlobTypes, WriteExpects, Stored!PutRecord
    PROVE  \E r \in BlobRow : /\ row' = [row EXCEPT ![op.blob] = r] /\ Kept(op.blob, r)
                              /\ r.uploaded = row[op.blob].uploaded \cup {op.chunk}
  <1>1. op.blob \in Blobs /\ op.chunk \in Chunks
    BY DEF WriteExpects, Stored!PutRecord, Stored!NoOp
  <1> DEFINE r == [row[op.blob] EXCEPT !.uploaded = @ \cup {op.chunk}]
  <1>2. r \in BlobRow /\ Kept(op.blob, r) /\ r.uploaded = row[op.blob].uploaded \cup {op.chunk}
    BY <1>1 DEF BlobTypes, BlobRow, Kept
  <1>3. row' = [row EXCEPT ![op.blob] = r]
    BY Zenon DEF Stored!PutRecord
  <1> QED
    BY <1>2, <1>3, Zenon

\* A change of the age, of the references or of the state gives a row.
LEMMA OldForms ==
    ASSUME NEW q \in BlobRow, NEW f \in BOOLEAN, NEW k \in SUBSET Refs
    PROVE  /\ LET r == [q EXCEPT !.old = f] IN
                r \in BlobRow /\ r.state = q.state /\ r.owner = q.owner /\ r.version = q.version
                /\ r.uploaded = q.uploaded
           /\ LET r == [[q EXCEPT !.refs = k] EXCEPT !.old = f] IN
                r \in BlobRow /\ r.state = q.state /\ r.owner = q.owner /\ r.version = q.version
                /\ r.uploaded = q.uploaded
           /\ LET r == [[q EXCEPT !.state = "complete"] EXCEPT !.old = f] IN
                r \in BlobRow /\ r.state = "complete" /\ r.owner = q.owner /\ r.version = q.version
                /\ r.uploaded = q.uploaded
  BY Zenon DEF BlobRow

\* The age of a row changes nothing else.
LEMMA WritesAge ==
    ASSUME BlobTypes, NEW b \in Blobs, Stored!Age(b)
    PROVE  \E r \in BlobRow : /\ row' = [row EXCEPT ![b] = r] /\ Kept(b, r) /\ r.uploaded = row[b].uploaded
  <1>1. row[b] \in BlobRow /\ row' = [row EXCEPT ![b] = [row[b] EXCEPT !.old = TRUE]]
    BY Zenon DEF BlobTypes, Stored!Age
  <1> QED
    BY <1>1, OldForms, Zenon DEF Kept

\* SetBlobReferenced changes the references and the age of a row.
LEMMA WritesReference ==
    ASSUME BlobTypes, NEW b \in Blobs, NEW k \in Refs, NEW on \in BOOLEAN, Stored!SetBlobReferenced(b, k, on)
    PROVE  \E r \in BlobRow : /\ row' = [row EXCEPT ![b] = r] /\ Kept(b, r) /\ r.uploaded = row[b].uploaded
  <1> DEFINE refs == IF on THEN row[b].refs \cup {k} ELSE row[b].refs \ {k}
  <1>1. row[b] \in BlobRow /\ refs \in SUBSET Refs
    BY Zenon DEF BlobTypes, BlobRow
  <1>2. row' = [row EXCEPT ![b] = [[row[b] EXCEPT !.refs = refs] EXCEPT !.old = FALSE]]
    BY ZenonT(40) DEF BlobTypes, Stored!SetBlobReferenced
  <1> HIDE DEF refs
  <1> DEFINE r == [[row[b] EXCEPT !.refs = refs] EXCEPT !.old = FALSE]
  <1>3. /\ r \in BlobRow /\ r.state = row[b].state /\ r.owner = row[b].owner
        /\ r.version = row[b].version /\ r.uploaded = row[b].uploaded
    BY <1>1, OldForms, ZenonT(40)
  <1> QED
    BY <1>2, <1>3, Zenon DEF Kept

\* CompleteBlob changes the state and the age of a row.
LEMMA WritesComplete ==
    ASSUME BlobTypes, op.blob \in Blobs, Stored!CompleteCommit
    PROVE  \E r \in BlobRow :
             /\ row' = [row EXCEPT ![op.blob] = r] /\ r.state = "complete" /\ r.owner = row[op.blob].owner
             /\ r.version = row[op.blob].version
  <1>1. /\ row[op.blob] \in BlobRow
        /\ row' = [row EXCEPT ![op.blob] = [[row[op.blob] EXCEPT !.state = "complete"] EXCEPT !.old = FALSE]]
    BY Zenon DEF BlobTypes, Stored!CompleteCommit
  <1> QED
    BY <1>1, OldForms, Zenon

-----------------------------------------------------------------------------
\* A well-formed row in place of another.
LEMMA RowTypes ==
    ASSUME BlobTypes, NEW b \in Blobs, NEW r \in BlobRow, row' = [row EXCEPT ![b] = r],
           r.state # "none" => r.owner \in BlobUsers
    PROVE  /\ row' \in [Blobs -> BlobRow] /\ row'[b] = r /\ \A d \in Blobs \ {b} : row'[d] = row[d]
           /\ \A d \in Blobs : row'[d].state # "none" => row'[d].owner \in BlobUsers
  BY Zenon DEF BlobTypes

\* The types, the write under way and the listing.
LEMMA BlobShapes ==
    ASSUME BlobConstants, BlobTypes, WriteExpects, FilesTrue, Charged, Stored!Next
    PROVE  row' \in [Blobs -> BlobRow] /\ (\A b \in Blobs : row'[b].state # "none" => row'[b].owner \in BlobUsers)
           /\ WriteExpects'
  <1>1. ASSUME NEW u \in BlobUsers, NEW b \in Blobs, NEW v \in Versions, Stored!BeginBlob(u, b, v)
        PROVE  /\ row' \in [Blobs -> BlobRow] /\ WriteExpects'
               /\ \A d \in Blobs : row'[d].state # "none" => row'[d].owner \in BlobUsers
    <2>1. PICK r \in BlobRow : row' = [row EXCEPT ![b] = r] /\ r.state = "staging" /\ r.owner = u
      BY <1>1, WritesBegin DEF Begun
    <2>2. /\ row' \in [Blobs -> BlobRow] /\ row'[b] = r /\ \A d \in Blobs \ {b} : row'[d] = row[d]
          /\ \A d \in Blobs : row'[d].state # "none" => row'[d].owner \in BlobUsers
      BY <2>1, RowTypes, Zenon
    <2>3. UNCHANGED <<op, todo, mode>> /\ op = Stored!NoOp /\ mode = "serving"
      BY <1>1, Zenon DEF Stored!BeginBlob, Stored!Idle
    <2> QED
      BY <2>2, <2>3, Zenon DEF WriteExpects, Stored!NoOp
  <1>2. ASSUME NEW b \in Blobs, NEW c \in Chunks, NEW v \in Versions, Stored!PutBlobChunk(b, c, v)
        PROVE  /\ row' \in [Blobs -> BlobRow] /\ WriteExpects'
               /\ \A d \in Blobs : row'[d].state # "none" => row'[d].owner \in BlobUsers
    BY <1>2, Zenon DEF Stored!PutBlobChunk, Stored!Idle, WriteExpects, BlobTypes
  <1>3. CASE Stored!PutRecord
    <2>1. op.kind = "put" /\ op.blob \in Blobs /\ mode = "serving"
      BY <1>3 DEF WriteExpects, Stored!PutRecord, Stored!NoOp
    <2>2. PICK r \in BlobRow : row' = [row EXCEPT ![op.blob] = r] /\ Kept(op.blob, r)
      BY <1>3, WritesPut, Zenon
    <2>3. /\ row' \in [Blobs -> BlobRow] /\ row'[op.blob] = r /\ \A d \in Blobs \ {op.blob} : row'[d] = row[d]
          /\ \A d \in Blobs : row'[d].state # "none" => row'[d].owner \in BlobUsers
      BY <2>1, <2>2, RowTypes, Zenon DEF Kept, BlobTypes
    <2> QED
      BY <1>3, <2>1, <2>3, Zenon DEF WriteExpects, Stored!PutRecord, Stored!NoOp
  <1>4. ASSUME NEW b \in Blobs, Stored!CompleteBlob(b)
        PROVE  /\ row' \in [Blobs -> BlobRow] /\ WriteExpects'
               /\ \A d \in Blobs : row'[d].state # "none" => row'[d].owner \in BlobUsers
    BY <1>4, Zenon DEF Stored!CompleteBlob, Stored!CompleteBlobUnverified, Stored!Idle, WriteExpects, BlobTypes
  <1>5. CASE Stored!CompleteCommit
    <2>1. op.kind = "complete" /\ op.blob \in Blobs /\ mode = "serving" /\ row[op.blob].state = "staging"
      BY <1>5 DEF WriteExpects, Stored!CompleteCommit, Stored!NoOp
    <2>2. PICK r \in BlobRow : /\ row' = [row EXCEPT ![op.blob] = r] /\ r.state = "complete"
                               /\ r.owner = row[op.blob].owner
      BY <1>5, <2>1, WritesComplete, Zenon
    <2>3. /\ row' \in [Blobs -> BlobRow] /\ row'[op.blob] = r /\ \A d \in Blobs \ {op.blob} : row'[d] = row[d]
          /\ \A d \in Blobs : row'[d].state # "none" => row'[d].owner \in BlobUsers
      BY <2>1, <2>2, RowTypes, Zenon DEF BlobTypes
    <2> QED
      BY <1>5, <2>1, <2>3, ZenonT(40) DEF WriteExpects, Stored!CompleteCommit, Stored!NoOp
  <1>6. ASSUME NEW b \in Blobs,
               Stored!Age(b) \/ \E k \in Refs, on \in BOOLEAN : Stored!SetBlobReferenced(b, k, on)
        PROVE  /\ row' \in [Blobs -> BlobRow] /\ WriteExpects'
               /\ \A d \in Blobs : row'[d].state # "none" => row'[d].owner \in BlobUsers
    <2>1. PICK r \in BlobRow : row' = [row EXCEPT ![b] = r] /\ Kept(b, r)
      BY <1>6, WritesAge, WritesReference, Zenon
    <2>2. /\ row' \in [Blobs -> BlobRow] /\ row'[b] = r /\ \A d \in Blobs \ {b} : row'[d] = row[d]
          /\ \A d \in Blobs : row'[d].state # "none" => row'[d].owner \in BlobUsers
      BY <2>1, RowTypes, Zenon DEF Kept, BlobTypes
    <2>3. UNCHANGED <<op, todo, mode>> /\ op = Stored!NoOp /\ mode = "serving"
      BY <1>6, Zenon DEF Stored!Age, Stored!SetBlobReferenced, Stored!Idle
    <2> QED
      BY <2>2, <2>3, Zenon DEF WriteExpects, Stored!NoOp
  <1>7. CASE Stored!GarbageCollectBlobs \/ Stored!GarbageCollectStagingBlobs
    BY <1>7, Zenon DEF Stored!GarbageCollectBlobs, Stored!GarbageCollectStagingBlobs, Stored!Idle, WriteExpects, BlobTypes,
                Stored!NoOp
  <1>8. CASE Stored!CollectMove \/ Stored!SweepFiles
    <2>1. Stored!Min(todo) \in todo
      BY <1>8, StoredMin, Zenon DEF Stored!CollectMove, Stored!SweepFiles, WriteExpects, BlobConstants
    <2> QED
      BY <1>8, <2>1 DEF Stored!CollectMove, Stored!SweepFiles, WriteExpects, BlobTypes
  <1>9. CASE Stored!CollectCommit \/ Stored!SweepCommit
    <2>1. op.blob \in Blobs /\ op.kind \in {"collect", "sweep"}
      BY <1>9, Zenon DEF WriteExpects, Stored!CollectCommit, Stored!SweepCommit, Stored!NoOp
    <2>2. row' = [row EXCEPT ![op.blob] = Stored!NoRow] /\ todo' = todo \ {op.blob} /\ op' = Stored!NoOp /\ mode' = mode
      BY <1>9, Zenon DEF Stored!CollectCommit, Stored!SweepCommit
    <2>3. /\ row' \in [Blobs -> BlobRow] /\ \A d \in Blobs \ {op.blob} : row'[d] = row[d]
          /\ \A d \in Blobs : row'[d].state # "none" => row'[d].owner \in BlobUsers
      BY <2>1, <2>2, RowTypes, NoRowForm, SMTT(40) DEF BlobTypes
    <2> QED
      BY <2>1, <2>2, <2>3, Zenon DEF WriteExpects, Stored!NoOp
  <1>10. CASE Stored!CollectMissing \/ Stored!Serve \/ Stored!RotateKey
    BY <1>10 DEF Stored!CollectMissing, Stored!Serve, Stored!RotateKey, WriteExpects, BlobTypes, Stored!NoOp
  <1>11. CASE Stored!Crash \/ Stored!CollectFails
    BY <1>11 DEF Stored!Crash, Stored!CollectFails, WriteExpects, BlobTypes, Stored!NoOp
  <1> QED
    BY <1>1, <1>2, <1>3, <1>4, <1>5, <1>6, <1>7, <1>8, <1>9, <1>10, <1>11, ZenonT(40) DEF Stored!Next, Stored!Step

-----------------------------------------------------------------------------
\* The bytes charged to the users.
LEMMA BlobCharges ==
    ASSUME BlobConstants, BlobTypes, WriteExpects, Charged, Stored!Next
    PROVE  Charged' /\ used' \in [BlobUsers -> Nat] /\ reserved' \in [BlobUsers -> Nat]
  <1> DEFINE size == Cardinality(Chunks)
  <1>1. size \in Nat /\ Stored!Size = size
    BY FS_CardinalityType, StoredCardinality, Zenon DEF BlobConstants, Stored!Size
  <1>2. size * 0 = 0 /\ size * 1 = size /\ size * (0 - 1) = 0 - size /\ size * (1 - 1) = 0 /\ size * (0 - 0) = 0
        /\ size * (1 - 0) = size
    BY <1>1
  <1> HIDE DEF size
  <1>3. ASSUME UNCHANGED <<row, used, reserved>> PROVE Charged'
    <2>1. \A state, u : StoredBlobs(state, u)' = StoredBlobs(state, u)
      BY <1>3, Zenon DEF StoredBlobs
    <2> QED
      BY <1>3, <2>1, Zenon DEF Charged, BlobTypes
  <1>4. ASSUME NEW b \in Blobs, NEW r, row' = [row EXCEPT ![b] = r], Kept(b, r), UNCHANGED <<used, reserved>>
        PROVE  Charged'
    <2>1. ASSUME NEW u \in BlobUsers, NEW state PROVE Moved(u, b, r, state) \in {1 - 1, 0 - 0}
      BY <1>4, Zenon DEF Moved, Kept
    <2>2. ASSUME NEW u \in BlobUsers
          PROVE  /\ reserved'[u] = reserved[u] + Cardinality(Chunks) * Moved(u, b, r, "staging")
                 /\ used'[u] = used[u] + Cardinality(Chunks) * Moved(u, b, r, "complete")
                 /\ used'[u] + reserved'[u] <= used[u] + reserved[u]
      <3>1. used[u] \in Nat /\ reserved[u] \in Nat /\ used'[u] = used[u] /\ reserved'[u] = reserved[u]
        BY <1>4, Zenon DEF BlobTypes
      <3>2. size * Moved(u, b, r, "staging") = 0 /\ size * Moved(u, b, r, "complete") = 0
        BY <1>2, <2>1, Zenon
      <3> QED
        BY <3>1, <3>2 DEF size
    <2> QED
      BY <1>4, <2>2, ChargeStep, Zenon
  <1>5. ASSUME NEW u \in BlobUsers, NEW b \in Blobs, NEW v \in Versions, Stored!BeginBlob(u, b, v)
        PROVE  Charged'
    <2>1. PICK r \in BlobRow : row' = [row EXCEPT ![b] = r] /\ r.state = "staging" /\ r.owner = u
      BY <1>5, WritesBegin DEF Begun
    <2>2. /\ row[b].state = "none" /\ used' = used /\ reserved' = [reserved EXCEPT ![u] = @ + size]
          /\ used[u] + reserved[u] + size <= Quota
      BY <1>1, <1>5, Zenon DEF Stored!BeginBlob
    <2>3. ASSUME NEW w \in BlobUsers
          PROVE  /\ reserved'[w] = reserved[w] + size * Moved(w, b, r, "staging")
                 /\ used'[w] = used[w] + size * Moved(w, b, r, "complete")
                 /\ used'[w] + reserved'[w] <= used[w] + reserved[w] \/ used'[w] + reserved'[w] <= Quota
      <3>1. used[w] \in Nat /\ reserved[w] \in Nat
        BY Zenon DEF BlobTypes
      <3>2. Moved(w, b, r, "complete") = 0 - 0 /\ Moved(w, b, r, "staging") = IF w = u THEN 1 - 0 ELSE 0 - 0
        BY <2>1, <2>2, Zenon DEF Moved
      <3>3. reserved'[w] = IF w = u THEN reserved[w] + size ELSE reserved[w]
        BY <2>2, Zenon DEF BlobTypes
      <3>4. CASE w = u
        BY <1>1, <1>2, <2>2, <3>1, <3>2, <3>3, <3>4, SMTT(40)
      <3>5. CASE w # u
        BY <1>2, <2>2, <3>1, <3>2, <3>3, <3>5, SMTT(40)
      <3> QED
        BY <3>4, <3>5, Zenon
    <2> QED
      BY <2>1, <2>3, ChargeStep, Zenon DEF size
  <1>6. ASSUME Stored!CompleteCommit PROVE Charged'
    <2>1. op.blob \in Blobs /\ row[op.blob].state = "staging" /\ row[op.blob].owner \in BlobUsers
      BY <1>6 DEF WriteExpects, Stored!CompleteCommit, Stored!NoOp, BlobTypes
    <2>0. PICK b \in Blobs : b = op.blob
      BY <2>1, Zenon
    <2> DEFINE u == row[b].owner
    <2>2. PICK r \in BlobRow : row' = [row EXCEPT ![b] = r] /\ r.state = "complete" /\ r.owner = u
      BY <1>6, <2>0, <2>1, WritesComplete, Zenon
    <2>3. used' = [used EXCEPT ![u] = @ + size] /\ reserved' = [reserved EXCEPT ![u] = @ - size]
      BY <1>1, <1>6, <2>0, Zenon DEF Stored!CompleteCommit
    <2>4. ASSUME NEW w \in BlobUsers
          PROVE  /\ reserved'[w] = reserved[w] + size * Moved(w, b, r, "staging")
                 /\ used'[w] = used[w] + size * Moved(w, b, r, "complete")
                 /\ used'[w] + reserved'[w] <= used[w] + reserved[w]
      <3>1. used[w] \in Nat /\ reserved[w] \in Nat
        BY Zenon DEF BlobTypes
      <3>2. /\ Moved(w, b, r, "complete") = IF w = u THEN 1 - 0 ELSE 0 - 0
            /\ Moved(w, b, r, "staging") = IF w = u THEN 0 - 1 ELSE 0 - 0
        BY <2>0, <2>1, <2>2, Zenon DEF Moved
      <3>3. /\ used'[w] = IF w = u THEN used[w] + size ELSE used[w]
            /\ reserved'[w] = IF w = u THEN reserved[w] - size ELSE reserved[w]
        BY <2>0, <2>1, <2>3, Zenon DEF BlobTypes
      <3> HIDE DEF u
      <3>4. CASE w = u
        BY <1>1, <1>2, <3>1, <3>2, <3>3, <3>4, SMTT(40)
      <3>5. CASE w # u
        BY <1>2, <3>1, <3>2, <3>3, <3>5
      <3> QED
        BY <3>4, <3>5, Zenon
    <2> QED
      BY <2>2, <2>4, ChargeStep, ZenonT(40) DEF size
  <1>7. ASSUME NEW state \in {"staging", "complete"}, NEW b \in Blobs, row[b].state = state,
               row' = [row EXCEPT ![b] = Stored!NoRow],
               IF state = "staging"
               THEN used' = used /\ reserved' = [reserved EXCEPT ![row[b].owner] = @ - size]
               ELSE reserved' = reserved /\ used' = [used EXCEPT ![row[b].owner] = @ - size]
        PROVE  Charged'
    <2> DEFINE u == row[b].owner
               r == Stored!NoRow
    <2>1. u \in BlobUsers
      BY <1>7, Zenon DEF BlobTypes
    <2>2. ASSUME NEW w \in BlobUsers
          PROVE  /\ reserved'[w] = reserved[w] + size * Moved(w, b, r, "staging")
                 /\ used'[w] = used[w] + size * Moved(w, b, r, "complete")
                 /\ used'[w] + reserved'[w] <= used[w] + reserved[w]
      <3>1. used[w] \in Nat /\ reserved[w] \in Nat
        BY Zenon DEF BlobTypes
      <3>2. /\ Moved(w, b, r, state) = IF w = u THEN 0 - 1 ELSE 0 - 0
            /\ \A t \in {"staging", "complete"} \ {state} : Moved(w, b, r, t) = 0 - 0
        BY <1>7, NoRowForm, Zenon DEF Moved
      <3>3. IF state = "staging"
            THEN used'[w] = used[w] /\ reserved'[w] = IF w = u THEN reserved[w] - size ELSE reserved[w]
            ELSE reserved'[w] = reserved[w] /\ used'[w] = IF w = u THEN used[w] - size ELSE used[w]
        BY <1>7, <2>1 DEF BlobTypes
      <3> HIDE DEF u, r
      <3>4. CASE state = "staging"
        BY <1>1, <1>2, <3>1, <3>2, <3>3, <3>4
      <3>5. CASE state = "complete"
        BY <1>1, <1>2, <3>1, <3>2, <3>3, <3>5
      <3> QED
        BY <3>4, <3>5, Zenon
    <2>3. row' = [row EXCEPT ![b] = r]
      BY <1>7, Zenon
    <2> HIDE DEF r, u
    <2> QED
      BY <2>2, <2>3, ChargeStep, Zenon DEF size
  <1>8. ASSUME Stored!CollectCommit PROVE Charged'
    <2>1. op.blob \in Blobs /\ row[op.blob].state = "complete"
      BY <1>8 DEF WriteExpects, Stored!CollectCommit, Stored!NoOp
    <2>2. /\ row' = [row EXCEPT ![op.blob] = Stored!NoRow] /\ reserved' = reserved
          /\ used' = [used EXCEPT ![row[op.blob].owner] = @ - size]
      BY <1>1, <1>8, Zenon DEF Stored!CollectCommit
    <2>3. PICK b \in Blobs : b = op.blob
      BY <2>1, Zenon
    <2> QED
      BY <1>7, <2>1, <2>2, <2>3, Zenon
  <1>9. ASSUME Stored!SweepCommit PROVE Charged'
    <2>1. op.blob \in Blobs /\ row[op.blob].state = "staging"
      BY <1>9 DEF WriteExpects, Stored!SweepCommit, Stored!NoOp
    <2>2. /\ row' = [row EXCEPT ![op.blob] = Stored!NoRow] /\ used' = used
          /\ reserved' = [reserved EXCEPT ![row[op.blob].owner] = @ - size]
      BY <1>1, <1>9, Zenon DEF Stored!SweepCommit
    <2>3. PICK b \in Blobs : b = op.blob
      BY <2>1, Zenon
    <2> QED
      BY <1>7, <2>1, <2>2, <2>3, ZenonT(40)
  <1>10. ASSUME Stored!PutRecord PROVE Charged'
    <2>1. op.blob \in Blobs
      BY <1>10 DEF WriteExpects, Stored!PutRecord, Stored!NoOp
    <2>2. PICK b \in Blobs : b = op.blob
      BY <2>1, Zenon
    <2>3. PICK r \in BlobRow : row' = [row EXCEPT ![b] = r] /\ Kept(b, r)
      BY <1>10, <2>2, WritesPut, Zenon
    <2> QED
      BY <1>4, <1>10, <2>3, Zenon DEF Stored!PutRecord
  <1>11. ASSUME NEW b \in Blobs,
                Stored!Age(b) \/ \E k \in Refs, on \in BOOLEAN : Stored!SetBlobReferenced(b, k, on)
         PROVE  Charged'
    <2>1. UNCHANGED <<used, reserved>>
      BY <1>11, ZenonT(40) DEF Stored!Age, Stored!SetBlobReferenced
    <2> QED
      BY <1>4, <1>11, <2>1, WritesAge, WritesReference
  <1>12. Charged'
    <2> USE DEF Stored!PutBlobChunk, Stored!CompleteBlob, Stored!CompleteBlobUnverified, Stored!GarbageCollectBlobs,
                Stored!CollectMove, Stored!CollectMissing, Stored!GarbageCollectStagingBlobs, Stored!SweepFiles,
                Stored!Serve, Stored!RotateKey, Stored!Crash, Stored!CollectFails
    <2> QED
      BY <1>3, <1>5, <1>6, <1>8, <1>9, <1>10, <1>11, Zenon DEF Stored!Next, Stored!Step
  <1>13. used' \in [BlobUsers -> Nat] /\ reserved' \in [BlobUsers -> Nat]
    <2>1. used' = [u \in BlobUsers |-> used'[u]] /\ reserved' = [u \in BlobUsers |-> reserved'[u]]
      BY ZenonT(40) DEF Stored!PutBlobChunk, Stored!CompleteBlob, Stored!CompleteBlobUnverified, Stored!GarbageCollectBlobs,
                Stored!CollectMove, Stored!CollectMissing, Stored!GarbageCollectStagingBlobs, Stored!SweepFiles,
                Stored!Serve, Stored!RotateKey, Stored!Crash, Stored!CollectFails, Stored!Next, Stored!Step,
                Stored!BeginBlob, Stored!PutRecord, Stored!CompleteCommit, Stored!CollectCommit, Stored!SweepCommit,
                Stored!Age, Stored!SetBlobReferenced, BlobTypes
    <2>2. ASSUME NEW u \in BlobUsers, NEW state PROVE size * Cardinality(StoredBlobs(state, u)') \in Nat
      <3>1. StoredBlobs(state, u)' \subseteq Blobs
        BY Zenon DEF StoredBlobs
      <3>2. Cardinality(StoredBlobs(state, u)') \in Nat
        BY <3>1, FS_Subset, FS_CardinalityType, Zenon DEF BlobConstants
      <3> QED
        BY <1>1, <3>2
    <2>3. \A u \in BlobUsers : used'[u] \in Nat /\ reserved'[u] \in Nat
      BY <1>12, <2>2, Zenon DEF Charged, size
    <2> QED
      BY <2>1, <2>3, Zenon
  <1> QED
    BY <1>12, <1>13, Zenon

-----------------------------------------------------------------------------
\* The files. What a step leaves alone it leaves true.
LEMMA FilesElsewhere ==
    ASSUME NEW b, FilesOf(b), row'[b] = row[b], staging'[b] = staging[b], final'[b] = final[b],
           trash'[b] = trash[b], \A k \in {"put", "complete", "collect", "sweep"} : ~Writing(k, b) /\ ~Writing(k, b)',
           \A k : <<k, b>> \in cut' <=> <<k, b>> \in cut
    PROVE  FilesOf(b)'
  BY Zenon DEF FilesOf, Stored!verifyChunkFiles, Stored!NoFiles

\* No write is under way when there is no operation.
LEMMA NoWriting == op = Stored!NoOp => \A b : \A k \in {"put", "complete", "collect", "sweep"} : ~Writing(k, b)
  BY SMTT(40) DEF Writing, Stored!NoOp

\* Every step leaves a directory of each kind to every blob.
LEMMA FileTypes ==
    ASSUME BlobTypes, Stored!Next
    PROVE  /\ staging' = [b \in Blobs |-> staging'[b]]
           /\ final' = [b \in Blobs |-> final'[b]]
           /\ trash' = [b \in Blobs |-> trash'[b]]
  BY ZenonT(40) DEF Stored!PutBlobChunk, Stored!CompleteBlob, Stored!CompleteBlobUnverified, Stored!GarbageCollectBlobs,
         Stored!CollectMove, Stored!CollectMissing, Stored!GarbageCollectStagingBlobs, Stored!SweepFiles,
         Stored!Serve, Stored!RotateKey, Stored!Crash, Stored!CollectFails, Stored!Next, Stored!Step,
         Stored!BeginBlob, Stored!PutRecord, Stored!CompleteCommit, Stored!CollectCommit, Stored!SweepCommit,
         Stored!Age, Stored!SetBlobReferenced, Stored!files, BlobTypes

\* The steps of an upload, for the files.
LEMMA FilesOfUpload ==
    ASSUME BlobConstants, BlobTypes, WriteExpects, FilesTrue, NEW b \in Blobs,
           \/ \E u \in BlobUsers, v \in Versions : Stored!BeginBlob(u, b, v)
           \/ \E c \in Chunks, v \in Versions : Stored!PutBlobChunk(b, c, v)
           \/ Stored!CompleteBlob(b)
           \/ \E k \in Refs, on \in BOOLEAN : Stored!SetBlobReferenced(b, k, on)
           \/ Stored!Age(b)
    PROVE  FilesTrue'
  <1>1. FilesOf(b) /\ op = Stored!NoOp /\ cut' = cut
    BY Zenon DEF FilesTrue, Stored!BeginBlob, Stored!PutBlobChunk, Stored!CompleteBlob, Stored!CompleteBlobUnverified,
           Stored!SetBlobReferenced, Stored!Age, Stored!Idle
  <1>2. \A d : \A k \in {"put", "complete", "collect", "sweep"} : ~Writing(k, d)
    BY <1>1, NoWriting, Zenon
  <1>3. ASSUME NEW d \in Blobs \ {b} PROVE FilesOf(d)'
    <2>1. row'[d] = row[d] /\ staging'[d] = staging[d] /\ final'[d] = final[d] /\ trash'[d] = trash[d]
      BY ZenonT(40) DEF Stored!BeginBlob, Stored!PutBlobChunk, Stored!CompleteBlob, Stored!CompleteBlobUnverified,
             Stored!SetBlobReferenced, Stored!Age, Stored!files, BlobTypes
    <2>2. op' = op \/ op'.blob = b
      <3>1. ASSUME NEW c \in Chunks, NEW v \in Versions, Stored!PutBlobChunk(b, c, v) PROVE op'.blob = b
        BY <3>1, Zenon DEF Stored!PutBlobChunk
      <3>2. ASSUME Stored!CompleteBlob(b) PROVE op'.blob = b
        BY <3>2, Zenon DEF Stored!CompleteBlob, Stored!CompleteBlobUnverified
      <3> QED
        BY <3>1, <3>2, Zenon DEF Stored!BeginBlob, Stored!SetBlobReferenced, Stored!Age
    <2>3. \A k \in {"put", "complete", "collect", "sweep"} : ~Writing(k, d)'
      BY <1>2, <2>2, Zenon DEF Writing
    <2>4. FilesOf(d)
      BY ZenonT(40) DEF FilesTrue
    <2> QED
      BY <1>1, <1>2, <2>1, <2>3, <2>4, FilesElsewhere, SMTT(40)
  <1>4. ASSUME NEW u \in BlobUsers, NEW v \in Versions, Stored!BeginBlob(u, b, v) PROVE FilesOf(b)'
    <2>1. PICK r \in BlobRow : Begun(u, b, v, r)
      BY <1>4, WritesBegin, Zenon
    <2>2. row'[b].state = "staging" /\ row'[b].version = v /\ row'[b].uploaded = {} /\ row[b].state = "none"
      BY <1>4, <2>1, Zenon DEF Begun, BlobTypes, Stored!BeginBlob
    <2>3. op' = op /\ staging' = staging /\ final' = final /\ trash' = trash
      BY <1>4, ZenonT(40) DEF Stored!BeginBlob, Stored!files
    <2> QED
      BY <1>1, <1>2, <2>2, <2>3 DEF FilesOf, Stored!NoFiles, Writing
  <1>5. ASSUME NEW c \in Chunks, NEW v \in Versions, Stored!PutBlobChunk(b, c, v) PROVE FilesOf(b)'
    <2>1. /\ DOMAIN staging'[b] = DOMAIN staging[b] \cup {c} /\ staging'[b][c] = v
          /\ \A d \in DOMAIN staging[b] : d # c => staging'[b][d] = staging[b][d]
          /\ v = row[b].version /\ row[b].state = "staging"
      BY <1>5, Zenon DEF Stored!PutBlobChunk, BlobTypes
    <2>2. /\ op'.kind = "put" /\ op'.chunk = c
          /\ row' = row /\ final' = final /\ trash' = trash
      BY <1>5, Zenon DEF Stored!PutBlobChunk
    <2> QED
      BY <1>1, <1>2, <2>1, <2>2 DEF FilesOf, Stored!NoFiles, Writing
  <1>6. ASSUME Stored!CompleteBlob(b) PROVE FilesOf(b)'
    <2>1. op'.kind = "complete" /\ op'.blob = b /\ row' = row /\ trash' = trash /\ row[b].state = "staging"
      BY <1>6, ZenonT(40) DEF Stored!CompleteBlob, Stored!CompleteBlobUnverified
    <2>2. Writing("complete", b)' /\ \A k \in {"put", "collect", "sweep"} : ~Writing(k, b)'
      BY <2>1, Zenon DEF Writing
    <2>3. CASE final[b] # Stored!NoFiles
      <3>1. final' = final /\ staging' = staging /\ Stored!verifyChunkFiles(final, b)
        BY <1>6, <2>3, ZenonT(40) DEF Stored!CompleteBlob, Stored!CompleteBlobUnverified
      <3>2. Stored!verifyChunkFiles(final, b)'
        BY <2>1, <3>1, Zenon DEF Stored!verifyChunkFiles
      <3> QED
        BY <1>1, <1>2, <2>1, <2>2, <2>3, <3>1, <3>2, Zenon DEF FilesOf
    <2>4. CASE final[b] = Stored!NoFiles
      <3>1. final'[b] = staging[b] /\ staging'[b] = Stored!NoFiles /\ Stored!verifyChunkFiles(staging, b)
        BY <1>6, <2>4, Zenon DEF Stored!CompleteBlob, Stored!CompleteBlobUnverified, BlobTypes
      <3>2. DOMAIN Stored!NoFiles = {}
        BY ZenonT(40) DEF Stored!NoFiles
      <3>3. Stored!verifyChunkFiles(final, b)' /\ \A c \in Chunks : staging[b][c] = row[b].version
        BY <2>1, <3>1, Zenon DEF Stored!verifyChunkFiles
      <3>4. /\ \A c \in DOMAIN final'[b] : final'[b][c] = row'[b].version
            /\ DOMAIN staging'[b] = {} /\ DOMAIN staging[b] \cup DOMAIN final[b] = DOMAIN final'[b]
        BY <1>1, <2>1, <2>4, <3>1, <3>2, <3>3, Zenon DEF FilesOf
      <3> QED
        BY <1>1, <1>2, <2>1, <2>2, <3>1, <3>3, <3>4, Zenon DEF FilesOf
    <2> QED
      BY <2>3, <2>4, Zenon
  <1>7. ASSUME Stored!Age(b) \/ \E k \in Refs, on \in BOOLEAN : Stored!SetBlobReferenced(b, k, on) PROVE FilesOf(b)'
    <2>1. PICK r \in BlobRow : row' = [row EXCEPT ![b] = r] /\ Kept(b, r) /\ r.uploaded = row[b].uploaded
      BY <1>7, WritesAge, WritesReference, Zenon
    <2>2. row'[b].state = row[b].state /\ row'[b].version = row[b].version /\ row'[b].uploaded = row[b].uploaded
      BY <2>1, Zenon DEF Kept, BlobTypes
    <2>3. op' = op /\ staging' = staging /\ final' = final /\ trash' = trash
      BY <1>7, Zenon DEF Stored!Age, Stored!SetBlobReferenced, Stored!files
    <2> QED
      BY <1>1, <1>2, <2>2, <2>3 DEF FilesOf, Stored!NoFiles, Writing, Stored!verifyChunkFiles
  <1> QED
    BY <1>3, <1>4, <1>5, <1>6, <1>7, Zenon DEF FilesTrue

\* The second steps of the writes, and what interrupts them.
LEMMA FilesOfWrite ==
    ASSUME BlobConstants, BlobTypes, WriteExpects, FilesTrue,
           \/ Stored!PutRecord \/ Stored!CompleteCommit \/ Stored!CollectCommit \/ Stored!SweepCommit
           \/ Stored!Crash \/ Stored!CollectFails
    PROVE  FilesTrue'
  <1>1. op.blob \in Blobs /\ op' = Stored!NoOp
    <2>1. op.kind \in {"put", "complete", "collect", "sweep"}
      BY Zenon DEF Stored!PutRecord, Stored!CompleteCommit, Stored!CollectCommit, Stored!SweepCommit,
                   Stored!Crash, Stored!CollectFails, BlobConstants
    <2>2. op # Stored!NoOp
      BY <2>1 DEF Stored!NoOp
    <2> QED
      BY <2>2, ZenonT(40) DEF WriteExpects, Stored!PutRecord, Stored!CompleteCommit, Stored!CollectCommit,
                  Stored!SweepCommit, Stored!Crash, Stored!CollectFails
  <1>2. PICK b \in Blobs : b = op.blob
    BY <1>1, Zenon
  <1>3. /\ FilesOf(b)
        /\ \A d : \A k \in {"put", "complete", "collect", "sweep"} : ~Writing(k, d)'
        /\ \A k \in {"put", "complete", "collect", "sweep"}, d \in Blobs \ {b} : ~Writing(k, d)
    BY <1>1, <1>2, Zenon DEF FilesTrue, Writing, Stored!NoOp
  <1>4. ASSUME NEW d \in Blobs \ {b} PROVE FilesOf(d)'
    <2>1. row'[d] = row[d] /\ staging'[d] = staging[d] /\ final'[d] = final[d] /\ trash'[d] = trash[d]
      BY <1>2, ZenonT(40) DEF Stored!PutRecord, Stored!CompleteCommit, Stored!CollectCommit, Stored!SweepCommit,
                  Stored!Crash, Stored!CollectFails, Stored!files, BlobTypes
    <2>2. \A k : <<k, d>> \in cut' <=> <<k, d>> \in cut
      <3>1. \/ cut' = cut \/ cut' = cut \ {<<"collect", b>>} \/ cut' = cut \cup {<<op.kind, b>>}
            \/ cut' = {x \in cut : x[2] # b}
        BY <1>2, Zenon DEF Stored!PutRecord, Stored!CompleteCommit, Stored!CollectCommit, Stored!SweepCommit,
                           Stored!Crash, Stored!CollectFails
      <3>2. \A k : \A j : <<k, d>> # <<j, b>> /\ <<k, d>>[2] = d
        OBVIOUS
      <3> QED
        BY <3>1, <3>2
    <2>3. FilesOf(d)
      BY Zenon DEF FilesTrue
    <2> QED
      BY <1>3, <2>1, <2>2, <2>3, FilesElsewhere, Zenon
  <1>5. ASSUME Stored!PutRecord PROVE FilesOf(b)'
    <2>1. PICK r \in BlobRow : /\ row' = [row EXCEPT ![b] = r] /\ Kept(b, r)
                               /\ r.uploaded = row[b].uploaded \cup {op.chunk}
      BY <1>2, <1>5, WritesPut, Zenon
    <2>2. /\ row'[b].state = row[b].state /\ row'[b].version = row[b].version
          /\ row'[b].uploaded = row[b].uploaded \cup {op.chunk}
      BY <2>1, Zenon DEF Kept, BlobTypes
    <2>3. cut' = cut /\ staging' = staging /\ final' = final /\ trash' = trash
      BY <1>5, Zenon DEF Stored!PutRecord, Stored!files
    <2>4. Writing("put", b) /\ \A k \in {"complete", "collect", "sweep"} : ~Writing(k, b)
      BY <1>2, <1>5, ZenonT(40) DEF Stored!PutRecord, Writing
    <2> QED
      BY <1>3, <2>2, <2>3, <2>4, Zenon DEF FilesOf, Stored!NoFiles, Stored!verifyChunkFiles
  <1>6. ASSUME Stored!CompleteCommit PROVE FilesOf(b)'
    <2>1. PICK r \in BlobRow : /\ row' = [row EXCEPT ![b] = r] /\ r.state = "complete" /\ r.version = row[b].version
      BY <1>2, <1>6, WritesComplete, Zenon
    <2>2. row'[b].state = "complete" /\ row'[b].version = row[b].version
      BY <2>1, Zenon DEF BlobTypes
    <2>3. cut' = cut /\ staging' = staging /\ final' = final /\ trash' = trash
      BY <1>6, Zenon DEF Stored!CompleteCommit, Stored!files
    <2>4. Writing("complete", b) /\ \A k \in {"put", "collect", "sweep"} : ~Writing(k, b)
      BY <1>2, <1>6, ZenonT(40) DEF Stored!CompleteCommit, Writing
    <2> QED
      BY <1>3, <2>2, <2>3, <2>4 DEF FilesOf, Stored!NoFiles, Stored!verifyChunkFiles
  <1>7. ASSUME Stored!CollectCommit PROVE FilesOf(b)'
    <2>1. row'[b] = Stored!NoRow /\ trash'[b] = Stored!NoFiles /\ cut' = cut \ {<<"collect", b>>}
      BY <1>2, <1>7, Zenon DEF Stored!CollectCommit, BlobTypes
    <2>2. staging' = staging /\ final' = final /\ row[b].state = "complete"
      BY <1>2, <1>7 DEF Stored!CollectCommit, WriteExpects, Stored!NoOp
    <2>3. Writing("collect", b) /\ DOMAIN Stored!NoFiles = {}
      BY <1>2, <1>7, Zenon DEF Stored!CollectCommit, Writing, Stored!NoFiles
    <2>4. <<"complete", b>> \in cut' <=> <<"complete", b>> \in cut
      BY <2>1, ZenonT(40)
    <2> QED
      BY <1>3, <2>1, <2>2, <2>3, <2>4, NoRowForm DEF FilesOf
  <1>8. ASSUME Stored!SweepCommit PROVE FilesOf(b)'
    <2>1. row'[b] = Stored!NoRow /\ staging' = staging /\ final' = final /\ trash' = trash
      BY <1>2, <1>8, Zenon DEF Stored!SweepCommit, Stored!files, BlobTypes
    <2>2. Writing("sweep", b) /\ DOMAIN Stored!NoFiles = {}
      BY <1>2, <1>8, Zenon DEF Stored!SweepCommit, Writing, Stored!NoFiles
    <2> QED
      BY <1>3, <2>1, <2>2, NoRowForm DEF FilesOf
  <1>9. ASSUME Stored!Crash PROVE FilesOf(b)'
    <2>1. row' = row /\ staging' = staging /\ final' = final /\ trash' = trash
          /\ cut' = cut \cup {<<op.kind, b>>}
      BY <1>2, <1>9, Zenon DEF Stored!Crash, Stored!files
    <2>2. PICK k \in {"put", "complete", "collect", "sweep"} : op.kind = k
      BY <1>9, Zenon DEF Stored!Crash, BlobConstants
    <2>3. /\ Writing(k, b) /\ \A j \in {"put", "complete", "collect", "sweep"} \ {k} : ~Writing(j, b)
          /\ <<k, b>> \in cut' /\ \A j \in {"put", "complete", "collect", "sweep"} \ {k} :
                                     <<j, b>> \in cut' <=> <<j, b>> \in cut
      BY <1>2, <2>1, <2>2, ZenonT(40) DEF Writing
    <2>4. row[b].state = IF k = "collect" THEN "complete" ELSE "staging"
      BY <1>2, <2>2 DEF WriteExpects, Stored!NoOp
    <2>5. /\ Stored!verifyChunkFiles(final, b)' <=> Stored!verifyChunkFiles(final, b)
          /\ Stored!verifyChunkFiles(trash, b)' <=> Stored!verifyChunkFiles(trash, b)
      BY <2>1, Zenon DEF Stored!verifyChunkFiles
    <2>6. CASE k = "put"
      BY <1>3, <2>1, <2>3, <2>4, <2>5, <2>6, Zenon DEF FilesOf
    <2>7. CASE k = "complete"
      BY <1>3, <2>1, <2>3, <2>4, <2>5, <2>7, Zenon DEF FilesOf
    <2>8. CASE k = "collect"
      BY <1>3, <2>1, <2>3, <2>4, <2>5, <2>8, Zenon DEF FilesOf
    <2>9. CASE k = "sweep"
      BY <1>3, <2>1, <2>3, <2>4, <2>5, <2>9, Zenon DEF FilesOf
    <2> QED
      BY <2>6, <2>7, <2>8, <2>9, Zenon
  <1>10. ASSUME Stored!CollectFails PROVE FilesOf(b)'
    <2>1. row' = row /\ staging' = staging /\ cut' = cut /\ final'[b] = trash[b]
      BY <1>2, <1>10, ZenonT(40) DEF Stored!CollectFails, BlobTypes
    <2>2. Writing("collect", b) /\ row[b].state = "complete" /\ \A k \in {"put", "complete", "sweep"} : ~Writing(k, b)
      BY <1>2, <1>10 DEF Stored!CollectFails, Writing, WriteExpects, Stored!NoOp
    <2> QED
      BY <1>3, <2>1, <2>2, Zenon DEF FilesOf, Stored!verifyChunkFiles
  <1> QED
    BY <1>4, <1>5, <1>6, <1>7, <1>8, <1>9, <1>10 DEF FilesTrue

\* The steps of a collection.
LEMMA FilesOfCollection ==
    ASSUME BlobConstants, BlobTypes, WriteExpects, FilesTrue, Stored!CollectMove \/ Stored!SweepFiles
    PROVE  FilesTrue'
  <1>1. todo # {} /\ todo \subseteq Blobs /\ todo \subseteq Nat /\ op = Stored!NoOp
    BY Zenon DEF Stored!CollectMove, Stored!SweepFiles, WriteExpects, BlobConstants
  <1>2. PICK b \in Blobs : b = Stored!Min(todo) /\ b \in todo
    BY <1>1, StoredMin, Zenon
  <1>3. FilesOf(b) /\ \A d : \A k \in {"put", "complete", "collect", "sweep"} : ~Writing(k, d)
    BY <1>1, NoWriting, Zenon DEF FilesTrue
  <1>4. op'.blob = b /\ row' = row /\ cut' = cut
    BY <1>2 DEF Stored!CollectMove, Stored!SweepFiles
  <1>5. ASSUME NEW d \in Blobs \ {b} PROVE FilesOf(d)'
    <2>1. staging'[d] = staging[d] /\ final'[d] = final[d] /\ trash'[d] = trash[d]
      BY <1>2, Zenon DEF Stored!CollectMove, Stored!SweepFiles, BlobTypes
    <2>2. FilesOf(d) /\ \A k \in {"put", "complete", "collect", "sweep"} : ~Writing(k, d)'
      BY <1>4, Zenon DEF FilesTrue, Writing
    <2> QED
      BY <1>3, <1>4, <2>1, <2>2, FilesElsewhere, ZenonT(40)
  <1>6. DOMAIN Stored!NoFiles = {}
    BY ZenonT(40) DEF Stored!NoFiles
  <1>7. ASSUME Stored!CollectMove PROVE FilesOf(b)'
    <2>1. /\ trash'[b] = final[b] /\ final'[b] = Stored!NoFiles /\ staging' = staging /\ op'.kind = "collect"
          /\ row[b].state = "complete"
      BY <1>2, <1>7, ZenonT(40) DEF Stored!CollectMove, BlobTypes, WriteExpects
    <2>2. Writing("collect", b)' /\ \A k \in {"put", "complete", "sweep"} : ~Writing(k, b)'
      BY <1>4, <2>1, Zenon DEF Writing
    <2>3. Stored!verifyChunkFiles(trash, b)' <=> Stored!verifyChunkFiles(final, b)
      BY <1>4, <2>1, Zenon DEF Stored!verifyChunkFiles
    <2> QED
      BY <1>3, <1>4, <1>6, <2>1, <2>2, <2>3, Zenon DEF FilesOf
  <1>8. ASSUME Stored!SweepFiles PROVE FilesOf(b)'
    <2>1. /\ trash' = trash /\ final'[b] = Stored!NoFiles /\ staging'[b] = Stored!NoFiles /\ op'.kind = "sweep"
          /\ row[b].state = "staging"
      BY <1>2, <1>8, Zenon DEF Stored!SweepFiles, BlobTypes, WriteExpects
    <2> QED
      BY <1>3, <1>4, <1>6, <2>1 DEF FilesOf, Writing
  <1> QED
    BY <1>5, <1>7, <1>8, Zenon DEF FilesTrue

\* Every step of the storage of blobs keeps the invariant.
LEMMA BlobStep == BlobConstants /\ BlobInv /\ [Stored!Next]_(Stored!vars) => BlobInv'
  <1> SUFFICES ASSUME BlobConstants, BlobInv, [Stored!Next]_(Stored!vars) PROVE BlobInv'
    OBVIOUS
  <1>1. BlobTypes /\ WriteExpects /\ Charged /\ FilesTrue
    BY Zenon DEF BlobInv
  <1>2. CASE UNCHANGED Stored!vars
    <2>1. BlobTypes' /\ WriteExpects'
      BY <1>1, <1>2, ZenonT(40) DEF Stored!vars, BlobTypes, WriteExpects
    <2>2. Charged'
      <3>1. \A state, u : StoredBlobs(state, u)' = StoredBlobs(state, u)
        BY <1>2, ZenonT(40) DEF Stored!vars, StoredBlobs
      <3> QED
        BY <1>1, <1>2, <3>1, Zenon DEF Stored!vars, Charged
    <2>3. FilesTrue'
      BY <1>1, <1>2, FilesKept, Zenon DEF Stored!vars
    <2> QED
      BY <2>1, <2>2, <2>3, Zenon DEF BlobInv
  <1>3. CASE Stored!Next
    <2>1. BlobTypes' /\ WriteExpects' /\ Charged'
      BY <1>1, <1>3, BlobShapes, BlobCharges, FileTypes, Zenon DEF BlobTypes
    <2>2. FilesTrue'
      BY <1>1, <1>3, FilesKept, FilesOfUpload, FilesOfWrite, FilesOfCollection, Zenon
         DEF Stored!Next, Stored!Step, Stored!GarbageCollectBlobs, Stored!CollectMissing,
             Stored!GarbageCollectStagingBlobs, Stored!Serve, Stored!RotateKey, Stored!files
    <2> QED
      BY <2>1, <2>2, Zenon DEF BlobInv
  <1> QED
    BY <1>2, <1>3, Zenon

\* ... and the invariant says what the properties say.
LEMMA BlobGoal ==
    BlobInv => /\ Stored!QuotaAccounted /\ Stored!FilesMatchRow /\ Stored!UploadedOnDisk /\ Stored!CompleteReadable
  <1> SUFFICES ASSUME BlobInv
               PROVE  /\ Stored!QuotaAccounted /\ Stored!FilesMatchRow /\ Stored!UploadedOnDisk
                      /\ Stored!CompleteReadable
    OBVIOUS
  <1>1. Stored!QuotaAccounted
    BY StoredCardinality, Zenon DEF BlobInv, Charged, StoredBlobs, Stored!QuotaAccounted, Stored!Size
  <1>2. Stored!FilesMatchRow
    BY Zenon DEF BlobInv, FilesTrue, FilesOf, Stored!FilesMatchRow
  <1>3. Stored!UploadedOnDisk
    BY Zenon DEF BlobInv, FilesTrue, FilesOf, Writing, Stored!UploadedOnDisk
  <1>4. Stored!CompleteReadable
    BY Zenon DEF BlobInv, FilesTrue, FilesOf, Writing, Stored!verifyChunkFiles, Stored!CompleteReadable, Stored!ReadBlobChunk
  <1> QED
    BY <1>1, <1>2, <1>3, <1>4

-----------------------------------------------------------------------------
(* The suite: the profile of a behaviour never changes, and a step of the  *)
(* profile "blobs" is one of BlobStorage.                                  *)
BlobsRun == profile = "blobs" => BlobInv

\* The invariant holds at the start and after every step of the suite.
LEMMA BlobsRunOn ==
    /\ ServerInit => BlobsRun
    /\ BlobsRun /\ [ServerNext]_serverVars => BlobsRun'
  <1>1. ServerInit => BlobsRun
    BY ServerConstants, BlobInit, Zenon DEF ServerInit, BlobsRun
  <1>2. ASSUME [ServerNext]_serverVars
        PROVE  profile' = profile /\ (profile = "blobs" => [Stored!Next]_(Stored!vars))
    BY <1>2, Zenon DEF ServerNext, serverVars, blobVars, Stored!vars
  <1> QED
    BY <1>1, <1>2, ServerConstants, BlobStep DEF BlobsRun

\* The bytes charged to a user are those of the user's blobs, and never above
\* the quota, wherever an upload, a collection or a sweep was interrupted.
THEOREM BytesAccounted == ServerSpec => []QuotaAccounted
  <1>1. BlobsRun => QuotaAccounted
    BY BlobGoal DEF BlobsRun, QuotaAccounted
  <1> QED
    BY <1>1, BlobsRunOn, PTL DEF ServerSpec

\* The rows of the blobs tell the truth about the files, whatever fails between
\* the step that moves files and the transaction that follows it.
THEOREM RowsTellTheTruth == ServerSpec => []RowsMatchFiles
  <1>1. BlobsRun => RowsMatchFiles
    BY BlobGoal, Zenon DEF BlobsRun, RowsMatchFiles
  <1> QED
    BY <1>1, BlobsRunOn, PTL DEF ServerSpec
=============================================================================
