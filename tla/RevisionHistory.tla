-------------------------- MODULE RevisionHistory --------------------------
(***************************************************************************)
(* The revision history of a note on one device: the delta that every      *)
(* local commit records, the checkpoint after Interval of them, replay,    *)
(* restoration and pruning, beside operations of other devices (which      *)
(* record no revision), key rotations and the re-encryption of snapshots.  *)
(*   core/account/notecommands.go, revisions.go, hardening.go              *)
(*   core/store/revisions.go                                               *)
(*                                                                         *)
(* A Yjs document is the set of updates it was given.  An update inserts   *)
(* words, deletes what earlier updates inserted, and takes effect once the *)
(* updates it was made after are there.                                    *)
(***************************************************************************)
EXTENDS Naturals, Sequences, FiniteSets, FiniteSetsExt

CONSTANTS
    Callers,   \* calls of the user interface that may overlap
    Interval,  \* noteRevisionCheckpointInterval
    Retention, \* noteRevisionRetention
    MaxUpdates, MaxTime, MaxKey,
    Remote     \* whether other devices write to the note

VARIABLES
    updates,   \* every update made: [words, deleted, after, foreign]
    body,      \* the updates in the stored snapshot
    bodyKey,   \* the workspace key the snapshot is encrypted under
    key,       \* the current workspace key; the smaller ones are historical
    revisions, \* rows of the note in rowid order
    now, clock, \* days: the wall clock, and the physical part of the device's HLC
    call       \* [Callers -> the call under way]

vars == <<updates, body, bodyKey, key, revisions, now, clock, call>>

NoCall == [op |-> "none", key |-> 0, time |-> 0, data |-> {}]

Init ==
    /\ updates = <<>> /\ body = {} /\ bodyKey = 1 /\ key = 1
    /\ revisions = <<>> /\ now = 1 /\ clock = 1
    /\ call = [c \in Callers |-> NoCall]

-----------------------------------------------------------------------------
(* Documents and replay. *)

TakesEffect(doc) == {u \in doc : updates[u].after \subseteq doc}
Text(doc) ==
    LET live == TakesEffect(doc)
    IN  UNION {updates[u].words : u \in {v \in live : \A w \in live : v \notin updates[w].deleted}}

\* reconstructNoteDocument starts at the youngest checkpoint up to revision i.
Start(i) ==
    LET marks == {j \in 1..i : revisions[j].kind = "checkpoint"}
    IN  IF marks = {} THEN 1 ELSE Max(marks)
reconstructNoteDocument(i) == UNION {revisions[j].data : j \in Start(i)..i}

\* applyRevision opens every revision with the current key only.
applyRevision(i) == \A j \in Start(i)..i : revisions[j].key = key

-----------------------------------------------------------------------------
(* CommitNoteBody. *)

\* workspaceSession and the clock come before the transaction.
Begin(c, data) ==
    LET time == IF clock > now THEN clock ELSE now
    IN  /\ clock' = time
        /\ call' = [call EXCEPT ![c] = [op |-> "commit", key |-> key, time |-> time, data |-> data]]

\* The editor sends what it typed since it loaded the document.
Edit(c) ==
    /\ call[c] = NoCall /\ Len(updates) < MaxUpdates
    /\ LET u == Len(updates) + 1
       IN  /\ updates' = Append(updates, [words |-> {u}, deleted |-> {}, after |-> body, foreign |-> FALSE])
           /\ Begin(c, {u})
    /\ UNCHANGED <<body, bodyKey, key, revisions, now>>

\* RestoreRevision replaces the text read now by the text of revision i, in an
\* update that carries the whole document.
RestoreRevision(c, i) ==
    /\ call[c] = NoCall /\ Len(updates) < MaxUpdates
    /\ applyRevision(i)
    /\ LET u == Len(updates) + 1
           old == Text(reconstructNoteDocument(i))
       IN  /\ Text(body) # old
           /\ updates' = Append(updates, [words |-> old, deleted |-> body, after |-> body, foreign |-> FALSE])
           /\ Begin(c, body \cup {u})
    /\ UNCHANGED <<body, bodyKey, key, revisions, now>>

\* Revisions since the last checkpoint are counted in insertion order.
CheckpointDue(rows) ==
    LET marks == {j \in DOMAIN rows : rows[j].kind = "checkpoint"}
    IN  Cardinality({j \in DOMAIN rows : \A m \in marks : j > m}) >= Interval

\* was and at are history: the document and the day of the commit.
Row(kind, c, data, was) ==
    [kind |-> kind, key |-> call[c].key, data |-> data, time |-> call[c].time, was |-> was, at |-> now]

\* The snapshot of the checkpoint is read before the update is applied.
CommitStaleCheckpoint(c) ==
    /\ call[c].op = "commit"
    /\ LET doc == body \cup call[c].data
           rows == Append(revisions, Row("delta", c, call[c].data, doc))
       IN  /\ body' = doc /\ bodyKey' = call[c].key
           /\ revisions' = IF CheckpointDue(rows)
                           THEN Append(rows, Row("checkpoint", c, body, doc))
                           ELSE rows
    /\ call' = [call EXCEPT ![c] = NoCall]
    /\ UNCHANGED <<updates, key, now, clock>>

\* One transaction: the snapshot, the delta, and a checkpoint when one is due.
CommitNoteBody(c) ==
    /\ call[c].op = "commit"
    /\ LET doc == body \cup call[c].data
           rows == Append(revisions, Row("delta", c, call[c].data, doc))
       IN  /\ body' = doc /\ bodyKey' = call[c].key
           /\ revisions' = IF CheckpointDue(rows)
                           THEN Append(rows, Row("checkpoint", c, doc, doc))
                           ELSE rows
    /\ call' = [call EXCEPT ![c] = NoCall]
    /\ UNCHANGED <<updates, key, now, clock>>

\* The transaction fails.
CommitFails(c) ==
    /\ call[c].op = "commit"
    /\ call' = [call EXCEPT ![c] = NoCall]
    /\ UNCHANGED <<updates, body, bodyKey, key, revisions, now, clock>>

-----------------------------------------------------------------------------
(* Pruning, other devices, keys. *)

PruneTo(i) == revisions' = SubSeq(revisions, i, Len(revisions))

\* PruneRevisions keeps the youngest checkpoint at or before the cutoff and
\* everything after it.
PruneRevisions ==
    /\ LET marks == {j \in DOMAIN revisions :
                       revisions[j].kind = "checkpoint" /\ revisions[j].time + Retention <= now}
       IN  marks # {} /\ PruneTo(Max(marks))
    /\ UNCHANGED <<updates, body, bodyKey, key, now, clock, call>>

\* applyBody saves the snapshot under the key of the operation; Observe may
\* take the clock into the future.
applyBody(k) ==
    /\ Remote /\ Len(updates) < MaxUpdates
    /\ \E seen \in {{}, body}, erased \in {{}, body} :
         /\ erased \subseteq seen
         /\ updates' = Append(updates, [words |-> {Len(updates) + 1}, deleted |-> erased,
                                        after |-> seen, foreign |-> TRUE])
    /\ body' = body \cup {Len(updates) + 1} /\ bodyKey' = k
    /\ clock' \in {clock, now + 1}
    /\ UNCHANGED <<key, revisions, now, call>>

AcceptWorkspaceKeyRotation ==
    /\ key < MaxKey
    /\ key' = key + 1
    /\ UNCHANGED <<updates, body, bodyKey, revisions, now, clock, call>>

\* HardenWorkspaceKey reads the current key first.
HardenWorkspaceKey(c) ==
    /\ call[c] = NoCall /\ bodyKey # key
    /\ call' = [call EXCEPT ![c] = [NoCall EXCEPT !.op = "harden", !.key = key, !.data = body]]
    /\ UNCHANGED <<updates, body, bodyKey, key, revisions, now, clock>>

\* The snapshot is loaded again in the transaction that writes it.
rehardenNoteSnapshot(c) ==
    /\ call[c].op = "harden"
    /\ bodyKey' = call[c].key
    /\ call' = [call EXCEPT ![c] = NoCall]
    /\ UNCHANGED <<updates, body, key, revisions, now, clock>>

\* No call lasts a day.
Tick ==
    /\ now < MaxTime /\ \A c \in Callers : call[c] = NoCall
    /\ now' = now + 1
    /\ UNCHANGED <<updates, body, bodyKey, key, revisions, clock, call>>

Next ==
    \/ \E c \in Callers :
         \/ Edit(c) \/ CommitNoteBody(c) \/ CommitFails(c)
         \/ HardenWorkspaceKey(c) \/ rehardenNoteSnapshot(c)
         \/ \E i \in DOMAIN revisions : RestoreRevision(c, i)
    \/ PruneRevisions \/ AcceptWorkspaceKeyRotation \/ Tick
    \/ \E k \in 1..key : applyBody(k)

Spec == Init /\ [][Next]_vars

-----------------------------------------------------------------------------
(* Properties. *)

\* Updates of other devices since the revision that replay starts from.
Foreign(i) ==
    LET first == revisions[Start(i)]
        base == IF first.kind = "checkpoint" THEN first.data ELSE {}
    IN  {u \in revisions[i].was \ base : updates[u].foreign}

\* "every revision returned here is fully reconstructible" (ListRevisions), of
\* the revisions under the current key with no operation of another device
\* since their checkpoint: replay shows the text the note had when the revision
\* was written, however calls overlap and whatever was pruned.
LocalHistoryReplays ==
    \A i \in DOMAIN revisions :
        applyRevision(i) /\ Foreign(i) = {} => Text(reconstructNoteDocument(i)) = Text(revisions[i].was)

\* No overlap of commits, restorations, operations of other devices and
\* re-encryption drops an update a revision recorded from the current note.
BodyKeepsHistory ==
    \A i \in DOMAIN revisions : revisions[i].was \subseteq body

=============================================================================
