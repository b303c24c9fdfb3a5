------------------------------ MODULE Catalog ------------------------------
(***************************************************************************)
(* The notebook tree and the tags of a shared workspace on several         *)
(* devices.  They travel inside snapshots only, never as operations; a     *)
(* note's metadata operation that names a notebook or tag the device does  *)
(* not know makes a hidden placeholder.                                    *)
(*   core/store/notebooks.go, tags.go                                      *)
(*   core/account/notes.go               the commands                      *)
(*   core/account/workspace_snapshot.go  catalog, digest and apply         *)
(*   desktop/sync.go                     the worker's snapshot hooks       *)
(*                                                                         *)
(* A clock reading is a number; the devices are numbers that break ties.   *)
(* The value of a name register is the reading it was written at.          *)
(***************************************************************************)
EXTENDS Naturals, Sequences, FiniteSets, TLC

CONSTANTS
    Devices,    \* naturals
    Notebooks,  \* naturals, Root excluded
    Tags,       \* naturals; tags are created under the names TagName gives
    TagName,
    Owner,      \* Owner[n]: the device whose user creates n
    Kinds,      \* which of "rename", "move", "delete" and "tag" the users do
    Interleaved,\* TRUE: commands run between the steps of a publication
    MaxClock, MaxOps, MaxRestarts

VARIABLES
    rows,     \* rows[d]: the notebooks table
    tags,     \* tags[d]: the tags table
    clock,    \* clock[d]: the last reading of the device's clock
    outbox,   \* outbox[d]: notebooks and tags named by pending operations
    log,      \* those named by the operations on the server, in order
    work,     \* work[d]: the sync cycle in progress
    memo,     \* memo[d]: what the worker remembers between cycles
    snap,     \* the newest snapshot on the server
    restarts

vars == <<rows, tags, clock, outbox, log, work, memo, snap, restarts>>

Root == 0
NoCatalog == [rows |-> <<>>, tags |-> <<>>]
NoSnapshot == [id |-> 0, cat |-> NoCatalog]
NoWork == [at |-> "idle", cursor |-> 0, id |-> 0, digest |-> NoCatalog, cat |-> NoCatalog]
NoMemo == [seq |-> 0, digest |-> NoCatalog, reviewed |-> 0, cursor |-> 0]
NoReading == [t |-> 0, d |-> 0]

Init ==
    /\ rows = [d \in Devices |-> <<>>] /\ tags = [d \in Devices |-> <<>>]
    /\ clock = [d \in Devices |-> 0] /\ outbox = [d \in Devices |-> <<>>]
    /\ log = <<>> /\ snap = NoSnapshot /\ restarts = 0
    /\ work = [d \in Devices |-> NoWork] /\ memo = [d \in Devices |-> NoMemo]

Later(a, b) == a.t > b.t \/ (a.t = b.t /\ a.d > b.d)
Calm(d) == Interleaved \/ work[d].at = "idle"

\* No list shows a placeholder.
Shown(d) == {n \in DOMAIN rows[d] : ~rows[d][n].hidden}

\* tick: any later reading.
tick(d, c) ==
    /\ c \in (clock[d] + 1)..MaxClock
    /\ clock' = [clock EXCEPT ![d] = c]

SetRow(d, n, row) == rows' = [rows EXCEPT ![d] = (n :> row) @@ @]
SetTag(d, t, row) == tags' = [tags EXCEPT ![d] = (t :> row) @@ @]

-----------------------------------------------------------------------------
(* Commands. *)

\* CreateNotebook: a parent must exist and not be deleted.
CreateNotebook(d, n, p, c) ==
    /\ Calm(d) /\ Owner[n] = d /\ n \notin DOMAIN rows[d]
    /\ p # Root => p \in DOMAIN rows[d] /\ ~rows[d][p].deleted.on
    /\ tick(d, c)
    /\ LET at == [t |-> c, d |-> d] IN
       SetRow(d, n, [name |-> at, parent |-> [v |-> p, c |-> at],
                     deleted |-> [on |-> FALSE, c |-> NoReading], hidden |-> FALSE])
    /\ UNCHANGED <<tags, outbox, log, work, memo, snap, restarts>>

\* RenameNotebook: a stale reading changes nothing.
RenameNotebook(d, n, c) ==
    /\ Calm(d) /\ "rename" \in Kinds /\ n \in Shown(d)
    /\ tick(d, c)
    /\ LET at == [t |-> c, d |-> d] IN
       IF Later(at, rows[d][n].name)
       THEN SetRow(d, n, [rows[d][n] EXCEPT !.name = at])
       ELSE UNCHANGED rows
    /\ UNCHANGED <<tags, outbox, log, work, memo, snap, restarts>>

Ancestors(r, n) ==
    LET up[k \in 0..Cardinality(Notebooks)] ==
          IF k = 0 THEN {n} ELSE up[k - 1] \cup {r[a].parent.v : a \in up[k - 1] \ {Root}}
    IN  up[Cardinality(Notebooks)]

SetParent(d, n, p, c) ==
    /\ tick(d, c)
    /\ LET at == [t |-> c, d |-> d] IN
       IF Later(at, rows[d][n].parent.c)
       THEN SetRow(d, n, [rows[d][n] EXCEPT !.parent = [v |-> p, c |-> at]])
       ELSE UNCHANGED rows
    /\ UNCHANGED <<tags, outbox, log, work, memo, snap, restarts>>

\* MoveNotebook walks up from the new parent and refuses a cycle.
MoveNotebook(d, n, p, c) ==
    /\ Calm(d) /\ "move" \in Kinds /\ n \in Shown(d) /\ p \in Shown(d) \cup {Root}
    /\ p # Root => n \notin Ancestors(rows[d], p)
    /\ SetParent(d, n, p, c)

SetNotebookDeleted(d, n, on, c) ==
    /\ Calm(d) /\ "delete" \in Kinds /\ n \in Shown(d)
    /\ tick(d, c)
    /\ LET at == [t |-> c, d |-> d] IN
       IF Later(at, rows[d][n].deleted.c)
       THEN SetRow(d, n, [rows[d][n] EXCEPT !.deleted = [on |-> on, c |-> at]])
       ELSE UNCHANGED rows
    /\ UNCHANGED <<tags, outbox, log, work, memo, snap, restarts>>

\* CreateTag: the index on the name refuses a second tag of that name, deleted
\* or not.
NameTaken(table, t, name) ==
    \E u \in DOMAIN table \ {t} : ~table[u].hidden /\ table[u].name = name

CreateTag(d, t, c) ==
    /\ Calm(d) /\ "tag" \in Kinds /\ Owner[t] = d /\ t \notin DOMAIN tags[d]
    /\ ~NameTaken(tags[d], t, TagName[t])
    /\ tick(d, c)
    /\ SetTag(d, t, [name |-> TagName[t], deleted |-> FALSE, hidden |-> FALSE])
    /\ UNCHANGED <<rows, outbox, log, work, memo, snap, restarts>>

\* SetNoteNotebook and SetNoteTag: the note's operation names the row.
NameInOperation(d, x, c) ==
    /\ Calm(d) /\ x \in Shown(d) \cup {t \in DOMAIN tags[d] : ~tags[d][t].hidden}
    /\ Len(log) + Cardinality({<<e, i>> \in Devices \X (1..MaxOps) : i <= Len(outbox[e])}) < MaxOps
    /\ tick(d, c)
    /\ outbox' = [outbox EXCEPT ![d] = Append(@, [row |-> x, t |-> c])]
    /\ UNCHANGED <<rows, tags, log, work, memo, snap, restarts>>

-----------------------------------------------------------------------------
(* Snapshots. *)

\* ListNotebooks: the reading of a cleared tombstone is not listed.
ListNotebooks(table) ==
    [n \in DOMAIN table |->
       IF table[n].deleted.on THEN table[n] ELSE [table[n] EXCEPT !.deleted.c = NoReading]]

\* snapshotCatalogForWorkspace
catalog(d) == [rows |-> ListNotebooks(rows[d]), tags |-> tags[d]]

\* The name and the parent are merged by their readings.
UpsertByReading(table, snapshot) ==
    [n \in DOMAIN snapshot |->
       IF n \notin DOMAIN table THEN snapshot[n]
       ELSE [snapshot[n] EXCEPT
               !.name = IF Later(table[n].name, @) THEN table[n].name ELSE @,
               !.parent = IF Later(table[n].parent.c, @.c) THEN table[n].parent ELSE @]] @@ table

\* UpsertSnapshotNotebook, first with a root parent and then with the real one:
\* rows of the snapshot replace the local ones whatever their readings.
UpsertSnapshotNotebooks(table, snapshot) == snapshot @@ table

\* UpsertSnapshotTag replaces by id; the index on the name stays in force.
UpsertSnapshotTags(table, snapshot) == snapshot @@ table
TagsConflict(table, snapshot) ==
    \E t \in DOMAIN snapshot : NameTaken(table, t, snapshot[t].name)

\* EnsureNotebookPlaceholder and EnsureTagPlaceholder.
EnsurePlaceholder(d, x) ==
    IF x \in Notebooks
    THEN /\ rows' = [rows EXCEPT ![d] =
                       @ @@ (x :> [name |-> NoReading, parent |-> [v |-> Root, c |-> NoReading],
                                   deleted |-> [on |-> TRUE, c |-> NoReading], hidden |-> TRUE])]
         /\ UNCHANGED tags
    ELSE /\ tags' = [tags EXCEPT ![d] = @ @@ (x :> [name |-> TagName[x], deleted |-> TRUE, hidden |-> TRUE])]
         /\ UNCHANGED rows

HasPendingSyncPlaceholders(d) ==
    \/ \E n \in DOMAIN rows[d] : rows[d][n].hidden
    \/ \E t \in DOMAIN tags[d] : tags[d][t].hidden

\* applySnapshotCatalog is one transaction; a tag whose name another tag has
\* takes all of it back.
applySnapshotCatalog(d, cat) ==
    /\ ~TagsConflict(tags[d], cat.tags)
    /\ rows' = [rows EXCEPT ![d] = UpsertSnapshotNotebooks(@, cat.rows)]
    /\ tags' = [tags EXCEPT ![d] = UpsertSnapshotTags(@, cat.tags)]

-----------------------------------------------------------------------------
(* The cycle of the sync worker. *)

At(d, step) == work[d].at = step
Go(d, step) == work' = [work EXCEPT ![d].at = step]

\* One operation is pulled and applied; Observe moves the clock.
Pull(d) ==
    /\ work[d].at \in {"idle", "pull"} /\ memo[d].cursor < Len(log)
    /\ LET op == log[memo[d].cursor + 1] IN
       /\ EnsurePlaceholder(d, op.row)
       /\ clock' = [clock EXCEPT ![d] = IF op.t > @ THEN op.t ELSE @]
    /\ memo' = [memo EXCEPT ![d].cursor = @ + 1]
    /\ Go(d, "pull")
    /\ UNCHANGED <<outbox, log, snap, restarts>>

Pulled(d) ==
    /\ work[d].at \in {"idle", "pull"} /\ memo[d].cursor = Len(log)
    /\ work' = [work EXCEPT ![d].at = "review", ![d].cursor = memo[d].cursor]
    /\ UNCHANGED <<rows, tags, clock, outbox, log, memo, snap, restarts>>

\* ReviewSnapshot: a failed apply ends the cycle before anything is pushed.
ReviewSnapshot(d) ==
    /\ At(d, "review")
    /\ IF snap.id \in {0, memo[d].reviewed} THEN Go(d, "push") /\ UNCHANGED <<rows, tags, memo>>
       ELSE \/ /\ applySnapshotCatalog(d, snap.cat)
               /\ memo' = [memo EXCEPT ![d].reviewed = snap.id]
               /\ Go(d, "push")
            \/ /\ TagsConflict(tags[d], snap.cat.tags)
               /\ work' = [work EXCEPT ![d] = NoWork]
               /\ UNCHANGED <<rows, tags, memo>>
    /\ UNCHANGED <<clock, outbox, log, snap, restarts>>

Push(d) ==
    /\ At(d, "push")
    /\ log' = log \o outbox[d]
    /\ outbox' = [outbox EXCEPT ![d] = <<>>]
    /\ work' = [work EXCEPT ![d] = IF work[d].cursor = 0 THEN NoWork ELSE [@ EXCEPT !.at = "publish"]]
    /\ UNCHANGED <<rows, tags, clock, memo, snap, restarts>>

End(d) == work' = [work EXCEPT ![d] = NoWork]

\* The catalog alone is no reason to publish.
PublishForOperations(d) ==
    /\ At(d, "publish")
    /\ IF HasPendingSyncPlaceholders(d) \/ work[d].cursor <= memo[d].seq \/ memo[d].seq # 0
       THEN End(d)
       ELSE work' = [work EXCEPT ![d].at = "create", ![d].digest = catalog(d)]
    /\ UNCHANGED <<rows, tags, clock, outbox, log, memo, snap, restarts>>

\* PublishSnapshot: a device with a placeholder waits; otherwise a changed
\* catalog is published, and an unchanged one once.  Fewer than a thousand
\* operations follow.
PublishSnapshot(d) ==
    /\ At(d, "publish")
    /\ IF \/ HasPendingSyncPlaceholders(d)
          \/ catalog(d) = memo[d].digest /\ (work[d].cursor <= memo[d].seq \/ memo[d].seq # 0)
       THEN End(d)
       ELSE work' = [work EXCEPT ![d].at = "create", ![d].digest = catalog(d)]
    /\ UNCHANGED <<rows, tags, clock, outbox, log, memo, snap, restarts>>

\* CreateWorkspaceSnapshot reads the catalog again.
CreateWorkspaceSnapshot(d) ==
    /\ At(d, "create")
    /\ work' = [work EXCEPT ![d].at = "put", ![d].cat = catalog(d)]
    /\ UNCHANGED <<rows, tags, clock, outbox, log, memo, snap, restarts>>

PutSnapshot(d) ==
    /\ At(d, "put")
    /\ snap' = [id |-> snap.id + 1, cat |-> work[d].cat]
    /\ work' = [work EXCEPT ![d].at = "apply", ![d].id = snap.id + 1]
    /\ UNCHANGED <<rows, tags, clock, outbox, log, memo, restarts>>

\* The device applies the snapshot it published.
ApplyPublished(d) ==
    /\ At(d, "apply")
    /\ applySnapshotCatalog(d, work[d].cat)
    /\ memo' = [memo EXCEPT ![d].seq = work[d].cursor, ![d].digest = work[d].digest,
                            ![d].reviewed = work[d].id]
    /\ End(d)
    /\ UNCHANGED <<clock, outbox, log, snap, restarts>>

\* The worker is built anew; the cursor is stored.
Restart(d) ==
    /\ restarts < MaxRestarts
    /\ restarts' = restarts + 1
    /\ memo' = [memo EXCEPT ![d] = [NoMemo EXCEPT !.cursor = memo[d].cursor]]
    /\ End(d)
    /\ UNCHANGED <<rows, tags, clock, outbox, log, snap>>

Cycle(d) ==
    \/ Pull(d) \/ Pulled(d) \/ ReviewSnapshot(d) \/ Push(d)
    \/ PublishSnapshot(d) \/ CreateWorkspaceSnapshot(d) \/ PutSnapshot(d) \/ ApplyPublished(d)

Command(d) ==
    \E c \in (clock[d] + 1)..MaxClock :
      \/ \E n \in Notebooks :
           \/ \E p \in Notebooks \cup {Root} : CreateNotebook(d, n, p, c) \/ MoveNotebook(d, n, p, c)
           \/ RenameNotebook(d, n, c)
           \/ \E on \in BOOLEAN : SetNotebookDeleted(d, n, on, c)
      \/ \E t \in Tags : CreateTag(d, t, c)
      \/ \E x \in Notebooks \cup Tags : NameInOperation(d, x, c)

Next == \E d \in Devices : Cycle(d) \/ Command(d) \/ Restart(d)

Spec == Init /\ [][Next]_vars
FairSpec == Spec /\ \A d \in Devices : WF_vars(Cycle(d))

-----------------------------------------------------------------------------
(* Properties. *)

\* No notebook is its own ancestor on any device or in the published catalog,
\* although moves are checked on one device only and catalogs are exchanged
\* without a check: MoveNotebook and the lists that walk the tree end.
Acyclic(r) ==
    \A n \in DOMAIN r : \A p \in {r[n].parent.v} \ {Root} : n \notin Ancestors(r, p)
TreeAcyclic == Acyclic(snap.cat.rows) /\ \A d \in Devices : Acyclic(rows[d])

\* A snapshot never carries the nameless stand-in of a row its author does not
\* know yet: a stand-in in the newest snapshot would replace the real row on
\* the device that has it.
NoPlaceholderPublished ==
    /\ \A n \in DOMAIN snap.cat.rows : ~snap.cat.rows[n].hidden
    /\ \A t \in DOMAIN snap.cat.tags : ~snap.cat.tags[t].hidden

\* Once the workspace has an operation, a notebook or tag that a user makes is
\* published: it comes to be in a snapshot, restarts included, unless its device
\* waits for ever for a row it has only a placeholder of.
RowsPublished ==
    <>(log # <<>>) =>
    \A x \in Notebooks \cup Tags :
        /\ <>(x \in DOMAIN rows[Owner[x]] \cup DOMAIN tags[Owner[x]])
        /\ <>[]~HasPendingSyncPlaceholders(Owner[x])
        => <>(x \in DOMAIN snap.cat.rows \cup DOMAIN snap.cat.tags)

\* "Name, ParentID, and Deleted are independent LWW registers ordered by their
\* *Clock field" (core/store/notebooks.go): a name is never replaced by one
\* with an earlier reading.
NamesAdvance ==
    \A d \in Devices : \A n \in DOMAIN rows[d] :
        ~rows[d][n].hidden => ~Later(rows[d][n].name, rows'[d][n].name)
NamesOrdered == [][NamesAdvance]_vars

=============================================================================
