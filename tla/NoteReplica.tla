----------------------------- MODULE NoteReplica -----------------------------
(***************************************************************************)
(* The notes of a workspace on several devices: the local commands that    *)
(* change them and record a signed operation in the outbox, and the        *)
(* application of the operations of others (core/account/notes.go,         *)
(* notecommands.go, sync_processor.go, gc.go; core/store/notes.go,         *)
(* tags.go, devices.go).  Operations travel through one log in which each  *)
(* author's operations keep their order; that the transports provide it is *)
(* shown for SyncEngine and FolderTransport.  A body is the set of Yjs     *)
(* updates merged into it; an update, a title or a flag value is named     *)
(* after the operation that carries it.                                    *)
(***************************************************************************)
EXTENDS HLC, FiniteSets, Sequences

CONSTANTS
    Device,      \* positive numbers
    Note,
    None,        \* no note row
    Retention,   \* gcMinimumRetention
    Creators,    \* bound: devices that create notes
    MaxOps,      \* bound: operations written
    MaxWall,     \* bound: largest reading of a wall clock
    MaxFaults,   \* bound: failed commands and faults
    Kinds,       \* metadata commands of the instance
    Features     \* further commands of the instance

VARIABLES
    clock,       \* model.Clock.last
    saved,       \* devices.clock_physical_ms, clock_logical
    notes,       \* the notes rows with their body, tag and search rows
    rows,        \* notebook and tag rows, placeholders included
    outbox,      \* operations not yet in the log
    log,         \* the operations in server order
    cursor,      \* how far each device has applied the log
    candidates,  \* notes a running garbage collection has listed
    collected,   \* history: <<device, note>> erased by garbage collection
    faults       \* failed commands and restarts so far

vars == <<clock, saved, notes, rows, outbox, log, cursor, candidates, collected, faults>>

Book == "book"
Tag == "tag"
Metadata == {"notebook", "tag", "flags", "deleted"}

Blank == Register(0, Zero)

\* ---- operations

BodyOp(n, c, title, update) ==
    [n |-> n, by |-> c.d, at |-> c, kind |-> "body", title |-> title,
     update |-> update, val |-> 0]

MetadataOp(n, c, kind, v) ==
    [n |-> n, by |-> c.d, at |-> c, kind |-> kind, title |-> 0,
     update |-> {}, val |-> v]

\* Operations of device d in the order it wrote them.
Written(d) == SelectSeq(log, LAMBDA o : o.by = d) \o outbox[d]
Count == Len(log) + Cardinality(UNION {{d} \X DOMAIN outbox[d] : d \in Device})

\* ---- rows of the notes table

NewRow(title, c) ==
    [title |-> Register(title, c), notebook |-> Blank, flags |-> Blank,
     deleted |-> Blank, tag |-> Blank, body |-> {}, fts |-> <<title, {}>>]

\* store.CreateNote: the notebook register is written only when it is given.
CreateRow(title, inBook, c) ==
    [NewRow(title, c) EXCEPT !.notebook = IF inBook THEN Register(1, c) ELSE Blank]

\* The row of a note whose first known operation came from another device.
InsertReplicatedNote(title, c) == NewRow(title, c)

SetNoteTitle(row, v, c) == [row EXCEPT !.title = Write(@, v, c)]
SetNoteNotebook(row, v, c) == [row EXCEPT !.notebook = Write(@, v, c)]
SetNoteFlags(row, v, c) == [row EXCEPT !.flags = Write(@, v, c)]

SetNoteDeleted(row, v, c) == [row EXCEPT !.deleted = Write(@, v, c)]

\* One register per note and tag.
SetNoteTag(row, v, c) == [row EXCEPT !.tag = Write(@, v, c)]

SetMetadata(row, kind, v, c) ==
    CASE kind = "notebook" -> SetNoteNotebook(row, v, c)
      [] kind = "flags"    -> SetNoteFlags(row, v, c)
      [] kind = "deleted"  -> SetNoteDeleted(row, v, c)
      [] kind = "tag"      -> SetNoteTag(row, v, c)

ReplaceNoteFTS(row, title, body) == [row EXCEPT !.fts = <<title, body>>]

\* Merging a Yjs update; merged updates are never lost and repetition is
\* harmless.
ApplyUpdate(row, update) == [row EXCEPT !.body = @ \cup update]

\* ---- local commands

\* clock.Tick at a reading now of the wall clock.
Tick(d, now) == Advance(clock[d], now, d)

\* devices.clock moves only forwards.
AdvanceDeviceClock(d, c) ==
    IF c.p > saved[d].p \/ (c.p = saved[d].p /\ c.l > saved[d].l) THEN c ELSE saved[d]

\* The clock is stored by the transaction of the command that ticked it.
Persist(d, c) == AdvanceDeviceClock(d, c)

\* One local transaction at clock c: the new row of note n and its operations.
CommitLocal(d, n, c, row, ops) ==
    /\ Count + Len(ops) <= MaxOps
    /\ c # Overflow
    /\ clock' = [clock EXCEPT ![d] = c]
    /\ saved' = [saved EXCEPT ![d] = Persist(d, c)]
    /\ notes' = [notes EXCEPT ![d][n] = row]
    /\ outbox' = [outbox EXCEPT ![d] = @ \o ops]
    /\ UNCHANGED <<log, cursor, candidates, collected, faults>>

\* A note identifier is fresh: it is used by one CreateNote only.
Unused(n) == /\ \A e \in Device : notes[e][n] = None /\ <<e, n>> \notin collected
             /\ \A e \in Device : \A i \in 1..Len(Written(e)) : Written(e)[i].n # n

CreateNote(d, now, n, inBook) ==
    LET c == Tick(d, now)  title == Count + 1
        create == BodyOp(n, c, title, {})
        file == MetadataOp(n, c, "notebook", 1)
    IN  /\ d \in Creators
        /\ Unused(n)
        /\ inBook => Book \in rows[d]
        /\ CommitLocal(d, n, c, CreateRow(title, inBook, c),
                       IF inBook THEN <<create, file>> ELSE <<create>>)
        /\ UNCHANGED rows

\* The editor's save: a new update, and the title when it was edited too.
CommitNoteBody(d, now, n, rename) ==
    LET c == Tick(d, now)  id == Count + 1  row == notes[d][n]
        merged == ApplyUpdate(row, {id})
        titled == IF rename THEN SetNoteTitle(merged, id, c) ELSE merged
    IN  /\ row # None
        /\ CommitLocal(d, n, c,
               ReplaceNoteFTS(titled, IF rename THEN id ELSE row.title.val, merged.body),
               <<BodyOp(n, c, IF rename THEN id ELSE 0, {id})>>)
        /\ UNCHANGED rows

\* The tag or notebook a local command names is one this device lists.
LocalValues(d, kind) ==
    CASE kind = "notebook" -> IF Book \in rows[d] THEN {0, 1} ELSE {0}
      [] kind = "tag" -> IF Tag \in rows[d] THEN {0, 1} ELSE {}
      [] kind = "flags" -> {Count + 1}
      [] kind = "deleted" -> {0, 1}

\* SetNoteNotebook, SetNoteFlags, SetNoteTag, DeleteNote and RestoreNote.
CommitNoteMetadata(d, now, n, kind) ==
    LET c == Tick(d, now)  row == notes[d][n] IN
    /\ row # None
    /\ \E v \in LocalValues(d, kind) :
           CommitLocal(d, n, c, SetMetadata(row, kind, v, c), <<MetadataOp(n, c, kind, v)>>)
    /\ UNCHANGED rows

\* A command whose transaction fails has still used up a clock value.
FailedCommand(d, now) ==
    /\ faults < MaxFaults
    /\ Tick(d, now) # Overflow
    /\ clock' = [clock EXCEPT ![d] = Tick(d, now)]
    /\ faults' = faults + 1
    /\ UNCHANGED <<saved, notes, rows, outbox, log, cursor, candidates, collected>>

\* RestoreRevision commits the whole document with the old text put back.
RestoreRevision(d, now, n) ==
    LET c == Tick(d, now)  id == Count + 1  row == notes[d][n]
        update == row.body \cup {id}
        merged == ApplyUpdate(row, update)
    IN  /\ row # None
        /\ CommitLocal(d, n, c, ReplaceNoteFTS(merged, row.title.val, merged.body),
                       <<BodyOp(n, c, 0, update)>>)
        /\ UNCHANGED rows

\* ---- operations of other devices

\* The transport sequences the oldest operation of a device.
Sequence(d) ==
    /\ outbox[d] # <<>>
    /\ log' = Append(log, Head(outbox[d]))
    /\ outbox' = [outbox EXCEPT ![d] = Tail(@)]
    /\ UNCHANGED <<clock, saved, notes, rows, cursor, candidates, collected, faults>>

\* SyncProcessor.Verify: the clock must not lead by more than the skew.
Verify(now, o) == o.at.p <= now + MaxFutureSkew

\* A body operation: the update and the index row when it has one, then the
\* title.
ApplyBody(row, o) ==
    LET merged == ApplyUpdate(row, o.update)
        title == IF o.title # 0 /\ Later(o.at, row.title.at) THEN o.title ELSE row.title.val
        indexed == IF o.update # {} THEN ReplaceNoteFTS(merged, title, merged.body)
                   ELSE merged
    IN  IF o.title # 0 THEN SetNoteTitle(indexed, o.title, o.at) ELSE indexed

\* Mutation: a tombstone of any age stops body operations.
AcceptsBodyUndeleted(row, o) == row.deleted.val = 0

\* A body operation older than the tombstone of the note is dropped.
AcceptsBody(row, o) == row.deleted.val = 0 \/ Later(o.at, row.deleted.at)

\* The row after verifiedNoteOperation.Apply; None when the note is unknown
\* and the operation cannot create it.
Applied(row, o) ==
    IF o.kind # "body"
    THEN IF row = None THEN None ELSE SetMetadata(row, o.kind, o.val, o.at)
    ELSE LET found == IF row = None THEN InsertReplicatedNote(o.title, o.at) ELSE row
         IN  IF AcceptsBody(found, o) THEN ApplyBody(found, o) ELSE found

\* A note is filed or tagged before the catalog row is known: a hidden
\* placeholder row takes its place.
EnsureNotebookPlaceholder(d, o) ==
    IF o.kind = "notebook" /\ o.val = 1 THEN rows[d] \cup {Book} ELSE rows[d]
EnsureTagPlaceholder(d, o) ==
    IF o.kind = "tag" THEN rows[d] \cup {Tag} ELSE rows[d]

\* Device d applies the next operation of the log that is not its own; its
\* own operations only move the cursor.  One that cannot be verified or
\* applied stays where it is.
Apply(d, now) ==
    \E i \in cursor[d] + 1 .. Len(log) :
        LET o == log[i]
            row == Applied(notes[d][o.n], o)
            c == Observe(clock[d], o.at, now, d)
        IN  /\ o.by # d
            /\ \A j \in cursor[d] + 1 .. i - 1 : log[j].by = d
            /\ Verify(now, o)
            /\ row # None
            /\ c # Overflow
            /\ notes' = [notes EXCEPT ![d][o.n] = row]
            /\ rows' = [rows EXCEPT ![d] = EnsureNotebookPlaceholder(d, o) \cup
                                           EnsureTagPlaceholder(d, o)]
            /\ clock' = [clock EXCEPT ![d] = c]
            /\ saved' = [saved EXCEPT ![d] = AdvanceDeviceClock(d, c)]
            /\ cursor' = [cursor EXCEPT ![d] = i]
            /\ UNCHANGED <<outbox, log, candidates, collected, faults>>

\* ---- garbage collection

Expired(d, n, now) ==
    /\ notes[d][n] # None
    /\ notes[d][n].deleted.val = 1
    /\ notes[d][n].deleted.at.p + Retention <= now

\* RunGarbageCollection lists the expired tombstones first ...
RunGarbageCollection(d, now) ==
    /\ candidates[d] = {}
    /\ \E n \in Note : Expired(d, n, now)
    /\ candidates' = [candidates EXCEPT ![d] = {n \in Note : Expired(d, n, now)}]
    /\ UNCHANGED <<clock, saved, notes, rows, outbox, log, cursor, collected, faults>>

\* A note and every row that belongs to it alone.
DeleteNoteCompletely(d, n) == [notes EXCEPT ![d][n] = None]

\* ... and then erases each in a transaction of its own.
CollectNote(d, n) ==
    /\ n \in candidates[d]
    /\ notes' = DeleteNoteCompletely(d, n)
    /\ candidates' = [candidates EXCEPT ![d] = @ \ {n}]
    /\ collected' = collected \cup {<<d, n>>}
    /\ UNCHANGED <<clock, saved, rows, outbox, log, cursor, faults>>

\* ---- environment

\* The highest clock the device has stored.
LoadDeviceClock(d) == saved[d]

\* The client is restarted.
Restart(d) ==
    /\ faults < MaxFaults
    /\ clock' = [clock EXCEPT ![d] = LoadDeviceClock(d)]
    /\ candidates' = [candidates EXCEPT ![d] = {}]
    /\ faults' = faults + 1
    /\ UNCHANGED <<saved, notes, rows, outbox, log, cursor, collected>>

Init ==
    /\ clock = [d \in Device |-> Zero]
    /\ saved = [d \in Device |-> Zero]
    /\ notes = [d \in Device |-> [n \in Note |-> None]]
    /\ rows = [d \in Device |-> IF d = 1 THEN {Book, Tag} ELSE {}]
    /\ outbox = [d \in Device |-> <<>>]
    /\ log = <<>>
    /\ cursor = [d \in Device |-> 0]
    /\ candidates = [d \in Device |-> {}]
    /\ collected = {}
    /\ faults = 0

Command(d, now) ==
    \/ \E n \in Note, inBook \in BOOLEAN : CreateNote(d, now, n, inBook)
    \/ \E n \in Note, rename \in BOOLEAN : CommitNoteBody(d, now, n, rename)
    \/ \E n \in Note, kind \in Kinds : CommitNoteMetadata(d, now, n, kind)
    \/ \E n \in Note : "revision" \in Features /\ RestoreRevision(d, now, n)

\* The wall clock may read anything each time it is read.  Every command writes
\* an operation, so their bound is looked at once.
Next ==
    \E d \in Device :
        \/ Count < MaxOps /\ \E now \in 1..MaxWall : Command(d, now)
        \/ \E now \in 1..MaxWall : FailedCommand(d, now)
        \/ \E now \in 1..MaxWall : Apply(d, now)
        \/ Sequence(d)
        \/ \E now \in 1..MaxWall : "gc" \in Features /\ RunGarbageCollection(d, now)
        \/ \E n \in Note : CollectNote(d, n)
        \/ Restart(d)

Spec == Init /\ [][Next]_vars

-----------------------------------------------------------------------------

\* Operations on note n that device d has written or applied.
Elements(s) == {s[i] : i \in DOMAIN s}
Seen(d, n) ==
    {o \in Elements(Written(d)) \cup Elements(SubSeq(log, 1, cursor[d])) : o.n = n}

Held(d, n) == notes[d][n] # None /\ <<d, n>> \notin collected

IsLatest(reg, ops, val(_)) ==
    \/ ops = {} /\ reg = Blank
    \/ \E o \in ops : /\ reg = Register(val(o), o.at)
                      /\ \A x \in ops : x.at = o.at \/ Later(o.at, x.at)

\* Whatever the order in which operations are written, sequenced and applied
\* (SetNoteNotebook, SetNoteFlags, SetNoteTag, SetNoteDeleted; Apply): each
\* metadata register of a note that was not collected holds the write with
\* the latest clock among all the writes the device knows.  Devices that know
\* the same operations therefore agree.
RegistersAreLatest ==
    \A d \in Device, n \in Note : Held(d, n) =>
        LET seen == Seen(d, n) IN
        \A kind \in Metadata :
            IsLatest(notes[d][n][kind], {o \in seen : o.kind = kind}, LAMBDA o : o.val)

\* A note has the update of every body operation the device knows, unless a
\* later deletion is known too, and, when no deletion is known, the latest of
\* their titles (applyBody, InsertReplicatedNote, CommitNoteBody).
EditsAreKept ==
    \A d \in Device, n \in Note : Held(d, n) =>
        LET seen == Seen(d, n)
            bodies == {o \in seen : o.kind = "body"}
            deletions == {o \in seen : o.kind = "deleted" /\ o.val = 1}
        IN  /\ \A o \in bodies :
                   (\A t \in deletions : Later(o.at, t.at)) => o.update \subseteq notes[d][n].body
            /\ deletions = {} =>
                   IsLatest(notes[d][n].title, {o \in bodies : o.title # 0}, LAMBDA o : o.title)

\* The search index row of a note always has the title and the text of the
\* note, whichever of the two paths wrote them (CommitNoteBody, applyBody).
IndexInStep ==
    \A d \in Device, n \in Note : notes[d][n] # None =>
        notes[d][n].fts = <<notes[d][n].title.val, notes[d][n].body>>

\* A local command takes effect at once: it is never superseded by a write
\* the device applied earlier, however far ahead that writer's clock was
\* (Observe, Tick).
TakesEffect ==
    \A d \in Device : Len(outbox'[d]) > Len(outbox[d]) =>
        LET o == outbox'[d][Len(outbox'[d])]  row == notes'[d][o.n] IN
        IF o.kind = "body"
        THEN o.update \subseteq row.body /\ (o.title # 0 => row.title.val = o.title)
        ELSE row[o.kind].val = o.val
LocalEditTakesEffect == [][TakesEffect]_vars

\* Devices that know the same operations have the same body.
BodiesConverge ==
    \A d, e \in Device, n \in Note :
        (Held(d, n) /\ Held(e, n) /\ Seen(d, n) = Seen(e, n)) =>
            notes[d][n].body = notes[e][n].body

=============================================================================
