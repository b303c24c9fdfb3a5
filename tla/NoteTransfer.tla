---------------------------- MODULE NoteTransfer ----------------------------
(***************************************************************************)
(* Notes leave the account in an archive (ExportNotes) and come back as    *)
(* new notes: ImportBerestaArchive, ImportEvernoteArchive and              *)
(* RestoreSelective.  Each is a chain of separate transactions, between    *)
(* which the user and synchronization go on deleting notebooks and tags,   *)
(* and each of which may fail.                                             *)
(*   core/account/export.go, import.go, restore.go                         *)
(*                                                                         *)
(* A name is a sequence: <<"x">> is a title x, <<"x", 1>> the title or the *)
(* file name "x (1)".  A note's text and its attachment are its number.    *)
(***************************************************************************)
EXTENDS Naturals, Sequences, FiniteSets, TLC

CONSTANTS
    Shape,     \* what a note may be: [title, book, tagged, file, deleted]
    Tree,      \* notebook tables: sequences of [parent, name, deleted]
    Sanitized, \* sanitizeExportName, as a function on names and titles
    Notes,     \* how many notes the account has
    Ops,       \* which of "archive", "enex" and "backup" are brought in
    MaxDeletes, MaxFaults

VARIABLES
    notes,   \* the notes, in the order ListNotes returns them
    books,   \* the notebooks table
    tag,     \* the one tag's row: "none", "live" or "deleted"
    disk,    \* the destination directory: NoArchive, or [entries, files]
    source,  \* what is being imported: a sequence of entries
    made,    \* the notes created from it
    job,     \* the call under way
    deletes, faults

vars == <<notes, books, tag, disk, source, made, job, deletes, faults>>

NoArchive == [entries |-> <<>>, files |-> <<>>]
Idle == [op |-> "idle", at |-> "idle", n |-> 1, seg |-> 1, parent |-> 0, memo |-> <<>>, knows |-> FALSE,
         used |-> <<>>, out |-> NoArchive]

Init ==
    /\ notes \in [1..Notes -> Shape] /\ books \in Tree
    /\ tag \in {"none", "live", "deleted"}
    /\ disk = NoArchive /\ source = <<>> /\ made = <<>> /\ job = Idle
    /\ deletes = 0 /\ faults = 0

Fault == faults < MaxFaults /\ faults' = faults + 1

-----------------------------------------------------------------------------
(* ExportNotes. *)

\* notebookPathSegments: the notebooks from the root down.
Chain(b) ==
    LET up[k \in 0..Len(books), c \in 0..Len(books)] ==
          IF c = 0 \/ k = 0 THEN <<>> ELSE Append(up[k - 1, books[c].parent], c)
    IN  up[Len(books), b]
notebookPathSegments(b) == [s \in DOMAIN Chain(b) |-> books[Chain(b)[s]].name]
sanitizedSegments(path) == [s \in DOMAIN path |-> Sanitized[path[s]]]

\* base, or base (n) when it was asked for n times before.
uniqueExportName(used, key, base) ==
    IF key \in DOMAIN used THEN Append(base, used[key]) ELSE base

\* A tag that notes of this account have is in its table.
HasNotes == tag # "none"

\* The destination must not exist.  An account exports before it imports.
ExportNotes ==
    /\ job = Idle /\ disk = NoArchive /\ made = <<>> /\ HasNotes
    /\ job' = [Idle EXCEPT !.op = "export", !.at = "note"]
    /\ UNCHANGED <<notes, books, tag, disk, source, made, deletes, faults>>

\* One note into the staging directory; deleted notes are skipped.  The counts
\* of names are kept by the names of the notebooks, the files by directories.
ExportNote ==
    /\ job.op = "export" /\ job.n <= Notes
    /\ LET n == job.n
           path == notebookPathSegments(notes[n].book)
           base == Sanitized[notes[n].title]
           dir == sanitizedSegments(path)
           key == <<path, base>>
           name == <<dir, uniqueExportName(job.used, key, base)>>
           attached == <<dir, "attachments", base>>
           entry == [n |-> n, title |-> notes[n].title, chain |-> Chain(notes[n].book), path |-> path,
                     tagged |-> notes[n].tagged, text |-> name, deleted |-> FALSE,
                     file |-> IF notes[n].file THEN attached ELSE <<>>]
       IN  job' = IF notes[n].deleted THEN [job EXCEPT !.n = n + 1]
                  ELSE [job EXCEPT !.n = n + 1,
                          !.used = (key :> (IF key \in DOMAIN @ THEN @[key] + 1 ELSE 1)) @@ @,
                          !.out.entries = Append(@, entry),
                          !.out.files = IF notes[n].file THEN (name :> n) @@ (attached :> n) @@ @
                                        ELSE (name :> n) @@ @]
    /\ UNCHANGED <<notes, books, tag, disk, source, made, deletes, faults>>

\* The manifest is written and the staging directory renamed.
PublishExport ==
    /\ job.op = "export" /\ job.n > Notes
    /\ disk' = job.out /\ job' = Idle
    /\ UNCHANGED <<notes, books, tag, source, made, deletes, faults>>

-----------------------------------------------------------------------------
(* Notes are brought in. *)

\* The attachments and the body come from the archive's files.
Archived == [i \in DOMAIN disk.entries |->
               [disk.entries[i] EXCEPT !.text = disk.files[@],
                                       !.file = IF @ = <<>> THEN 0 ELSE disk.files[@]]]

\* An .enex file knows no notebooks.
Enex == [n \in 1..Notes |->
           [n |-> n, title |-> notes[n].title, chain |-> <<>>, path |-> <<>>, tagged |-> notes[n].tagged,
            text |-> n, deleted |-> FALSE, file |-> IF notes[n].file THEN n ELSE 0]]

\* RestoreSelective takes a safety backup and verifies the set, then reads it.
Backup == [n \in 1..Notes |->
             [n |-> n, title |-> notes[n].title, chain |-> Chain(notes[n].book),
              path |-> notebookPathSegments(notes[n].book), tagged |-> notes[n].tagged, text |-> n,
              deleted |-> notes[n].deleted, file |-> IF notes[n].file THEN n ELSE 0]]

Import(op) ==
    /\ job = Idle /\ made = <<>> /\ op \in Ops
    /\ op = "archive" => disk # NoArchive
    /\ op = "backup" => HasNotes
    /\ source' = IF op = "archive" THEN Archived ELSE IF op = "enex" THEN Enex ELSE Backup
    /\ job' = [Idle EXCEPT !.op = op, !.at = "path"]
    /\ UNCHANGED <<notes, books, tag, disk, made, deletes, faults>>

Importing(at) == job.op \in {"archive", "enex", "backup"} /\ job.at = at /\ job.n <= Len(source)
Entry == source[job.n]
Last == made[Len(made)]
SetLast(m) == made' = [made EXCEPT ![Len(made)] = m]
Fails == job' = Idle

\* What is remembered is the notebook of that name.
KeyName == Entry.path[job.seg]

\* An import remembers paths, a restoration the notebooks of the backup.
Key == IF job.op = "backup" THEN <<Entry.chain[job.seg]>> ELSE SubSeq(Entry.path, 1, job.seg)

\* findOrCreateLocalNotebook; CreateNotebook refuses a deleted parent.
findOrCreateNotebookPath ==
    /\ Importing("path") /\ job.seg <= Len(Entry.path)
    /\ LET name == Entry.path[job.seg]
           found == {b \in DOMAIN books : ~books[b].deleted /\ books[b].parent = job.parent /\ books[b].name = name}
           Down(b) == job' = [job EXCEPT !.seg = @ + 1, !.parent = b, !.memo = (Key :> b) @@ @]
       IN  \/ Key \in DOMAIN job.memo /\ Down(job.memo[Key]) /\ UNCHANGED books
           \/ Key \notin DOMAIN job.memo /\ (\E b \in found : Down(b)) /\ UNCHANGED books
           \/ /\ Key \notin DOMAIN job.memo /\ found = {}
              /\ IF job.parent # 0 /\ books[job.parent].deleted
                 THEN Fails /\ UNCHANGED books
                 ELSE /\ books' = Append(books, [parent |-> job.parent, name |-> name, deleted |-> FALSE])
                      /\ Down(Len(books) + 1)
    /\ UNCHANGED <<notes, tag, disk, source, made, deletes, faults>>

CreateNote ==
    /\ Importing("path") /\ job.seg > Len(Entry.path)
    /\ made' = Append(made, [n |-> Entry.n, title |-> Entry.title, book |-> job.parent, text |-> 0,
                             tagged |-> FALSE, file |-> 0, deleted |-> FALSE, warned |-> FALSE])
    /\ job' = [job EXCEPT !.at = "body"]
    /\ UNCHANGED <<notes, books, tag, disk, source, deletes, faults>>

CommitBody ==
    /\ Importing("body")
    /\ SetLast([Last EXCEPT !.text = Entry.text])
    /\ job' = [job EXCEPT !.at = IF job.op = "backup" THEN "state" ELSE "tag"]
    /\ UNCHANGED <<notes, books, tag, disk, source, deletes, faults>>

\* A note that was deleted when the backup was made is deleted again.  Its
\* flags, set just before in the same way, are left out.
DeleteNote ==
    /\ Importing("state")
    /\ SetLast([Last EXCEPT !.deleted = Entry.deleted])
    /\ job' = [job EXCEPT !.at = "tag"]
    /\ UNCHANGED <<notes, books, tag, disk, source, deletes, faults>>

\* A deleted tag is not found, but its name is taken: CreateTag fails.
TagResolves == job.knows \/ tag # "deleted"

findOrCreateTagByName ==
    /\ Importing("tag")
    /\ \/ /\ ~Entry.tagged
          /\ job' = [job EXCEPT !.at = "file"] /\ UNCHANGED <<made, tag>>
       \/ /\ Entry.tagged /\ TagResolves
          /\ tag' = IF tag = "none" THEN "live" ELSE tag
          /\ SetLast([Last EXCEPT !.tagged = TRUE])
          /\ job' = [job EXCEPT !.at = "file", !.knows = TRUE]
       \/ /\ Entry.tagged /\ ~TagResolves
          /\ Fails /\ UNCHANGED <<made, tag>>
    /\ UNCHANGED <<notes, books, disk, source, deletes, faults>>

Proceed == job' = [job EXCEPT !.at = "path", !.n = @ + 1, !.seg = 1, !.parent = 0]

Attach == SetLast([Last EXCEPT !.file = Entry.file])
Warn == SetLast([Last EXCEPT !.warned = TRUE])

\* An import warns of an attachment it could not take, a restoration fails.
importAttachmentFile ==
    /\ Importing("file")
    /\ \/ Attach /\ Proceed /\ UNCHANGED faults
       \/ /\ Entry.file # 0 /\ Fault
          /\ IF job.op = "backup" THEN Fails /\ UNCHANGED made
             ELSE Warn /\ Proceed
    /\ UNCHANGED <<notes, books, tag, disk, source, deletes>>

Finish ==
    /\ job.op \in {"archive", "enex", "backup"} /\ job.n > Len(source)
    /\ job' = Idle
    /\ UNCHANGED <<notes, books, tag, disk, source, made, deletes, faults>>

\* Any call fails, or the process ends; a staging directory is not an export.
Stops ==
    /\ job # Idle /\ Fault
    /\ job' = Idle
    /\ UNCHANGED <<notes, books, tag, disk, source, made, deletes>>

\* The user, or another device, deletes a notebook or the tag.
Delete ==
    /\ deletes < MaxDeletes /\ deletes' = deletes + 1
    /\ \/ \E b \in DOMAIN books : ~books[b].deleted /\ books' = [books EXCEPT ![b].deleted = TRUE] /\ UNCHANGED tag
       \/ tag = "live" /\ tag' = "deleted" /\ UNCHANGED books
    /\ UNCHANGED <<notes, disk, source, made, job, faults>>

Next ==
    \/ ExportNotes \/ ExportNote \/ PublishExport
    \/ \E op \in Ops : Import(op)
    \/ findOrCreateNotebookPath \/ CreateNote \/ CommitBody \/ DeleteNote
    \/ findOrCreateTagByName \/ importAttachmentFile \/ Finish
    \/ Stops \/ Delete

Spec == Init /\ [][Next]_vars

-----------------------------------------------------------------------------
(* Properties. *)

Kept == {n \in 1..Notes : ~notes[n].deleted}
Directory(n) == sanitizedSegments(notebookPathSegments(notes[n].book))

\* No title is another's with a number, and no two paths become one directory.
Plain ==
    /\ \A n \in Kept : Len(Sanitized[notes[n].title]) = 1
    /\ \A n, m \in Kept : Directory(n) = Directory(m) =>
         notebookPathSegments(notes[n].book) = notebookPathSegments(notes[m].book)

\* Titles that share a directory of attachments.
Alone(n) ==
    \A m \in Kept \ {n} : notes[m].file =>
        <<Directory(m), Sanitized[notes[m].title]>> # <<Directory(n), Sanitized[notes[n].title]>>

\* "a failure partway through never leaves a partial export at destDir"
\* (ExportNotes), and in a published one every note that is not deleted has a
\* file of its own, with its text, also when titles repeat, become equal when
\* they are sanitized, or belong to notebooks of the same name.
ExportWhole ==
    disk # NoArchive =>
        /\ {disk.entries[i].n : i \in DOMAIN disk.entries} = Kept /\ Len(disk.entries) = Cardinality(Kept)
        /\ Plain => \A i \in DOMAIN disk.entries :
             LET e == disk.entries[i]
             IN  disk.files[e.text] = e.n /\ (e.file # <<>> /\ Alone(e.n) => disk.files[e.file] = e.n)

Whole(m) ==
    LET s == notes[m.n]
    IN  /\ m.title = s.title /\ m.tagged = s.tagged
        /\ ~m.warned => (m.file # 0 <=> s.file)

\* "recreated as new local notes" (ImportBerestaArchive), "preserving their
\* title, notebook path, tags, flags, deleted state, body content, and
\* attachments" (RestoreSelective): every note that was brought in, but the one
\* a failed or interrupted call was at, has them all, whatever is deleted
\* meanwhile and however many notes share a notebook that had to be created.
TransferFaithful ==
    \A i \in 1..Len(made) :
        (i < Len(made) \/ (job.op \in Ops /\ job.n > Len(source))) =>
            /\ Whole(made[i])
            /\ notebookPathSegments(made[i].book) = source[i].path
            /\ made[i].deleted = source[i].deleted
            /\ Plain => made[i].text = made[i].n

=============================================================================
