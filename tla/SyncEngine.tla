----------------------------- MODULE SyncEngine -----------------------------
(***************************************************************************)
(* The synchronization core of one workspace: the clients' durable state   *)
(* (core/store/sync_repository.go), the workers that run the pull, verify, *)
(* apply, push cycle over it (core/sync/worker.go), and the home server's  *)
(* operation table (server/operation_store.go), joined by HTTP requests    *)
(* whose answers may be lost and which may reach the server late.          *)
(*                                                                         *)
(* An operation is an element of Op: its identifier stands for the whole   *)
(* signed envelope except the server sequence, which travels beside it.    *)
(* A map from Op to Nat with 0 for "absent" stands for a table keyed by    *)
(* op_id, for a pulled page and for a list of push results.                *)
(***************************************************************************)
EXTENDS Naturals, FiniteSets

CONSTANTS
    Device,      \* devices that may take part in the workspace
    Worker,      \* sync workers; several may overlap on one device
    Op,          \* operation identifiers
    HostOf,      \* [Worker -> Device], the device a worker runs on
    Author,      \* [Op -> Device], the device that signs the operation
    BodyOp,      \* operations whose payload is a note body; the rest carry
                 \* note metadata and need an existing note row
    Target,      \* [Op -> Op], the operation that created the edited note
    Founders,    \* devices registered with the server from the start
    BatchSize    \* WorkerOptions.BatchSize, the pull and push limit

ASSUME ConstantsAssumption ==
    /\ Cardinality(Op) \in Nat          \* finitely many operations
    /\ HostOf \in [Worker -> Device]
    /\ Author \in [Op -> Device]
    /\ BodyOp \subseteq Op
    /\ Target \in [Op -> Op]
    /\ \A o \in Op : Target[o] \in BodyOp /\ Target[Target[o]] = Target[o]
    /\ Founders \subseteq Device
    /\ BatchSize \in Nat \ {0}

VARIABLES
    \* ---- server
    members,     \* devices registered as active members of the workspace
    latest,      \* workspaces.latest_seq
    seqOf,       \* operations: op_id to seq
    \* ---- durable client state, per device or per signed operation
    row,         \* outbox: op_id to autoincrement row id at its author
    sentSeq,     \* outbox.server_seq of a pushed operation
    notes,       \* notes table: creation operations of the notes present
    directory,   \* devices table: devices whose signing key is known
    cursor,      \* sync_cursors.last_seq
    applied,     \* applied_operations: op_id to server_seq
    inbox,       \* inbox.status, a quarantined row as its reason
    \* ---- volatile worker state
    pc,          \* where SyncOnce stands
    from,        \* the cursor SyncOnce holds in memory
    answer,      \* the page or the push results last received
    bad,         \* the operation and class of a RejectedOperationError
    batch,       \* operations of the push request being made
    \* ---- network
    late         \* abandoned push requests still on their way

serverVars == <<members, latest, seqOf>>
storeVars == <<row, sentSeq, notes, directory, cursor, applied, inbox>>
workerVars == <<pc, from, answer, bad, batch>>
vars == <<serverVars, storeVars, workerVars, late>>

RejectClass == {"verification_failed", "op_id_reuse", "apply_failed"}
InboxStatus == {"absent", "applied"} \cup RejectClass

\* The phases of a worker. "off": not attached; "wait": the select of Run;
\* "exited": Run returned ErrWorkspaceQuarantined.
Phase == {"off", "wait", "prepare", "check", "pull", "apply", "quarantine",
          "push", "sent", "mark", "exited"}

SeqMap == [Op -> Nat]
NoOps == [o \in Op |-> 0]
OpsOf(m) == {o \in Op : m[o] # 0}
NoReject == [ops |-> {}, class |-> "verification_failed"]

TypeOK ==
    /\ members \subseteq Device
    /\ latest \in Nat
    /\ seqOf \in SeqMap
    /\ row \in SeqMap
    /\ sentSeq \in SeqMap
    /\ notes \in [Device -> SUBSET Op]
    /\ directory \in [Device -> SUBSET Device]
    /\ cursor \in [Device -> Nat]
    /\ applied \in [Device -> SeqMap]
    /\ inbox \in [Device -> [Op -> InboxStatus]]
    /\ pc \in [Worker -> Phase]
    /\ from \in [Worker -> Nat]
    /\ answer \in [Worker -> SeqMap]
    /\ bad \in [Worker -> [ops : SUBSET Op, class : RejectClass]]
    /\ batch \in [Worker -> SUBSET Op]
    /\ late \in SUBSET (SUBSET Op)

Init ==
    /\ members = Founders
    /\ latest = 0
    /\ seqOf = NoOps
    /\ row = NoOps
    /\ sentSeq = NoOps
    /\ notes = [d \in Device |-> {}]
    /\ directory = [d \in Device |-> {d}]
    /\ cursor = [d \in Device |-> 0]
    /\ applied = [d \in Device |-> NoOps]
    /\ inbox = [d \in Device |-> [o \in Op |-> "absent"]]
    /\ pc = [w \in Worker |-> "off"]
    /\ from = [w \in Worker |-> 0]
    /\ answer = [w \in Worker |-> NoOps]
    /\ bad = [w \in Worker |-> NoReject]
    /\ batch = [w \in Worker |-> {}]
    /\ late = {}

-----------------------------------------------------------------------------
(***************************************************************************)
(* Local commands.  CreateNote, CommitNoteBody and commitNoteMetadata each *)
(* change the note and append the outbox row in one transaction; an edit   *)
(* of a note this device does not hold returns ErrNotFound.                *)
(***************************************************************************)
Committed(d) == {o \in Op : Author[o] = d /\ row[o] # 0}

NextRow(d, n) == \A o \in Committed(d) : row[o] < n

Commit(o) ==
    LET d == Author[o] IN
    /\ row[o] = 0
    /\ Target[o] = o \/ Target[o] \in notes[d]
    /\ \E n \in 1..Cardinality(Op) :
          /\ NextRow(d, n)
          /\ \A m \in 1..(n - 1) : ~NextRow(d, m)
          /\ row' = [row EXCEPT ![o] = n]
    /\ notes' = [notes EXCEPT ![d] = @ \cup {Target[o]}]
    /\ UNCHANGED <<serverVars, sentSeq, directory, cursor, applied, inbox,
                   workerVars, late>>

\* A device enrols with an invite and becomes an active member.
Register(d) ==
    /\ d \notin members
    /\ members' = members \cup {d}
    /\ UNCHANGED <<latest, seqOf, storeVars, workerVars, late>>

-----------------------------------------------------------------------------
(***************************************************************************)
(* The life of a worker.  Stopping a worker abandons its push request: the *)
(* context is cancelled, but the server may already have the bytes.        *)
(***************************************************************************)
Host(w) == HostOf[w]

Abandoned(W) == {batch[w] : w \in {v \in W : pc[v] = "sent"}}

\* SyncOnce returns in the workers W: its local variables are gone.
Return(W, phase) ==
    /\ pc' = [w \in Worker |-> IF w \in W THEN phase ELSE pc[w]]
    /\ from' = [w \in Worker |-> IF w \in W THEN 0 ELSE from[w]]
    /\ answer' = [w \in Worker |-> IF w \in W THEN NoOps ELSE answer[w]]
    /\ bad' = [w \in Worker |-> IF w \in W THEN NoReject ELSE bad[w]]
    /\ batch' = [w \in Worker |-> IF w \in W THEN {} ELSE batch[w]]
    /\ late' = late \cup Abandoned(W)

Attach(w) ==
    /\ pc[w] \in {"off", "exited"}
    /\ Return({w}, "wait")
    /\ UNCHANGED <<serverVars, storeVars>>

Detach(w) ==
    /\ pc[w] # "off"
    /\ Return({w}, "off")
    /\ UNCHANGED <<serverVars, storeVars>>

\* The process dies: every worker of the device is gone, the database stays.
Crash(d) ==
    LET W == {w \in Worker : Host(w) = d} IN
    /\ \E w \in W : pc[w] # "off"
    /\ Return(W, "off")
    /\ UNCHANGED <<serverVars, storeVars>>

\* Any error of SyncOnce other than a rejection sends Run to its backoff.
Fail(w) ==
    /\ pc[w] \notin {"off", "wait", "exited"}
    /\ Return({w}, "wait")
    /\ UNCHANGED <<serverVars, storeVars>>

\* Mutant: the DELETE lacks its condition on the status.
RetryQuarantinedAnyStatus(w, o) ==
    /\ inbox[Host(w)][o] # "absent"
    /\ inbox' = [inbox EXCEPT ![Host(w)][o] = "absent"]
    /\ pc' = [pc EXCEPT ![w] = IF @ \in {"off", "exited"} THEN "wait" ELSE @]
    /\ UNCHANGED <<serverVars, row, sentSeq, notes, directory, cursor, applied,
                   from, answer, bad, batch, late>>

\* RetryQuarantined deletes the row; the binding then restarts the worker.
RetryQuarantined(w, o) ==
    /\ inbox[Host(w)][o] \in RejectClass
    /\ inbox' = [inbox EXCEPT ![Host(w)][o] = "absent"]
    /\ pc' = [pc EXCEPT ![w] = IF @ \in {"off", "exited"} THEN "wait" ELSE @]
    /\ UNCHANGED <<serverVars, row, sentSeq, notes, directory, cursor, applied,
                   from, answer, bad, batch, late>>

-----------------------------------------------------------------------------
(***************************************************************************)
(* SyncOnce up to the pull.                                                *)
(***************************************************************************)
\* The immediate trigger, a change hint or the poll timer starts a cycle.
Start(w) ==
    /\ pc[w] = "wait"
    /\ pc' = [pc EXCEPT ![w] = "prepare"]
    /\ UNCHANGED <<serverVars, storeVars, from, answer, bad, batch, late>>

\* The Prepare hook lists the workspace devices and upserts their keys.
Prepare(w) ==
    /\ pc[w] = "prepare"
    /\ Host(w) \in members
    /\ directory' = [directory EXCEPT ![Host(w)] = @ \cup members]
    /\ pc' = [pc EXCEPT ![w] = "check"]
    /\ UNCHANGED <<serverVars, row, sentSeq, notes, cursor, applied, inbox,
                   from, answer, bad, batch, late>>

QuarantineBlocked(d) == \E o \in Op : inbox[d][o] \in RejectClass

\* QuarantineBlocked, then Cursor.
CheckBlocked(w) ==
    /\ pc[w] = "check"
    /\ QuarantineBlocked(Host(w))
    /\ Return({w}, "exited")
    /\ UNCHANGED <<serverVars, storeVars>>

LoadCursor(w) ==
    /\ pc[w] = "check"
    /\ ~QuarantineBlocked(Host(w))
    /\ pc' = [pc EXCEPT ![w] = "pull"]
    /\ from' = [from EXCEPT ![w] = cursor[Host(w)]]
    /\ UNCHANGED <<serverVars, storeVars, answer, bad, batch, late>>

\* Mutant: the limit is exclusive.
PageEndsExclusive(prev) ==
    {to \in prev..latest : to < prev + BatchSize /\ (to = prev => latest = prev)}

\* PullChanges: the operations after prev in sequence order, at most limit of
\* them and fewer when the response size cap cuts the page short, never none
\* when there are some.
PageEnds(prev) ==
    {to \in prev..latest : to <= prev + BatchSize /\ (to = prev => latest = prev)}

PullChanges(prev, to) ==
    [o \in Op |-> IF prev < seqOf[o] /\ seqOf[o] <= to THEN seqOf[o] ELSE 0]

\* validatePullPage: sequences follow the cursor without a gap, within the
\* limit.
ValidatePullPage(prev, page) ==
    \A o \in OpsOf(page) :
        /\ prev < page[o] /\ page[o] <= prev + BatchSize
        /\ \/ page[o] = prev + 1
           \/ \E q \in OpsOf(page) : page[q] + 1 = page[o]

\* Pull, validation, and the end of the pull loop on an empty page.
Pull(w) ==
    /\ pc[w] = "pull"
    /\ Host(w) \in members
    /\ \E to \in PageEnds(from[w]) :
          LET page == PullChanges(from[w], to) IN
          IF ValidatePullPage(from[w], page)
            THEN /\ answer' = [answer EXCEPT ![w] = page]
                 /\ pc' = [pc EXCEPT ![w] = IF OpsOf(page) = {} THEN "push"
                                                               ELSE "apply"]
                 /\ UNCHANGED <<from, bad, batch, late>>
            ELSE Return({w}, "wait")
    /\ UNCHANGED <<serverVars, storeVars>>

-----------------------------------------------------------------------------
(***************************************************************************)
(* ApplyPage.  Every operation of the page is verified before the          *)
(* transaction begins; the stored cursor is compared inside it.  The       *)
(* transaction then either commits all of the page with the new cursor or  *)
(* rolls back.                                                             *)
(***************************************************************************)
\* Verify fails for an author that is not in the device directory.
Unverifiable(d, page) == {o \in OpsOf(page) : Author[o] \notin directory[d]}

\* applied_operations holds the identifier with another envelope; the server
\* sequence is part of the hashed envelope.
Reused(d, page) == {o \in OpsOf(page) : applied[d][o] \notin {0, page[o]}}

Fresh(d, page) == {o \in OpsOf(page) : applied[d][o] = 0}

\* Apply inserts a note missing under a body operation and returns
\* ErrNotFound under a metadata operation.
Unappliable(d, page) ==
    {o \in Fresh(d, page) \ BodyOp :
        /\ Target[o] \notin notes[d]
        /\ \A q \in Fresh(d, page) \cap BodyOp :
              Target[q] = Target[o] => page[q] > page[o]}

Refused(d, page) == Reused(d, page) \cup Unappliable(d, page)

IsFirst(o, S, page) == o \in S /\ \A q \in S : page[o] <= page[q]

IsLast(o, S, page) == o \in S /\ \A q \in S : page[q] <= page[o]

\* Mutant: the transaction does not compare the stored cursor.
CursorUnchecked(d, page) == TRUE

CursorMatches(d, page) ==
    \E o \in Op : IsFirst(o, OpsOf(page), page) /\ page[o] = cursor[d] + 1

\* The loop over the page stops at the first operation it cannot take.
Reject(w, o, class) ==
    /\ bad' = [bad EXCEPT ![w] = [ops |-> {o}, class |-> class]]
    /\ pc' = [pc EXCEPT ![w] = "quarantine"]
    /\ UNCHANGED <<storeVars, from, answer, batch, late>>

\* The transaction commits; page.More says whether the pull loop goes on.
CommitPage(w, d, page) ==
    /\ applied' = [applied EXCEPT ![d] =
          [o \in Op |-> IF o \in Fresh(d, page) THEN page[o] ELSE @[o]]]
    /\ inbox' = [inbox EXCEPT ![d] =
          [o \in Op |-> IF o \in Fresh(d, page) THEN "applied" ELSE @[o]]]
    /\ notes' = [notes EXCEPT ![d] =
          @ \cup {Target[o] : o \in Fresh(d, page) \cap BodyOp}]
    /\ \E o \in Op :
          /\ IsLast(o, OpsOf(page), page)
          /\ cursor' = [cursor EXCEPT ![d] = page[o]]
          /\ from' = [from EXCEPT ![w] = page[o]]
    /\ answer' = [answer EXCEPT ![w] = NoOps]
    /\ pc' = [pc EXCEPT ![w] = IF Cardinality(OpsOf(page)) = BatchSize
                                 THEN "pull" ELSE "push"]
    /\ UNCHANGED <<row, sentSeq, directory, bad, batch, late>>

\* A stale cursor (ErrInvalidCursor) means another worker moved it meanwhile.
ApplyPage(w) ==
    LET d == Host(w)
        page == answer[w]
    IN
    /\ pc[w] = "apply"
    /\ IF Unverifiable(d, page) # {}
         THEN \E o \in Op : /\ IsFirst(o, Unverifiable(d, page), page)
                            /\ Reject(w, o, "verification_failed")
       ELSE IF ~CursorMatches(d, page)
         THEN Return({w}, "wait") /\ UNCHANGED storeVars
       ELSE IF Refused(d, page) # {}
         THEN \E o \in Op : /\ IsFirst(o, Refused(d, page), page)
                            /\ Reject(w, o, IF o \in Reused(d, page)
                                              THEN "op_id_reuse"
                                              ELSE "apply_failed")
       ELSE CommitPage(w, d, page)
    /\ UNCHANGED serverVars

\* Quarantine upserts the row, whatever status it had, and Run returns.
Quarantine(w) ==
    /\ pc[w] = "quarantine"
    /\ inbox' = [inbox EXCEPT ![Host(w)] =
          [o \in Op |-> IF o \in bad[w].ops THEN bad[w].class ELSE @[o]]]
    /\ Return({w}, "exited")
    /\ UNCHANGED <<serverVars, row, sentSeq, notes, directory, cursor, applied>>

-----------------------------------------------------------------------------
(***************************************************************************)
(* The push loop.                                                          *)
(***************************************************************************)
PendingOps(d) == {o \in Committed(d) : sentSeq[o] = 0}

\* Pending: the oldest unpushed outbox rows, at most BatchSize of them.
IsBatch(d, B) ==
    /\ B \subseteq PendingOps(d)
    /\ \A o \in B, q \in PendingOps(d) \ B : row[o] < row[q]
    /\ Cardinality(B) <= BatchSize
    /\ B = PendingOps(d) \/ Cardinality(B) = BatchSize

PushDone(w) ==
    /\ pc[w] = "push"
    /\ PendingOps(Host(w)) = {}
    /\ Return({w}, "wait")
    /\ UNCHANGED <<serverVars, storeVars>>

SendPush(w) ==
    /\ pc[w] = "push"
    /\ \E B \in (SUBSET PendingOps(Host(w))) \ {{}} :
          /\ IsBatch(Host(w), B)
          /\ batch' = [batch EXCEPT ![w] = B]
    /\ pc' = [pc EXCEPT ![w] = "sent"]
    /\ UNCHANGED <<serverVars, storeVars, from, answer, bad, late>>

\* Mutant: the outbox is read without ORDER BY.
NumberingAnyOrder(new, k) ==
    LET range == (latest + 1)..(latest + k) IN
    {s \in [new -> range] : \A n \in range : \E o \in new : s[o] = n}

\* pushOperation gives the k operations it has not stored yet the next k
\* numbers in the order of the request, which is that of the outbox.
Numbering(new, k) ==
    LET range == (latest + 1)..(latest + k) IN
    {s \in [new -> range] :
        /\ \A n \in range : \E o \in new : s[o] = n
        /\ \A o, q \in new : row[o] < row[q] => s[o] < s[q]}

\* Mutant: the server numbers an operation it already holds again.
PushWithoutDedupe(B) ==
    \E k \in 0..Cardinality(Op) : \E s \in Numbering(B, k) :
        /\ seqOf' = [o \in Op |-> IF o \in B THEN s[o] ELSE seqOf[o]]
        /\ latest' = latest + k

\* PushOperations, one transaction for the whole request.
PushOperations(B) ==
    LET new == {o \in B : seqOf[o] = 0} IN
    \E k \in 0..Cardinality(Op) : \E s \in Numbering(new, k) :
        /\ seqOf' = [o \in Op |-> IF o \in new THEN s[o] ELSE seqOf[o]]
        /\ latest' = latest + k

\* The request is served and its answer, duplicates included, arrives.
Push(w) ==
    /\ pc[w] = "sent"
    /\ Host(w) \in members
    /\ PushOperations(batch[w])
    /\ answer' = [answer EXCEPT ![w] =
                    [o \in Op |-> IF o \in batch[w] THEN seqOf'[o] ELSE 0]]
    /\ pc' = [pc EXCEPT ![w] = "mark"]
    /\ UNCHANGED <<members, storeVars, from, bad, batch, late>>

\* An abandoned request reaches the server after all; nobody hears the answer.
PushLate(B) ==
    /\ B \in late
    /\ late' = late \ {B}
    /\ PushOperations(B)
    /\ UNCHANGED <<members, storeVars, workerVars>>

\* An abandoned request is lost.
Lose(B) ==
    /\ B \in late
    /\ late' = late \ {B}
    /\ UNCHANGED <<serverVars, storeVars, workerVars>>

\* MarkPushed: every result must match a pending row or nothing is written.
\* The loop goes on after a full batch.
MarkPushed(w) ==
    LET B == OpsOf(answer[w]) IN
    /\ pc[w] = "mark"
    /\ B \subseteq PendingOps(Host(w))
    /\ sentSeq' = [o \in Op |-> IF o \in B THEN answer[w][o] ELSE sentSeq[o]]
    /\ IF Cardinality(B) = BatchSize
         THEN /\ pc' = [pc EXCEPT ![w] = "push"]
              /\ answer' = [answer EXCEPT ![w] = NoOps]
              /\ batch' = [batch EXCEPT ![w] = {}]
              /\ UNCHANGED <<from, bad, late>>
         ELSE Return({w}, "wait")
    /\ UNCHANGED <<serverVars, row, notes, directory, cursor, applied, inbox>>

\* "push result does not match a pending operation": another worker marked it.
MarkStale(w) ==
    /\ pc[w] = "mark"
    /\ ~(OpsOf(answer[w]) \subseteq PendingOps(Host(w)))
    /\ Return({w}, "wait")
    /\ UNCHANGED <<serverVars, storeVars>>

-----------------------------------------------------------------------------
WorkerStep(w) ==
    \/ Attach(w) \/ Start(w) \/ Prepare(w) \/ CheckBlocked(w) \/ LoadCursor(w)
    \/ Pull(w) \/ ApplyPage(w) \/ Quarantine(w)
    \/ PushDone(w) \/ SendPush(w) \/ Push(w) \/ MarkPushed(w) \/ MarkStale(w)

Next ==
    \/ \E o \in Op : Commit(o)
    \/ \E d \in Device : Register(d) \/ Crash(d)
    \/ \E w \in Worker : WorkerStep(w) \/ Detach(w) \/ Fail(w)
    \/ \E w \in Worker, o \in Op : RetryQuarantined(w, o)
    \/ \E B \in late : PushLate(B) \/ Lose(B)

Spec == Init /\ [][Next]_vars

-----------------------------------------------------------------------------
(***************************************************************************)
(* Safety properties.                                                      *)
(***************************************************************************)
\* The cursor and the applied table agree: a device has applied exactly the
\* operations the server numbered up to its cursor, each under that number.
\* ApplyPage commits page and cursor in one transaction ("Operation
\* application is idempotent by op_id and atomic with cursor persistence").
AppliedPrefix ==
    \A d \in Device :
        /\ cursor[d] <= latest
        /\ \A o \in Op : applied[d][o] = IF seqOf[o] <= cursor[d]
                                         THEN seqOf[o] ELSE 0

\* The server's log has no gap and no number twice, whatever requests were
\* repeated, late or abandoned.
DenseLog ==
    /\ \A n \in 1..latest : \E o \in Op : seqOf[o] = n
    /\ \A o \in Op : seqOf[o] <= latest
    /\ \A o, q \in OpsOf(seqOf) : seqOf[o] = seqOf[q] => o = q

\* A row marked as pushed is in the server's log under the recorded number,
\* so dropping it from the outbox loses nothing.
PushedDurable ==
    \A o \in OpsOf(sentSeq) : sentSeq[o] = seqOf[o]

\* The log keeps each author's outbox order: an operation is numbered only
\* when every earlier one of its author is, and after it.
AuthorOrder ==
    \A o, q \in Op :
        (Author[o] = Author[q] /\ row[o] # 0 /\ row[o] < row[q] /\ seqOf[q] # 0)
            => seqOf[o] # 0 /\ seqOf[o] < seqOf[q]

\* The log is causal: an operation on a note comes after the one that created
\* the note, also when the two have different authors.
CausalLog ==
    \A o \in OpsOf(seqOf) :
        seqOf[Target[o]] # 0 /\ seqOf[Target[o]] <= seqOf[o]

\* No operation is ever refused after verification: neither op_id_reuse nor
\* apply_failed can arise between honest clients of one server.
OnlyVerificationRejects ==
    \A d \in Device, o \in Op : inbox[d][o] \notin {"op_id_reuse", "apply_failed"}

\* A quarantined operation lies beyond the cursor, so deleting its row makes
\* the server deliver it again ("The cursor remains at the prior contiguous
\* boundary, so the server must redeliver and reverify it").
QuarantineAboveCursor ==
    \A d \in Device, o \in Op :
        inbox[d][o] \in RejectClass => seqOf[o] > cursor[d]

\* The operations CreateWorkspaceSnapshot needs, all of 1..cursor, are still
\* in the applied inbox rows or the pushed outbox rows of the device.
SnapshotHistoryComplete ==
    \A d \in Device : \A o \in OpsOf(applied[d]) :
        \/ inbox[d][o] = "applied"
        \/ Author[o] = d /\ sentSeq[o] # 0

-----------------------------------------------------------------------------
(***************************************************************************)
(* The inductive invariant behind the safety properties.                   *)
(***************************************************************************)
\* Outbox rows of one device are distinct and only committed operations are
\* numbered or marked.
OutboxOK ==
    /\ \A o, q \in Op : (Author[o] = Author[q] /\ row[o] # 0 /\ row[o] = row[q])
                           => o = q
    /\ \A o \in Op : seqOf[o] # 0 => row[o] # 0

\* A push request, in progress or abandoned, comes from one outbox and leaves
\* out no older operation that is not in the log.
RequestOK(B) ==
    /\ \A q \in B : row[q] # 0
    /\ \A o, q \in B : Author[o] = Author[q]
    /\ \A q \in B, o \in Op :
          (Author[o] = Author[q] /\ row[o] # 0 /\ row[o] < row[q])
              => o \in B \/ seqOf[o] # 0

RequestsOK ==
    /\ \A B \in late : RequestOK(B)
    /\ \A w \in Worker : RequestOK(batch[w])

\* A page in memory is a slice of the log, a push answer agrees with it.
AnswersOK ==
    \A w \in Worker :
        /\ from[w] <= latest
        /\ pc[w] = "apply" =>
              \E to \in (from[w] + 1)..latest :
                  answer[w] = PullChanges(from[w], to)
        /\ pc[w] = "mark" => \A o \in Op : answer[w][o] \in {0, seqOf[o]}

\* A note is present only where its creation was committed or after it was
\* numbered; an operation is committed only after its note's creation.
NotesOK ==
    /\ \A d \in Device, t \in Op :
          t \in notes[d] => seqOf[t] # 0 \/ (Author[t] = d /\ row[t] # 0)
    /\ \A d \in Device, o \in BodyOp :
          applied[d][o] # 0 => Target[o] \in notes[d]
    /\ \A o \in Op : row[o] # 0 =>
          \/ Target[o] = o
          \/ seqOf[Target[o]] # 0
          \/ /\ Author[Target[o]] = Author[o]
             /\ row[Target[o]] # 0
             /\ row[Target[o]] < row[o]

NoRefusal ==
    \A w \in Worker : bad[w].class = "verification_failed"

Inv ==
    /\ TypeOK
    /\ DenseLog /\ OutboxOK /\ PushedDurable /\ RequestsOK /\ AuthorOrder
    /\ NotesOK /\ CausalLog
    /\ AnswersOK /\ AppliedPrefix
    /\ NoRefusal /\ OnlyVerificationRejects
=============================================================================
