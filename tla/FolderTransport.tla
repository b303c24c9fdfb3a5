--------------------------- MODULE FolderTransport ---------------------------
(***************************************************************************)
(* Synchronization over a shared directory (core/transport/folder.go).     *)
(* There is no server to number operations: a writer takes a lock file,    *)
(* reads the manifest, checks that no segment claims the next range,       *)
(* publishes a segment under that range and then the manifest.  A writer   *)
(* may die or fail at each step; a lock file that has become old is        *)
(* removed by whoever finds it so.  Every device is also a reader.         *)
(***************************************************************************)
EXTENDS Naturals, Sequences

CONSTANTS
    Device,      \* devices that share the folder
    Op,          \* operation identifiers
    Outbox,      \* [Device -> sequence of operations], each device's outbox
    BatchSize,   \* WorkerOptions.BatchSize
    LocksAge,    \* whether a lock file can grow older than lockStale
    MaxFaults    \* bound: crashes and failed file operations

ASSUME FolderAssumption ==
    /\ Outbox \in [Device -> Seq(Op)]
    /\ BatchSize \in Nat \ {0}
    /\ LocksAge \in BOOLEAN
    /\ MaxFaults \in Nat

VARIABLES
    \* ---- the folder
    latest,      \* manifest.json: latest_seq
    segments,    \* finalized segment files
    lock,        \* manifest.lock: "free", "fresh" or "aged"
    \* ---- each device, durable
    sent,        \* outbox.server_seq of the rows pushed so far
    got,         \* operations applied, in order; its length is the cursor
    blocked,     \* a quarantined operation stops the worker
    \* ---- each device, volatile
    pc,          \* where Push stands
    start,       \* first number of the range being claimed
    batch,       \* operations being pushed
    \* ---- history
    slow,        \* some lock file has grown old
    faults       \* number of faults so far

folder == <<latest, segments, lock>>
durable == <<sent, got, blocked>>
volatile == <<pc, start, batch>>
history == <<slow, faults>>
vars == <<folder, durable, volatile, history>>

PushPhase == {"idle", "lock", "steal", "read", "check", "segment", "manifest",
              "release", "mark"}

\* Push holds the lock, as far as it knows.
Critical == {"read", "check", "segment", "manifest", "release"}

TypeOK ==
    /\ latest \in Nat
    /\ \A s \in segments : /\ s.by \in Device
                           /\ s.start \in Nat \ {0}
                           /\ s.ops \in Seq(Op) \ {<<>>}
    /\ lock \in {"free", "fresh", "aged"}
    /\ sent \in [Device -> Seq(Nat)]
    /\ got \in [Device -> Seq(Op)]
    /\ blocked \in [Device -> BOOLEAN]
    /\ pc \in [Device -> PushPhase]
    /\ start \in [Device -> Nat]
    /\ batch \in [Device -> Seq(Op)]
    /\ slow \in BOOLEAN
    /\ faults \in 0..MaxFaults

Init ==
    /\ latest = 0
    /\ segments = {}
    /\ lock = "free"
    /\ sent = [d \in Device |-> <<>>]
    /\ got = [d \in Device |-> <<>>]
    /\ blocked = [d \in Device |-> FALSE]
    /\ pc = [d \in Device |-> "idle"]
    /\ start = [d \in Device |-> 0]
    /\ batch = [d \in Device |-> <<>>]
    /\ slow = FALSE
    /\ faults = 0

-----------------------------------------------------------------------------
EndOf(s) == s.start + Len(s.ops) - 1

\* Segment s publishes operation o under number n.
Entry(s, n, o) ==
    s.start <= n /\ n <= EndOf(s) /\ s.ops[n - s.start + 1] = o

Published(n, o) == \E s \in segments : Entry(s, n, o)

(***************************************************************************)
(* The lock file.                                                          *)
(***************************************************************************)
Goto(d, phase) == pc' = [pc EXCEPT ![d] = phase]

\* Time passes: a lock file that is still there counts as abandoned.
Age ==
    /\ lock = "fresh"
    /\ LocksAge
    /\ lock' = "aged"
    /\ slow' = TRUE
    /\ UNCHANGED <<latest, segments, durable, volatile, faults>>

\* The worker pushes the oldest pending rows, at most BatchSize of them.  The
\* pulls that precede a push in its cycle are steps of Pull.
BeginPush(d) ==
    /\ pc[d] = "idle"
    /\ ~blocked[d]
    /\ \E k \in 1..BatchSize :
          LET last == Len(sent[d]) + k IN
          /\ last = Len(Outbox[d]) \/ (k = BatchSize /\ last < Len(Outbox[d]))
          /\ batch' = [batch EXCEPT ![d] =
                          [i \in 1..k |-> Outbox[d][Len(sent[d]) + i]]]
    /\ Goto(d, "lock")
    /\ UNCHANGED <<folder, durable, start, history>>

\* O_CREATE|O_EXCL succeeds.
Acquire(d) ==
    /\ pc[d] = "lock"
    /\ lock = "free"
    /\ lock' = "fresh"
    /\ Goto(d, "read")
    /\ UNCHANGED <<latest, segments, durable, start, batch, history>>

\* os.Stat finds the lock file old ...
FindAged(d) ==
    /\ pc[d] = "lock"
    /\ lock = "aged"
    /\ Goto(d, "steal")
    /\ UNCHANGED <<folder, durable, start, batch, history>>

\* ... and os.Remove removes whatever lock file is there by then.
Steal(d) ==
    /\ pc[d] = "steal"
    /\ lock' = "free"
    /\ Goto(d, "lock")
    /\ UNCHANGED <<latest, segments, durable, start, batch, history>>

\* ErrFolderLockTimeout: the deadline is only looked at while the lock is held
\* and not old.
LockTimeout(d) ==
    /\ pc[d] = "lock"
    /\ lock = "fresh"
    /\ Goto(d, "idle")
    /\ UNCHANGED <<folder, durable, start, batch, history>>

-----------------------------------------------------------------------------
(***************************************************************************)
(* The steps of Push under the lock.                                       *)
(***************************************************************************)
ReadManifest(d) ==
    /\ pc[d] = "read"
    /\ start' = [start EXCEPT ![d] = latest + 1]
    /\ Goto(d, "check")
    /\ UNCHANGED <<folder, durable, batch, history>>

Claim(d) == [by |-> d, start |-> start[d], ops |-> batch[d]]

\* Mutant: the range is not compared with the published segments.
RangeUnchecked(d) == FALSE

RangeClaimed(d) ==
    \E s \in segments : s.start <= EndOf(Claim(d)) /\ start[d] <= EndOf(s)

\* A claimed range is ErrFolderRace: the lock is released and nothing written.
CheckRange(d) ==
    /\ pc[d] = "check"
    /\ IF RangeClaimed(d)
         THEN lock' = "free" /\ Goto(d, "idle")
         ELSE UNCHANGED lock /\ Goto(d, "segment")
    /\ UNCHANGED <<latest, segments, durable, start, batch, history>>

WriteSegment(d) ==
    /\ pc[d] = "segment"
    /\ segments' = segments \cup {Claim(d)}
    /\ Goto(d, "manifest")
    /\ UNCHANGED <<latest, lock, durable, start, batch, history>>

\* Mutant: the manifest keeps its number.
WriteManifestStale(d) ==
    /\ pc[d] = "manifest"
    /\ Goto(d, "release")
    /\ UNCHANGED <<folder, durable, start, batch, history>>

WriteManifest(d) ==
    /\ pc[d] = "manifest"
    /\ latest' = EndOf(Claim(d))
    /\ Goto(d, "release")
    /\ UNCHANGED <<segments, lock, durable, start, batch, history>>

\* The release function removes the lock file without looking whose it is.
Release(d) ==
    /\ pc[d] = "release"
    /\ lock' = "free"
    /\ Goto(d, "mark")
    /\ UNCHANGED <<latest, segments, durable, start, batch, history>>

\* Mutant: the results are numbered from one past the start.
MarkPushedOffByOne(d) ==
    /\ pc[d] = "mark"
    /\ sent' = [sent EXCEPT ![d] =
                   @ \o [i \in 1..Len(batch[d]) |-> start[d] + i]]
    /\ Goto(d, "idle")
    /\ UNCHANGED <<folder, got, blocked, start, batch, history>>

\* SyncRepository.MarkPushed records the numbers.
MarkPushed(d) ==
    /\ pc[d] = "mark"
    /\ sent' = [sent EXCEPT ![d] =
                   @ \o [i \in 1..Len(batch[d]) |-> start[d] + i - 1]]
    /\ Goto(d, "idle")
    /\ UNCHANGED <<folder, got, blocked, start, batch, history>>

\* A file operation fails: Push returns and its deferred release runs.
Fail(d) ==
    /\ faults < MaxFaults
    /\ pc[d] \in {"read", "check", "segment", "manifest"}
    /\ lock' = "free"
    /\ Goto(d, "idle")
    /\ faults' = faults + 1
    /\ UNCHANGED <<latest, segments, durable, start, batch, slow>>

\* The process dies; a lock it holds stays.
Crash(d) ==
    /\ faults < MaxFaults
    /\ pc[d] # "idle"
    /\ Goto(d, "idle")
    /\ faults' = faults + 1
    /\ UNCHANGED <<folder, durable, start, batch, slow>>

-----------------------------------------------------------------------------
(***************************************************************************)
(* Pull and the application of its page.                                   *)
(***************************************************************************)
\* The page Pull returns passes validatePullPage and holds ops: one operation
\* for each of the next numbers, all there are unless the limit cuts the page.
\* Entries with equal numbers have no defined order, so a cut between two of
\* them takes either.
IsPage(d, ops) ==
    LET k == Len(ops)
        cursor == Len(got[d])
    IN
    /\ \A i \in 1..k : Published(cursor + i, ops[i])
    /\ \A s \in segments : \A n \in s.start..EndOf(s) :
          \/ n <= cursor
          \/ n \in (cursor + 1)..(cursor + k) /\ Entry(s, n, ops[n - cursor])
          \/ k = BatchSize /\ n >= cursor + k

\* applied_operations holds an identifier of the page under another number.
Reused(d, ops) ==
    LET all == got[d] \o ops IN
    \E i, j \in 1..Len(all) : i # j /\ all[i] = all[j]

Pull(d) ==
    /\ pc[d] = "idle"
    /\ ~blocked[d]
    /\ \E k \in 1..BatchSize : \E ops \in [1..k -> Op] :
          /\ IsPage(d, ops)
          /\ IF Reused(d, ops)
               THEN blocked' = [blocked EXCEPT ![d] = TRUE] /\ UNCHANGED got
               ELSE got' = [got EXCEPT ![d] = @ \o ops] /\ UNCHANGED blocked
    /\ UNCHANGED <<folder, sent, volatile, history>>

-----------------------------------------------------------------------------
PushStep(d) ==
    \/ BeginPush(d) \/ Acquire(d) \/ FindAged(d) \/ Steal(d)
    \/ ReadManifest(d) \/ CheckRange(d) \/ WriteSegment(d) \/ WriteManifest(d)
    \/ Release(d) \/ MarkPushed(d)

Next ==
    \/ Age
    \/ \E d \in Device : \/ PushStep(d) \/ LockTimeout(d)
                         \/ Fail(d) \/ Crash(d) \/ Pull(d)

Spec == Init /\ [][Next]_vars

\* The writer goes on while its device is up, and time passes.
FairSpec == Spec /\ WF_vars(Age) /\ \A d \in Device : WF_vars(PushStep(d))

-----------------------------------------------------------------------------
(***************************************************************************)
(* Properties.                                                             *)
(***************************************************************************)
Numbered(n) == \E s \in segments : s.start <= n /\ n <= EndOf(s)

\* The published numbers have no gap and reach the manifest's, wherever a
\* writer died and whoever overlapped: start always follows a number that was
\* published before the manifest named it.
DenseSegments ==
    /\ \A n \in 1..latest : Numbered(n)
    /\ \A s \in segments : \A n \in 1..EndOf(s) : Numbered(n)

\* A row that MarkPushed took out of the outbox is in the folder under the
\* number recorded for it.
SentPublished ==
    \A d \in Device : \A i \in 1..Len(sent[d]) :
        Published(sent[d][i], Outbox[d][i])

\* Push publishes no number twice.
UniqueNumbers ==
    \A s, t \in segments : s # t => EndOf(s) < t.start \/ EndOf(t) < s.start

\* Two devices never apply different operations at the same place.
Agreement ==
    \A d, e \in Device : \A i \in 1..Len(got[d]) :
        i <= Len(got[e]) => got[d][i] = got[e][i]

\* While no lock file is mistaken for an abandoned one, the lock makes the
\* numbering unique and the devices agree, whatever writer dies or fails at
\* whatever step.
LockedSafety == ~slow => UniqueNumbers /\ Agreement

\* A repeated push never makes a reader quarantine the operation: applying is
\* idempotent by op_id.
NeverBlocked == \A d \in Device : ~blocked[d]

\* Every operation is pushed in the end: an attempt that fails is retried.
EventuallyPushed ==
    \A d \in Device : <>(Len(sent[d]) = Len(Outbox[d]))

\* While nothing fails and no lock is taken for an abandoned one, contention
\* for the lock and its time-outs keep no device from getting its whole outbox
\* into the folder, and no reader stops at what it finds there.
QuietProgress ==
    [](faults = 0 /\ ~slow) => EventuallyPushed /\ []NeverBlocked
=============================================================================
