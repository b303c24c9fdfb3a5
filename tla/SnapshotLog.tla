------------------------------ MODULE SnapshotLog ------------------------------
(***************************************************************************)
(* Snapshots and the compaction of a workspace's operation log.            *)
(*   server/snapshot_store.go, server/compaction.go, PullChanges           *)
(*   core/account/workspace_snapshot.go, oplog_gc.go                       *)
(*   desktop/sync.go: the worker's snapshot hooks                          *)
(*                                                                         *)
(* An operation is known by its id; sequence numbers are positions of the  *)
(* log, and compaction removes rows without renumbering.  A snapshot is    *)
(* the archive of all operations up to its base.  What operations and      *)
(* catalogs contain is the subject of NoteReplica and AttachmentSync.      *)
(***************************************************************************)
EXTENDS Naturals, FiniteSets, FiniteSetsExt

CONSTANTS Devices,
          Founders,     \* the devices registered from the start
          Ops,          \* operation ids; Author[o] writes o
          Author,
          LongOutage,   \* TRUE: a lost answer may be older than the retention
          LocalGC,      \* TRUE: RunOperationLogGarbageCollection is used
          MaxSnaps, MaxFaults

VARIABLES seqOf,     \* seqOf[n]: the operation stored under number n
          rows,      \* numbers whose row is still in the operations table
          old,       \* numbers whose row is older than the retention
          compacted, \* compacted_through_seq
          snaps,     \* snaps[i]: snapshot i, in the order of their arrival
          active,    \* devices that are registered and not revoked
          recent,    \* devices revoked within the retention
          dev,       \* dev[d]: cursor, history, outbox, local snapshot rows
          work,      \* work[d]: the sync cycle
          memo,      \* memo[d]: lastSnapshot and lastReviewed of the worker
          faults

vars == <<seqOf, rows, old, compacted, snaps, active, recent, dev, work, memo, faults>>

Latest  == Cardinality(DOMAIN seqOf)
NoWork  == [at |-> "idle", snap |-> 0, boot |-> FALSE]
NoMemo  == [seq |-> 0, seen |-> 0]
NewDevice(d) == [cursor |-> 0, hist |-> {}, out |-> {}, unsure |-> {}, local |-> {}]

Init == /\ seqOf = [n \in {} |-> 0] /\ rows = {} /\ old = {} /\ compacted = 0
        /\ snaps = [i \in {} |-> 0]
        /\ active = Founders /\ recent = {}
        /\ dev = [d \in Devices |-> NewDevice(d)]
        /\ work = [d \in Devices |-> NoWork]
        /\ memo = [d \in Devices |-> NoMemo]
        /\ faults = 0

Extend(f, x, y) == [z \in DOMAIN f \cup {x} |-> IF z = x THEN y ELSE f[z]]
To(d, at) == work' = [work EXCEPT ![d].at = at]

-----------------------------------------------------------------------------
(* The server.                                                             *)

\* The numbers a batch gets: a known operation keeps its number.
Known(o) == {n \in rows : seqOf[n] = o}

PushOperations(o) ==
    IF Known(o) # {} THEN UNCHANGED <<seqOf, rows>>
    ELSE /\ seqOf' = Extend(seqOf, Latest + 1, o)
         /\ rows' = rows \cup {Latest + 1}

SnapshotRequired(cursor) == cursor < compacted

LatestSnapshot ==
    IF DOMAIN snaps = {} THEN 0
    ELSE CHOOSE i \in DOMAIN snaps : \A j \in DOMAIN snaps :
            snaps[j].base < snaps[i].base \/ (snaps[j].base = snaps[i].base /\ j <= i)

snapshotEligible(acks) == active \subseteq acks /\ recent = {}

AcknowledgeSnapshot(i, d) ==
    LET acks == snaps[i].acks \cup {d} IN
    snaps' = [snaps EXCEPT ![i] = [base |-> @.base, acks |-> acks,
                                   eligible |-> @.eligible \/ snapshotEligible(acks)]]

\* The log is compacted up to its end.
CompactEverything ==
    /\ \E i \in DOMAIN snaps : snaps[i].eligible
    /\ rows' = rows \ old
    /\ compacted' = Latest
    /\ <<rows, compacted>>' # <<rows, compacted>>
    /\ UNCHANGED <<seqOf, old, snaps, active, recent, dev, work, memo, faults>>

CompactWorkspace ==
    LET eligible == {i \in DOMAIN snaps : snaps[i].eligible}
        base     == Max({snaps[i].base : i \in eligible})
    IN /\ eligible # {}
       /\ rows' = {n \in rows : n > base \/ n \notin old}
       /\ compacted' = IF base > compacted THEN base ELSE compacted
       /\ <<rows, compacted>>' # <<rows, compacted>>
       /\ UNCHANGED <<seqOf, old, snaps, active, recent, dev, work, memo, faults>>

AddDevice(d) ==
    /\ d \notin active \cup recent /\ dev[d] = NewDevice(d)
    /\ active' = active \cup {d}
    /\ UNCHANGED <<seqOf, rows, old, compacted, snaps, recent, dev, work, memo, faults>>

RevokeDevice(d) ==
    /\ d \in active /\ active # {d} /\ faults < MaxFaults /\ faults' = faults + 1
    /\ active' = active \ {d} /\ recent' = recent \cup {d}
    /\ UNCHANGED <<seqOf, rows, old, compacted, snaps, dev, work, memo>>

\* Thirty days pass.  A device revoked meanwhile is no longer waited for.
Age ==
    /\ LongOutage \/ \A d \in active : dev[d].unsure = {}
    /\ old' = DOMAIN seqOf /\ recent' = {}
    /\ dev' = [d \in Devices |-> [dev[d] EXCEPT !.local = {[base |-> s.base, old |-> TRUE] : s \in @}]]
    /\ <<old, recent, dev>>' # <<old, recent, dev>>
    /\ UNCHANGED <<seqOf, rows, compacted, snaps, active, work, memo, faults>>

-----------------------------------------------------------------------------
(* A device: edits, then the worker's cycle.                               *)

Edit(d, o) ==
    /\ d \in active /\ Author[o] = d
    /\ o \notin dev[d].out /\ ~ \E n \in DOMAIN seqOf : seqOf[n] = o
    /\ dev' = [dev EXCEPT ![d].out = @ \cup {o}]
    /\ UNCHANGED <<seqOf, rows, old, compacted, snaps, active, recent, work, memo, faults>>

Missing(d) == {n \in DOMAIN seqOf : n > dev[d].cursor}

\* Pull: a page, or the bootstrap from the newest snapshot, once a cycle.
Pull(d) ==
    /\ d \in active /\ work[d].at \in {"idle", "pull"}
    /\ IF SnapshotRequired(dev[d].cursor)
         THEN /\ work' = [work EXCEPT ![d] =
                    IF @.boot THEN NoWork ELSE [at |-> "boot", snap |-> LatestSnapshot, boot |-> TRUE]]
              /\ UNCHANGED dev
         ELSE /\ dev' = [dev EXCEPT ![d].cursor = Max({@} \cup rows),
                                    ![d].hist = @ \cup (Missing(d) \cap rows)]
              /\ work' = [work EXCEPT ![d].at = "review"]
    /\ UNCHANGED <<seqOf, rows, old, compacted, snaps, active, recent, memo, faults>>

\* The cursor is not advanced.
ApplySnapshotKeepsCursor(d, i) ==
    dev' = [dev EXCEPT ![d].hist = @ \cup {n \in DOMAIN seqOf : dev[d].cursor < n /\ n <= snaps[i].base},
                       ![d].local = @ \cup {[base |-> snaps[i].base, old |-> FALSE]}]

\* ApplyWorkspaceSnapshot replays the archive above the cursor and records
\* the snapshot as acknowledged; the acknowledgement is sent afterwards.
ApplyWorkspaceSnapshot(d, i) ==
    dev' = [dev EXCEPT ![d].cursor = Max({@, snaps[i].base}),
                       ![d].hist = @ \cup {n \in DOMAIN seqOf : dev[d].cursor < n /\ n <= snaps[i].base},
                       ![d].local = @ \cup {[base |-> snaps[i].base, old |-> FALSE]}]

Bootstrap(d) ==
    /\ work[d].at = "boot"
    /\ IF work[d].snap = 0
         THEN work' = [work EXCEPT ![d] = NoWork] /\ UNCHANGED dev
         ELSE ApplyWorkspaceSnapshot(d, work[d].snap) /\ To(d, "bootack")
    /\ UNCHANGED <<seqOf, rows, old, compacted, snaps, active, recent, memo, faults>>

ReviewSnapshot(d) ==
    /\ work[d].at = "review"
    /\ IF LatestSnapshot \in {0, memo[d].seen}
         THEN To(d, "push") /\ UNCHANGED dev
         ELSE /\ ApplyWorkspaceSnapshot(d, LatestSnapshot)
              /\ work' = [work EXCEPT ![d] = [at |-> "reviewack", snap |-> LatestSnapshot, boot |-> @.boot]]
    /\ UNCHANGED <<seqOf, rows, old, compacted, snaps, active, recent, memo, faults>>

\* Reviewed and published snapshots are remembered only after the answer.
SendAcknowledgement(d) ==
    LET i == work[d].snap IN
    /\ work[d].at \in {"bootack", "reviewack", "publishack"}
    /\ IF d \in active
         THEN /\ AcknowledgeSnapshot(i, d)
              /\ work' = [work EXCEPT ![d].at = CASE @ = "bootack"   -> "pull"
                                                  [] @ = "reviewack" -> "push"
                                                  [] OTHER           -> "idle"]
              /\ memo' = [memo EXCEPT ![d] =
                    CASE work[d].at = "bootack"   -> @
                      [] work[d].at = "reviewack" -> [@ EXCEPT !.seen = i]
                      [] OTHER -> [seq |-> snaps[i].base, seen |-> i]]
         ELSE work' = [work EXCEPT ![d] = NoWork] /\ UNCHANGED <<snaps, memo>>
    /\ UNCHANGED <<seqOf, rows, old, compacted, active, recent, dev, faults>>

\* One operation at a time; its answer may be lost, and it stays queued.
Push(d) ==
    /\ work[d].at = "push"
    /\ IF dev[d].out = {} THEN To(d, "publish") /\ UNCHANGED <<seqOf, rows, dev, faults>>
       ELSE IF d \notin active
         THEN work' = [work EXCEPT ![d] = NoWork] /\ UNCHANGED <<seqOf, rows, dev, faults>>
         ELSE \E o \in dev[d].out :
           /\ PushOperations(o)
           /\ \/ /\ dev' = [dev EXCEPT ![d].out = @ \ {o}, ![d].unsure = @ \ {o},
                                ![d].hist = @ \cup {n \in rows' : seqOf'[n] = o}]
                 /\ UNCHANGED <<work, faults>>
              \/ /\ faults < MaxFaults /\ faults' = faults + 1
                 /\ dev' = [dev EXCEPT ![d].unsure = @ \cup {o}]
                 /\ work' = [work EXCEPT ![d] = NoWork]
    /\ UNCHANGED <<old, compacted, snaps, active, recent, memo>>

\* snapshotOperations: the archive needs every number up to the cursor.
HistoryComplete(d) == 1..dev[d].cursor \subseteq dev[d].hist

PublishSnapshot(d) ==
    /\ work[d].at = "publish"
    /\ IF \/ dev[d].cursor = 0 \/ memo[d].seq # 0
          \/ ~HistoryComplete(d) \/ d \notin active
          \/ Cardinality(DOMAIN snaps) = MaxSnaps
         THEN work' = [work EXCEPT ![d] = NoWork] /\ UNCHANGED <<snaps, dev>>
         ELSE /\ LET i == Cardinality(DOMAIN snaps) + 1 IN
                 /\ snaps' = Extend(snaps, i, [base |-> dev[d].cursor, acks |-> {}, eligible |-> FALSE])
                 /\ work' = [work EXCEPT ![d] = [at |-> "publishack", snap |-> i, boot |-> FALSE]]
              /\ dev' = [dev EXCEPT ![d].local = @ \cup {[base |-> dev[d].cursor, old |-> FALSE]}]
    /\ UNCHANGED <<seqOf, rows, old, compacted, active, recent, memo, faults>>

\* The worker starts anew: the snapshot it remembers is forgotten.
Restart(d) ==
    /\ faults < MaxFaults /\ faults' = faults + 1
    /\ work' = [work EXCEPT ![d] = NoWork] /\ memo' = [memo EXCEPT ![d] = NoMemo]
    /\ UNCHANGED <<seqOf, rows, old, compacted, snaps, active, recent, dev>>

latestEligibleSnapshotBoundary(d) == {s.base : s \in {l \in dev[d].local : l.old}}

RunOperationLogGarbageCollection(d) ==
    LET boundary == Max(latestEligibleSnapshotBoundary(d)) IN
    /\ LocalGC /\ work[d].at = "idle" /\ latestEligibleSnapshotBoundary(d) # {}
    /\ dev' = [dev EXCEPT ![d].hist = {n \in @ : n > boundary},
                          ![d].local = {s \in @ : s.base >= boundary}]
    /\ dev' # dev
    /\ UNCHANGED <<seqOf, rows, old, compacted, snaps, active, recent, work, memo, faults>>

CycleStep(d) == \/ Pull(d) \/ Bootstrap(d) \/ ReviewSnapshot(d) \/ SendAcknowledgement(d)
                \/ Push(d) \/ PublishSnapshot(d)
Next == \/ \E d \in Devices : \/ CycleStep(d) \/ AddDevice(d) \/ RevokeDevice(d) \/ Restart(d)
                              \/ RunOperationLogGarbageCollection(d)
                              \/ \E o \in Ops : Edit(d, o)
        \/ CompactWorkspace \/ Age

Spec == Init /\ [][Next]_vars
FairSpec == Spec /\ \A d \in Devices : WF_vars(CycleStep(d))

-----------------------------------------------------------------------------

\* docs/architecture.md: the server retains the accepted snapshot and later
\* operations, so that a device at any cursor can still catch up: what it is
\* missing is in the rows it may pull or in the newest snapshot.
HistoryRecoverable ==
    \A d \in active : \A n \in Missing(d) :
        \/ n \in rows /\ ~SnapshotRequired(dev[d].cursor)
        \/ LatestSnapshot # 0 /\ snaps[LatestSnapshot].base >= compacted
              /\ (n <= snaps[LatestSnapshot].base \/ n \in rows)

\* No operation gets a second number (operation_store.go PushOperations), as
\* long as no push is repeated after compaction has deleted the row that
\* recognises it (LongOutage).
NumberedOnce == \A m, n \in DOMAIN seqOf : seqOf[m] = seqOf[n] => m = n

\* Every device keeps catching up: new operations reach all active devices.
CatchesUp == \A d \in Devices :
    [](d \in active => <>(d \notin active \/ (Missing(d) = {} /\ dev[d].out = {})))

===============================================================================
