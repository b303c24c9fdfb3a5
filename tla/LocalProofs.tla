---------------------------- MODULE LocalProofs ----------------------------
(***************************************************************************)
(* Proofs about the data of one device: hybrid logical clocks, the account *)
(* and its files, the notes of a replica, and restores.                    *)
(***************************************************************************)
EXTENDS LocalSuite, Sequences, TLAPS

(***************************************************************************)
(* Laws of hybrid logical clocks and of the registers ordered by them.     *)
(***************************************************************************)
\* Any two different clock values are ordered, and only one way
\* (HLC.Compare): the tie break on device identifiers makes the order total.
THEOREM LaterIsTotal ==
    \A a, b \in Clock : a = b \/ Later(a, b) \/ Later(b, a)
  BY DEF Clock, Later

\* No value is later than itself (HLC.Compare).
THEOREM LaterIsStrict ==
    \A a, b \in Clock : Later(a, b) => ~Later(b, a) /\ a # b
  BY DEF Clock, Later

\* HLC.Compare is transitive.
THEOREM LaterIsTransitive ==
    \A a, b, c \in Clock : Later(a, b) /\ Later(b, c) => Later(a, c)
  BY DEF Clock, Later

\* a is not after b, and a is before b, whichever devices issued them.
Upto(a, b) == a.p < b.p \/ (a.p = b.p /\ a.l <= b.l)
Before(a, b) == a.p < b.p \/ (a.p = b.p /\ a.l < b.l)

\* Tick moves the physical time or the counter, not just the device (HLC.advance).
LEMMA TickIsAhead ==
    ASSUME NEW h \in Clock, NEW now \in Nat, NEW d \in Nat,
           Advance(h, now, d) # Overflow
    PROVE  Advance(h, now, d) \in Clock /\ Before(h, Advance(h, now, d))
  BY HLCAssumption DEF Clock, Before, Advance, Overflow

\* A clock value issued by Tick is later than the value it follows, whatever
\* the wall clock reads (HLC.advance).
THEOREM TickIsLater ==
    ASSUME NEW h \in Clock, NEW now \in Nat, NEW d \in Nat,
           Advance(h, now, d) # Overflow
    PROVE  Advance(h, now, d) \in Clock /\ Later(Advance(h, now, d), h)
  BY HLCAssumption DEF Clock, Later, Advance, Overflow

\* The merged value is ahead of the local value, whatever the remote one is, and
\* ahead of a remote value that was not clamped (Clock.Observe).
LEMMA MergeIsAhead ==
    ASSUME NEW last \in Clock, NEW remote \in Clock, NEW now \in Nat, NEW d \in Nat,
           Observe(last, remote, now, d) # Overflow
    PROVE  /\ Observe(last, remote, now, d) \in Clock
           /\ Before(last, Observe(last, remote, now, d))
           /\ Before(Clamped(remote, now), Observe(last, remote, now, d))
<1> DEFINE r == Clamped(remote, now)
           p == Larger(Larger(last.p, r.p), now)
           l == IF p = last.p /\ p = r.p THEN Larger(last.l, r.l) + 1
                ELSE IF p = last.p THEN last.l + 1
                ELSE IF p = r.p THEN r.l + 1 ELSE 0
<1>1. r \in Clock
  BY HLCAssumption DEF Clamped, Clock
<1>2. /\ last.p \in Nat /\ last.l \in Nat /\ last.d \in Nat
      /\ r.p \in Nat /\ r.l \in Nat /\ r.d \in Nat
  BY <1>1, Zenon DEF Clock
<1>3. p \in Nat /\ p >= last.p /\ p >= r.p
  BY <1>2 DEF Larger
<1> HIDE DEF r
<1>4. /\ l \in Nat
      /\ p = last.p => l > last.l
      /\ p = r.p => l > r.l
  <2> HIDE DEF p
  <2>1. Larger(last.l, r.l) \in Nat /\ Larger(last.l, r.l) >= last.l /\ Larger(last.l, r.l) >= r.l
    BY <1>2 DEF Larger
  <2>2. QED
    BY <1>2, <1>3, <2>1
<1>5. Observe(last, remote, now, d) = IF l > MaxLogical THEN Overflow
                                      ELSE [p |-> p, l |-> l, d |-> d]
  BY Zenon DEF Observe, r
<1> HIDE DEF p, l
<1>6. Observe(last, remote, now, d) = [p |-> p, l |-> l, d |-> d]
  BY <1>5, Zenon
<1>7. Observe(last, remote, now, d) \in Clock
  BY <1>3, <1>4, <1>6 DEF Clock
<1>8. Before(last, Observe(last, remote, now, d))
  BY <1>2, <1>3, <1>4, <1>6 DEF Before
<1>9. Before(r, Observe(last, remote, now, d))
  BY <1>2, <1>3, <1>4, <1>6 DEF Before
<1>10. QED
  BY <1>7, <1>8, <1>9, Zenon DEF r

\* Merging a remote value that passed the skew check of SyncProcessor.Verify
\* yields a value later than both the local and the remote one
\* (Clock.Observe), so that the next Tick supersedes what was merged.
THEOREM ObserveIsLater ==
    ASSUME NEW last \in Clock, NEW remote \in Clock, NEW now \in Nat, NEW d \in Nat,
           remote.p <= now + MaxFutureSkew,
           Observe(last, remote, now, d) # Overflow
    PROVE  /\ Later(Observe(last, remote, now, d), last)
           /\ Later(Observe(last, remote, now, d), remote)
<1>1. Clamped(remote, now) = remote
  BY HLCAssumption DEF Clamped, Clock
<1>2. QED
  BY <1>1, MergeIsAhead DEF Before, Later

\* Two writes of different clocks leave a register in the same state in
\* either order (lwwWhereClause): replicas that have applied the same writes
\* agree.
THEOREM WritesCommute ==
    ASSUME NEW r, NEW v, NEW w, NEW c \in Clock, NEW e \in Clock,
           r = Register(r.val, r.at), r.at \in Clock,
           c # e, c # Zero, e # Zero, c # r.at, e # r.at
    PROVE  Write(Write(r, v, c), w, e) = Write(Write(r, w, e), v, c)
<1>1. Register(v, c).at = c /\ Register(w, e).at = e
  BY Zenon DEF Register
<1>2. Later(c, e) <=> ~Later(e, c)
  BY LaterIsTotal, LaterIsStrict, Zenon
<1>3. CASE r.at = Zero
  BY <1>1, <1>2, <1>3, Zenon DEF Write
<1>4. CASE r.at # Zero
  <2>1. CASE Later(c, r.at) /\ Later(e, r.at)
    BY <1>1, <1>2, <1>4, <2>1, Zenon DEF Write
  <2>2. CASE ~Later(c, r.at) /\ ~Later(e, r.at)
    BY <1>1, <1>2, <1>4, <2>2, Zenon DEF Write
  <2>3. CASE Later(c, r.at) /\ ~Later(e, r.at)
    <3>1. ~Later(e, c)
      BY <2>3, LaterIsTotal, LaterIsStrict, LaterIsTransitive, Zenon
    <3>2. QED
      BY <1>1, <1>4, <2>3, <3>1, Zenon DEF Write
  <2>4. CASE ~Later(c, r.at) /\ Later(e, r.at)
    <3>1. ~Later(c, e)
      BY <2>4, LaterIsTotal, LaterIsStrict, LaterIsTransitive, Zenon
    <3>2. QED
      BY <1>1, <1>4, <2>4, <3>1, Zenon DEF Write
  <2>5. QED
    BY <2>1, <2>2, <2>3, <2>4, Zenon
<1>5. QED
  BY <1>3, <1>4, Zenon

\* A write that is delivered twice changes the register once.
THEOREM WriteIsIdempotent ==
    ASSUME NEW r, NEW v, NEW c \in Clock, c # Zero
    PROVE  Write(Write(r, v, c), v, c) = Write(r, v, c)
<1>1. Register(v, c).at = c
  BY Zenon DEF Register
<1>2. ~Later(c, c)
  BY LaterIsStrict, Zenon
<1>3. QED
  BY <1>1, <1>2, Zenon DEF Write

-----------------------------------------------------------------------------
(***************************************************************************)
(* The account's files, for any number of keys, releases and faults.       *)
(***************************************************************************)
accountVars == <<envelope, faults, accountOnly>>

Numbers ==
    /\ drawn \in Nat /\ newest \in Nat \ {0}
    /\ db = [key |-> db.key, version |-> db.version, account |-> db.account]
    /\ db.version \in Nat /\ used \subseteq Nat \ {0}
    /\ job = [op |-> job.op, at |-> job.at, key |-> job.key, root |-> job.root]

\* What is known at each step of the operation under way.
Progress ==
    /\ Account!At("envelope") => job.op = "create" /\ db.key = 0
    /\ Account!At("insert") => job.op = "create"
    /\ job.at \in {"insert", "load"} => db.version >= newest
    /\ Account!At("idle") => job.op = "idle"
    /\ job.op = "create" =>
        /\ job.key # 0 /\ job.root # 0
        /\ ~Account!At("envelope") => envelope = job.key
        /\ job.at \in {"copy", "migrate", "insert"} => db.key = job.key
    /\ job.op \in {"create", "erase"} => account = 0 /\ used = {}
    /\ job.op \notin {"idle", "create", "unlock", "erase"} => FALSE
    /\ db.account = 0 => account = 0 /\ used = {}
    /\ db.key = 0 => db.account = 0

\* The copies that exist while migrations run.
Copied(v) == [account |-> account, version |-> v] \in copies
MigrationCovered ==
    account # 0 =>
        /\ \A v \in used : v <= db.version
        /\ Account!At("migrate") /\ db.version < newest => \A v \in used : Copied(v)

AInv == Numbers /\ Progress /\ Account!AccountKept /\ MigrationCovered /\ Account!CopiedBeforeMigration

(* It holds of a directory without an account. *)
LEMMA AccountInit == Account!Init => AInv
  BY SMTT(40) DEF Account!Init, AInv, Numbers, Progress, Account!AccountKept, MigrationCovered, Account!CopiedBeforeMigration,
         Account!NoDatabase, Account!Idle, Account!At
(* Every step of the account's operations preserves the invariant.         *)
LEMMA AccountStep == AInv /\ [Account!Next]_accountVars => AInv'
  <1> SUFFICES ASSUME AInv, [Account!Next]_accountVars PROVE AInv'
    OBVIOUS
  <1> USE DEF AInv, Numbers, Progress, Account!AccountKept, MigrationCovered, Account!CopiedBeforeMigration, Copied,
              Account!At, Account!files, Account!history
  <1>1. CASE Account!Create
    BY <1>1 DEF Account!Create, Account!CreateUnchecked, Account!Idle, Account!NoDatabase
  <1>2. CASE Account!WriteEnvelope
    BY <1>2, Zenon DEF Account!WriteEnvelope, Account!Step
  <1>3. CASE Account!OpenDatabase
    BY <1>3 DEF Account!OpenDatabase, Account!NoDatabase, Account!Step, Account!Done, Account!Idle
  <1>4. CASE Account!backupBeforePendingMigration
    BY <1>4 DEF Account!backupBeforePendingMigration, Account!Step
  <1>5. CASE Account!applyMigration
    BY <1>5 DEF Account!applyMigration
  <1>6. CASE Account!Migrated
    BY <1>6, Zenon DEF Account!Migrated, Account!Step
  <1>7. CASE Account!insertNewAccount
    BY <1>7, SMTT(40) DEF Account!insertNewAccount, Account!Opened, Account!Done, Account!Idle
  <1>8. CASE Account!Unlock
    BY <1>8 DEF Account!Unlock, Account!LoadKey, Account!Idle
  <1>9. CASE Account!UnlockWithDeviceKey
    BY <1>9 DEF Account!UnlockWithDeviceKey, Account!LoadKey, Account!Idle
  <1>10. CASE Account!unlockAccountContent
    BY <1>10 DEF Account!unlockAccountContent, Account!Opened, Account!Done, Account!Idle
  <1>11. CASE Account!EnableDeviceUnlock
    BY <1>11, Zenon DEF Account!EnableDeviceUnlock
  <1>12. CASE Account!Publish
    BY <1>12, Zenon DEF Account!Publish
  <1>13. CASE Account!Lock
    BY <1>13, Zenon DEF Account!Lock
  <1>14. CASE Account!WipeLocalAccount
    BY <1>14, Zenon DEF Account!WipeLocalAccount, Account!Idle
  <1>15. CASE Account!EraseLocalAccount
    BY <1>15 DEF Account!EraseLocalAccount, Account!NoDatabase, Account!Step, Account!Done, Account!Idle
  <1>16. CASE Account!Crash
    BY <1>16, Zenon DEF Account!Crash, Account!Fault, Account!Idle
  <1>17. CASE Account!Fail
    BY <1>17, Zenon DEF Account!Fail, Account!Fault, Account!Done, Account!Idle, Account!NoDatabase, Account!Absent
  <1>18. CASE Account!Upgrade
    BY <1>18 DEF Account!Upgrade, Account!Idle
  <1>19. CASE UNCHANGED accountVars
    BY <1>19, Zenon DEF accountVars, accountOnly
  <1> QED
    BY <1>1, <1>2, <1>3, <1>4, <1>5, <1>6, <1>7, <1>8, <1>9, <1>10, <1>11, <1>12, <1>13, <1>14, <1>15, <1>16, <1>17, <1>18, <1>19, ZenonT(40) DEF Account!Next

-----------------------------------------------------------------------------
\* With store.Open and the envelope's write failing cleanly, each step knows
\* the key of the database.
KInv ==
    /\ Account!KeyRecorded /\ envelope # Account!Torn
    /\ drawn \in Nat /\ faults \in Nat
    /\ db = [key |-> db.key, version |-> db.version, account |-> db.account]
    /\ job = [op |-> job.op, at |-> job.at, key |-> job.key, root |-> job.root]
    /\ job.op \in {"idle", "create", "unlock", "erase"}
    /\ Account!At("envelope") => job.op = "create" /\ db.key = 0 /\ job.key # Account!Torn
    /\ Account!At("open") => envelope = job.key
    /\ job.op \in {"unlock", "create"} => job.at \in {"envelope", "open", "copy", "migrate", "insert", "load"}
    /\ Account!At("key") => db.key = 0
    /\ job.op = "erase" => job.at \in {"database", "key", "unlock", "blobs"}
    /\ Account!At("insert") => job.op = "create"
    /\ job.op = "create" /\ Account!At("load") => FALSE

(* It holds before anything is created. *)
LEMMA RecordInit == Account!Init => KInv
  BY LocalConstants DEF Account!Init, KInv, Account!KeyRecorded, Account!Torn, Account!Absent, Account!NoDatabase, Account!Idle, Account!At

(* Every step keeps the key of the database recorded. *)
LEMMA RecordStep == KInv /\ [Account!Next /\ CleanStep]_accountVars => KInv'
  <1> SUFFICES ASSUME KInv, [Account!Next /\ CleanStep]_accountVars PROVE KInv'
    OBVIOUS
  <1> USE LocalConstants DEF KInv, Account!KeyRecorded, Account!At, Account!Torn, Account!files, Account!history
  <1>1. CASE Account!Create
    BY <1>1 DEF Account!Create, Account!CreateUnchecked, Account!Idle, Account!NoDatabase
  <1>2. CASE Account!WriteEnvelope
    BY <1>2, Zenon DEF Account!WriteEnvelope, Account!Step
  <1>3. CASE Account!OpenDatabase
    BY <1>3, Zenon DEF Account!OpenDatabase, Account!NoDatabase, Account!Step, Account!Done, Account!Idle
  <1>4. CASE Account!backupBeforePendingMigration
    BY <1>4, Zenon DEF Account!backupBeforePendingMigration, Account!Step
  <1>5. CASE Account!applyMigration
    BY <1>5, Zenon DEF Account!applyMigration
  <1>6. CASE Account!Migrated
    BY <1>6, Zenon DEF Account!Migrated, Account!Step
  <1>7. CASE Account!insertNewAccount
    BY <1>7, Zenon DEF Account!insertNewAccount, Account!Opened, Account!Done, Account!Idle
  <1>8. CASE Account!Unlock
    BY <1>8 DEF Account!Unlock, Account!LoadKey, Account!Idle
  <1>9. CASE Account!UnlockWithDeviceKey
    BY <1>9 DEF Account!UnlockWithDeviceKey, Account!LoadKey, Account!Idle
  <1>10. CASE Account!unlockAccountContent
    BY <1>10, Zenon DEF Account!unlockAccountContent, Account!Opened, Account!Done, Account!Idle
  <1>11. CASE Account!EnableDeviceUnlock
    BY <1>11, Zenon DEF Account!EnableDeviceUnlock
  <1>12. CASE Account!Publish
    BY <1>12, Zenon DEF Account!Publish
  <1>13. CASE Account!Lock
    BY <1>13, Zenon DEF Account!Lock
  <1>14. CASE Account!WipeLocalAccount
    BY <1>14, Zenon DEF Account!WipeLocalAccount, Account!Idle
  <1>15. CASE Account!EraseLocalAccount
    BY <1>15 DEF Account!EraseLocalAccount, Account!NoDatabase, Account!Step, Account!Done, Account!Idle, Account!Absent
  <1>16. CASE Account!Crash /\ CleanStep
    <2>1. envelope' = envelope
      BY <1>16 DEF Account!Crash, Account!Fault, CleanStep
    <2> QED
      BY <1>16, <2>1 DEF Account!Crash, Account!Fault, Account!Idle
  <1>17. CASE Account!Fail /\ CleanStep
    <2>1. job.at \in {"insert", "load"} \/ UNCHANGED <<envelope, db>>
      BY <1>17 DEF Account!Fail, Account!Crash, Account!Fault, CleanStep
    <2> QED
      BY <1>17, <2>1 DEF Account!Fail, Account!Fault, Account!Done, Account!Idle, Account!NoDatabase, Account!Absent
  <1>18. CASE Account!Upgrade
    BY <1>18, Zenon DEF Account!Upgrade
  <1>19. CASE UNCHANGED accountVars
    BY <1>19, ZenonT(40) DEF accountVars, accountOnly
  <1> QED
    BY <1>1, <1>2, <1>3, <1>4, <1>5, <1>6, <1>7, <1>8, <1>9, <1>10, <1>11, <1>12, <1>13, <1>14, <1>15, <1>16, <1>17, <1>18, <1>19, ZenonT(40) DEF Account!Next

-----------------------------------------------------------------------------
(***************************************************************************)
(* A replica's clock and the registers of its notes.                       *)
(***************************************************************************)

Stamps == {"title", "notebook", "flags", "deleted", "tag"}

\* A register that was written up to the clock c.
RegisterUpto(w, c) == w = [val |-> w.val, at |-> w.at] /\ w.at \in Clock /\ Upto(w.at, c)

\* A row whose registers were written up to the clock c.
RowUpto(r, c) ==
    /\ r = [title |-> r.title, notebook |-> r.notebook, flags |-> r.flags, deleted |-> r.deleted,
            tag |-> r.tag, body |-> r.body, fts |-> r.fts]
    /\ \A k \in Stamps : RegisterUpto(r[k], c)

OpOK(o) == o.at \in Clock /\ o.n \in Note /\ o.kind \in {"deleted", "notebook", "tag", "flags", "body"}
Queue(s) == \E S : s \in Seq(S) /\ \A o \in S : OpOK(o)

\* The clock a device has stored is at or after every register of its notes and
\* never after the clock it uses.
ClocksLead ==
    /\ clock \in [Device -> Clock] /\ saved \in [Device -> Clock]
    /\ \A d \in Device : Upto(saved[d], clock[d])
    /\ notes = [d \in Device |-> [n \in Note |-> notes[d][n]]]
    /\ \A d \in Device, n \in Note : notes[d][n] = None \/ RowUpto(notes[d][n], saved[d])
    /\ Queue(log) /\ outbox = [d \in Device |-> outbox[d]] /\ \A d \in Device : Queue(outbox[d])
    /\ cursor \in [Device -> Nat]

\* The operators of the instance are those of HLC.
LEMMA ReplicaClocks ==
    /\ \A a, b : Replica!Later(a, b) <=> Later(a, b)
    /\ \A h, t, d : Replica!Advance(h, t, d) = Advance(h, t, d)
    /\ \A h, r, t, d : Replica!Observe(h, r, t, d) = Observe(h, r, t, d)
    /\ \A r, v, c : Replica!Write(r, v, c) = Write(r, v, c)
    /\ \A v, c : Replica!Register(v, c) = Register(v, c)
    /\ Replica!Overflow = Overflow /\ Replica!Zero = Zero
<1>1. Replica!Overflow = Overflow /\ Replica!Zero = Zero
  BY Zenon DEF Replica!Overflow, Overflow, Replica!Zero, Zero
<1>2. \A a, b : Replica!Later(a, b) <=> Later(a, b)
  BY Zenon DEF Replica!Later, Later
<1>3. \A v, c : Replica!Register(v, c) = Register(v, c)
  BY Zenon DEF Replica!Register, Register
<1>4. \A r, v, c : Replica!Write(r, v, c) = Write(r, v, c)
  BY <1>1, <1>2, <1>3, Zenon DEF Replica!Write, Write
<1>5. \A h, t, d : Replica!Advance(h, t, d) = Advance(h, t, d)
  BY <1>1, Zenon DEF Replica!Advance, Advance
<1>6. /\ \A a, b : Replica!Larger(a, b) = Larger(a, b)
      /\ \A r, t : Replica!Clamped(r, t) = Clamped(r, t)
  BY Zenon DEF Replica!Larger, Larger, Replica!Clamped, Clamped
<1>7. \A h, r, t, d : Replica!Observe(h, r, t, d) = Observe(h, r, t, d)
  <2> TAKE h, r, t, d
  <2>1. PICK m : m = Clamped(r, t)
    OBVIOUS
  <2>2. PICK p : p = Larger(Larger(h.p, m.p), t)
    OBVIOUS
  <2>3. PICK l : l = IF p = h.p /\ p = m.p THEN Larger(h.l, m.l) + 1
                     ELSE IF p = h.p THEN h.l + 1 ELSE IF p = m.p THEN m.l + 1 ELSE 0
    OBVIOUS
  <2>4. Observe(h, r, t, d) = IF l > MaxLogical THEN Overflow ELSE [p |-> p, l |-> l, d |-> d]
    BY <2>1, <2>2, <2>3, Zenon DEF Observe
  <2>5. Replica!Observe(h, r, t, d) = IF l > MaxLogical THEN Overflow ELSE [p |-> p, l |-> l, d |-> d]
    BY <1>1, <1>6, <2>1, <2>2, <2>3, Zenon DEF Replica!Observe
  <2> QED  BY <2>4, <2>5, Zenon
<1> QED  BY <1>1, <1>2, <1>3, <1>4, <1>5, <1>7, Zenon

\* Order of stamps.
LEMMA StampOrder ==
    ASSUME NEW a \in Clock, NEW b \in Clock, NEW c \in Clock
    PROVE  /\ Before(a, b) => Upto(a, b) /\ Later(b, a)
           /\ Upto(a, b) /\ Upto(b, c) => Upto(a, c)
           /\ Upto(a, b) /\ Before(b, c) => Before(a, c)
           /\ Upto(a, a)
  BY DEF Clock, Before, Upto, Later

\* The conditional update of a register (lwwWhereClause) leaves a stamp no later
\* than the old one or the write's, and a write that is ahead takes effect.
LEMMA RegisterWritten ==
    ASSUME NEW r, NEW v, NEW c \in Clock, NEW low \in Clock, NEW top \in Clock,
           RegisterUpto(r, low), Upto(low, top), Upto(c, top)
    PROVE  /\ RegisterUpto(r, top) /\ RegisterUpto(Write(r, v, c), top)
           /\ Before(low, c) => Write(r, v, c).val = v
<1>1. RegisterUpto(r, top)
  BY StampOrder, Zenon DEF RegisterUpto
<1>2. Write(r, v, c) \in {r, Register(v, c)}
  BY Zenon DEF Write
<1>3. RegisterUpto(Write(r, v, c), top)
  BY <1>1, <1>2 DEF Register, RegisterUpto
<1>4. ASSUME Before(low, c) PROVE Write(r, v, c).val = v
  <2>1. Later(c, r.at)
    BY <1>4, StampOrder, Zenon DEF RegisterUpto
  <2> QED  BY <2>1, Zenon DEF Write, Register
<1> QED  BY <1>1, <1>3, <1>4, Zenon

\* A row keeps its shape and the bound on its stamps when the bound grows or its
\* body or index row is replaced ...
LEMMA RowKept ==
    ASSUME NEW r, NEW low \in Clock, NEW top \in Clock, RowUpto(r, low), Upto(low, top)
    PROVE  /\ RowUpto(r, top)
           /\ \A b : RowUpto([r EXCEPT !.body = b], top) /\ [r EXCEPT !.body = b].body = b
           /\ \A b : \A k \in Stamps : [r EXCEPT !.body = b][k] = r[k]
           /\ \A f : RowUpto([r EXCEPT !.fts = f], top) /\ [r EXCEPT !.fts = f].body = r.body
           /\ \A f : \A k \in Stamps : [r EXCEPT !.fts = f][k] = r[k]
<1>1. RowUpto(r, top)
  BY RegisterWritten, Zenon DEF RowUpto
<1>2. ASSUME NEW b
      PROVE  /\ RowUpto([r EXCEPT !.body = b], top) /\ [r EXCEPT !.body = b].body = b
             /\ \A k \in Stamps : [r EXCEPT !.body = b][k] = r[k]
  BY <1>1 DEF RowUpto, Stamps
<1>3. ASSUME NEW f
      PROVE  /\ RowUpto([r EXCEPT !.fts = f], top) /\ [r EXCEPT !.fts = f].body = r.body
             /\ \A k \in Stamps : [r EXCEPT !.fts = f][k] = r[k]
  BY <1>1 DEF RowUpto, Stamps
<1> QED  BY <1>1, <1>2, <1>3, Zenon

\* ... or when one of its registers is.
LEMMA RowReplaced ==
    ASSUME NEW r, NEW top \in Clock, RowUpto(r, top),
           NEW w, RegisterUpto(w, top)
    PROVE  /\ RowUpto([r EXCEPT !.title = w], top) /\ [r EXCEPT !.title = w].title = w
           /\ RowUpto([r EXCEPT !.notebook = w], top) /\ [r EXCEPT !.notebook = w].notebook = w
           /\ RowUpto([r EXCEPT !.flags = w], top) /\ [r EXCEPT !.flags = w].flags = w
           /\ RowUpto([r EXCEPT !.deleted = w], top) /\ [r EXCEPT !.deleted = w].deleted = w
           /\ RowUpto([r EXCEPT !.tag = w], top) /\ [r EXCEPT !.tag = w].tag = w
<1>1. /\ RowUpto([r EXCEPT !.title = w], top) /\ [r EXCEPT !.title = w].title = w
      /\ RowUpto([r EXCEPT !.notebook = w], top) /\ [r EXCEPT !.notebook = w].notebook = w
  BY DEF RowUpto, Stamps
<1>2. /\ RowUpto([r EXCEPT !.flags = w], top) /\ [r EXCEPT !.flags = w].flags = w
      /\ RowUpto([r EXCEPT !.deleted = w], top) /\ [r EXCEPT !.deleted = w].deleted = w
      /\ RowUpto([r EXCEPT !.tag = w], top) /\ [r EXCEPT !.tag = w].tag = w
  BY DEF RowUpto, Stamps
<1> QED  BY <1>1, <1>2, Zenon

\* Every way the replica rewrites a row keeps its stamps within the bound.
LEMMA RowsRewritten ==
    ASSUME NEW r, NEW low \in Clock, NEW top \in Clock, RowUpto(r, low), Upto(low, top),
           NEW c \in Clock, Upto(c, top), NEW v
    PROVE  /\ RowUpto(Replica!SetNoteTitle(r, v, c), top)
           /\ Replica!SetNoteTitle(r, v, c).body = r.body
           /\ Before(low, c) => Replica!SetNoteTitle(r, v, c).title.val = v
           /\ \A k \in {"deleted", "notebook", "tag", "flags"} :
                 /\ RowUpto(Replica!SetMetadata(r, k, v, c), top)
                 /\ Before(low, c) => Replica!SetMetadata(r, k, v, c)[k].val = v
<1> DEFINE W(k) == Write(r[k], v, c)
<1>1. ASSUME NEW k \in Stamps
      PROVE  RegisterUpto(W(k), top) /\ (Before(low, c) => W(k).val = v)
  BY RegisterWritten, Zenon DEF RowUpto
<1>2. \A x, y, z : Replica!Write(x, y, z) = Write(x, y, z)
  BY ReplicaClocks, Zenon
<1>3. /\ Replica!SetNoteTitle(r, v, c) = [r EXCEPT !.title = W("title")]
      /\ Replica!SetMetadata(r, "notebook", v, c) = [r EXCEPT !.notebook = W("notebook")]
      /\ Replica!SetMetadata(r, "flags", v, c) = [r EXCEPT !.flags = W("flags")]
      /\ Replica!SetMetadata(r, "deleted", v, c) = [r EXCEPT !.deleted = W("deleted")]
      /\ Replica!SetMetadata(r, "tag", v, c) = [r EXCEPT !.tag = W("tag")]
  BY <1>2, Zenon DEF RowUpto, Replica!SetNoteTitle, Replica!SetMetadata, Replica!SetNoteNotebook, Replica!SetNoteFlags,
              Replica!SetNoteDeleted, Replica!SetNoteTag
<1>4. [r EXCEPT !.title = W("title")].body = r.body
  BY Zenon DEF RowUpto
<1>5. RowUpto(r, top)
  BY RowKept, Zenon
<1> HIDE DEF W
<1> QED
  <2>1. /\ RowUpto([r EXCEPT !.title = W("title")], top)
        /\ [r EXCEPT !.title = W("title")].title = W("title")
    BY <1>1, <1>5, RowReplaced, ZenonT(40) DEF Stamps
  <2>2. /\ RowUpto([r EXCEPT !.notebook = W("notebook")], top)
        /\ [r EXCEPT !.notebook = W("notebook")].notebook = W("notebook")
    BY <1>1, <1>5, RowReplaced, Zenon DEF Stamps
  <2>3. /\ RowUpto([r EXCEPT !.flags = W("flags")], top)
        /\ [r EXCEPT !.flags = W("flags")].flags = W("flags")
    BY <1>1, <1>5, RowReplaced, Zenon DEF Stamps
  <2>4. /\ RowUpto([r EXCEPT !.deleted = W("deleted")], top)
        /\ [r EXCEPT !.deleted = W("deleted")].deleted = W("deleted")
    BY <1>1, <1>5, RowReplaced, Zenon DEF Stamps
  <2>5. /\ RowUpto([r EXCEPT !.tag = W("tag")], top)
        /\ [r EXCEPT !.tag = W("tag")].tag = W("tag")
    BY <1>1, <1>5, RowReplaced, Zenon DEF Stamps
  <2>6. \A k \in Stamps : Before(low, c) => W(k).val = v
    BY <1>1, Zenon
  <2>7. /\ RowUpto(Replica!SetNoteTitle(r, v, c), top)
        /\ Replica!SetNoteTitle(r, v, c).body = r.body
        /\ Before(low, c) => Replica!SetNoteTitle(r, v, c).title.val = v
    BY <1>3, <1>4, <2>1, <2>6, Zenon DEF Stamps
  <2>8. ASSUME NEW k \in {"deleted", "notebook", "tag", "flags"}
        PROVE  /\ RowUpto(Replica!SetMetadata(r, k, v, c), top)
               /\ Before(low, c) => Replica!SetMetadata(r, k, v, c)[k].val = v
    BY <1>3, <2>2, <2>3, <2>4, <2>5, <2>6, ZenonT(40) DEF Stamps
  <2> QED  BY <2>7, <2>8, Zenon

LEMMA TitleWritten ==
    ASSUME NEW r, NEW low \in Clock, NEW top \in Clock, RowUpto(r, low), Upto(low, top),
           NEW c \in Clock, Upto(c, top), NEW v
    PROVE  /\ RowUpto(Replica!SetNoteTitle(r, v, c), top)
           /\ Replica!SetNoteTitle(r, v, c).body = r.body
           /\ Before(low, c) => Replica!SetNoteTitle(r, v, c).title.val = v
  BY RowsRewritten

LEMMA MetadataWritten ==
    ASSUME NEW r, NEW low \in Clock, NEW top \in Clock, RowUpto(r, low), Upto(low, top),
           NEW c \in Clock, Upto(c, top), NEW v, NEW k \in {"deleted", "notebook", "tag", "flags"},
           NEW row, row = Replica!SetMetadata(r, k, v, c)
    PROVE  RowUpto(row, top) /\ (Before(low, c) => row[k].val = v)
  BY RowsRewritten

\* The rows CreateNote and InsertReplicatedNote insert.
LEMMA RowsInserted ==
    ASSUME NEW c \in Clock, NEW v, NEW b \in BOOLEAN, NEW top \in Clock, Upto(c, top)
    PROVE  /\ RowUpto(Replica!NewRow(v, c), top)
           /\ RowUpto(Replica!CreateRow(v, b, c), top)
           /\ Replica!CreateRow(v, b, c).title.val = v
           /\ b => Replica!CreateRow(v, b, c).notebook.val = 1
<1>1. Zero \in Clock /\ Upto(Zero, top)
  BY DEF Zero, Clock, Upto
<1>2. /\ Replica!Register(v, c) = [val |-> v, at |-> c] /\ Replica!Register(1, c) = [val |-> 1, at |-> c]
      /\ Replica!Blank = [val |-> 0, at |-> Zero]
  BY Zenon DEF Replica!Blank, Replica!Register, Replica!Zero, Zero
<1>3. RowUpto(Replica!NewRow(v, c), top) /\ Replica!NewRow(v, c).title = [val |-> v, at |-> c]
  BY <1>1, <1>2 DEF RowUpto, RegisterUpto, Stamps, Replica!NewRow
<1> DEFINE w == IF b THEN Replica!Register(1, c) ELSE Replica!Blank
<1>4. RegisterUpto(w, top) /\ (b => w.val = 1)
  BY <1>1, <1>2 DEF RegisterUpto
<1>5. Replica!CreateRow(v, b, c) = [Replica!NewRow(v, c) EXCEPT !.notebook = w]
  BY Zenon DEF Replica!CreateRow
<1>6. /\ RowUpto([Replica!NewRow(v, c) EXCEPT !.notebook = w], top)
      /\ [Replica!NewRow(v, c) EXCEPT !.notebook = w].notebook = w
  <2>1. PICK n : n = Replica!NewRow(v, c)
    OBVIOUS
  <2>2. PICK x : x = w
    OBVIOUS
  <2>3. RowUpto(n, top) /\ RegisterUpto(x, top)
    BY <1>3, <1>4, <2>1, <2>2, Zenon
  <2>4. RowUpto([n EXCEPT !.notebook = x], top) /\ [n EXCEPT !.notebook = x].notebook = x
    BY <2>3, RowReplaced, Zenon
  <2> HIDE DEF w
  <2> QED  BY <2>1, <2>2, <2>4, Zenon
<1> HIDE DEF w
<1>7. [Replica!NewRow(v, c) EXCEPT !.notebook = w].title = Replica!NewRow(v, c).title
  BY <1>3, Zenon DEF RowUpto
<1> QED  BY <1>3, <1>4, <1>5, <1>6, <1>7

\* The outboxes and the log as sequences of operations.
LEMMA Queues ==
    /\ Queue(<<>>)
    /\ \A o : OpOK(o) => Queue(<<o>>)
    /\ \A s, o : Queue(s) /\ OpOK(o) => Queue(Append(s, o))
    /\ \A s, t : Queue(s) /\ Queue(t) => Queue(s \o t)
    /\ \A s : Queue(s) => Len(s) \in Nat /\ \A i \in 1..Len(s) : OpOK(s[i])
    /\ \A s : Queue(s) /\ s # <<>> => OpOK(Head(s)) /\ Queue(Tail(s)) /\ Len(Tail(s)) = Len(s) - 1
    /\ \A s, t : Queue(s) /\ Queue(t) /\ Len(t) > 0 =>
           Len(s \o t) > Len(s) /\ (s \o t)[Len(s \o t)] = t[Len(t)]
<1>1. Queue(<<>>)
  <2>1. PICK S : S = {}
    BY Zenon
  <2>2. <<>> \in Seq(S) /\ \A x \in S : OpOK(x)
    BY <2>1
  <2> QED  BY <2>2, Zenon DEF Queue
<1>2. ASSUME NEW o, OpOK(o) PROVE Queue(<<o>>)
  <2>1. PICK S : S = {o}
    BY Zenon
  <2>2. <<o>> \in Seq(S) /\ \A x \in S : OpOK(x)
    BY <1>2, <2>1
  <2> QED  BY <2>2, Zenon DEF Queue
<1>3. ASSUME NEW s, NEW o, Queue(s), OpOK(o) PROVE Queue(Append(s, o))
  <2>1. PICK S : s \in Seq(S) /\ \A x \in S : OpOK(x)
    BY <1>3, Zenon DEF Queue
  <2>2. Append(s, o) \in Seq(S \cup {o}) /\ \A x \in S \cup {o} : OpOK(x)
    BY <1>3, <2>1
  <2> QED  BY <2>2, Zenon DEF Queue
<1>4. ASSUME NEW s, NEW t, Queue(s), Queue(t)
      PROVE  /\ Queue(s \o t)
             /\ Len(t) > 0 => Len(s \o t) > Len(s) /\ (s \o t)[Len(s \o t)] = t[Len(t)]
  <2>1. PICK S : s \in Seq(S) /\ \A x \in S : OpOK(x)
    BY <1>4, Zenon DEF Queue
  <2>2. PICK T : t \in Seq(T) /\ \A x \in T : OpOK(x)
    BY <1>4, Zenon DEF Queue
  <2>3. s \in Seq(S \cup T) /\ t \in Seq(S \cup T) /\ \A x \in S \cup T : OpOK(x)
    BY <2>1, <2>2
  <2>4. s \o t \in Seq(S \cup T)
    BY <2>3
  <2>5. Queue(s \o t)
    BY <2>3, <2>4, Zenon DEF Queue
  <2>6. Len(t) > 0 => Len(s \o t) > Len(s) /\ (s \o t)[Len(s \o t)] = t[Len(t)]
    BY <2>3
  <2> QED  BY <2>5, <2>6, Zenon
<1>5. ASSUME NEW s, Queue(s)
      PROVE  /\ Len(s) \in Nat /\ \A i \in 1..Len(s) : OpOK(s[i])
             /\ s # <<>> => OpOK(Head(s)) /\ Queue(Tail(s)) /\ Len(Tail(s)) = Len(s) - 1
  <2>1. PICK S : s \in Seq(S) /\ \A x \in S : OpOK(x)
    BY <1>5, Zenon DEF Queue
  <2>2. Len(s) \in Nat /\ \A i \in 1..Len(s) : s[i] \in S
    BY <2>1
  <2>3. ASSUME s # <<>> PROVE Head(s) \in S /\ Tail(s) \in Seq(S) /\ Len(Tail(s)) = Len(s) - 1
    BY <2>1, <2>3
  <2> QED  BY <2>1, <2>2, <2>3, Zenon DEF Queue
<1> QED  BY <1>1, <1>2, <1>3, <1>4, <1>5, Zenon

\* A new value of a device's clock, from Tick or from Observe, is ahead of the
\* stored one, so that storing it with the command moves the stored clock there.
LEMMA ClockTaken ==
    ASSUME ClocksLead, NEW d \in Device, NEW c \in Clock, Before(clock[d], c)
    PROVE  Before(saved[d], c) /\ Replica!AdvanceDeviceClock(d, c) = c
<1>1. clock[d] \in Clock /\ saved[d] \in Clock /\ Upto(saved[d], clock[d])
  BY Zenon DEF ClocksLead
<1>2. Before(saved[d], c)
  BY <1>1, StampOrder, Zenon
<1>3. c.p > saved[d].p \/ (c.p = saved[d].p /\ c.l > saved[d].l)
  BY <1>1, <1>2, Zenon DEF Before, Clock
<1> QED  BY <1>2, <1>3, Zenon DEF Replica!AdvanceDeviceClock

\* The value a command ticks.
LEMMA CommandClock ==
    ASSUME ClocksLead, NEW d \in Device, NEW now \in Nat, Replica!Tick(d, now) # Replica!Overflow
    PROVE  /\ Replica!Tick(d, now) \in Clock /\ Before(clock[d], Replica!Tick(d, now))
           /\ Before(saved[d], Replica!Tick(d, now))
<1>1. Replica!Tick(d, now) = Advance(clock[d], now, d) /\ Replica!Overflow = Overflow
  BY ReplicaClocks, Zenon DEF Replica!Tick
<1>2. clock[d] \in Clock /\ d \in Nat
  BY LocalConstants, Zenon DEF ClocksLead
<1>3. Replica!Tick(d, now) \in Clock /\ Before(clock[d], Replica!Tick(d, now))
  BY <1>1, <1>2, TickIsAhead, Zenon
<1>4. PICK c \in Clock : c = Replica!Tick(d, now)
  BY <1>3, Zenon
<1> QED  BY <1>3, <1>4, ClockTaken, Zenon

\* What one device changes: the clock c it has taken, and one row up to c.
LEMMA DeviceStep ==
    ASSUME ClocksLead, NEW d \in Device, NEW n \in Note, NEW c \in Clock, Before(clock[d], c),
           NEW row, RowUpto(row, c),
           clock' = [clock EXCEPT ![d] = c],
           saved' = [saved EXCEPT ![d] = Replica!AdvanceDeviceClock(d, c)],
           notes' = [notes EXCEPT ![d][n] = row]
    PROVE  /\ clock' \in [Device -> Clock] /\ saved' \in [Device -> Clock]
           /\ \A e \in Device : Upto(saved'[e], clock'[e])
           /\ notes' = [e \in Device |-> [m \in Note |-> notes'[e][m]]]
           /\ \A e \in Device, m \in Note : notes'[e][m] = None \/ RowUpto(notes'[e][m], saved'[e])
           /\ notes'[d][n] = row
<1>1. Before(saved[d], c) /\ Replica!AdvanceDeviceClock(d, c) = c
  BY ClockTaken, Zenon
<1>2. /\ clock' \in [Device -> Clock] /\ saved' \in [Device -> Clock]
      /\ \A e \in Device : Upto(saved'[e], clock'[e])
  <2>1. Upto(c, c)
    BY StampOrder, Zenon
  <2> QED  BY <1>1, <2>1, Zenon DEF ClocksLead
<1>3. notes' = [e \in Device |-> [m \in Note |-> notes'[e][m]]] /\ notes'[d][n] = row
  <2>1. DOMAIN notes = Device /\ \A e \in Device : notes[e] = [m \in Note |-> notes[e][m]]
    BY Zenon DEF ClocksLead
  <2>2. PICK g : g = [notes[d] EXCEPT ![n] = row]
    BY Zenon
  <2>3. g = [m \in Note |-> g[m]] /\ g[n] = row
    BY <2>1, <2>2, Zenon
  <2>4. notes' = [notes EXCEPT ![d] = g]
    BY <2>2, Zenon
  <2>5. notes' = [e \in Device |-> notes'[e]] /\ \A e \in Device : notes'[e] = IF e = d THEN g ELSE notes[e]
    BY <2>1, <2>4, Zenon
  <2> DEFINE OnNotes(f) == f = [m \in Note |-> f[m]]
  <2>6. ASSUME NEW e \in Device PROVE OnNotes(notes'[e])
    <3>1. OnNotes(g) /\ OnNotes(notes[e])
      BY <2>1, <2>3, Zenon
    <3>2. notes'[e] = g \/ notes'[e] = notes[e]
      BY <2>5, Zenon
    <3> HIDE DEF OnNotes
    <3> QED  BY <3>1, <3>2, Zenon
  <2> QED  BY <2>3, <2>5, <2>6, Zenon
<1>4. ASSUME NEW e \in Device, NEW m \in Note
      PROVE  notes'[e][m] = None \/ RowUpto(notes'[e][m], saved'[e])
  <2>1. saved \in [Device -> Clock] /\ (notes[e][m] = None \/ RowUpto(notes[e][m], saved[e]))
    BY Zenon DEF ClocksLead
  <2>2. CASE e = d /\ m = n
    BY <1>1, <1>3, <2>1, <2>2, Zenon
  <2>3. CASE e = d /\ m # n
    <3>1. notes'[e][m] = notes[e][m] /\ saved'[e] = c
      BY <1>1, <2>1, <2>3, Zenon DEF ClocksLead
    <3>2. Upto(saved[e], c) /\ saved[e] \in Clock
      BY <1>1, <2>1, <2>3, StampOrder, Zenon
    <3>3. PICK r, low : r = notes[e][m] /\ low = saved[e]
      OBVIOUS
    <3> QED  BY <2>1, <3>1, <3>2, <3>3, RowKept
  <2>4. CASE e # d
    BY <2>1, <2>4, Zenon DEF ClocksLead
  <2> QED  BY <2>2, <2>3, <2>4, Zenon
<1> QED  BY <1>2, <1>3, <1>4, Zenon

\* What the last operation of a device's outbox asked for is in its row.
Effective(o, row) ==
    IF o.kind = "body"
    THEN o.update \subseteq row.body /\ (o.title # 0 => row.title.val = o.title)
    ELSE row[o.kind].val = o.val

\* A transaction that writes a row up to its clock and queues operations of which
\* the last one is in the row (CommitLocal).
LEMMA CommitStep ==
    ASSUME ClocksLead, NEW d \in Device, NEW n \in Note, NEW c \in Clock, Before(clock[d], c),
           NEW row, RowUpto(row, c), NEW ops, Queue(ops), Len(ops) > 0,
           ops[Len(ops)].n = n, Effective(ops[Len(ops)], row),
           Replica!CommitLocal(d, n, c, row, ops)
    PROVE  ClocksLead' /\ Replica!TakesEffect
<1>1. /\ clock' = [clock EXCEPT ![d] = c]
      /\ saved' = [saved EXCEPT ![d] = Replica!AdvanceDeviceClock(d, c)]
      /\ notes' = [notes EXCEPT ![d][n] = row]
      /\ outbox' = [outbox EXCEPT ![d] = outbox[d] \o ops]
      /\ log' = log /\ cursor' = cursor
  BY Zenon DEF Replica!CommitLocal, Replica!Persist
<1>2. /\ clock' \in [Device -> Clock] /\ saved' \in [Device -> Clock]
      /\ \A e \in Device : Upto(saved'[e], clock'[e])
      /\ notes' = [e \in Device |-> [m \in Note |-> notes'[e][m]]]
      /\ \A e \in Device, m \in Note : notes'[e][m] = None \/ RowUpto(notes'[e][m], saved'[e])
      /\ notes'[d][n] = row
  BY <1>1, DeviceStep, Zenon
<1>3. PICK q : q = outbox[d] \o ops
  BY Zenon
<1>4. Queue(q) /\ Len(q) > Len(outbox[d]) /\ q[Len(q)] = ops[Len(ops)]
  BY <1>3, Queues, Zenon DEF ClocksLead
<1>5. outbox' = [e \in Device |-> IF e = d THEN q ELSE outbox[e]]
  BY <1>1, <1>3, Zenon DEF ClocksLead
<1>6. outbox' = [e \in Device |-> outbox'[e]] /\ \A e \in Device : Queue(outbox'[e])
  BY <1>4, <1>5, Zenon DEF ClocksLead
<1>7. Queue(log') /\ cursor' \in [Device -> Nat]
  BY <1>1, Zenon DEF ClocksLead
<1>8. ClocksLead'
  BY <1>2, <1>6, <1>7, Zenon DEF ClocksLead
<1>9. ASSUME NEW e \in Device, Len(outbox'[e]) > Len(outbox[e])
      PROVE  Effective(outbox'[e][Len(outbox'[e])], notes'[e][outbox'[e][Len(outbox'[e])].n])
  <2>1. e = d
    <3>1. Len(outbox[e]) \in Nat
      BY Queues, Zenon DEF ClocksLead
    <3> QED  BY <1>5, <1>9, <3>1
  <2>2. outbox'[e][Len(outbox'[e])] = ops[Len(ops)]
    BY <1>4, <1>5, <2>1, Zenon
  <2> QED  BY <1>2, <2>1, <2>2, Zenon
<1>10. Replica!TakesEffect
  BY <1>9, Zenon DEF Replica!TakesEffect, Effective
<1> QED  BY <1>8, <1>10, Zenon

\* The two kinds of operations.
LEMMA BodyOperation ==
    ASSUME NEW n \in Note, NEW c \in Clock, NEW title, NEW update
    PROVE  /\ OpOK(Replica!BodyOp(n, c, title, update)) /\ Replica!BodyOp(n, c, title, update).n = n
           /\ \A row : Effective(Replica!BodyOp(n, c, title, update), row) <=>
                          (update \subseteq row.body /\ (title # 0 => row.title.val = title))
  BY Zenon DEF OpOK, Effective, Replica!BodyOp

LEMMA MetadataOperation ==
    ASSUME NEW n \in Note, NEW c \in Clock, NEW k \in {"deleted", "notebook", "tag", "flags"}, NEW v,
           NEW o, o = Replica!MetadataOp(n, c, k, v)
    PROVE  OpOK(o) /\ o.n = n /\ \A row : Effective(o, row) <=> row[k].val = v
  BY Zenon DEF OpOK, Effective, Replica!MetadataOp

\* One operation alone in a transaction.
LEMMA SingleOp ==
    ASSUME NEW o, OpOK(o)
    PROVE  Queue(<<o>>) /\ Len(<<o>>) = 1 /\ <<o>>[Len(<<o>>)] = o
<1>1. Queue(<<o>>)
  BY Queues, Zenon
<1>2. Len(<<o>>) = 1 /\ <<o>>[1] = o
  OBVIOUS
<1> QED  BY <1>1, <1>2, Zenon

\* CreateNote.
LEMMA CreateStep ==
    ASSUME ClocksLead, NEW d \in Device, NEW now \in Nat, NEW n \in Note, NEW inBook \in BOOLEAN,
           Replica!CreateNote(d, now, n, inBook)
    PROVE  ClocksLead' /\ Replica!TakesEffect
<1>1. PICK c : c = Replica!Tick(d, now)
  OBVIOUS
<1>2. PICK title : title = Replica!Count + 1
  OBVIOUS
<1>3. PICK row : row = Replica!CreateRow(title, inBook, c)
  OBVIOUS
<1>4. PICK create : create = Replica!BodyOp(n, c, title, {})
  OBVIOUS
<1>5. PICK fileOp : fileOp = Replica!MetadataOp(n, c, "notebook", 1)
  OBVIOUS
<1>6. PICK ops : ops = IF inBook THEN <<create, fileOp>> ELSE <<create>>
  BY ZenonT(40)
<1>7. Replica!CommitLocal(d, n, c, row, ops)
  BY <1>1, <1>2, <1>3, <1>4, <1>5, <1>6 DEF Replica!CreateNote
<1>8. c \in Clock /\ Before(clock[d], c) /\ Upto(c, c)
  <2>1. c # Replica!Overflow
    BY <1>7, Zenon DEF Replica!CommitLocal
  <2> QED  BY <1>1, <2>1, CommandClock, StampOrder, Zenon
<1>9. RowUpto(row, c) /\ row.title.val = title /\ (inBook => row.notebook.val = 1)
  BY <1>3, <1>8, RowsInserted, SMTT(40)
<1>10. /\ OpOK(create) /\ create.n = n /\ Effective(create, row)
       /\ OpOK(fileOp) /\ fileOp.n = n /\ (inBook => Effective(fileOp, row))
  <2>1. PICK u : u = {}
    BY Zenon
  <2>2. u \subseteq row.body /\ (title # 0 => row.title.val = title)
    BY <1>9, <2>1, Zenon
  <2>3. OpOK(create) /\ create.n = n /\ Effective(create, row)
    <3>1. /\ OpOK(Replica!BodyOp(n, c, title, u)) /\ Replica!BodyOp(n, c, title, u).n = n
          /\ Effective(Replica!BodyOp(n, c, title, u), row)
      BY <1>8, <2>2, BodyOperation, Zenon
    <3> QED  BY <1>4, <2>1, <3>1, Zenon
  <2>4. OpOK(fileOp) /\ fileOp.n = n /\ (inBook => Effective(fileOp, row))
    BY <1>5, <1>8, <1>9, MetadataOperation
  <2> QED  BY <2>3, <2>4, Zenon
<1>11. Queue(ops) /\ Len(ops) > 0 /\ ops[Len(ops)] = IF inBook THEN fileOp ELSE create
  <2>1. CASE ~inBook
    BY <1>6, <1>10, <2>1, SingleOp
  <2>2. CASE inBook
    <3>1. ops = Append(<<create>>, fileOp) /\ Queue(<<create>>)
      BY <1>6, <1>10, <2>2, SingleOp
    <3>2. Queue(ops)
      BY <1>10, <3>1, Queues, Zenon
    <3>3. Len(ops) = 2 /\ ops[2] = fileOp
      BY <1>6, <2>2, ZenonT(40)
    <3> QED  BY <2>2, <3>2, <3>3
  <2> QED  BY <2>1, <2>2, Zenon
<1> QED  BY <1>7, <1>8, <1>9, <1>10, <1>11, CommitStep

\* CommitNoteMetadata.
LEMMA MetadataStep ==
    ASSUME ClocksLead, NEW d \in Device, NEW now \in Nat, NEW n \in Note,
           NEW k \in {"deleted", "notebook", "tag", "flags"},
           Replica!CommitNoteMetadata(d, now, n, k)
    PROVE  ClocksLead' /\ Replica!TakesEffect
<1>1. PICK c : c = Replica!Tick(d, now)
  OBVIOUS
<1>2. PICK old : old = notes[d][n]
  OBVIOUS
<1>3. PICK v : Replica!CommitLocal(d, n, c, Replica!SetMetadata(old, k, v, c), <<Replica!MetadataOp(n, c, k, v)>>)
  BY <1>1, <1>2, Zenon DEF Replica!CommitNoteMetadata
<1>4. PICK row : row = Replica!SetMetadata(old, k, v, c)
  OBVIOUS
<1>5. PICK o : o = Replica!MetadataOp(n, c, k, v)
  OBVIOUS
<1>6. c # Replica!Overflow
  BY <1>3, Zenon DEF Replica!CommitLocal
<1>7. c \in Clock /\ Before(clock[d], c) /\ Before(saved[d], c)
  BY <1>1, <1>6, CommandClock, Zenon
<1>8. saved[d] \in Clock /\ RowUpto(old, saved[d]) /\ Upto(saved[d], c) /\ Upto(c, c)
  BY <1>2, <1>7, StampOrder, ZenonT(40) DEF Replica!CommitNoteMetadata, ClocksLead
<1>9. RowUpto(row, c) /\ row[k].val = v
  <2>1. PICK low \in Clock : low = saved[d]
    BY <1>8, ZenonT(40)
  <2> QED  BY <1>4, <1>7, <1>8, <2>1, MetadataWritten
<1>10. OpOK(o) /\ o.n = n /\ Effective(o, row)
  BY <1>5, <1>7, <1>9, MetadataOperation
<1>11. PICK ops : ops = <<o>>
  BY Zenon
<1>12. Queue(ops) /\ Len(ops) > 0 /\ ops[Len(ops)] = o
  BY <1>10, <1>11, SingleOp
<1> QED  BY <1>3, <1>4, <1>5, <1>7, <1>9, <1>10, <1>11, <1>12, CommitStep, Zenon

\* Merging an update and writing the index row.
LEMMA RowsMerged ==
    ASSUME NEW r, NEW top \in Clock, RowUpto(r, top), NEW u, NEW t, NEW b
    PROVE  /\ RowUpto(Replica!ApplyUpdate(r, u), top) /\ Replica!ApplyUpdate(r, u).body = r.body \cup u
           /\ RowUpto(Replica!ReplaceNoteFTS(r, t, b), top)
           /\ Replica!ReplaceNoteFTS(r, t, b).body = r.body
           /\ Replica!ReplaceNoteFTS(r, t, b).title = r.title
<1>1. Upto(top, top)
  BY StampOrder, Zenon
<1>2. PICK w : w = r.body \cup u
  BY Zenon
<1>3. PICK f : f = <<t, b>>
  BY Zenon
<1>4. Replica!ApplyUpdate(r, u) = [r EXCEPT !.body = w]
  BY <1>2, Zenon DEF Replica!ApplyUpdate, RowUpto
<1>5. Replica!ReplaceNoteFTS(r, t, b) = [r EXCEPT !.fts = f]
  BY <1>3, Zenon DEF Replica!ReplaceNoteFTS
<1>6. /\ RowUpto([r EXCEPT !.body = w], top) /\ [r EXCEPT !.body = w].body = w
      /\ RowUpto([r EXCEPT !.fts = f], top) /\ [r EXCEPT !.fts = f].body = r.body
      /\ [r EXCEPT !.fts = f].title = r.title
  BY <1>1, RowKept DEF Stamps
<1> QED  BY <1>2, <1>4, <1>5, <1>6, Zenon

LEMMA RowMerged ==
    ASSUME NEW r, NEW top \in Clock, RowUpto(r, top), NEW u, NEW row, row = Replica!ApplyUpdate(r, u)
    PROVE  RowUpto(row, top) /\ row.body = r.body \cup u
  BY RowsMerged, Zenon

LEMMA RowIndexed ==
    ASSUME NEW r, NEW top \in Clock, RowUpto(r, top), NEW t, NEW b
    PROVE  /\ RowUpto(Replica!ReplaceNoteFTS(r, t, b), top)
           /\ Replica!ReplaceNoteFTS(r, t, b).body = r.body
           /\ Replica!ReplaceNoteFTS(r, t, b).title = r.title
  BY RowsMerged

\* CommitNoteBody and RestoreRevision.
LEMMA BodyStep ==
    ASSUME ClocksLead, NEW d \in Device, NEW now \in Nat, NEW n \in Note,
           \/ \E rename \in BOOLEAN : Replica!CommitNoteBody(d, now, n, rename)
           \/ Replica!RestoreRevision(d, now, n)
    PROVE  ClocksLead' /\ Replica!TakesEffect
<1>1. PICK c : c = Replica!Tick(d, now)
  OBVIOUS
<1>2. PICK id : id = Replica!Count + 1
  OBVIOUS
<1>3. PICK old : old = notes[d][n]
  OBVIOUS
<1>4. ASSUME c # Replica!Overflow, old # None
      PROVE  /\ c \in Clock /\ Before(clock[d], c) /\ Before(saved[d], c) /\ saved[d] \in Clock
             /\ Upto(saved[d], c) /\ Upto(c, c) /\ RowUpto(old, saved[d]) /\ RowUpto(old, c)
  <2>1. c \in Clock /\ Before(clock[d], c) /\ Before(saved[d], c)
    BY <1>1, <1>4, CommandClock, Zenon
  <2>2. saved[d] \in Clock /\ RowUpto(old, saved[d]) /\ Upto(saved[d], c) /\ Upto(c, c)
    BY <1>3, <1>4, <2>1, StampOrder, Zenon DEF ClocksLead
  <2>3. PICK low \in Clock : low = saved[d]
    BY <2>2, ZenonT(40)
  <2> QED  BY <2>1, <2>2, <2>3, RowKept, Zenon
<1>5. ASSUME NEW row, NEW title, NEW update, Replica!CommitLocal(d, n, c, row, <<Replica!BodyOp(n, c, title, update)>>),
             c \in Clock, Before(clock[d], c),
             RowUpto(row, c), update \subseteq row.body, title # 0 => row.title.val = title
      PROVE  ClocksLead' /\ Replica!TakesEffect
  <2>1. PICK o : o = Replica!BodyOp(n, c, title, update)
    BY SMTT(40)
  <2>2. OpOK(o) /\ o.n = n /\ Effective(o, row)
    <3>1. /\ OpOK(Replica!BodyOp(n, c, title, update)) /\ Replica!BodyOp(n, c, title, update).n = n
          /\ Effective(Replica!BodyOp(n, c, title, update), row)
      BY <1>5, BodyOperation, Zenon
    <3> QED  BY <1>5, <2>1, <3>1, Zenon
  <2>3. PICK ops : ops = <<o>>
    BY Zenon
  <2>4. Queue(ops) /\ Len(ops) > 0 /\ ops[Len(ops)] = o
    BY <2>2, <2>3, SingleOp
  <2> QED  BY <1>5, <2>1, <2>2, <2>3, <2>4, CommitStep
<1>6. ASSUME NEW rename \in BOOLEAN, Replica!CommitNoteBody(d, now, n, rename)
      PROVE  ClocksLead' /\ Replica!TakesEffect
  <2>1. PICK merged : merged = Replica!ApplyUpdate(old, {id})
    OBVIOUS
  <2>2. PICK titled : titled = IF rename THEN Replica!SetNoteTitle(merged, id, c) ELSE merged
    OBVIOUS
  <2>3. PICK title, shown : title = (IF rename THEN id ELSE 0) /\ shown = (IF rename THEN id ELSE old.title.val)
    OBVIOUS
  <2>4. PICK row : row = Replica!ReplaceNoteFTS(titled, shown, merged.body)
    BY SMTT(40)
  <2>5. old # None /\ Replica!CommitLocal(d, n, c, row, <<Replica!BodyOp(n, c, title, {id})>>)
    BY <1>1, <1>2, <1>3, <1>6, <2>1, <2>2, <2>3, <2>4, ZenonT(40) DEF Replica!CommitNoteBody
  <2>6. c # Replica!Overflow
    BY <2>5, Zenon DEF Replica!CommitLocal
  <2>7. PICK low \in Clock : low = saved[d]
    BY <1>4, <2>5, <2>6, ZenonT(40)
  <2>8. RowUpto(merged, low) /\ merged.body = old.body \cup {id}
    BY <1>4, <2>1, <2>5, <2>6, <2>7, RowMerged, Zenon
  <2>9. RowUpto(titled, c) /\ titled.body = merged.body /\ (rename => titled.title.val = id)
    <3>1. CASE rename
      <4>1. c \in Clock /\ Upto(low, c) /\ Upto(c, c) /\ Before(low, c)
        BY <1>4, <2>5, <2>6, <2>7, Zenon
      <4>2. titled = Replica!SetNoteTitle(merged, id, c)
        BY <2>2, <3>1, Zenon
      <4> QED
        <5>1. /\ RowUpto(Replica!SetNoteTitle(merged, id, c), c)
              /\ Replica!SetNoteTitle(merged, id, c).body = merged.body
              /\ Replica!SetNoteTitle(merged, id, c).title.val = id
          BY <2>8, <4>1, TitleWritten, Zenon
        <5> QED  BY <4>1, <4>2, <5>1, Zenon
    <3>2. CASE ~rename
      BY <1>4, <2>2, <2>5, <2>6, <2>7, <2>8, <3>2, RowKept, Zenon
    <3> QED  BY <3>1, <3>2, ZenonT(40)
  <2>10. PICK body : body = merged.body
    OBVIOUS
  <2>11. c \in Clock
    BY <1>4, <2>5, <2>6, ZenonT(40)
  <2>12. RowUpto(row, c) /\ row.body = titled.body /\ row.title = titled.title
    <3>1. RowUpto(titled, c)
      BY <2>9, Zenon
    <3>2. /\ RowUpto(Replica!ReplaceNoteFTS(titled, shown, body), c)
          /\ Replica!ReplaceNoteFTS(titled, shown, body).body = titled.body
          /\ Replica!ReplaceNoteFTS(titled, shown, body).title = titled.title
      BY <2>11, <3>1, RowIndexed, ZenonT(40)
    <3> QED  BY <2>4, <2>10, <3>2, Zenon
  <2>13. {id} \subseteq row.body /\ (title # 0 => row.title.val = title)
    BY <2>3, <2>8, <2>9, <2>12, Zenon
  <2>14. PICK u : u = {id}
    BY Zenon
  <2> QED  BY <1>4, <1>5, <2>5, <2>6, <2>12, <2>13, <2>14, Zenon
<1>7. ASSUME Replica!RestoreRevision(d, now, n)
      PROVE  ClocksLead' /\ Replica!TakesEffect
  <2>1. PICK update : update = old.body \cup {id}
    BY ZenonT(40)
  <2>2. PICK merged : merged = Replica!ApplyUpdate(old, update)
    OBVIOUS
  <2>3. PICK shown, body : shown = old.title.val /\ body = merged.body
    OBVIOUS
  <2>4. PICK row : row = Replica!ReplaceNoteFTS(merged, shown, body)
    OBVIOUS
  <2>5. old # None /\ Replica!CommitLocal(d, n, c, row, <<Replica!BodyOp(n, c, 0, update)>>)
    BY <1>1, <1>2, <1>3, <1>7, <2>1, <2>2, <2>3, <2>4, Zenon DEF Replica!RestoreRevision
  <2>6. c # Replica!Overflow
    BY <2>5, ZenonT(40) DEF Replica!CommitLocal
  <2>7. RowUpto(merged, c) /\ merged.body = old.body \cup update
    BY <1>4, <2>2, <2>5, <2>6, RowMerged, Zenon
  <2>8. RowUpto(row, c) /\ row.body = merged.body
    <3>1. c \in Clock /\ RowUpto(merged, c)
      BY <1>4, <2>5, <2>6, <2>7, Zenon
    <3>2. /\ RowUpto(Replica!ReplaceNoteFTS(merged, shown, body), c)
          /\ Replica!ReplaceNoteFTS(merged, shown, body).body = merged.body
      BY <3>1, RowIndexed, ZenonT(40)
    <3> QED  BY <2>4, <3>2, Zenon
  <2>9. update \subseteq row.body
    BY <2>7, <2>8, Zenon
  <2> QED  BY <1>4, <1>5, <2>5, <2>6, <2>8, <2>9
<1> QED  BY <1>6, <1>7, Zenon

\* The row after an operation of another device (verifiedNoteOperation.Apply).
LEMMA RowsApplied ==
    ASSUME NEW r, NEW low \in Clock, NEW c \in Clock, r = None \/ RowUpto(r, low), Upto(low, c),
           NEW o, OpOK(o), Upto(o.at, c), Replica!Applied(r, o) # None
    PROVE  RowUpto(Replica!Applied(r, o), c)
<1>1. PICK at \in Clock : at = o.at
  BY Zenon DEF OpOK
<1>2. PICK title, v, k, u : title = o.title /\ v = o.val /\ k = o.kind /\ u = o.update
  OBVIOUS
<1>3. CASE k # "body"
  <2>1. r # None /\ Replica!Applied(r, o) = Replica!SetMetadata(r, k, v, at)
    BY <1>1, <1>2, <1>3, Zenon DEF Replica!Applied
  <2>2. k \in {"deleted", "notebook", "tag", "flags"}
    BY <1>2, <1>3, Zenon DEF OpOK
  <2> QED  BY <1>1, <2>1, <2>2, MetadataWritten, Zenon
<1>4. CASE k = "body"
  <2>1. PICK found : found = IF r = None THEN Replica!NewRow(title, at) ELSE r
    OBVIOUS
  <2>2. Replica!Applied(r, o) \in {Replica!ApplyBody(found, o), found}
    BY <1>1, <1>2, <1>4, <2>1, Zenon DEF Replica!Applied, Replica!InsertReplicatedNote
  <2>3. RowUpto(found, c)
    <3>1. CASE r = None
      BY <1>1, <2>1, <3>1, RowsInserted, Zenon
    <3>2. CASE r # None
      BY <2>1, <3>2, RowKept, Zenon
    <3> QED  BY <3>1, <3>2, Zenon
  <2>4. PICK merged : merged = Replica!ApplyUpdate(found, u)
    OBVIOUS
  <2>5. PICK shown : shown = IF title # 0 /\ Replica!Later(at, found.title.at) THEN title ELSE found.title.val
    OBVIOUS
  <2>6. PICK body : body = merged.body
    OBVIOUS
  <2>7. PICK indexed : indexed = IF u # {} THEN Replica!ReplaceNoteFTS(merged, shown, body) ELSE merged
    BY SMTT(40)
  <2>8. Replica!ApplyBody(found, o) = IF title # 0 THEN Replica!SetNoteTitle(indexed, title, at) ELSE indexed
    BY <1>1, <1>2, <2>4, <2>5, <2>6, <2>7, ZenonT(40) DEF Replica!ApplyBody
  <2>9. RowUpto(merged, c)
    BY <2>3, <2>4, RowMerged, Zenon
  <2>10. RowUpto(indexed, c)
    BY <2>7, <2>9, RowIndexed, Zenon
  <2>11. RowUpto(Replica!ApplyBody(found, o), c)
    <3>1. Upto(c, c)
      BY StampOrder, Zenon
    <3>2. RowUpto(Replica!SetNoteTitle(indexed, title, at), c)
      BY <1>1, <2>10, <3>1, TitleWritten, Zenon
    <3> QED  BY <2>8, <2>10, <3>2, Zenon
  <2> QED  BY <2>2, <2>3, <2>11, Zenon
<1> QED  BY <1>3, <1>4, Zenon

\* Apply: Verify has refused every operation whose clock the merge would clamp, so
\* that the new clock is ahead of the operation's.
LEMMA ApplyStep ==
    ASSUME ClocksLead, NEW d \in Device, NEW now \in Nat, Replica!Apply(d, now)
    PROVE  ClocksLead' /\ outbox' = outbox
<1>1. PICK i \in cursor[d] + 1 .. Len(log) :
          /\ Replica!Verify(now, log[i])
          /\ Replica!Applied(notes[d][log[i].n], log[i]) # None
          /\ Replica!Observe(clock[d], log[i].at, now, d) # Replica!Overflow
          /\ notes' = [notes EXCEPT ![d][log[i].n] = Replica!Applied(notes[d][log[i].n], log[i])]
          /\ clock' = [clock EXCEPT ![d] = Replica!Observe(clock[d], log[i].at, now, d)]
          /\ saved' = [saved EXCEPT ![d] = Replica!AdvanceDeviceClock(d, Replica!Observe(clock[d], log[i].at, now, d))]
          /\ cursor' = [cursor EXCEPT ![d] = i]
          /\ outbox' = outbox /\ log' = log
  BY Zenon DEF Replica!Apply
<1>2. cursor[d] \in Nat /\ Len(log) \in Nat
  BY Queues, Zenon DEF ClocksLead
<1>3. i \in 1..Len(log) /\ i \in Nat
  BY <1>2
<1>4. PICK o : o = log[i]
  OBVIOUS
<1>5. OpOK(o)
  BY <1>3, <1>4, Queues, Zenon DEF ClocksLead
<1>6. PICK at \in Clock, n \in Note : at = o.at /\ n = o.n
  BY <1>5, ZenonT(40) DEF OpOK
<1>7. PICK c : c = Observe(clock[d], at, now, d)
  BY SMTT(40)
<1>8. c = Replica!Observe(clock[d], log[i].at, now, d) /\ c # Overflow
  BY <1>1, <1>4, <1>6, <1>7, ReplicaClocks
<1>9. clock[d] \in Clock /\ saved[d] \in Clock /\ Upto(saved[d], clock[d]) /\ d \in Nat
  BY LocalConstants, Zenon DEF ClocksLead
<1>10. Clamped(at, now) = at
  <2>1. at.p <= now + MaxFutureSkew
    BY <1>1, <1>4, <1>6, ZenonT(40) DEF Replica!Verify
  <2> QED  BY <2>1, HLCAssumption DEF Clamped, Clock
<1>11. c \in Clock /\ Before(clock[d], c) /\ Before(at, c)
  BY <1>7, <1>8, <1>9, <1>10, MergeIsAhead, ZenonT(40)
<1>12. Before(saved[d], c) /\ Upto(saved[d], c) /\ Upto(at, c)
  BY <1>9, <1>11, StampOrder, ZenonT(40)
<1>13. PICK row : row = Replica!Applied(notes[d][n], o)
  BY ZenonT(40)
<1>14. RowUpto(row, c)
  <2>1. PICK r, low : r = notes[d][n] /\ low = saved[d]
    BY Zenon
  <2>2. low \in Clock /\ (r = None \/ RowUpto(r, low))
    BY <1>6, <2>1, ZenonT(40) DEF ClocksLead
  <2>3. Replica!Applied(r, o) # None /\ Upto(o.at, c) /\ Upto(low, c)
    BY <1>1, <1>4, <1>6, <1>12, <2>1, Zenon
  <2> QED  BY <1>5, <1>11, <1>13, <2>1, <2>2, <2>3, RowsApplied, ZenonT(40)
<1>15. /\ clock' = [clock EXCEPT ![d] = c]
       /\ saved' = [saved EXCEPT ![d] = Replica!AdvanceDeviceClock(d, c)]
       /\ notes' = [notes EXCEPT ![d][n] = row]
  BY <1>1, <1>4, <1>6, <1>8, <1>13, SMTT(40)
<1>16. /\ clock' \in [Device -> Clock] /\ saved' \in [Device -> Clock]
       /\ \A e \in Device : Upto(saved'[e], clock'[e])
       /\ notes' = [e \in Device |-> [m \in Note |-> notes'[e][m]]]
       /\ \A e \in Device, m \in Note : notes'[e][m] = None \/ RowUpto(notes'[e][m], saved'[e])
       /\ notes'[d][n] = row
  BY <1>6, <1>11, <1>14, <1>15, DeviceStep, ZenonT(40)
<1>17. Queue(log') /\ cursor' \in [Device -> Nat]
  BY <1>1, <1>3, Zenon DEF ClocksLead
<1>18. outbox' = [e \in Device |-> outbox'[e]] /\ \A e \in Device : Queue(outbox'[e])
  BY <1>1, Zenon DEF ClocksLead
<1> QED  BY <1>1, <1>16, <1>17, <1>18, ZenonT(40) DEF ClocksLead

\* The steps that write no row and no operation but erase a row, move an operation
\* to the log or set the clock: FailedCommand, Sequence, garbage collection, Restart.
LEMMA OtherNoteStep ==
    ASSUME ClocksLead, NEW d \in Device,
           \/ \E now \in 1..MaxWall : Replica!FailedCommand(d, now) \/ Replica!RunGarbageCollection(d, now)
           \/ Replica!Sequence(d) \/ Replica!Restart(d)
           \/ \E n \in Note : Replica!CollectNote(d, n)
    PROVE  ClocksLead' /\ \A e \in Device : ~(Len(outbox'[e]) > Len(outbox[e]))
<1>1. \A e \in Device : Len(outbox[e]) \in Nat
  BY Queues, Zenon DEF ClocksLead
<1>2. ASSUME NEW now \in 1..MaxWall, Replica!FailedCommand(d, now)
      PROVE  ClocksLead' /\ outbox' = outbox
  <2>1. PICK c : c = Replica!Tick(d, now)
    OBVIOUS
  <2>2. now \in Nat /\ c # Replica!Overflow
    BY <1>2, <2>1, LocalConstants DEF Replica!FailedCommand
  <2>3. c \in Clock /\ Before(saved[d], c)
    BY <2>1, <2>2, CommandClock, Zenon
  <2>4. Upto(saved[d], c)
    BY <2>3, StampOrder, Zenon DEF ClocksLead
  <2>5. /\ clock' = [clock EXCEPT ![d] = c] /\ saved' = saved /\ notes' = notes /\ outbox' = outbox
        /\ log' = log /\ cursor' = cursor
    BY <1>2, <2>1, Zenon DEF Replica!FailedCommand
  <2>6. clock' \in [Device -> Clock] /\ \A e \in Device : Upto(saved[e], clock'[e])
    BY <2>3, <2>4, <2>5, Zenon DEF ClocksLead
  <2> QED  BY <2>5, <2>6, Zenon DEF ClocksLead
<1>3. ASSUME Replica!Restart(d) PROVE ClocksLead' /\ outbox' = outbox
  <2>1. /\ clock' = [clock EXCEPT ![d] = saved[d]] /\ saved' = saved /\ notes' = notes /\ outbox' = outbox
        /\ log' = log /\ cursor' = cursor
    BY <1>3, Zenon DEF Replica!Restart, Replica!LoadDeviceClock
  <2>2. Upto(saved[d], saved[d])
    BY StampOrder DEF ClocksLead
  <2>3. clock' \in [Device -> Clock] /\ \A e \in Device : Upto(saved[e], clock'[e])
    BY <2>1, <2>2, Zenon DEF ClocksLead
  <2> QED  BY <2>1, <2>3, Zenon DEF ClocksLead
<1>4. ASSUME NEW now \in 1..MaxWall, Replica!RunGarbageCollection(d, now)
      PROVE  ClocksLead' /\ outbox' = outbox
  BY <1>4, ZenonT(40) DEF Replica!RunGarbageCollection, ClocksLead
<1>5. ASSUME Replica!Sequence(d)
      PROVE  ClocksLead' /\ \A e \in Device : ~(Len(outbox'[e]) > Len(outbox[e]))
  <2>1. /\ outbox[d] # <<>> /\ log' = Append(log, Head(outbox[d]))
        /\ outbox' = [outbox EXCEPT ![d] = Tail(outbox[d])]
        /\ clock' = clock /\ saved' = saved /\ notes' = notes /\ cursor' = cursor
    BY <1>5, Zenon DEF Replica!Sequence
  <2>2. PICK q, o : q = Tail(outbox[d]) /\ o = Head(outbox[d])
    BY ZenonT(40)
  <2>3. Queue(outbox[d]) /\ Queue(log)
    BY Zenon DEF ClocksLead
  <2>4. OpOK(o) /\ Queue(q) /\ Len(q) = Len(outbox[d]) - 1
    BY <2>1, <2>2, <2>3, Queues, Zenon
  <2>5. Queue(log')
    BY <2>1, <2>2, <2>3, <2>4, Queues, Zenon
  <2>6. outbox' = [e \in Device |-> IF e = d THEN q ELSE outbox[e]]
    BY <2>1, <2>2, Zenon DEF ClocksLead
  <2>7. /\ outbox' = [e \in Device |-> outbox'[e]] /\ \A e \in Device : Queue(outbox'[e])
        /\ \A e \in Device : ~(Len(outbox'[e]) > Len(outbox[e]))
    BY <1>1, <2>4, <2>6 DEF ClocksLead
  <2> QED  BY <2>1, <2>5, <2>7 DEF ClocksLead
<1>6. ASSUME NEW n \in Note, Replica!CollectNote(d, n) PROVE ClocksLead' /\ outbox' = outbox
  <2>1. /\ notes' = [notes EXCEPT ![d][n] = None]
        /\ clock' = clock /\ saved' = saved /\ outbox' = outbox /\ log' = log /\ cursor' = cursor
    BY <1>6, Zenon DEF Replica!CollectNote, Replica!DeleteNoteCompletely
  <2>2. notes = [e \in Device |-> [m \in Note |-> notes[e][m]]]
    BY Zenon DEF ClocksLead
  <2>3. notes' = [e \in Device |-> [m \in Note |-> IF e = d /\ m = n THEN None ELSE notes[e][m]]]
    <3>1. \A e \in Device : notes[e] = [m \in Note |-> notes[e][m]]
      BY <2>2, ZenonT(40)
    <3>2. PICK g : g = [notes[d] EXCEPT ![n] = None]
      BY Zenon
    <3>3. g = [m \in Note |-> IF m = n THEN None ELSE notes[d][m]]
      BY <3>1, <3>2, Zenon
    <3>4. notes' = [e \in Device |-> IF e = d THEN g ELSE notes[e]]
      BY <2>1, <2>2, <3>2, Zenon
    <3> QED  BY <3>1, <3>3, <3>4, Zenon
  <2>4. /\ notes' = [e \in Device |-> [m \in Note |-> notes'[e][m]]]
        /\ \A e \in Device, m \in Note : notes'[e][m] = None \/ notes'[e][m] = notes[e][m]
    BY <2>3, Zenon
  <2>5. \A e \in Device, m \in Note : notes'[e][m] = None \/ RowUpto(notes'[e][m], saved[e])
    BY <2>4, Zenon DEF ClocksLead
  <2> QED  BY <2>1, <2>4, <2>5, Zenon DEF ClocksLead
<1>7. ASSUME outbox' = outbox PROVE \A e \in Device : ~(Len(outbox'[e]) > Len(outbox[e]))
  BY <1>1, <1>7
<1> QED  BY <1>2, <1>3, <1>4, <1>5, <1>6, <1>7

\* Every step of the replica keeps the clocks ahead, and a command takes effect.
LEMMA ReplicaStep ==
    ASSUME ClocksLead, Replica!Next
    PROVE  ClocksLead' /\ Replica!TakesEffect
<1>1. PICK d \in Device :
          \/ \E now \in 1..MaxWall : Replica!Command(d, now)
          \/ \E now \in 1..MaxWall : Replica!Apply(d, now)
          \/ \E now \in 1..MaxWall : Replica!FailedCommand(d, now) \/ Replica!RunGarbageCollection(d, now)
          \/ Replica!Sequence(d) \/ Replica!Restart(d)
          \/ \E n \in Note : Replica!CollectNote(d, n)
  BY Zenon DEF Replica!Next
<1>2. \A now \in 1..MaxWall : now \in Nat
  BY LocalConstants
<1>3. ASSUME \A e \in Device : ~(Len(outbox'[e]) > Len(outbox[e])) PROVE Replica!TakesEffect
  BY <1>3, Zenon DEF Replica!TakesEffect
<1>4. CASE \E now \in 1..MaxWall : Replica!Apply(d, now)
  <2>1. ClocksLead' /\ outbox' = outbox
    BY <1>2, <1>4, ApplyStep, Zenon
  <2>2. \A e \in Device : Len(outbox[e]) \in Nat
    BY Queues, Zenon DEF ClocksLead
  <2> QED  BY <1>3, <2>1, <2>2
<1>5. CASE \/ \E now \in 1..MaxWall : Replica!FailedCommand(d, now) \/ Replica!RunGarbageCollection(d, now)
           \/ Replica!Sequence(d) \/ Replica!Restart(d)
           \/ \E n \in Note : Replica!CollectNote(d, n)
  BY <1>3, <1>5, OtherNoteStep, Zenon
<1>6. ASSUME NEW now \in 1..MaxWall, Replica!Command(d, now)
      PROVE  ClocksLead' /\ Replica!TakesEffect
  <2>1. CASE \E n \in Note, inBook \in BOOLEAN : Replica!CreateNote(d, now, n, inBook)
    BY <1>2, <2>1, CreateStep, Zenon
  <2>2. CASE \E n \in Note : \/ \E rename \in BOOLEAN : Replica!CommitNoteBody(d, now, n, rename)
                             \/ Replica!RestoreRevision(d, now, n)
    BY <1>2, <2>2, BodyStep, Zenon
  <2>3. CASE \E n \in Note, k \in {"deleted", "notebook", "tag", "flags"} : Replica!CommitNoteMetadata(d, now, n, k)
    BY <1>2, <2>3, MetadataStep, Zenon
  <2> QED  BY <1>6, <2>1, <2>2, <2>3, Zenon DEF Replica!Command
<1> QED  BY <1>1, <1>4, <1>5, <1>6, Zenon

LEMMA ReplicaInit == Replica!Init => ClocksLead
<1> SUFFICES ASSUME Replica!Init PROVE ClocksLead
  OBVIOUS
<1>1. Replica!Zero \in Clock /\ Upto(Replica!Zero, Replica!Zero)
  BY DEF Replica!Zero, Clock, Upto
<1>2. /\ clock = [d \in Device |-> Replica!Zero] /\ saved = [d \in Device |-> Replica!Zero]
      /\ notes = [d \in Device |-> [n \in Note |-> None]] /\ cursor = [d \in Device |-> 0]
      /\ outbox = [d \in Device |-> <<>>] /\ log = <<>>
  BY Zenon DEF Replica!Init
<1>3. /\ clock \in [Device -> Clock] /\ saved \in [Device -> Clock] /\ cursor \in [Device -> Nat]
      /\ \A d \in Device : Upto(saved[d], clock[d])
  BY <1>1, <1>2, Zenon
<1>4. Queue(log) /\ outbox = [d \in Device |-> outbox[d]] /\ \A d \in Device : Queue(outbox[d])
  BY <1>2, Queues, Zenon
<1>5. notes = [d \in Device |-> [n \in Note |-> notes[d][n]]] /\ \A d \in Device, n \in Note : notes[d][n] = None
  BY <1>2, Zenon
<1> QED  BY <1>3, <1>4, <1>5, Zenon DEF ClocksLead

-----------------------------------------------------------------------------
(***************************************************************************)
(* The database files around a restore.                                    *)
(***************************************************************************)
Files == {"db", "wal", "db.aside", "wal.aside", "prepared"}
Sets == 1..MaxBackups

\* Phases of a backup, of a rotation, of a restore before and after the swap.
Backing == {"export", "publish", "catalog"}
Rotating == {"rotate", "unlist"}
Preparing == {"verify", "prepare", "close"}
Registering == {"register", "reregister"}

BackupTypes ==
    /\ file \in [Files -> Database \cup {None}] /\ set \in [Sets -> Database \cup {None}]
    /\ conn \in BOOLEAN /\ made \in 0..MaxBackups /\ faults \in Nat
    /\ pc \in {"idle", "down", "read"} \cup Backing \cup Rotating \cup Preparing \cup Registering \cup SwapPhases
    /\ pc \notin {"idle", "down"} => made > 0
    /\ pc \notin {"idle", "down"} \cup Backing \cup Rotating => op = "restore"
    /\ op = "restore" => target \in Sets
    /\ pc = "publish" => staged \in Database

\* The prepared copy of the chosen backup, under its fresh key.
Copy(f) == f \in Database /\ f.key = made /\ f.edits = set[target].edits

\* Outside the swap there is one database, the envelope is that of its key, and a
\* log that a connection has open is not a file of its own.
Calm ==
    pc \notin SwapPhases =>
        /\ file["db"] \in Database /\ envelope = file["db"].key
        /\ file["wal"] \in {None, file["db"]}
        /\ file["db.aside"] = None /\ file["wal.aside"] = None
        /\ conn => file["wal"] = None
        /\ pc \in Backing \cup Rotating \cup Preparing \cup Registering => conn
        /\ pc \in {"down", "read"} => ~conn
        /\ pc \in {"down"} \cup Backing \cup Rotating \cup Preparing => before = None
        /\ pc = "prepare" => set[target] \in Database
        /\ pc \in {"close", "read"} => Copy(file["prepared"])
        /\ pc = "read" => before = file["db"]
        /\ pc \in Registering => file["db"].edits = set[target].edits
        /\ pc = "idle" /\ before # None =>
               file["db"] = before \/ (file["db"].edits = set[target].edits /\ file["wal"] = None)

\* The closed database is in its place or aside, and so is its log.
Parts ==
    /\ \/ file["db"] = before /\ file["db.aside"] = None
       \/ file["db"] = None /\ file["db.aside"] = before
    /\ file["wal"] \in {None, before} /\ file["wal.aside"] \in {None, before}

\* During the swap the closed database and its key are kept until the new one is
\* open, and the rollback puts both back.
Swapping ==
    pc \in SwapPhases =>
        /\ ~conn /\ before \in Database /\ oldEnvelope = before.key
        /\ pc = "aside" => Parts /\ Copy(file["prepared"]) /\ envelope = before.key
        /\ pc \in {"envelope", "open"} =>
               /\ Copy(file["db"]) /\ file["wal"] = None /\ file["prepared"] = None
               /\ file["db.aside"] = before /\ file["wal.aside"] \in {None, before}
        /\ pc = "open" => envelope = made
        /\ pc = "undo" => \/ file["prepared"] # None /\ Parts
                          \/ /\ file["prepared"] = None /\ file["db.aside"] = before
                             /\ file["wal.aside"] \in {None, before}
        /\ pc = "putback" => Parts
        /\ pc \in {"oldenvelope", "reopen"} =>
               Parts /\ file["db.aside"] = None /\ file["wal.aside"] = None
        /\ pc = "reopen" => envelope = before.key

BInv == BackupTypes /\ Calm /\ Swapping

\* Without a fault of the kind backup_safe leaves out, RestoreWhole returns with a
\* connection, and its result says which database that is.
SafeInv == profile = "backup_safe" =>
    /\ pc = "idle" => conn
    /\ pc = "idle" /\ before # None =>
           /\ result = "failed" => file["db"] = before
           /\ result = "ok" => file["db"].edits = set[target].edits

\* A database after a column of it was written.
LEMMA DatabaseWritten ==
    ASSUME NEW f \in Database
    PROVE  /\ \A x \in SUBSET Edit : /\ [f EXCEPT !.edits = x] \in Database
                                     /\ [f EXCEPT !.edits = x].key = f.key
           /\ \A x \in SUBSET Sets : /\ [f EXCEPT !.rows = x] \in Database
                                     /\ [f EXCEPT !.rows = x].key = f.key
                                     /\ [f EXCEPT !.rows = x].edits = f.edits
           /\ \A x \in SUBSET Sets : /\ [f EXCEPT !.corrupt = x] \in Database
                                     /\ [f EXCEPT !.corrupt = x].key = f.key
                                     /\ [f EXCEPT !.corrupt = x].edits = f.edits
           /\ \A x \in Nat : /\ [f EXCEPT !.key = x] \in Database
                             /\ [f EXCEPT !.key = x].key = x
                             /\ [f EXCEPT !.key = x].edits = f.edits
           /\ f # None
  BY LocalConstants, Zenon DEF Database, Sets

\* Replacing one file or two.
LEMMA FileReplaced ==
    ASSUME file \in [Files -> Database \cup {None}], NEW x \in Database \cup {None}, NEW y \in Database \cup {None},
           NEW p \in Files, NEW q \in Files, p # q
    PROVE  /\ [file EXCEPT ![p] = x] \in [Files -> Database \cup {None}]
           /\ \A r \in Files : [file EXCEPT ![p] = x][r] = IF r = p THEN x ELSE file[r]
           /\ [file EXCEPT ![p] = x, ![q] = y] \in [Files -> Database \cup {None}]
           /\ \A r \in Files : [file EXCEPT ![p] = x, ![q] = y][r] =
                                   IF r = q THEN y ELSE IF r = p THEN x ELSE file[r]
  OBVIOUS

LEMMA BackupInit == Backups!Init => BInv /\ SafeInv
<1> SUFFICES ASSUME Backups!Init PROVE BInv /\ SafeInv
  OBVIOUS
<1>1. [edits |-> {}, rows |-> {}, corrupt |-> {}, key |-> 0] \in Database
  BY Zenon DEF Database
<1>2. PICK f \in Database : f = [edits |-> {}, rows |-> {}, corrupt |-> {}, key |-> 0]
  BY <1>1, Zenon
<1>3. f.key = 0 /\ f # None
  BY <1>2, LocalConstants, Zenon
<1>4. file = [p \in Files |-> IF p = "db" THEN f ELSE None]
  BY <1>2, Zenon DEF Backups!Init, Backups!Path, Files
<1>5. /\ envelope = 0 /\ set = [b \in Sets |-> None] /\ conn = TRUE /\ op = "manual" /\ pc = "idle"
      /\ made = 0 /\ before = None /\ result = "none" /\ faults = 0
  BY Zenon DEF Backups!Init, Backups!Backup, Sets
<1>6. BackupTypes
  BY <1>4, <1>5, LocalConstants DEF BackupTypes, Backing, Rotating, Preparing, Registering, SwapPhases
<1>7. Calm /\ Swapping
  BY <1>3, <1>4, <1>5, Zenon DEF Calm, Swapping, Files, SwapPhases, Backing, Rotating, Preparing, Registering
<1>8. SafeInv
  BY <1>5, Zenon DEF SafeInv
<1> QED  BY <1>6, <1>7, <1>8, Zenon DEF BInv

\* Steps that write a column of the open database: commands, catalog rows,
\* verification.
LEMMA ColumnWritten ==
    ASSUME BackupTypes, Calm, pc \notin SwapPhases, conn, NEW g \in Database, g.key = file["db"].key,
           file' = [file EXCEPT !["db"] = g], UNCHANGED <<envelope, conn>>
    PROVE  /\ file' \in [Files -> Database \cup {None}] /\ file'["db"] = g /\ envelope' = file'["db"].key
           /\ file'["wal"] = None /\ file'["db.aside"] = None /\ file'["wal.aside"] = None
           /\ file'["prepared"] = file["prepared"] /\ conn'
<1>1. file \in [Files -> Database \cup {None}] /\ "db" \in Files /\ "wal" \in Files /\ "db.aside" \in Files
      /\ "wal.aside" \in Files /\ "prepared" \in Files
  BY Zenon DEF BackupTypes, Files
<1>2. file' \in [Files -> Database \cup {None}] /\ \A r \in Files : file'[r] = IF r = "db" THEN g ELSE file[r]
  BY <1>1, Zenon
<1> QED  BY <1>1, <1>2, Zenon DEF Calm

\* A command commits.
LEMMA CommitKeeps ==
    ASSUME BInv, SafeInv, NEW e \in Edit, Backups!Commit(e), UNCHANGED profile
    PROVE  BInv' /\ SafeInv'
<1>1. /\ conn /\ ~(op = "restore" /\ pc # "idle") /\ before' = None
      /\ file' = [file EXCEPT !["db"].edits = @ \cup {e}]
      /\ UNCHANGED <<envelope, set, conn, pc, op, target, staged, victim, oldEnvelope, made, kind, result, listed, faults>>
  BY Zenon DEF Backups!Commit, Backups!running
<1>2. pc \notin SwapPhases \cup Preparing \cup Registering \cup {"read"}
  BY <1>1, Zenon DEF BInv, BackupTypes, Backing, Rotating, Preparing, Registering, SwapPhases
<1>3. file["db"] \in Database
  BY <1>2, Zenon DEF BInv, Calm
<1>4. PICK g : g = [file["db"] EXCEPT !.edits = file["db"].edits \cup {e}]
  BY Zenon
<1>5. g \in Database /\ g.key = file["db"].key /\ file["db"].edits \cup {e} \in SUBSET Edit
  BY <1>3, <1>4, DatabaseWritten, Zenon DEF Database
<1>6. file' = [file EXCEPT !["db"] = g]
  BY <1>1, <1>4, Zenon
<1>7. /\ file' \in [Files -> Database \cup {None}] /\ file'["db"] = g /\ envelope' = file'["db"].key
      /\ file'["wal"] = None /\ file'["db.aside"] = None /\ file'["wal.aside"] = None
      /\ file'["prepared"] = file["prepared"] /\ conn'
  BY <1>1, <1>2, <1>5, <1>6, ColumnWritten, Zenon DEF BInv
<1>8. BackupTypes'
  BY <1>1, <1>7, Zenon DEF BInv, BackupTypes
<1>9. Calm'
  BY <1>1, <1>2, <1>5, <1>7, ZenonT(40) DEF BInv, Calm, Backing, Rotating, Preparing, Registering
<1>10. Swapping' /\ SafeInv'
  BY <1>1, <1>2, Zenon DEF Swapping, SafeInv
<1> QED  BY <1>8, <1>9, <1>10, Zenon DEF BInv

\* CreateBackup up to the published set.
LEMMA BackupKeeps ==
    ASSUME BInv, SafeInv, UNCHANGED profile,
           \/ \E k \in {"manual", "daily"} : Backups!Begin(k, None)
           \/ \E b \in Sets : Backups!Begin("restore", b)
           \/ Backups!Export \/ Backups!Publish \/ Backups!BackupFails
    PROVE  BInv' /\ SafeInv'
<1> USE DEF Backing, Rotating, Preparing, Registering, SwapPhases
<1>1. ASSUME NEW k \in {"manual", "daily", "restore"}, NEW b, Backups!Begin(k, b), k = "restore" => b \in Sets
      PROVE  BInv' /\ SafeInv'
  <2>1. /\ pc = "idle" /\ conn /\ made < MaxBackups /\ made' = made + 1 /\ op' = k /\ target' = b
        /\ pc' = "export" /\ before' = None
        /\ UNCHANGED <<file, envelope, set, conn, staged, faults>>
    BY <1>1, Zenon DEF Backups!Begin, Backups!At, Backups!disk
  <2>2. BackupTypes'
    <3>1. /\ file \in [Files -> Database \cup {None}] /\ set \in [Sets -> Database \cup {None}]
          /\ conn \in BOOLEAN /\ made \in 0..MaxBackups /\ faults \in Nat
      BY Zenon DEF BInv, BackupTypes
    <3>2. made' \in 0..MaxBackups /\ made' > 0
      BY <2>1, <3>1, LocalConstants
    <3>3. "export" \in Backing /\ (op' = "restore" => target' \in Sets)
      BY <1>1, <2>1, Zenon DEF Backing, Sets
    <3> QED  BY <2>1, <3>1, <3>2, <3>3, Zenon DEF BackupTypes
  <2>3. Calm' /\ Swapping' /\ SafeInv'
    BY <2>1, Zenon DEF BInv, Calm, Swapping, SafeInv
  <2> QED  BY <2>2, <2>3, Zenon DEF BInv
<1>2. CASE Backups!Export
  <2>1. /\ pc = "export" /\ pc' = "publish" /\ staged' = file["db"]
        /\ UNCHANGED <<file, envelope, set, conn, op, target, made, before, faults>>
    BY <1>2, Zenon DEF Backups!Export, Backups!At, Backups!disk, Backups!history, Backups!Live
  <2>2. BackupTypes'
    BY <2>1, Zenon DEF BInv, BackupTypes, Calm
  <2>3. Calm' /\ Swapping' /\ SafeInv'
    BY <2>1, Zenon DEF BInv, Calm, Swapping, SafeInv
  <2> QED  BY <2>2, <2>3, Zenon DEF BInv
<1>3. CASE Backups!Publish
  <2>1. /\ pc = "publish" /\ pc' = "catalog" /\ set' = [set EXCEPT ![made] = staged]
        /\ UNCHANGED <<file, envelope, conn, op, target, made, before, faults>>
    BY <1>3, Zenon DEF Backups!Publish, Backups!At, Backups!history
  <2>2. BackupTypes'
    BY <2>1, Zenon DEF BInv, BackupTypes
  <2>3. Calm' /\ Swapping' /\ SafeInv'
    BY <2>1, Zenon DEF BInv, Calm, Swapping, SafeInv
  <2> QED  BY <2>2, <2>3, Zenon DEF BInv
<1>4. CASE Backups!BackupFails
  <2>1. /\ pc \in Backing /\ pc' = "idle" /\ faults' = faults + 1 /\ result' = "failed"
        /\ UNCHANGED <<file, envelope, set, conn, op, target, made, before>>
    BY <1>4, ZenonT(40) DEF Backups!BackupFails, Backups!FailsAt, Backups!Return, Backups!disk
  <2>2. BackupTypes'
    BY <2>1 DEF BInv, BackupTypes
  <2>3. Calm' /\ Swapping' /\ SafeInv'
    BY <2>1, Zenon DEF BInv, Calm, Swapping, SafeInv
  <2> QED  BY <2>2, <2>3, Zenon DEF BInv
<1> QED  BY <1>1, <1>2, <1>3, <1>4, Zenon

\* Catalog rows and their classification: Catalog, Unlist, VerifyBackup, Verify,
\* Register, Reregister.
LEMMA CatalogKeeps ==
    ASSUME BInv, SafeInv, UNCHANGED profile,
           \/ Backups!Catalog \/ Backups!Unlist \/ Backups!Verify
           \/ Backups!Register \/ Backups!Reregister
           \/ \E b \in Sets : Backups!VerifyBackup(b)
    PROVE  BInv' /\ SafeInv'
<1> USE DEF Backing, Rotating, Preparing, Registering, SwapPhases
<1>1. /\ pc \notin SwapPhases /\ conn /\ UNCHANGED <<envelope, conn, set, op, target, made, faults>>
      /\ pc' \in {"idle", "rotate", "verify", "prepare", "reregister"}
  BY Zenon DEF BInv, Calm, BackupTypes, Backups!Catalog, Backups!Unlist, Backups!Verify, Backups!Register, Backups!Reregister,
         Backups!VerifyBackup, Backups!At, Backups!Proceed, Backups!Return, Backups!running, Backups!history
<1>2. file["db"] \in Database /\ file["db"].rows \in SUBSET Sets /\ file["db"].corrupt \in SUBSET Sets
  BY <1>1, Zenon DEF BInv, Calm, Database, Sets
<1>3. ASSUME NEW g \in Database, g.key = file["db"].key, g.edits = file["db"].edits,
             file' = [file EXCEPT !["db"] = g],
             \/ /\ pc = "catalog" /\ UNCHANGED before
                /\ pc' = "idle" \/ (op = "daily" /\ pc' = "rotate") \/ (op = "restore" /\ pc' = "verify")
             \/ pc = "unlist" /\ pc' = "rotate" /\ UNCHANGED before
             \/ pc = "verify" /\ pc' = "idle" /\ UNCHANGED before
             \/ pc = "verify" /\ pc' = "prepare" /\ set[target] # None /\ UNCHANGED before
             \/ pc = "register" /\ pc' = "reregister" /\ UNCHANGED before
             \/ pc = "reregister" /\ pc' = "idle" /\ result' = "ok" /\ UNCHANGED before
             \/ pc = "idle" /\ pc' = "idle" /\ before' = None
      PROVE  BInv' /\ SafeInv'
  <2>1. /\ file' \in [Files -> Database \cup {None}] /\ file'["db"] = g /\ envelope' = file'["db"].key
        /\ file'["wal"] = None /\ file'["db.aside"] = None /\ file'["wal.aside"] = None
        /\ file'["prepared"] = file["prepared"] /\ conn'
    BY <1>1, <1>3, ColumnWritten, Zenon DEF BInv
  <2>2. BackupTypes'
    BY <1>1, <1>3, <2>1, Zenon DEF BInv, BackupTypes
  <2>3. pc' = "prepare" => set[target] \in Database
    BY <1>1, <1>3, ZenonT(40) DEF BInv, BackupTypes
  <2>4. Calm'
    BY <1>1, <1>3, <2>1, <2>3, ZenonT(40) DEF BInv, Calm
  <2>5. Swapping' /\ SafeInv'
    BY <1>1, <1>3, <2>1, Zenon DEF BInv, Calm, Swapping, SafeInv
  <2> QED  BY <2>2, <2>4, <2>5, Zenon DEF BInv
<1>4. ASSUME NEW x \in SUBSET Sets, NEW y \in SUBSET Sets
      PROVE  /\ [file["db"] EXCEPT !.rows = x] \in Database
             /\ [file["db"] EXCEPT !.rows = x].key = file["db"].key
             /\ [file["db"] EXCEPT !.rows = x].edits = file["db"].edits
             /\ [file["db"] EXCEPT !.corrupt = y] \in Database
             /\ [file["db"] EXCEPT !.corrupt = y].key = file["db"].key
             /\ [file["db"] EXCEPT !.corrupt = y].edits = file["db"].edits
             /\ [file["db"] EXCEPT !.rows = x, !.corrupt = y] \in Database
             /\ [file["db"] EXCEPT !.rows = x, !.corrupt = y].key = file["db"].key
             /\ [file["db"] EXCEPT !.rows = x, !.corrupt = y].edits = file["db"].edits
  BY <1>2, Zenon DEF Database, Sets
<1>5. CASE Backups!Catalog \/ Backups!Register
  <2>1. PICK g : g = [file["db"] EXCEPT !.rows = file["db"].rows \cup {made}]
    BY Zenon
  <2>2. made \in Sets
    BY <1>1, <1>5, LocalConstants DEF BInv, BackupTypes, Sets, Backups!Catalog, Backups!Register, Backups!At
  <2>3. g \in Database /\ g.key = file["db"].key /\ g.edits = file["db"].edits
    BY <1>2, <1>4, <2>1, <2>2, Zenon
  <2>4. file' = [file EXCEPT !["db"] = g]
    BY <1>5, <2>1, Zenon DEF Backups!Catalog, Backups!Register
  <2>5. \/ /\ pc = "catalog" /\ UNCHANGED before
           /\ pc' = "idle" \/ (op = "daily" /\ pc' = "rotate") \/ (op = "restore" /\ pc' = "verify")
        \/ pc = "register" /\ pc' = "reregister" /\ UNCHANGED before
    BY <1>5, Zenon DEF Backups!Catalog, Backups!Register, Backups!At, Backups!Proceed, Backups!Return, Backups!history
  <2> QED  BY <1>3, <2>3, <2>4, <2>5, Zenon
<1>6. CASE Backups!Reregister
  <2>1. PICK g : g = [file["db"] EXCEPT !.rows = file["db"].rows \cup {target}]
    BY Zenon
  <2>2. pc = "reregister" /\ pc' = "idle" /\ result' = "ok" /\ UNCHANGED before /\ target \in Sets
    BY <1>6, Zenon DEF BInv, BackupTypes, Backups!Reregister, Backups!At, Backups!Return
  <2>3. g \in Database /\ g.key = file["db"].key /\ g.edits = file["db"].edits
    BY <1>2, <1>4, <2>1, <2>2, ZenonT(40)
  <2>4. file' = [file EXCEPT !["db"] = g]
    BY <1>6, <2>1, ZenonT(40) DEF Backups!Reregister
  <2> QED  BY <1>3, <2>2, <2>3, <2>4, Zenon
<1>7. CASE Backups!Unlist
  <2>1. PICK g : g = [file["db"] EXCEPT !.rows = file["db"].rows \ {victim}, !.corrupt = file["db"].corrupt \ {victim}]
    OBVIOUS
  <2>2. pc = "unlist" /\ pc' = "rotate" /\ UNCHANGED before
    BY <1>7, Zenon DEF Backups!Unlist, Backups!At, Backups!history
  <2>3. g \in Database /\ g.key = file["db"].key /\ g.edits = file["db"].edits
    BY <1>2, <1>4, <2>1, ZenonT(40)
  <2>4. file' = [file EXCEPT !["db"] = g]
    BY <1>7, <2>1, Zenon DEF Backups!Unlist, BInv, BackupTypes, Files
  <2> QED  BY <1>3, <2>2, <2>3, <2>4, Zenon
<1>8. ASSUME NEW b \in Sets, Backups!Classified(b),
             \/ pc = "verify" /\ pc' = "idle" /\ UNCHANGED before
             \/ pc = "verify" /\ pc' = "prepare" /\ set[target] # None /\ UNCHANGED before
             \/ pc = "idle" /\ pc' = "idle" /\ before' = None
      PROVE  BInv' /\ SafeInv'
  <2>1. PICK x : x = IF set[b] = None THEN file["db"].corrupt \cup {b} ELSE file["db"].corrupt \ {b}
    BY Zenon
  <2>2. PICK g : g = [file["db"] EXCEPT !.corrupt = x]
    BY ZenonT(40)
  <2>3. x \in SUBSET Sets
    BY <1>2, <2>1, Zenon
  <2>4. g \in Database /\ g.key = file["db"].key /\ g.edits = file["db"].edits
    BY <1>4, <2>2, <2>3, Zenon
  <2>5. file' = [file EXCEPT !["db"] = g]
    BY <1>8, <2>1, <2>2, Zenon DEF Backups!Classified
  <2> QED  BY <1>3, <1>8, <2>4, <2>5, Zenon
<1>9. CASE Backups!Verify
  <2>1. target \in Sets
    BY <1>9, Zenon DEF BInv, BackupTypes, Backups!Verify, Backups!At
  <2>2. Backups!Classified(target) /\ pc = "verify" /\ UNCHANGED before
        /\ (pc' = "idle" \/ (pc' = "prepare" /\ set[target] # None))
    BY <1>9, Zenon DEF Backups!Verify, Backups!At, Backups!Return
  <2> QED  BY <1>8, <2>1, <2>2, Zenon
<1>10. CASE \E b \in Sets : Backups!VerifyBackup(b)
  BY <1>8, <1>10, Zenon DEF Backups!VerifyBackup, Backups!At
<1> QED  BY <1>5, <1>6, <1>7, <1>9, <1>10, ZenonT(40)

\* Rotation removes sets only, and only between two restores.
LEMMA RotationKeeps ==
    ASSUME BInv, SafeInv, UNCHANGED profile,
           Backups!RotateRemove \/ Backups!RotateDone \/ Backups!RotateFails \/ Backups!PrepareFails
    PROVE  BInv' /\ SafeInv'
<1> USE DEF Backing, Rotating, Preparing, Registering, SwapPhases
<1>1. /\ UNCHANGED <<file, envelope, conn, op, target, made, before>>
      /\ faults' \in {faults, faults + 1}
      /\ \/ pc \in Rotating /\ pc' \in {"idle", "unlist"}
         \/ pc \in {"verify", "prepare"} /\ pc' = "idle"
  BY Zenon DEF Backups!RotateRemove, Backups!RotateDone, Backups!RotateFails, Backups!PrepareFails, Backups!At,
         Backups!FailsAt, Backups!Return, Backups!running, Backups!disk, Backups!history
<1>2. set' = set \/ \E b : set' = [set EXCEPT ![b] = None]
  BY Zenon DEF Backups!RotateRemove, Backups!RotateDone, Backups!RotateFails, Backups!PrepareFails, Backups!disk
<1>3. set' \in [Sets -> Database \cup {None}]
  BY <1>2, ZenonT(40) DEF BInv, BackupTypes
<1>4. BackupTypes'
  BY <1>1, <1>3 DEF BInv, BackupTypes
<1>5. Calm' /\ Swapping' /\ SafeInv'
  BY <1>1, Zenon DEF BInv, Calm, Swapping, SafeInv
<1> QED  BY <1>4, <1>5, Zenon DEF BInv

\* Prepare, and the end of the old connection.
LEMMA CloseKeeps ==
    ASSUME BInv, SafeInv, UNCHANGED profile, profile = "backup_safe" => SafeStep,
           \/ Backups!Prepare \/ Backups!CloseLive \/ Backups!CloseFails
           \/ Backups!ReadEnvelope \/ Backups!ReadFails
    PROVE  BInv' /\ SafeInv'
<1> USE DEF Backing, Rotating, Preparing, Registering, SwapPhases
<1>1. file \in [Files -> Database \cup {None}]
  BY Zenon DEF BInv, BackupTypes
<1>2. CASE Backups!Prepare
  <2>1. /\ pc = "prepare" /\ pc' = "close" /\ file' = [file EXCEPT !["prepared"] = [set[target] EXCEPT !.key = made]]
        /\ UNCHANGED <<envelope, set, conn, op, target, made, before, faults>>
    BY <1>2, Zenon DEF Backups!Prepare, Backups!At, Backups!running, Backups!history
  <2>2. set[target] \in Database /\ made \in Nat
    BY <2>1, LocalConstants DEF BInv, Calm, BackupTypes
  <2>3. PICK g : g = [set[target] EXCEPT !.key = made]
    BY Zenon
  <2>4. g \in Database /\ g.key = made /\ g.edits = set[target].edits
    BY <2>2, <2>3, DatabaseWritten, Zenon
  <2>5. file' \in [Files -> Database \cup {None}] /\ \A r \in Files : file'[r] = IF r = "prepared" THEN g ELSE file[r]
    BY <1>1, <2>1, <2>3, <2>4, Zenon
  <2>6. BackupTypes'
    BY <2>1, <2>5, Zenon DEF BInv, BackupTypes
  <2>7. Calm' /\ Swapping' /\ SafeInv'
    BY <2>1, <2>4, <2>5, Zenon DEF BInv, Calm, Copy, Files, Swapping, SafeInv
  <2> QED  BY <2>6, <2>7, Zenon DEF BInv
<1>3. CASE Backups!CloseLive \/ Backups!CloseFails
  <2>1. PICK w \in {None, file["db"]} :
            file' = [file EXCEPT !["wal"] = w, !["prepared"] = IF pc' = "idle" THEN None ELSE file["prepared"]]
    BY <1>3, <1>1, Zenon DEF Backups!CloseLive, Backups!CloseFails, Backups!Closed, Backups!Live, Files
  <2>2. /\ pc = "close" /\ pc' \in {"read", "idle"} /\ conn' = FALSE /\ before' = file["db"]
        /\ UNCHANGED <<envelope, set, op, target, made>> /\ faults' \in {faults, faults + 1}
        /\ pc' = "idle" => faults' = faults + 1
    BY <1>3, Zenon DEF Backups!CloseLive, Backups!CloseFails, Backups!Closed, Backups!Live, Backups!At, Backups!FailsAt,
                Backups!Return, Backups!running
  <2>3. PICK x : x = IF pc' = "idle" THEN None ELSE file["prepared"]
    OBVIOUS
  <2>4. x \in Database \cup {None} /\ file["db"] \in Database
    BY <1>1, <2>2, <2>3, Zenon DEF BInv, Calm, Files
  <2>5. /\ file' \in [Files -> Database \cup {None}]
        /\ \A r \in Files : file'[r] = IF r = "prepared" THEN x ELSE IF r = "wal" THEN w ELSE file[r]
    BY <1>1, <2>1, <2>3, <2>4, Zenon
  <2>6. BackupTypes'
    <3>1. conn' \in BOOLEAN
      BY <2>2, Zenon
    <3>2. faults' \in Nat /\ made' \in 0..MaxBackups
      BY <2>2 DEF BInv, BackupTypes
    <3> QED  BY <2>2, <2>5, <3>1, <3>2, Zenon DEF BInv, BackupTypes
  <2>7. Calm' /\ Swapping'
    BY <2>2, <2>3, <2>5, Zenon DEF BInv, Calm, Copy, Files, Swapping
  <2>8. SafeInv'
    <3>1. profile = "backup_safe" => pc' # "idle"
      BY <2>2, LocalConstants DEF SafeStep, BInv, BackupTypes
    <3> QED  BY <3>1, ZenonT(40) DEF SafeInv
  <2> QED  BY <2>6, <2>7, <2>8, Zenon DEF BInv
<1>4. CASE Backups!ReadEnvelope
  <2>1. /\ pc = "read" /\ pc' = "aside" /\ oldEnvelope' = envelope
        /\ UNCHANGED <<file, envelope, set, conn, op, target, made, before, faults>>
    BY <1>4, Zenon DEF Backups!ReadEnvelope, Backups!At, Backups!disk, Backups!history
  <2>2. BackupTypes'
    BY <2>1, Zenon DEF BInv, BackupTypes
  <2>3. Calm' /\ Swapping' /\ SafeInv'
    BY <2>1, Zenon DEF BInv, Calm, Copy, Parts, Swapping, SafeInv
  <2> QED  BY <2>2, <2>3, Zenon DEF BInv
<1>5. CASE Backups!ReadFails
  <2>1. /\ pc = "read" /\ pc' = "idle" /\ file' = [file EXCEPT !["prepared"] = None] /\ faults' = faults + 1
        /\ UNCHANGED <<envelope, set, conn, op, target, made, before>>
    BY <1>5, Zenon DEF Backups!ReadFails, Backups!FailsAt, Backups!Return, Backups!running
  <2>2. file' \in [Files -> Database \cup {None}] /\ \A r \in Files : file'[r] = IF r = "prepared" THEN None ELSE file[r]
    BY <1>1, <2>1, ZenonT(40)
  <2>3. BackupTypes'
    BY <2>1, <2>2 DEF BInv, BackupTypes
  <2>4. Calm' /\ Swapping'
    BY <2>1, <2>2, Zenon DEF BInv, Calm, Files, Swapping
  <2>5. SafeInv'
    <3>1. profile # "backup_safe"
      BY <2>1, LocalConstants DEF SafeStep, BInv, BackupTypes
    <3> QED  BY <3>1, ZenonT(40) DEF SafeInv
  <2> QED  BY <2>3, <2>4, <2>5, Zenon DEF BInv
<1> QED  BY <1>2, <1>3, <1>4, <1>5, Zenon

\* The swap: the files are moved aside, the new database and its envelope put in
\* their place and opened.
LEMMA SwapKeeps ==
    ASSUME BInv, SafeInv, UNCHANGED profile, profile = "backup_safe" => SafeStep,
           \/ Backups!MoveAside \/ Backups!Swap \/ Backups!WriteEnvelope \/ Backups!SwapFails
           \/ Backups!OpenFails \/ Backups!OpenRestored \/ Backups!RegisterFails
    PROVE  BInv' /\ SafeInv'
<1> USE DEF Backing, Rotating, Preparing, Registering, SwapPhases
<1>1. file \in [Files -> Database \cup {None}]
  BY Zenon DEF BInv, BackupTypes
<1>2. \A x \in Database : x # None
  BY LocalConstants, Zenon
<1>3. CASE Backups!MoveAside
  <2>1. /\ pc = "aside" /\ pc' = "aside"
        /\ UNCHANGED <<envelope, set, conn, op, target, oldEnvelope, made, before, faults>>
        /\ \/ file["db"] # None /\ file' = [file EXCEPT !["db"] = None, !["db.aside"] = file["db"]]
           \/ /\ file["db"] = None /\ file["wal"] # None
              /\ file' = [file EXCEPT !["wal"] = None, !["wal.aside"] = file["wal"]]
    BY <1>3, ZenonT(40) DEF Backups!MoveAside, Backups!At, Backups!Rename, Backups!Live, Backups!running, Backups!history
  <2>2. /\ file' \in [Files -> Database \cup {None}]
        /\ \/ file["db"] # None /\ \A r \in Files : file'[r] = IF r = "db.aside" THEN file["db"] ELSE
                                                              IF r = "db" THEN None ELSE file[r]
           \/ /\ file["db"] = None /\ file["wal"] # None
              /\ \A r \in Files : file'[r] = IF r = "wal.aside" THEN file["wal"] ELSE
                                             IF r = "wal" THEN None ELSE file[r]
    BY <1>1, <2>1 DEF Files
  <2>3. BackupTypes'
    BY <2>1, <2>2, ZenonT(40) DEF BInv, BackupTypes
  <2>4. Calm' /\ Swapping' /\ SafeInv'
    BY <1>2, <2>1, <2>2, ZenonT(40) DEF BInv, Calm, Copy, Parts, Files, Swapping, SafeInv
  <2> QED  BY <2>3, <2>4, Zenon DEF BInv
<1>4. CASE Backups!Swap
  <2>1. /\ pc = "aside" /\ pc' = "envelope" /\ file["db"] = None /\ file["wal"] = None
        /\ UNCHANGED <<envelope, set, conn, op, target, oldEnvelope, made, before, faults>>
        /\ file' = [file EXCEPT !["prepared"] = None, !["db"] = file["prepared"]]
    BY <1>4, Zenon DEF Backups!Swap, Backups!At, Backups!Rename, Backups!Live, Backups!running, Backups!history
  <2>2. /\ file' \in [Files -> Database \cup {None}]
        /\ \A r \in Files : file'[r] = IF r = "db" THEN file["prepared"] ELSE
                                       IF r = "prepared" THEN None ELSE file[r]
    BY <1>1, <2>1, Zenon DEF Files
  <2>3. BackupTypes'
    BY <2>1, <2>2, ZenonT(40) DEF BInv, BackupTypes
  <2>4. Calm' /\ Swapping' /\ SafeInv'
    BY <1>2, <2>1, <2>2, ZenonT(40) DEF BInv, Calm, Copy, Parts, Files, Swapping, SafeInv
  <2> QED  BY <2>3, <2>4, Zenon DEF BInv
<1>5. CASE Backups!WriteEnvelope \/ Backups!SwapFails \/ Backups!OpenFails
  <2>1. /\ UNCHANGED <<file, set, conn, op, target, oldEnvelope, made, before>>
        /\ faults' \in {faults, faults + 1}
        /\ \/ pc = "envelope" /\ pc' = "open" /\ envelope' = made
           \/ pc \in {"aside", "envelope", "open"} /\ pc' = "undo"
    BY <1>5, ZenonT(40) DEF Backups!WriteEnvelope, Backups!SwapFails, Backups!OpenFails, Backups!At, Backups!FailsAt,
                Backups!disk, Backups!running, Backups!history
  <2>2. BackupTypes'
    BY <2>1 DEF BInv, BackupTypes
  <2>3. Calm' /\ Swapping' /\ SafeInv'
    BY <1>2, <2>1, Zenon DEF BInv, Calm, Copy, Parts, Swapping, SafeInv
  <2> QED  BY <2>2, <2>3, Zenon DEF BInv
<1>6. CASE Backups!OpenRestored
  <2>1. /\ pc = "open" /\ pc' = "register" /\ conn' = TRUE
        /\ UNCHANGED <<envelope, set, op, target, oldEnvelope, made, before, faults>>
        /\ file' = [file EXCEPT !["db.aside"] = None, !["wal.aside"] = None]
    BY <1>6, Zenon DEF Backups!OpenRestored, Backups!At, Backups!running, Backups!history
  <2>2. /\ file' \in [Files -> Database \cup {None}]
        /\ \A r \in Files : file'[r] = IF r \in {"db.aside", "wal.aside"} THEN None ELSE file[r]
    BY <1>1, <2>1, Zenon DEF Files
  <2>3. BackupTypes'
    <3>1. conn' \in BOOLEAN
      BY <2>1, Zenon
    <3> QED  BY <2>1, <2>2, <3>1, Zenon DEF BInv, BackupTypes
  <2>4. Calm' /\ Swapping' /\ SafeInv'
    BY <2>1, <2>2, Zenon DEF BInv, Calm, Copy, Files, Swapping, SafeInv
  <2> QED  BY <2>3, <2>4, Zenon DEF BInv
<1>7. CASE Backups!RegisterFails
  <2>1. /\ pc \in Registering /\ pc' = "idle" /\ faults' = faults + 1
        /\ UNCHANGED <<file, envelope, set, conn, op, target, made, before>>
    BY <1>7, ZenonT(40) DEF Backups!RegisterFails, Backups!FailsAt, Backups!Return, Backups!disk, Backups!running
  <2>2. BackupTypes'
    BY <2>1 DEF BInv, BackupTypes
  <2>3. Calm' /\ Swapping'
    BY <2>1, Zenon DEF BInv, Calm, Swapping
  <2>4. SafeInv'
    <3>1. profile # "backup_safe"
      BY <2>1, LocalConstants DEF SafeStep, BInv, BackupTypes
    <3> QED  BY <3>1, ZenonT(40) DEF SafeInv
  <2> QED  BY <2>2, <2>3, <2>4, Zenon DEF BInv
<1> QED  BY <1>3, <1>4, <1>5, <1>6, <1>7, Zenon

\* The rollback puts the closed database and its envelope back.
LEMMA RollbackKeeps ==
    ASSUME BInv, SafeInv, UNCHANGED profile,
           \/ Backups!Undo \/ Backups!PutBack \/ Backups!PutBackDone
           \/ Backups!RestoreEnvelope \/ Backups!Reopen
    PROVE  BInv' /\ SafeInv'
<1> USE DEF Backing, Rotating, Preparing, Registering, SwapPhases
<1>1. file \in [Files -> Database \cup {None}]
  BY Zenon DEF BInv, BackupTypes
<1>2. \A x \in Database : x # None
  BY LocalConstants, Zenon
<1>3. CASE Backups!Undo
  <2>1. /\ pc = "undo" /\ pc' = "putback"
        /\ UNCHANGED <<envelope, set, conn, op, target, oldEnvelope, made, before, faults>>
        /\ \/ file["prepared"] # None /\ file' = file
           \/ file["prepared"] = None /\ file' = [file EXCEPT !["db"] = None, !["wal"] = None]
    BY <1>3, Zenon DEF Backups!Undo, Backups!At, Backups!running, Backups!history
  <2>2. /\ file' \in [Files -> Database \cup {None}]
        /\ \/ file["prepared"] # None /\ file' = file
           \/ /\ file["prepared"] = None
              /\ \A r \in Files : file'[r] = IF r \in {"db", "wal"} THEN None ELSE file[r]
    BY <1>1, <2>1, Zenon DEF Files
  <2>3. BackupTypes'
    BY <2>1, <2>2, ZenonT(40) DEF BInv, BackupTypes
  <2>4. Calm' /\ Swapping' /\ SafeInv'
    BY <1>2, <2>1, <2>2, ZenonT(40) DEF BInv, Calm, Parts, Files, Swapping, SafeInv
  <2> QED  BY <2>3, <2>4, Zenon DEF BInv
<1>4. CASE Backups!PutBack
  <2>1. /\ pc = "putback" /\ pc' = "putback"
        /\ UNCHANGED <<envelope, set, conn, op, target, oldEnvelope, made, before, faults>>
        /\ \/ file["db.aside"] # None /\ file' = [file EXCEPT !["db.aside"] = None, !["db"] = file["db.aside"]]
           \/ /\ file["db.aside"] = None /\ file["wal.aside"] # None
              /\ file' = [file EXCEPT !["wal.aside"] = None, !["wal"] = file["wal.aside"]]
    BY <1>4, Zenon DEF Backups!PutBack, Backups!At, Backups!Rename, Backups!running, Backups!history
  <2>2. /\ file' \in [Files -> Database \cup {None}]
        /\ \/ /\ file["db.aside"] # None
              /\ \A r \in Files : file'[r] = IF r = "db" THEN file["db.aside"] ELSE
                                             IF r = "db.aside" THEN None ELSE file[r]
           \/ /\ file["db.aside"] = None /\ file["wal.aside"] # None
              /\ \A r \in Files : file'[r] = IF r = "wal" THEN file["wal.aside"] ELSE
                                             IF r = "wal.aside" THEN None ELSE file[r]
    BY <1>1, <2>1 DEF Files
  <2>3. BackupTypes'
    BY <2>1, <2>2, ZenonT(40) DEF BInv, BackupTypes
  <2>4. Calm' /\ Swapping' /\ SafeInv'
    BY <1>2, <2>1, <2>2, ZenonT(40) DEF BInv, Calm, Parts, Files, Swapping, SafeInv
  <2> QED  BY <2>3, <2>4, Zenon DEF BInv
<1>5. CASE Backups!PutBackDone \/ Backups!RestoreEnvelope
  <2>1. /\ UNCHANGED <<file, set, conn, op, target, oldEnvelope, made, before, faults>>
        /\ \/ /\ pc = "putback" /\ pc' = "oldenvelope" /\ file["db.aside"] = None /\ file["wal.aside"] = None
           \/ pc = "oldenvelope" /\ pc' = "reopen" /\ envelope' = oldEnvelope
    BY <1>5, Zenon DEF Backups!PutBackDone, Backups!RestoreEnvelope, Backups!At, Backups!disk, Backups!running, Backups!history
  <2>2. BackupTypes'
    BY <2>1, Zenon DEF BInv, BackupTypes
  <2>3. Calm' /\ Swapping' /\ SafeInv'
    BY <2>1, Zenon DEF BInv, Calm, Parts, Swapping, SafeInv
  <2> QED  BY <2>2, <2>3, Zenon DEF BInv
<1>6. CASE Backups!Reopen
  <2>1. /\ file["db"] = before /\ before \in Database /\ file["wal"] \in {None, before} /\ envelope = before.key
        /\ file["db.aside"] = None /\ file["wal.aside"] = None
    BY <1>2, <1>6, Zenon DEF BInv, Swapping, Parts, Backups!Reopen, Backups!At
  <2>2. Backups!Opens
    BY <1>2, <2>1, Zenon DEF Backups!Opens
  <2>3. /\ pc = "reopen" /\ pc' = "idle" /\ conn' = TRUE /\ result' = "failed"
        /\ UNCHANGED <<envelope, set, op, target, made, before, faults>>
        /\ file' = [file EXCEPT !["wal"] = None, !["prepared"] = None]
    BY <1>6, <2>2, Zenon DEF Backups!Reopen, Backups!At, Backups!Return, Backups!running
  <2>4. /\ file' \in [Files -> Database \cup {None}]
        /\ \A r \in Files : file'[r] = IF r \in {"wal", "prepared"} THEN None ELSE file[r]
    BY <1>1, <2>3, Zenon DEF Files
  <2>5. BackupTypes'
    <3>1. conn' \in BOOLEAN
      BY <2>3, Zenon
    <3> QED  BY <2>3, <2>4, <3>1, Zenon DEF BInv, BackupTypes
  <2>6. Calm' /\ Swapping' /\ SafeInv'
    BY <2>1, <2>3, <2>4, Zenon DEF Calm, Files, Swapping, SafeInv
  <2> QED  BY <2>5, <2>6, Zenon DEF BInv
<1> QED  BY <1>3, <1>4, <1>5, <1>6, Zenon

\* The process dies outside the swap and is started again.
LEMMA CrashKeeps ==
    ASSUME BInv, SafeInv, UNCHANGED profile, Backups!Crash \/ Backups!Restart
    PROVE  BInv' /\ SafeInv'
<1> USE DEF Backing, Rotating, Preparing, Registering
<1>1. file \in [Files -> Database \cup {None}]
  BY Zenon DEF BInv, BackupTypes
<1>2. CASE Backups!Crash
  <2>1. pc \notin SwapPhases /\ pc \notin {"envelope", "oldenvelope"}
    BY <1>2, LocalConstants, Zenon DEF Backups!Crash, SwapPhases
  <2>2. PICK w \in {None, file["db"]} :
            file' = [file EXCEPT !["wal"] = IF conn THEN w ELSE file["wal"], !["prepared"] = None]
    BY <1>1, <1>2, Zenon DEF Backups!Crash, Backups!Live, Files
  <2>3. /\ pc' = "down" /\ conn' = FALSE /\ before' = None /\ faults' = faults + 1 /\ envelope' = envelope
        /\ UNCHANGED <<op, target, made>>
    BY <1>2, <2>1, Zenon DEF Backups!Crash
  <2>4. set' = set \/ \E b : set' = [set EXCEPT ![b] = None]
    BY <1>2, Zenon DEF Backups!Crash
  <2>5. set' \in [Sets -> Database \cup {None}]
    BY <2>4, Zenon DEF BInv, BackupTypes
  <2>6. PICK x : x = IF conn THEN w ELSE file["wal"]
    OBVIOUS
  <2>7. file["db"] \in Database /\ x \in {None, file["db"]}
    BY <2>1, <2>6, Zenon DEF BInv, Calm
  <2>8. /\ file' \in [Files -> Database \cup {None}]
        /\ \A r \in Files : file'[r] = IF r = "prepared" THEN None ELSE IF r = "wal" THEN x ELSE file[r]
    BY <1>1, <2>2, <2>6, <2>7, SMTT(40) DEF Files
  <2>9. BackupTypes'
    <3>1. conn' \in BOOLEAN
      BY <2>3, Zenon
    <3> QED  BY <2>3, <2>5, <2>8, <3>1 DEF BInv, BackupTypes
  <2>10. Calm' /\ Swapping' /\ SafeInv'
    BY <2>1, <2>3, <2>7, <2>8, Zenon DEF BInv, Calm, Files, Swapping, SafeInv, SwapPhases
  <2> QED  BY <2>9, <2>10, Zenon DEF BInv
<1>3. CASE Backups!Restart
  <2>1. /\ pc = "down" /\ pc' = "idle" /\ conn' = TRUE
        /\ UNCHANGED <<envelope, set, op, target, made, before, faults>>
        /\ file' = [file EXCEPT !["wal"] = None]
    BY <1>3, Zenon DEF Backups!Restart, Backups!At, Backups!running, Backups!history
  <2>2. file' \in [Files -> Database \cup {None}] /\ \A r \in Files : file'[r] = IF r = "wal" THEN None ELSE file[r]
    BY <1>1, <2>1, Zenon
  <2>3. BackupTypes'
    <3>1. conn' \in BOOLEAN
      BY <2>1, Zenon
    <3> QED  BY <2>1, <2>2, <3>1, Zenon DEF BInv, BackupTypes
  <2>4. Calm' /\ Swapping' /\ SafeInv'
    BY <2>1, <2>2, Zenon DEF BInv, Calm, Files, Swapping, SafeInv, SwapPhases
  <2> QED  BY <2>3, <2>4, Zenon DEF BInv
<1> QED  BY <1>2, <1>3, Zenon

\* Every step of a backup or a restore.
LEMMA BackupKept ==
    ASSUME BInv, SafeInv, UNCHANGED profile, profile = "backup_safe" => SafeStep, Backups!Next
    PROVE  BInv' /\ SafeInv'
<1>1. ASSUME Backups!BackupStep PROVE BInv' /\ SafeInv'
  BY <1>1, BackupKeeps, CatalogKeeps, RotationKeeps
     DEF Backups!BackupStep, Backups!CreateManual, Backups!EnsureDaily, Backups!Backup, Sets
<1>2. ASSUME Backups!RestoreStep PROVE BInv' /\ SafeInv'
  BY <1>2, BackupKeeps, CatalogKeeps, RotationKeeps, CloseKeeps, SwapKeeps, RollbackKeeps
     DEF Backups!RestoreStep, Backups!RestoreWhole, Backups!Backup, Sets
<1> QED  BY <1>1, <1>2, CommitKeeps, CrashKeeps, Zenon DEF Backups!Next

\* What the invariants say of an operation that has ended.
LEMMA BackupAtomic ==
    BInv /\ SafeInv => /\ Backups!EitherDatabase
                       /\ profile = "backup_safe" => Backups!AllOrNothing /\ Backups!Available
<1> SUFFICES ASSUME BInv, SafeInv
             PROVE  /\ Backups!EitherDatabase
                    /\ profile = "backup_safe" => Backups!AllOrNothing /\ Backups!Available
  OBVIOUS
<1>1. pc \in {"idle", "down"} => Backups!Opens
  BY LocalConstants, Zenon DEF BInv, Calm, Backups!Opens, SwapPhases
<1>2. Backups!EitherDatabase
  BY <1>1, Zenon DEF BInv, Calm, Backups!EitherDatabase, Backups!Live, SwapPhases
<1>3. ASSUME profile = "backup_safe" PROVE Backups!AllOrNothing /\ Backups!Available
  BY <1>1, <1>3, Zenon DEF BInv, Calm, SafeInv, Backups!AllOrNothing, Backups!Available, Backups!Live, SwapPhases
<1> QED  BY <1>2, <1>3, Zenon

-----------------------------------------------------------------------------
(***************************************************************************)
(* The properties of LocalSpec.                                            *)
(***************************************************************************)
LocalInv ==
    /\ Restoring => BInv /\ SafeInv
    /\ Notes => ClocksLead
    /\ Accounts => AInv
    /\ profile = "account" => KInv

LEMMA LocalInitially == LocalInit => LocalInv
  BY BackupInit, ReplicaInit, AccountInit, RecordInit, Zenon DEF LocalInit, LocalInv, Restoring, Notes, Accounts

LEMMA LocalStep == LocalInv /\ [LocalNext]_vars => LocalInv'
<1> SUFFICES ASSUME LocalInv, [LocalNext]_vars PROVE LocalInv'
  OBVIOUS
<1> USE DEF Restoring, Notes, Accounts
<1>1. CASE RestoreNext
  <2>1. BInv /\ SafeInv /\ UNCHANGED profile /\ (profile = "backup_safe" => SafeStep) /\ Backups!Next
    BY <1>1, Zenon DEF RestoreNext, LocalInv
  <2>2. BInv' /\ SafeInv'
    BY <2>1, BackupKept, Zenon
  <2> QED  BY <1>1, <2>1, <2>2, Zenon DEF RestoreNext, LocalInv
<1>2. CASE NotesNext
  <2>1. ClocksLead /\ UNCHANGED profile /\ Replica!Next
    BY <1>2, Zenon DEF NotesNext, LocalInv
  <2>2. ClocksLead'
    BY <2>1, ReplicaStep, Zenon
  <2> QED  BY <1>2, <2>1, <2>2, Zenon DEF NotesNext, LocalInv
<1>3. CASE AccountNext
  <2>1. AInv /\ UNCHANGED profile /\ Account!Next /\ (profile = "account" => CleanStep /\ KInv)
    BY <1>3, Zenon DEF AccountNext, LocalInv
  <2>2. AInv'
    BY <2>1, AccountStep, Zenon
  <2>3. profile = "account" => KInv'
    BY <2>1, RecordStep, Zenon
  <2> QED  BY <1>3, <2>1, <2>2, <2>3, ZenonT(40) DEF AccountNext, LocalInv
<1>4. CASE UNCHANGED vars
  <2>1. UNCHANGED <<profile, envelope, faults, backupOnly, notesOnly, accountOnly>>
    BY <1>4, Zenon DEF vars
  <2>2. BInv /\ SafeInv => BInv' /\ SafeInv'
    <3>1. UNCHANGED <<profile, envelope, faults, file, set, conn, op, pc, target, staged, oldEnvelope, made, before, result>>
      BY <2>1, Zenon DEF backupOnly
    <3>2. BackupTypes => BackupTypes'
      BY <3>1, Zenon DEF BackupTypes
    <3>3. Calm => Calm'
      BY <3>1, Zenon DEF Calm, Copy
    <3>4. Swapping => Swapping'
      BY <3>1, Zenon DEF Swapping, Copy, Parts
    <3>5. SafeInv => SafeInv'
      BY <3>1, Zenon DEF SafeInv
    <3> QED  BY <3>2, <3>3, <3>4, <3>5, ZenonT(40) DEF BInv
  <2>3. ClocksLead => ClocksLead'
    BY <2>1, Zenon DEF notesOnly, ClocksLead
  <2>4. UNCHANGED accountVars
    BY <2>1, Zenon DEF accountVars
  <2>5. (AInv => AInv') /\ (KInv => KInv')
    BY <2>4, AccountStep, RecordStep, Zenon
  <2> QED  BY <2>1, <2>2, <2>3, <2>5, ZenonT(40) DEF LocalInv
<1> QED  BY <1>1, <1>2, <1>3, <1>4, Zenon DEF LocalNext

\* The inductive invariant holds in every state.
LEMMA LocalInvariant == LocalSpec => []LocalInv
  BY LocalInitially, LocalStep, PTL DEF LocalSpec

\* A restore is atomic (RestoreWhole, restoreDatabaseFile): whichever of its steps
\* fails, and wherever outside the swap the process dies, the original database or
\* the restored one is there with the envelope of its key; without the faults that
\* backup_safe leaves out it is the one the result says, with a connection to it.
THEOREM RestoreIsAtomic == LocalSpec => []RestoreAtomic
<1>1. LocalInv => RestoreAtomic
  BY BackupAtomic, ZenonT(40) DEF LocalInv, RestoreAtomic, Restoring
<1> QED  BY <1>1, LocalInvariant, PTL

\* An account that Create returned stays openable until it is wiped, a copy is on
\* disk before a migration changes it, and no crash leaves an encrypted database
\* without a record of its key (account.Create, Unlock, store.Open).
THEOREM AccountIsKept == LocalSpec => []AccountRecoverable
<1>1. LocalInv => AccountRecoverable
  BY Zenon DEF LocalInv, AccountRecoverable, AInv, KInv, Accounts
<1> QED  BY <1>1, LocalInvariant, PTL

\* A local command is never superseded by a write that was applied before it,
\* however far ahead that writer's clock was and whatever the wall clock reads,
\* also after a restart (Clock.Tick, Clock.Observe, AdvanceDeviceClock).
THEOREM EditsTakeEffect == LocalSpec => LocalEditTakesEffect
<1>1. LocalInv /\ [LocalNext]_vars => [Notes => Replica!TakesEffect]_vars
  <2> SUFFICES ASSUME LocalInv, LocalNext, Notes PROVE Replica!TakesEffect
    OBVIOUS
  <2>1. NotesNext
    BY Zenon DEF LocalNext, RestoreNext, AccountNext, Restoring, Notes, Accounts
  <2>2. ClocksLead /\ Replica!Next
    BY <2>1, Zenon DEF LocalInv, NotesNext
  <2> QED  BY <2>2, ReplicaStep, Zenon
<1> QED  BY <1>1, LocalInvariant, PTL DEF LocalSpec, LocalEditTakesEffect
=============================================================================
