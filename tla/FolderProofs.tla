---------------------------- MODULE FolderProofs ----------------------------
(***************************************************************************)
(* The numbering of the folder transport, for any devices, outboxes and    *)
(* batch size: it is dense whatever overlaps, and unique as long as no     *)
(* lock file has been taken for an abandoned one.                          *)
(***************************************************************************)
EXTENDS FolderTransport, Integers, TLAPS

\* The lock file protects the steps of Push until a lock file grows old.
MutexOK ==
    ~slow => /\ lock # "aged"
             /\ \A d \in Device : pc[d] # "steal"
             /\ \A d \in Device : pc[d] \in Critical => lock = "fresh"
             /\ \A d, e \in Device : pc[d] \in Critical /\ pc[e] \in Critical
                                        => d = e

\* A writer's batch are the oldest rows it has not marked yet.
PendingBatch(d) ==
    /\ batch[d] # <<>>
    /\ Len(sent[d]) + Len(batch[d]) <= Len(Outbox[d])
    /\ \A i \in 1..Len(batch[d]) : batch[d][i] = Outbox[d][Len(sent[d]) + i]

\* The range it claims follows published numbers.
FollowsPublished(d) ==
    start[d] # 0 /\ \A n \in 1..(start[d] - 1) : Numbered(n)

\* What a writer knows at each step; from "manifest" on its claim is published.
WriterOK ==
    \A d \in Device :
        /\ pc[d] # "idle" => PendingBatch(d)
        /\ pc[d] \in {"check", "segment", "manifest", "release", "mark"} =>
              FollowsPublished(d)
        /\ pc[d] \in {"manifest", "release", "mark"} => Claim(d) \in segments

\* Until a lock file grows old, a range that was found free is still free.
RangeOK ==
    ~slow => \A d \in Device : pc[d] = "segment" => ~RangeClaimed(d)

\* What a device has applied is published under its place.
Delivered ==
    \A d \in Device : \A i \in 1..Len(got[d]) : Published(i, got[d][i])

FolderInv ==
    /\ TypeOK /\ MutexOK /\ WriterOK /\ RangeOK /\ Delivered
    /\ DenseSegments /\ SentPublished
    /\ ~slow => UniqueNumbers

-----------------------------------------------------------------------------
(***************************************************************************)
(* Sequences.                                                              *)
(***************************************************************************)
\* What concatenation is, for the pulled page and the recorded numbers.
LEMMA CatProperties ==
    ASSUME NEW S, NEW s \in Seq(S), NEW t \in Seq(S)
    PROVE  /\ s \o t \in Seq(S)
           /\ Len(s \o t) = Len(s) + Len(t)
           /\ \A i \in 1..Len(s) : (s \o t)[i] = s[i]
           /\ \A i \in 1..Len(t) : (s \o t)[Len(s) + i] = t[i]
  OBVIOUS

\* A page or a batch given by its entries is a sequence of that length.
LEMMA EntriesAreSeq ==
    ASSUME NEW S, NEW k \in Nat, NEW f \in [1..k -> S]
    PROVE  f \in Seq(S) /\ Len(f) = k
  OBVIOUS

-----------------------------------------------------------------------------
(***************************************************************************)
(* The initial state.                                                      *)
(***************************************************************************)
\* The empty folder and idle devices satisfy the invariant.
LEMMA InitInv == Init => FolderInv
<1> SUFFICES ASSUME Init PROVE FolderInv
  OBVIOUS
<1>1. TypeOK
  <2>1. <<>> \in Seq(Nat) /\ <<>> \in Seq(Op) /\ 0 \in 0..MaxFaults
    BY FolderAssumption
  <2> QED
    BY <2>1, Zenon DEF Init, TypeOK, PushPhase
<1>2. MutexOK /\ WriterOK /\ RangeOK
  BY Zenon DEF Init, MutexOK, WriterOK, RangeOK, Critical
<1>3. Delivered /\ DenseSegments /\ SentPublished /\ UniqueNumbers
  BY DEF Init, Delivered, DenseSegments, SentPublished, UniqueNumbers
<1> QED
  BY <1>1, <1>2, <1>3, Zenon DEF FolderInv

-----------------------------------------------------------------------------
(***************************************************************************)
(* Each conjunct of the invariant is preserved by every step.              *)
(***************************************************************************)
\* A writer's claim is a proper segment.
LEMMA ClaimType ==
    ASSUME FolderInv, NEW d \in Device,
           pc[d] \in {"segment", "manifest", "release", "mark"}
    PROVE  /\ Claim(d).by = d /\ Claim(d).start = start[d]
           /\ Claim(d).ops = batch[d]
           /\ start[d] \in Nat \ {0}
           /\ batch[d] \in Seq(Op) \ {<<>>}
           /\ Len(batch[d]) \in Nat \ {0}
           /\ EndOf(Claim(d)) = start[d] + Len(batch[d]) - 1
<1>1. start[d] \in Nat /\ batch[d] \in Seq(Op) /\ Len(batch[d]) \in Nat
  BY DEF FolderInv, TypeOK
<1>2. start[d] # 0 /\ batch[d] # <<>>
  BY Zenon DEF FolderInv, WriterOK, PendingBatch, FollowsPublished
<1>3. Len(batch[d]) # 0
  BY <1>1, <1>2
<1> QED
  BY <1>1, <1>2, <1>3, Zenon DEF Claim, EndOf

\* Types are preserved.
LEMMA StepType == FolderInv /\ [Next]_vars => TypeOK'
<1> SUFFICES ASSUME FolderInv, [Next]_vars PROVE TypeOK'
  OBVIOUS
<1> USE FolderAssumption DEF FolderInv, TypeOK, PushPhase, Goto
<1>1. CASE Age
  BY <1>1, Zenon DEF Age, durable, volatile
<1>2. ASSUME NEW d \in Device, BeginPush(d) PROVE TypeOK'
  <2>1. PICK k \in 1..BatchSize :
            /\ \/ Len(sent[d]) + k = Len(Outbox[d])
               \/ Len(sent[d]) + k < Len(Outbox[d])
            /\ batch' = [batch EXCEPT ![d] =
                            [i \in 1..k |-> Outbox[d][Len(sent[d]) + i]]]
    BY <1>2, Zenon DEF BeginPush
  <2>2. [i \in 1..k |-> Outbox[d][Len(sent[d]) + i]] \in [1..k -> Op]
    BY <2>1
  <2>3. batch' \in [Device -> Seq(Op)]
    BY <2>1, <2>2, EntriesAreSeq
  <2> QED
    BY <1>2, <2>3, Zenon DEF BeginPush, folder, durable, history
<1>3. ASSUME NEW d \in Device, Acquire(d) PROVE TypeOK'
  BY <1>3, Zenon DEF Acquire, folder, durable, volatile, history
<1>4. ASSUME NEW d \in Device, FindAged(d) PROVE TypeOK'
  BY <1>4, Zenon DEF FindAged, folder, durable, volatile, history
<1>5. ASSUME NEW d \in Device, Steal(d) PROVE TypeOK'
  BY <1>5, Zenon DEF Steal, folder, durable, volatile, history
<1>6. ASSUME NEW d \in Device, LockTimeout(d) PROVE TypeOK'
  BY <1>6, Zenon DEF LockTimeout, folder, durable, volatile, history
<1>7. ASSUME NEW d \in Device, ReadManifest(d) PROVE TypeOK'
  BY <1>7 DEF ReadManifest, folder, durable, volatile, history
<1>8. ASSUME NEW d \in Device, CheckRange(d) PROVE TypeOK'
  BY <1>8, Zenon DEF CheckRange, folder, durable, volatile, history
<1>9. ASSUME NEW d \in Device, WriteSegment(d) PROVE TypeOK'
  <2>1. \A s \in segments' : /\ s.by \in Device
                            /\ s.start \in Nat \ {0}
                            /\ s.ops \in Seq(Op) \ {<<>>}
    BY <1>9, ClaimType DEF WriteSegment
  <2> QED
    BY <1>9, <2>1, Zenon DEF WriteSegment, durable, history
<1>10. ASSUME NEW d \in Device, WriteManifest(d) PROVE TypeOK'
  <2>1. latest' \in Nat
    BY <1>10, ClaimType DEF WriteManifest
  <2> QED
    BY <1>10, <2>1, Zenon DEF WriteManifest, durable, history
<1>11. ASSUME NEW d \in Device, Release(d) PROVE TypeOK'
  BY <1>11, Zenon DEF Release, folder, durable, volatile, history
<1>12. ASSUME NEW d \in Device, MarkPushed(d) PROVE TypeOK'
  <2> DEFINE new == [i \in 1..Len(batch[d]) |-> start[d] + i - 1]
  <2>1. Len(batch[d]) \in Nat /\ new \in [1..Len(batch[d]) -> Nat]
    BY <1>12, ClaimType DEF MarkPushed
  <2>2. new \in Seq(Nat)
    BY <2>1, EntriesAreSeq
  <2>3. sent[d] \o new \in Seq(Nat)
    BY <2>2, CatProperties, Zenon
  <2> HIDE DEF new
  <2>4. sent' \in [Device -> Seq(Nat)]
    BY <1>12, <2>3, Zenon DEF MarkPushed, new
  <2> QED
    BY <1>12, <2>4, Zenon DEF MarkPushed, folder, history
<1>13. ASSUME NEW d \in Device, Fail(d) PROVE TypeOK'
  BY <1>13 DEF Fail, folder, durable, volatile, history
<1>14. ASSUME NEW d \in Device, Crash(d) PROVE TypeOK'
  BY <1>14 DEF Crash, folder, durable, volatile, history
<1>15. ASSUME NEW d \in Device, Pull(d) PROVE TypeOK'
  <2>1. CASE UNCHANGED got
    BY <1>15, <2>1, Zenon DEF Pull, folder, volatile, history
  <2>2. CASE blocked' = blocked /\ got' # got
    <3>1. PICK k \in 1..BatchSize : \E ops \in [1..k -> Op] :
              got' = [got EXCEPT ![d] = @ \o ops]
      BY <1>15, <2>2, Zenon DEF Pull
    <3>2. PICK ops \in [1..k -> Op] : got' = [got EXCEPT ![d] = @ \o ops]
      BY <3>1, Zenon
    <3>3. k \in Nat
      OBVIOUS
    <3>4. ops \in Seq(Op)
      BY <3>2, <3>3, EntriesAreSeq, Zenon
    <3>5. got[d] \o ops \in Seq(Op)
      BY <3>4, CatProperties, Zenon
    <3>6. got' \in [Device -> Seq(Op)]
      BY <3>2, <3>5, Zenon
    <3> QED
      BY <1>15, <2>2, <3>6, Zenon DEF Pull, folder, volatile, history
  <2> QED
    BY <1>15, <2>1, <2>2, Zenon DEF Pull
<1>16. CASE UNCHANGED vars
  BY <1>16, Zenon DEF vars, folder, durable, volatile, history
<1> QED
  BY <1>1, <1>2, <1>3, <1>4, <1>5, <1>6, <1>7, <1>8, <1>9,
     <1>10, <1>11, <1>12, <1>13, <1>14, <1>15, <1>16, Zenon DEF Next, PushStep

\* Mutual exclusion by the lock file, until one grows old.
LEMMA StepMutex == FolderInv /\ [Next]_vars => MutexOK'
<1> SUFFICES ASSUME FolderInv, [Next]_vars PROVE MutexOK'
  OBVIOUS
<1> USE DEF FolderInv, MutexOK, TypeOK, PushPhase, Critical, Goto
<1>1. CASE Age
  BY <1>1, Zenon DEF Age, durable, volatile
<1>2. ASSUME NEW d \in Device, BeginPush(d) PROVE MutexOK'
  BY <1>2, Zenon DEF BeginPush, folder, durable, volatile, history
<1>3. ASSUME NEW d \in Device, Acquire(d) PROVE MutexOK'
  BY <1>3, Zenon DEF Acquire, folder, durable, volatile, history
<1>4. ASSUME NEW d \in Device, FindAged(d) PROVE MutexOK'
  BY <1>4, Zenon DEF FindAged, folder, durable, volatile, history
<1>5. ASSUME NEW d \in Device, Steal(d) PROVE MutexOK'
  BY <1>5, Zenon DEF Steal, folder, durable, volatile, history
<1>6. ASSUME NEW d \in Device, LockTimeout(d) PROVE MutexOK'
  BY <1>6, Zenon DEF LockTimeout, folder, durable, volatile, history
<1>7. ASSUME NEW d \in Device, ReadManifest(d) PROVE MutexOK'
  BY <1>7, Zenon DEF ReadManifest, folder, durable, volatile, history
<1>8. ASSUME NEW d \in Device, CheckRange(d) PROVE MutexOK'
  BY <1>8, ZenonT(40) DEF CheckRange, folder, durable, volatile, history
<1>9. ASSUME NEW d \in Device, WriteSegment(d) PROVE MutexOK'
  BY <1>9, Zenon DEF WriteSegment, folder, durable, volatile, history
<1>10. ASSUME NEW d \in Device, WriteManifest(d) PROVE MutexOK'
  BY <1>10, Zenon DEF WriteManifest, folder, durable, volatile, history
<1>11. ASSUME NEW d \in Device, Release(d) PROVE MutexOK'
  BY <1>11, Zenon DEF Release, folder, durable, volatile, history
<1>12. ASSUME NEW d \in Device, MarkPushed(d) PROVE MutexOK'
  BY <1>12, Zenon DEF MarkPushed, folder, durable, volatile, history
<1>13. ASSUME NEW d \in Device, Fail(d) PROVE MutexOK'
  BY <1>13, Zenon DEF Fail, folder, durable, volatile, history
<1>14. ASSUME NEW d \in Device, Crash(d) PROVE MutexOK'
  BY <1>14, Zenon DEF Crash, folder, durable, volatile, history
<1>15. ASSUME NEW d \in Device, Pull(d) PROVE MutexOK'
  BY <1>15, Zenon DEF Pull, folder, durable, volatile, history
<1>16. CASE UNCHANGED vars
  BY <1>16, Zenon DEF vars, folder, durable, volatile, history
<1> QED
  BY <1>1, <1>2, <1>3, <1>4, <1>5, <1>6, <1>7, <1>8, <1>9,
     <1>10, <1>11, <1>12, <1>13, <1>14, <1>15, <1>16, Zenon DEF Next, PushStep

\* Segments are immutable: what is published stays published.
LEMMA SegmentsGrow ==
    ASSUME FolderInv, [Next]_vars
    PROVE  /\ segments \subseteq segments'
           /\ \A n : Numbered(n) => Numbered(n)'
           /\ \A n, o : Published(n, o) => Published(n, o)'
<1>1. segments \subseteq segments'
  BY Zenon DEF Next, PushStep, vars, folder, Age, BeginPush, Acquire, FindAged,
         Steal, LockTimeout, ReadManifest, CheckRange, WriteSegment,
         WriteManifest, Release, MarkPushed, Fail, Crash, Pull
<1> QED
  BY <1>1, Zenon DEF Numbered, Published

\* Steps that leave a writer's rows, batch and range alone.
LEMMA WriterKept ==
    ASSUME FolderInv, [Next]_vars, NEW e \in Device,
           sent'[e] = sent[e], batch'[e] = batch[e]
    PROVE  /\ PendingBatch(e) => PendingBatch(e)'
           /\ start'[e] = start[e] =>
                 /\ FollowsPublished(e) => FollowsPublished(e)'
                 /\ Claim(e) \in segments => Claim(e)' \in segments'
<1>1. PendingBatch(e) => PendingBatch(e)'
  BY Zenon DEF PendingBatch
<1>2. ASSUME start'[e] = start[e]
      PROVE  /\ FollowsPublished(e) => FollowsPublished(e)'
             /\ Claim(e) \in segments => Claim(e)' \in segments'
  BY <1>2, SegmentsGrow, Zenon DEF FollowsPublished, Claim
<1> QED
  BY <1>1, <1>2, Zenon

\* A writer remembers its own pending rows and a range that may follow.
LEMMA StepWriter == FolderInv /\ [Next]_vars => WriterOK'
<1> SUFFICES ASSUME FolderInv, [Next]_vars PROVE WriterOK'
  OBVIOUS
<1> USE DEF FolderInv, TypeOK, WriterOK, PushPhase, Goto
<1>1. CASE Age
  BY <1>1, WriterKept, Zenon DEF Age, durable, volatile
<1>2. ASSUME NEW d \in Device, BeginPush(d) PROVE WriterOK'
  <2>1. PICK k \in 1..BatchSize :
            /\ \/ Len(sent[d]) + k = Len(Outbox[d])
               \/ Len(sent[d]) + k < Len(Outbox[d])
            /\ batch' = [batch EXCEPT ![d] =
                            [i \in 1..k |-> Outbox[d][Len(sent[d]) + i]]]
    BY <1>2, Zenon DEF BeginPush
  <2> DEFINE new == [i \in 1..k |-> Outbox[d][Len(sent[d]) + i]]
  <2>2. Len(sent[d]) \in Nat /\ Len(Outbox[d]) \in Nat /\ k \in Nat \ {0}
    BY FolderAssumption
  <2>3. Len(sent[d]) + k <= Len(Outbox[d])
    BY <2>1, <2>2
  <2>4. /\ new \in [1..k -> Op]
        /\ \A i \in 1..k : new[i] = Outbox[d][Len(sent[d]) + i]
    BY <2>2, <2>3, FolderAssumption
  <2> HIDE DEF new
  <2>5. new \in Seq(Op) /\ Len(new) = k
    BY <2>2, <2>4, EntriesAreSeq, Zenon
  <2>6. new # <<>>
    BY <2>2, <2>5, Zenon
  <2>7. batch' = [batch EXCEPT ![d] = new] /\ pc' = [pc EXCEPT ![d] = "lock"]
        /\ sent' = sent /\ start' = start
    BY <1>2, <2>1, Zenon DEF BeginPush, new, durable
  <2>8. PendingBatch(d)'
    <3>1. batch'[d] = new /\ sent'[d] = sent[d]
      BY <2>7, Zenon
    <3> QED
      BY <2>3, <2>4, <2>5, <2>6, <3>1, Zenon DEF PendingBatch
  <2> QED
    BY <2>7, <2>8, WriterKept, Zenon
<1>3. ASSUME NEW d \in Device, Acquire(d) PROVE WriterOK'
  <2>1. UNCHANGED <<sent, batch, start>> /\ pc' = [pc EXCEPT ![d] = "read"]
    BY <1>3, Zenon DEF Acquire, durable
  <2>2. pc[d] = "lock"
    BY <1>3, Zenon DEF Acquire
  <2> QED
    BY <2>1, <2>2, WriterKept, Zenon
<1>4. ASSUME NEW d \in Device, FindAged(d) PROVE WriterOK'
  <2>1. UNCHANGED <<sent, batch, start>> /\ pc' = [pc EXCEPT ![d] = "steal"]
    BY <1>4, Zenon DEF FindAged, durable
  <2>2. pc[d] = "lock"
    BY <1>4, Zenon DEF FindAged
  <2> QED
    BY <2>1, <2>2, WriterKept, Zenon
<1>5. ASSUME NEW d \in Device, Steal(d) PROVE WriterOK'
  <2>1. UNCHANGED <<sent, batch, start>> /\ pc' = [pc EXCEPT ![d] = "lock"]
    BY <1>5, Zenon DEF Steal, durable
  <2>2. pc[d] = "steal"
    BY <1>5, Zenon DEF Steal
  <2> QED
    BY <2>1, <2>2, WriterKept, Zenon
<1>6. ASSUME NEW d \in Device, LockTimeout(d) PROVE WriterOK'
  <2>1. UNCHANGED <<sent, batch, start>> /\ pc' = [pc EXCEPT ![d] = "idle"]
    BY <1>6, Zenon DEF LockTimeout, durable
  <2> QED
    BY <2>1, WriterKept, Zenon
<1>7. ASSUME NEW d \in Device, ReadManifest(d) PROVE WriterOK'
  <2>1. /\ pc' = [pc EXCEPT ![d] = "check"] /\ batch' = batch /\ sent' = sent
        /\ start' = [start EXCEPT ![d] = latest + 1] /\ pc[d] = "read"
    BY <1>7, Zenon DEF ReadManifest, durable
  <2>2. start'[d] = latest + 1 /\ start'[d] - 1 = latest
    BY <2>1
  <2>3. FollowsPublished(d)'
    BY <2>2, SegmentsGrow DEF DenseSegments, FollowsPublished
  <2> QED
    BY <2>1, <2>3, WriterKept, Zenon
<1>8. ASSUME NEW d \in Device, CheckRange(d) PROVE WriterOK'
  <2>1. UNCHANGED <<sent, batch, start>> /\ pc[d] = "check"
    BY <1>8, Zenon DEF CheckRange, durable
  <2>2. CASE pc' = [pc EXCEPT ![d] = "idle"]
    BY <2>1, <2>2, WriterKept, Zenon
  <2>3. CASE pc' = [pc EXCEPT ![d] = "segment"]
    BY <2>1, <2>3, WriterKept, Zenon
  <2> QED
    BY <1>8, <2>2, <2>3, Zenon DEF CheckRange
<1>9. ASSUME NEW d \in Device, WriteSegment(d) PROVE WriterOK'
  <2>1. /\ UNCHANGED <<sent, batch, start>> /\ pc[d] = "segment"
        /\ pc' = [pc EXCEPT ![d] = "manifest"]
    BY <1>9, Zenon DEF WriteSegment, durable
  <2>2. Claim(d)' \in segments'
    BY <1>9, <2>1, Zenon DEF WriteSegment, Claim
  <2> QED
    BY <2>1, <2>2, WriterKept, Zenon
<1>10. ASSUME NEW d \in Device, WriteManifest(d) PROVE WriterOK'
  <2>1. UNCHANGED <<sent, batch, start>> /\ pc' = [pc EXCEPT ![d] = "release"]
    BY <1>10, Zenon DEF WriteManifest, durable
  <2>2. pc[d] = "manifest"
    BY <1>10, Zenon DEF WriteManifest
  <2> QED
    BY <2>1, <2>2, WriterKept, Zenon
<1>11. ASSUME NEW d \in Device, Release(d) PROVE WriterOK'
  <2>1. UNCHANGED <<sent, batch, start>> /\ pc' = [pc EXCEPT ![d] = "mark"]
    BY <1>11, Zenon DEF Release, durable
  <2>2. pc[d] = "release"
    BY <1>11, Zenon DEF Release
  <2> QED
    BY <2>1, <2>2, WriterKept, Zenon
<1>12. ASSUME NEW d \in Device, MarkPushed(d) PROVE WriterOK'
  <2>1. /\ UNCHANGED <<batch, start>> /\ pc' = [pc EXCEPT ![d] = "idle"]
        /\ \A e \in Device \ {d} : sent'[e] = sent[e]
    BY <1>12, Zenon DEF MarkPushed
  <2> QED
    BY <2>1, WriterKept, Zenon
<1>13. ASSUME NEW d \in Device, Fail(d) PROVE WriterOK'
  <2>1. UNCHANGED <<sent, batch, start>> /\ pc' = [pc EXCEPT ![d] = "idle"]
    BY <1>13, Zenon DEF Fail, durable
  <2> QED
    BY <2>1, WriterKept, Zenon
<1>14. ASSUME NEW d \in Device, Crash(d) PROVE WriterOK'
  <2>1. UNCHANGED <<sent, batch, start>> /\ pc' = [pc EXCEPT ![d] = "idle"]
    BY <1>14, Zenon DEF Crash, durable
  <2> QED
    BY <2>1, WriterKept, Zenon
<1>15. ASSUME NEW d \in Device, Pull(d) PROVE WriterOK'
  <2>1. UNCHANGED <<sent, batch, start, pc>>
    BY <1>15, Zenon DEF Pull, volatile
  <2> QED
    BY <2>1, WriterKept, Zenon
<1>16. CASE UNCHANGED vars
  BY <1>16, WriterKept, Zenon DEF vars, folder, durable, volatile, history
<1> QED
  BY <1>1, <1>2, <1>3, <1>4, <1>5, <1>6, <1>7, <1>8, <1>9,
     <1>10, <1>11, <1>12, <1>13, <1>14, <1>15, <1>16, Zenon DEF Next, PushStep

\* A range found free stays free while the lock protects it.
LEMMA StepRange == FolderInv /\ [Next]_vars => RangeOK'
<1> SUFFICES ASSUME FolderInv, [Next]_vars PROVE RangeOK'
  OBVIOUS
<1> USE DEF FolderInv, TypeOK, PushPhase, MutexOK, RangeOK, RangeClaimed, Claim,
            Goto, Critical
<1>1. CASE Age
  BY <1>1, Zenon DEF Age, durable, volatile
<1>2. ASSUME NEW d \in Device, BeginPush(d) PROVE RangeOK'
  BY <1>2, Zenon DEF BeginPush, folder, durable, volatile, history
<1>3. ASSUME NEW d \in Device, Acquire(d) PROVE RangeOK'
  BY <1>3, Zenon DEF Acquire, folder, durable, volatile, history
<1>4. ASSUME NEW d \in Device, FindAged(d) PROVE RangeOK'
  BY <1>4, Zenon DEF FindAged, folder, durable, volatile, history
<1>5. ASSUME NEW d \in Device, Steal(d) PROVE RangeOK'
  BY <1>5, Zenon DEF Steal, folder, durable, volatile, history
<1>6. ASSUME NEW d \in Device, LockTimeout(d) PROVE RangeOK'
  BY <1>6, Zenon DEF LockTimeout, folder, durable, volatile, history
<1>7. ASSUME NEW d \in Device, ReadManifest(d) PROVE RangeOK'
  BY <1>7, Zenon DEF ReadManifest, folder, durable, volatile, history
<1>8. ASSUME NEW d \in Device, CheckRange(d) PROVE RangeOK'
  BY <1>8, Zenon DEF CheckRange, folder, durable, volatile, history
<1>9. ASSUME NEW d \in Device, WriteSegment(d) PROVE RangeOK'
  BY <1>9, Zenon DEF WriteSegment, folder, durable, volatile, history
<1>10. ASSUME NEW d \in Device, WriteManifest(d) PROVE RangeOK'
  BY <1>10, Zenon DEF WriteManifest, folder, durable, volatile, history
<1>11. ASSUME NEW d \in Device, Release(d) PROVE RangeOK'
  BY <1>11, Zenon DEF Release, folder, durable, volatile, history
<1>12. ASSUME NEW d \in Device, MarkPushed(d) PROVE RangeOK'
  BY <1>12, Zenon DEF MarkPushed, folder, durable, volatile, history
<1>13. ASSUME NEW d \in Device, Fail(d) PROVE RangeOK'
  BY <1>13, Zenon DEF Fail, folder, durable, volatile, history
<1>14. ASSUME NEW d \in Device, Crash(d) PROVE RangeOK'
  BY <1>14, Zenon DEF Crash, folder, durable, volatile, history
<1>15. ASSUME NEW d \in Device, Pull(d) PROVE RangeOK'
  BY <1>15, Zenon DEF Pull, folder, durable, volatile, history
<1>16. CASE UNCHANGED vars
  BY <1>16, Zenon DEF vars, folder, durable, volatile, history
<1> QED
  BY <1>1, <1>2, <1>3, <1>4, <1>5, <1>6, <1>7, <1>8, <1>9,
     <1>10, <1>11, <1>12, <1>13, <1>14, <1>15, <1>16, Zenon DEF Next, PushStep

\* What is applied was published, and stays so.
LEMMA StepDelivered == FolderInv /\ [Next]_vars => Delivered'
<1> SUFFICES ASSUME FolderInv, [Next]_vars PROVE Delivered'
  OBVIOUS
<1>1. CASE UNCHANGED got
  BY <1>1, SegmentsGrow, Zenon DEF FolderInv, Delivered
<1>2. ASSUME NEW d \in Device, Pull(d), got' # got PROVE Delivered'
  <2>1. PICK k \in 1..BatchSize : \E ops \in [1..k -> Op] :
            IsPage(d, ops) /\ got' = [got EXCEPT ![d] = @ \o ops]
    BY <1>2, Zenon DEF Pull
  <2>2. PICK ops \in [1..k -> Op] :
            IsPage(d, ops) /\ got' = [got EXCEPT ![d] = @ \o ops]
    BY <2>1, Zenon
  <2>3. k \in Nat /\ ops \in Seq(Op) /\ Len(ops) = k
    BY FolderAssumption, EntriesAreSeq
  <2>4. got \in [Device -> Seq(Op)] /\ Len(got[d]) \in Nat
    BY DEF FolderInv, TypeOK
  <2>5. \A i \in 1..k : Published(Len(got[d]) + i, ops[i])
    BY <2>2, <2>3, Zenon DEF IsPage
  <2>6. ASSUME NEW i \in 1..Len(got[d] \o ops)
        PROVE  Published(i, (got[d] \o ops)[i])
    <3>1. CASE i \in 1..Len(got[d])
      <4>1. (got[d] \o ops)[i] = got[d][i]
        BY <2>3, <2>4, <3>1, CatProperties
      <4> QED
        BY <3>1, <4>1, Zenon DEF FolderInv, Delivered
    <3>2. CASE i \notin 1..Len(got[d])
      <4> DEFINE j == i - Len(got[d])
      <4>1. got[d] \in Seq(Op) /\ ops \in Seq(Op)
        BY <2>3, <2>4, Zenon
      <4>2. Len(got[d] \o ops) = Len(got[d]) + Len(ops)
        BY <4>1, CatProperties
      <4>3. j \in 1..Len(ops) /\ i = Len(got[d]) + j
        BY <2>3, <2>4, <3>2, <4>2
      <4> HIDE DEF j
      <4>4. (got[d] \o ops)[i] = ops[j]
        BY <4>1, <4>3, CatProperties
      <4> QED
        BY <2>3, <2>5, <4>3, <4>4, Zenon
    <3> QED
      BY <3>1, <3>2, Zenon
  <2>7. ASSUME NEW e \in Device, NEW i \in 1..Len(got'[e])
        PROVE  Published(i, got'[e][i])
    <3>1. CASE e = d
      BY <2>2, <2>4, <2>6, <3>1, Zenon
    <3>2. CASE e # d
      BY <2>2, <2>4, <3>2, Zenon DEF FolderInv, Delivered
    <3> QED
      BY <3>1, <3>2, Zenon
  <2> QED
    BY <2>7, SegmentsGrow, Zenon DEF Delivered
<1> QED
  BY <1>1, <1>2, Zenon
     DEF Next, PushStep, vars, durable, Age, BeginPush, Acquire,
         FindAged, Steal, LockTimeout, ReadManifest, CheckRange, WriteSegment,
         WriteManifest, Release, MarkPushed, Fail, Crash

\* The numbering stays dense.
LEMMA StepDense == FolderInv /\ [Next]_vars => DenseSegments'
<1> SUFFICES ASSUME FolderInv, [Next]_vars PROVE DenseSegments'
  OBVIOUS
<1>1. CASE UNCHANGED <<latest, segments>>
  BY <1>1, SegmentsGrow, Zenon DEF FolderInv, DenseSegments, EndOf
<1>2. ASSUME NEW d \in Device, WriteSegment(d) PROVE DenseSegments'
  <2>1. /\ start[d] \in Nat \ {0} /\ Claim(d).start = start[d]
        /\ EndOf(Claim(d)) \in Nat
    BY <1>2, ClaimType DEF WriteSegment
  <2>2. \A n \in 1..(start[d] - 1) : Numbered(n)'
    BY <1>2, SegmentsGrow, Zenon
       DEF WriteSegment, FolderInv, WriterOK, FollowsPublished
  <2>3. \A n \in start[d]..EndOf(Claim(d)) : Numbered(n)'
    BY <1>2, <2>1 DEF WriteSegment, Numbered, EndOf
  <2>4. \A n \in 1..EndOf(Claim(d)) : Numbered(n)'
    BY <2>1, <2>2, <2>3
  <2>5. latest' = latest /\ segments' = segments \cup {Claim(d)}
    BY <1>2, Zenon DEF WriteSegment
  <2>6. \A s \in segments' : \A n \in 1..EndOf(s) : Numbered(n)'
    BY <2>4, <2>5, SegmentsGrow, Zenon DEF FolderInv, DenseSegments
  <2>7. \A n \in 1..latest' : Numbered(n)'
    BY <2>5, SegmentsGrow, Zenon DEF FolderInv, DenseSegments
  <2> QED
    BY <2>6, <2>7, Zenon DEF DenseSegments, EndOf
<1>3. ASSUME NEW d \in Device, WriteManifest(d) PROVE DenseSegments'
  <2>1. Claim(d) \in segments /\ segments' = segments
        /\ latest' = EndOf(Claim(d))
    BY <1>3, Zenon DEF WriteManifest, FolderInv, WriterOK
  <2> QED
    BY <2>1, SegmentsGrow, Zenon DEF FolderInv, DenseSegments, EndOf
<1> QED
  BY <1>1, <1>2, <1>3, Zenon
     DEF Next, PushStep, vars, folder, Age, BeginPush,
         Acquire, FindAged, Steal, LockTimeout, ReadManifest, CheckRange,
         Release, MarkPushed, Fail, Crash, Pull

\* A row marked as pushed is published.
LEMMA StepSent == FolderInv /\ [Next]_vars => SentPublished'
<1> SUFFICES ASSUME FolderInv, [Next]_vars PROVE SentPublished'
  OBVIOUS
<1>1. CASE UNCHANGED sent
  BY <1>1, SegmentsGrow, Zenon DEF FolderInv, SentPublished
<1>2. ASSUME NEW d \in Device, MarkPushed(d) PROVE SentPublished'
  <2> DEFINE new == [i \in 1..Len(batch[d]) |-> start[d] + i - 1]
  <2>1. /\ start[d] \in Nat \ {0} /\ batch[d] \in Seq(Op)
        /\ Len(batch[d]) \in Nat
    BY <1>2, ClaimType, Zenon DEF MarkPushed
  <2>2. new \in [1..Len(batch[d]) -> Nat]
    BY <2>1
  <2>3. new \in Seq(Nat) /\ Len(new) = Len(batch[d])
    BY <2>1, <2>2, EntriesAreSeq
  <2>4. \A i \in 1..Len(new) : new[i] = start[d] + i - 1
    BY <2>3, Zenon
  <2>5. sent \in [Device -> Seq(Nat)] /\ Len(sent[d]) \in Nat
    BY DEF FolderInv, TypeOK
  <2>6. ASSUME NEW i \in 1..Len(new)
        PROVE  Published(new[i], Outbox[d][Len(sent[d]) + i])
    <3>1. Claim(d) \in segments
      BY <1>2, Zenon DEF MarkPushed, FolderInv, WriterOK
    <3>2. batch[d][i] = Outbox[d][Len(sent[d]) + i]
      BY <1>2, <2>3, Zenon DEF MarkPushed, FolderInv, WriterOK, PendingBatch
    <3>3. Entry(Claim(d), start[d] + i - 1, batch[d][i])
      <4>1. /\ Claim(d).start = start[d] /\ Claim(d).ops = batch[d]
            /\ EndOf(Claim(d)) = start[d] + Len(batch[d]) - 1
        BY <1>2, ClaimType, Zenon DEF MarkPushed
      <4>2. start[d] + i - 1 - start[d] + 1 = i /\ i <= Len(batch[d]) /\ 1 <= i
        BY <2>1, <2>3
      <4> QED
        BY <2>1, <4>1, <4>2 DEF Entry
    <3> QED
      BY <2>4, <3>1, <3>2, <3>3, Zenon DEF Published
  <2> HIDE DEF new
  <2>7. sent' = [sent EXCEPT ![d] = @ \o new]
    BY <1>2, Zenon DEF MarkPushed, new
  <2>8. ASSUME NEW i \in 1..Len(sent[d] \o new)
        PROVE  Published((sent[d] \o new)[i], Outbox[d][i])
    <3>1. CASE i \in 1..Len(sent[d])
      <4>1. (sent[d] \o new)[i] = sent[d][i]
        BY <2>3, <2>5, <3>1, CatProperties
      <4> QED
        BY <3>1, <4>1, Zenon DEF FolderInv, SentPublished
    <3>2. CASE i \notin 1..Len(sent[d])
      <4> DEFINE j == i - Len(sent[d])
      <4>1. sent[d] \in Seq(Nat) /\ new \in Seq(Nat)
        BY <2>3, <2>5, Zenon
      <4>2. Len(sent[d] \o new) = Len(sent[d]) + Len(new)
        BY <4>1, CatProperties
      <4>3. j \in 1..Len(new) /\ i = Len(sent[d]) + j
        BY <2>3, <2>5, <3>2, <4>2
      <4> HIDE DEF j
      <4>4. (sent[d] \o new)[i] = new[j]
        BY <4>1, <4>3, CatProperties
      <4> QED
        BY <2>6, <4>3, <4>4, Zenon
    <3> QED
      BY <3>1, <3>2, Zenon
  <2>9. ASSUME NEW e \in Device, NEW i \in 1..Len(sent'[e])
        PROVE  Published(sent'[e][i], Outbox[e][i])
    <3>1. CASE e = d
      BY <2>5, <2>7, <2>8, <3>1, Zenon
    <3>2. CASE e # d
      BY <2>5, <2>7, <3>2, Zenon DEF FolderInv, SentPublished
    <3> QED
      BY <3>1, <3>2, Zenon
  <2> QED
    BY <2>9, SegmentsGrow, Zenon DEF SentPublished
<1> QED
  BY <1>1, <1>2, Zenon
     DEF Next, PushStep, vars, durable, Age, BeginPush, Acquire,
         FindAged, Steal, LockTimeout, ReadManifest, CheckRange, WriteSegment,
         WriteManifest, Release, Fail, Crash, Pull

\* No number is published twice while the lock protects the writers.
LEMMA StepUnique == FolderInv /\ [Next]_vars => (~slow => UniqueNumbers)'
<1> SUFFICES ASSUME FolderInv, [Next]_vars, ~slow' PROVE UniqueNumbers'
  OBVIOUS
<1>1. ~slow /\ UniqueNumbers
  <2>1. Age \/ slow' = slow
    BY Zenon DEF Next, PushStep, vars, history, BeginPush, Acquire, FindAged,
         Steal, LockTimeout, ReadManifest, CheckRange, WriteSegment,
         WriteManifest, Release, MarkPushed, Fail, Crash, Pull
  <2>2. ~slow
    BY <2>1, Zenon DEF Age
  <2> QED
    BY <2>2, Zenon DEF FolderInv
<1>2. CASE UNCHANGED segments
  BY <1>1, <1>2, Zenon DEF UniqueNumbers, EndOf
<1>3. ASSUME NEW d \in Device, WriteSegment(d) PROVE UniqueNumbers'
  <2>1. segments' = segments \cup {Claim(d)} /\ pc[d] = "segment"
    BY <1>3, Zenon DEF WriteSegment
  <2>2. Claim(d).start = start[d] /\ start[d] \in Nat /\ EndOf(Claim(d)) \in Nat
    BY <2>1, ClaimType
  <2>3. ~RangeClaimed(d)
    BY <1>1, <2>1, Zenon DEF FolderInv, RangeOK
  <2>4. \A s \in segments : s.start \in Nat /\ EndOf(s) \in Int
    BY DEF FolderInv, TypeOK, EndOf
  <2>5. \A s \in segments : EndOf(s) < start[d] \/ EndOf(Claim(d)) < s.start
    BY <2>2, <2>3, <2>4 DEF RangeClaimed
  <2> HIDE DEF Claim
  <2>6. \A s, t \in segments \cup {Claim(d)} :
            s # t => EndOf(s) < t.start \/ EndOf(t) < s.start
    BY <1>1, <2>2, <2>5, Zenon DEF UniqueNumbers
  <2> QED
    BY <2>1, <2>6, Zenon DEF UniqueNumbers, EndOf
<1> QED
  BY <1>2, <1>3, Zenon
     DEF Next, PushStep, vars, folder, Age, BeginPush, Acquire,
         FindAged, Steal, LockTimeout, ReadManifest, CheckRange, WriteManifest,
         Release, MarkPushed, Fail, Crash, Pull

-----------------------------------------------------------------------------
(***************************************************************************)
(* The theorems.                                                           *)
(***************************************************************************)
\* The invariant holds of every behaviour.
THEOREM Invariance == Spec => []FolderInv
<1>1. FolderInv /\ [Next]_vars => FolderInv'
  BY StepType, StepMutex, StepWriter, StepRange, StepDelivered, StepDense,
     StepSent, StepUnique, Zenon DEF FolderInv
<1> QED
  BY <1>1, InitInv, PTL DEF Spec

\* The published numbers are dense, wherever writers die and however they
\* overlap: a reader never waits for a number that nobody will publish.
THEOREM DenseSegmentsHolds == Spec => []DenseSegments
<1>1. FolderInv => DenseSegments
  BY Zenon DEF FolderInv
<1> QED
  BY <1>1, Invariance, PTL

\* A row that left the outbox is in the folder under the recorded number.
THEOREM SentPublishedHolds == Spec => []SentPublished
<1>1. FolderInv => SentPublished
  BY Zenon DEF FolderInv
<1> QED
  BY <1>1, Invariance, PTL

\* Devices that apply disjoint published ranges in order agree.
LEMMA UniqueAgree ==
    ASSUME FolderInv, UniqueNumbers PROVE Agreement
<1> SUFFICES ASSUME NEW d \in Device, NEW e \in Device,
                    NEW i \in 1..Len(got[d]), i <= Len(got[e])
             PROVE  got[d][i] = got[e][i]
  BY Zenon DEF Agreement
<1>1. i \in Nat /\ i \in 1..Len(got[e])
  BY DEF FolderInv, TypeOK
<1>2. PICK s \in segments : Entry(s, i, got[d][i])
  BY Zenon DEF FolderInv, Delivered, Published
<1>3. PICK t \in segments : Entry(t, i, got[e][i])
  BY <1>1, Zenon DEF FolderInv, Delivered, Published
<1>4. s = t
  <2>1. \A r \in segments : r.start \in Nat /\ EndOf(r) \in Int
    BY SMTT(40) DEF FolderInv, TypeOK, EndOf
  <2>2. s.start <= i /\ i <= EndOf(s) /\ t.start <= i /\ i <= EndOf(t)
    BY <1>2, <1>3, Zenon DEF Entry
  <2> QED
    BY <1>1, <2>1, <2>2 DEF UniqueNumbers
<1> QED
  BY <1>2, <1>3, <1>4, Zenon DEF Entry

\* As long as no lock file is taken for an abandoned one, numbers are unique
\* and all devices apply the same sequence, whatever writer fails or dies.
THEOREM LockedSafetyHolds == Spec => []LockedSafety
<1>1. FolderInv => LockedSafety
  BY UniqueAgree, Zenon DEF FolderInv, LockedSafety
<1> QED
  BY <1>1, Invariance, PTL
=============================================================================
