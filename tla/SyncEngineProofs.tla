-------------------------- MODULE SyncEngineProofs --------------------------
(***************************************************************************)
(* The inductive invariant of SyncEngine, the safety properties it yields, *)
(* and that SyncEngine implements ReplicatedLog, for any number of         *)
(* devices, workers and operations and any batch size.                     *)
(***************************************************************************)
EXTENDS SyncEngineLemmas, SyncLog

USE DEF SeqMap, OpsOf, NoOps

-----------------------------------------------------------------------------
(***************************************************************************)
(* The invariant is inductive.                                             *)
(***************************************************************************)
LEMMA InvInit == Init => Inv
  <1> SUFFICES ASSUME Init PROVE Inv
    OBVIOUS
  <1>1. TypeOK
    BY TypeInit, Zenon
  <1>2. Stored
    <2>1. DenseLog /\ OutboxOK /\ PushedDurable /\ AuthorOrder /\ CausalLog
      BY DEF Init, DenseLog, OutboxOK, PushedDurable, AuthorOrder, CausalLog
    <2>2. NotesOK
      BY ConstantsAssumption, Zenon DEF Init, NotesOK
    <2>3. AppliedPrefix /\ OnlyVerificationRejects
      BY DEF Init, AppliedPrefix, OnlyVerificationRejects
    <2> QED
      BY <2>1, <2>2, <2>3, Zenon DEF Stored
  <1>3. Remembered
    BY DEF Init, Remembered, RequestsOK, RequestOK, AnswersOK, NoRefusal, NoReject
  <1> QED
    BY <1>1, <1>2, <1>3, InvHalves, Zenon

\* A local commit takes a row after all earlier ones and needs the note.
LEMMA CommitInv ==
    ASSUME Inv, NEW o \in Op, Commit(o), TypeOK'
    PROVE  Stored' /\ Remembered'
  <1> DEFINE d == Author[o]
  <1>1. PICK n \in 1..Cardinality(Op) : NextRow(d, n) /\ row' = [row EXCEPT ![o] = n]
    BY Zenon DEF Commit
  <1>2. /\ row \in SeqMap /\ notes \in [Device -> SUBSET Op] /\ d \in Device
        /\ seqOf \in SeqMap /\ Cardinality(Op) \in Nat
        /\ \A q \in Op : Target[q] \in Op /\ Target[q] \in BodyOp
        /\ \A q \in Op : Author[q] \in Device
    BY ConstantsAssumption, Zenon DEF Inv, TypeOK
  <1>3. /\ row[o] = 0
        /\ Target[o] = o \/ Target[o] \in notes[d]
        /\ notes' = [notes EXCEPT ![d] = @ \cup {Target[o]}]
        /\ UNCHANGED <<members, latest, seqOf, sentSeq, directory, cursor, applied,
                       inbox, pc, from, answer, bad, batch, late>>
    BY Zenon DEF Commit, serverVars, workerVars
  <1>4. n \in Nat /\ n # 0 /\ \A q \in Op : Author[q] = d => row[q] < n
    BY <1>1, <1>2 DEF NextRow, Committed
  <1>5. \A q \in Op : row'[q] = IF q = o THEN n ELSE row[q]
    BY <1>1, <1>2, Zenon
  <1>6. seqOf[o] = 0
    BY <1>3, Zenon DEF Inv, OutboxOK
  <1>7. OutboxOK'
    BY <1>2, <1>3, <1>4, <1>5 DEF Inv, OutboxOK
  <1>8. AuthorOrder'
    BY <1>2, <1>3, <1>4, <1>5, <1>6 DEF Inv, AuthorOrder
  <1>9. NotesOK'
    <2>1. \A e \in Device : notes'[e] = IF e = d THEN notes[e] \cup {Target[o]}
                                                 ELSE notes[e]
      BY <1>2, <1>3, Zenon
    <2>2. \/ Target[o] = o
          \/ seqOf[Target[o]] # 0
          \/ Author[Target[o]] = d /\ row[Target[o]] # 0
      BY <1>2, <1>3, Zenon DEF Inv, NotesOK
    <2>3. \A e \in Device, t \in Op :
             t \in notes'[e] => seqOf[t] # 0 \/ (Author[t] = e /\ row'[t] # 0)
      <3> SUFFICES ASSUME NEW e \in Device, NEW t \in Op, t \in notes'[e]
                   PROVE  seqOf[t] # 0 \/ (Author[t] = e /\ row'[t] # 0)
        OBVIOUS
      <3>1. CASE t \in notes[e]
        BY <1>4, <1>5, <3>1, Zenon DEF Inv, NotesOK
      <3>2. CASE e = d /\ t = Target[o]
        BY <1>4, <1>5, <2>2, <3>2, Zenon
      <3> QED
        BY <2>1, <3>1, <3>2, Zenon
    <2>4. \A e \in Device, q \in BodyOp :
             applied[e][q] # 0 => Target[q] \in notes'[e]
      BY <2>1, Zenon DEF Inv, NotesOK
    <2>5. ASSUME NEW q \in Op, row'[q] # 0
          PROVE  \/ Target[q] = q
                 \/ seqOf[Target[q]] # 0
                 \/ /\ Author[Target[q]] = Author[q]
                    /\ row'[Target[q]] # 0
                    /\ row'[Target[q]] < row'[q]
      <3>1. CASE q = o
        BY <1>2, <1>4, <1>5, <2>2, <3>1, Zenon
      <3>2. CASE q # o
        <4>1. \/ Target[q] = q
              \/ seqOf[Target[q]] # 0
              \/ /\ Author[Target[q]] = Author[q]
                 /\ row[Target[q]] # 0
                 /\ row[Target[q]] < row[q]
          BY <1>5, <2>5, <3>2, Zenon DEF Inv, NotesOK
        <4> QED
          BY <1>2, <1>3, <1>5, <3>2, <4>1, Zenon
      <3> QED
        BY <3>1, <3>2, Zenon
    <2> QED
      BY <1>3, <2>3, <2>4, <2>5, Zenon DEF NotesOK
  <1>10. Stored'
    <2>1. DenseLog' /\ PushedDurable' /\ CausalLog' /\ AppliedPrefix'
          /\ OnlyVerificationRejects'
      BY <1>3, Zenon DEF Inv, DenseLog, PushedDurable, CausalLog, AppliedPrefix,
                  OnlyVerificationRejects
    <2> QED
      BY <1>7, <1>8, <1>9, <2>1, Zenon DEF Stored
  <1>11. \A B \in SUBSET Op : RequestOK(B) => RequestOK(B)'
    <2> SUFFICES ASSUME NEW B \in SUBSET Op, RequestOK(B) PROVE RequestOK(B)'
      OBVIOUS
    <2>1. o \notin B
      BY <1>3, Zenon DEF RequestOK
    <2>2. \A q \in B : row'[q] = row[q] /\ row[q] # 0
      BY <1>5, <2>1, Zenon DEF RequestOK
    <2>3. ASSUME NEW q \in B, NEW x \in Op, Author[x] = Author[q], row'[x] # 0,
                 row'[x] < row'[q]
          PROVE  x \in B \/ seqOf[x] # 0
      <3>1. x # o
        BY <1>2, <1>4, <1>5, <2>2, <2>3
      <3> QED
        BY <1>5, <2>2, <2>3, <3>1, Zenon DEF RequestOK
    <2> QED
      BY <1>3, <2>2, <2>3, Zenon DEF RequestOK
  <1>12. RequestsOK'
    BY <1>3, <1>11, Zenon DEF Inv, RequestsOK, TypeOK
  <1>13. AnswersOK' /\ NoRefusal'
    <2>1. \A a, b : PullChanges(a, b)' = PullChanges(a, b)
      BY <1>3, Zenon DEF PullChanges
    <2> QED
      BY <1>3, <2>1, Zenon DEF Inv, AnswersOK, NoRefusal
  <1> QED
    BY <1>10, <1>12, <1>13, Zenon DEF Remembered

\* Applying a page rejects an operation, gives up or commits; with the
\* invariant only an unverifiable operation is rejected.
LEMMA ApplyInv ==
    ASSUME Inv, NEW w \in Worker, ApplyPage(w)
    PROVE  Stored' /\ Remembered'
  <1> DEFINE d == Host(w)
             page == answer[w]
  <1>0. /\ TypeOK /\ Stored /\ Remembered /\ pc[w] = "apply"
        /\ UNCHANGED <<members, latest, seqOf>>
    BY InvHalves, Zenon DEF ApplyPage, serverVars
  <1>1. CASE \E o \in Op : Reject(w, o, "verification_failed")
    <2>1. PICK o \in Op : Reject(w, o, "verification_failed")
      BY <1>1, Zenon
    <2>2. /\ UNCHANGED <<row, sentSeq, notes, directory, cursor, applied, inbox,
                         from, answer, batch, late>>
          /\ \A v \in Worker \ {w} : pc'[v] = pc[v] /\ bad'[v] = bad[v]
          /\ pc'[w] = "quarantine" /\ bad'[w].class = "verification_failed"
      BY <1>0, <2>1, Zenon DEF Reject, storeVars, TypeOK
    <2>3. RequestOK(batch[w]) /\ from[w] <= latest
      BY <1>0, Zenon DEF Remembered, RequestsOK, AnswersOK
    <2>4. Remembered'
      BY <1>0, <2>2, <2>3, OneWorkerRemembered, Zenon
    <2> QED
      BY <1>0, <2>2, <2>4, StoredFrame, Zenon
  <1>2. CASE Return({w}, "wait") /\ UNCHANGED storeVars
    <2>1. {w} \in SUBSET Worker /\ "wait" \in Phase \ {"apply", "mark"}
      BY Zenon DEF Phase
    <2>2. UNCHANGED <<row, sentSeq, notes, cursor, applied, inbox>>
      BY <1>2, Zenon DEF storeVars
    <2> QED
      BY <1>0, <1>2, <2>1, <2>2, ReturnRemembered, StoredFrame, Zenon
  <1>3. CASE CursorMatches(d, page) /\ CommitPage(w, d, page)
    <2>1. Stored' /\ from'[w] \in Nat /\ from'[w] <= latest
      BY <1>0, <1>3, CommitStored, Zenon DEF serverVars
    <2>2. /\ UNCHANGED <<row, bad, batch, late>>
          /\ \A v \in Worker \ {w} : /\ pc'[v] = pc[v] /\ from'[v] = from[v]
                                     /\ answer'[v] = answer[v]
          /\ pc'[w] \in {"pull", "push"}
      BY <1>0, <1>3, Zenon DEF CommitPage, TypeOK
    <2>3. RequestOK(batch[w]) /\ bad[w].class = "verification_failed"
      BY <1>0, Zenon DEF Remembered, RequestsOK, NoRefusal
    <2>4. Remembered'
      BY <1>0, <2>1, <2>2, <2>3, OneWorkerRemembered, Zenon
    <2> QED
      BY <2>1, <2>4, Zenon
  <1>4. \/ \E o \in Op : Reject(w, o, "verification_failed")
        \/ Return({w}, "wait") /\ UNCHANGED storeVars
        \/ CursorMatches(d, page) /\ CommitPage(w, d, page)
    <2>1. CursorMatches(d, page) => Refused(d, page) = {}
      BY <1>0, NothingRefused, Zenon
    <2> QED
      BY <2>1, Zenon DEF ApplyPage
  <1> QED
    BY <1>1, <1>2, <1>3, <1>4, Zenon

\* The batch Pending returns leaves out no older operation: what is not
\* pending has been numbered.
LEMMA BatchIsRequest ==
    ASSUME Inv, NEW e \in Device, NEW B \in SUBSET PendingOps(e), IsBatch(e, B)
    PROVE  RequestOK(B)
  <1>1. \A q \in B : q \in Op /\ Author[q] = e /\ row[q] # 0
    BY Zenon DEF PendingOps, Committed
  <1>2. row \in SeqMap /\ sentSeq \in SeqMap
    BY Zenon DEF Inv, TypeOK
  <1>3. ASSUME NEW q \in B, NEW o \in Op, Author[o] = Author[q], row[o] # 0,
               row[o] < row[q]
        PROVE  o \in B \/ seqOf[o] # 0
    <2>1. CASE sentSeq[o] # 0
      BY <2>1, Zenon DEF Inv, PushedDurable
    <2>2. CASE sentSeq[o] = 0
      <3>1. o \in PendingOps(e)
        BY <1>1, <1>3, <2>2, Zenon DEF PendingOps, Committed
      <3>2. o \notin B => row[q] < row[o]
        BY <3>1, Zenon DEF IsBatch
      <3> QED
        BY <1>1, <1>2, <1>3, <3>2
    <2> QED
      BY <2>1, <2>2, Zenon
  <1> QED
    BY <1>1, <1>3, Zenon DEF RequestOK

\* The marked rows carry the numbers of the log.
LEMMA MarkInv ==
    ASSUME Inv, NEW w \in Worker, MarkPushed(w)
    PROVE  Stored' /\ Remembered'
  <1>0. TypeOK /\ Stored /\ Remembered /\ pc[w] = "mark"
    BY InvHalves, Zenon DEF MarkPushed
  <1>1. /\ UNCHANGED <<latest, seqOf, row, notes, cursor, applied, inbox>>
        /\ sentSeq' = [o \in Op |-> IF o \in OpsOf(answer[w]) THEN answer[w][o]
                                                              ELSE sentSeq[o]]
    BY Zenon DEF MarkPushed, serverVars
  <1>2. \A o \in Op : answer[w][o] \in {0, seqOf[o]}
    BY <1>0, Zenon DEF Remembered, AnswersOK
  <1>3. PushedDurable'
    BY <1>0, <1>1, <1>2, Zenon DEF Stored, PushedDurable
  <1>4. Stored'
    BY <1>0, <1>1, <1>3
    DEF Stored, DenseLog, OutboxOK, AuthorOrder, NotesOK, CausalLog,
        AppliedPrefix, OnlyVerificationRejects
  <1>5. CASE Cardinality(OpsOf(answer[w])) = BatchSize
    <2>1. /\ pc' = [pc EXCEPT ![w] = "push"]
          /\ answer' = [answer EXCEPT ![w] = NoOps]
          /\ batch' = [batch EXCEPT ![w] = {}]
          /\ UNCHANGED <<from, bad, late>>
      BY <1>5, Zenon DEF MarkPushed
    <2>2. /\ \A v \in Worker \ {w} : /\ pc'[v] = pc[v] /\ answer'[v] = answer[v]
                                     /\ batch'[v] = batch[v]
          /\ pc'[w] = "push" /\ batch'[w] = {}
      BY <1>0, <2>1, Zenon DEF TypeOK
    <2>3. RequestOK({}) /\ from[w] <= latest /\ bad[w].class = "verification_failed"
      BY <1>0, Zenon DEF RequestOK, Remembered, AnswersOK, NoRefusal
    <2>4. Remembered'
      BY <1>0, <1>1, <2>1, <2>2, <2>3, OneWorkerRemembered, Zenon
    <2> QED
      BY <1>4, <2>4, Zenon
  <1>6. CASE Cardinality(OpsOf(answer[w])) # BatchSize
    <2>1. Return({w}, "wait")
      BY <1>6, Zenon DEF MarkPushed
    <2>2. {w} \in SUBSET Worker /\ "wait" \in Phase \ {"apply", "mark"}
      BY Zenon DEF Phase
    <2>3. Remembered'
      BY <1>0, <1>1, <2>1, <2>2, ReturnRemembered, Zenon
    <2> QED
      BY <1>4, <2>3, Zenon
  <1> QED
    BY <1>5, <1>6, Zenon

\* A step that ends some worker's SyncOnce and stores nothing.
LEMMA ReturnInv ==
    ASSUME Inv, NEW W \in SUBSET Worker, NEW phase \in Phase \ {"apply", "mark"},
           Return(W, phase), UNCHANGED <<serverVars, storeVars>>
    PROVE  Stored' /\ Remembered'
  <1>1. UNCHANGED <<latest, seqOf, row, sentSeq, notes, cursor, applied, inbox>>
    BY Zenon DEF serverVars, storeVars
  <1> QED
    BY <1>1, InvHalves, ReturnRemembered, StoredFrame, Zenon

\* A pulled page is a slice of the log after the worker's cursor.
LEMMA PullInv ==
    ASSUME Inv, NEW w \in Worker, Pull(w)
    PROVE  Stored' /\ Remembered'
  <1>0. TypeOK /\ Stored /\ Remembered
    BY InvHalves, Zenon
  <1>1. PICK to \in PageEnds(from[w]) :
           LET page == PullChanges(from[w], to) IN
           IF ValidatePullPage(from[w], page)
             THEN /\ answer' = [answer EXCEPT ![w] = page]
                  /\ pc' = [pc EXCEPT ![w] = IF OpsOf(page) = {} THEN "push"
                                                                ELSE "apply"]
                  /\ UNCHANGED <<from, bad, batch, late>>
             ELSE Return({w}, "wait")
    BY Zenon DEF Pull
  <1>2. UNCHANGED <<serverVars, storeVars>>
    BY Zenon DEF Pull
  <1> DEFINE page == PullChanges(from[w], to)
  <1>3. CASE ValidatePullPage(from[w], page)
    <2>1. /\ answer' = [answer EXCEPT ![w] = page]
          /\ pc' = [pc EXCEPT ![w] = IF OpsOf(page) = {} THEN "push" ELSE "apply"]
          /\ UNCHANGED <<from, bad, batch, late>>
      BY <1>1, <1>3, Zenon
    <2>2. /\ UNCHANGED <<latest, seqOf, row, sentSeq, notes, cursor, applied, inbox>>
          /\ \A v \in Worker \ {w} : pc'[v] = pc[v] /\ answer'[v] = answer[v]
          /\ answer'[w] = page
          /\ pc'[w] = IF OpsOf(page) = {} THEN "push" ELSE "apply"
      BY <1>0, <1>2, <2>1, Zenon DEF serverVars, storeVars, TypeOK
    <2>3. from[w] \in Nat /\ latest \in Nat /\ to \in from[w]..latest
          /\ seqOf \in SeqMap
      BY <1>0, <1>1, Zenon DEF TypeOK, PageEnds
    <2>4. ASSUME pc'[w] = "apply"
          PROVE  to \in (from[w] + 1)..latest
      <3>1. PICK o \in Op : page[o] # 0
        BY <2>2, <2>4, Zenon
      <3>2. from[w] < seqOf[o] /\ seqOf[o] <= to
        BY <3>1, Zenon DEF PullChanges
      <3> QED
        BY <2>3, <3>2
    <2>5. /\ RequestOK(batch[w]) /\ from[w] <= latest
          /\ bad[w].class = "verification_failed"
      BY <1>0, Zenon DEF Remembered, RequestsOK, AnswersOK, NoRefusal
    <2>6. pc'[w] = "apply" =>
             \E t \in (from[w] + 1)..latest : answer'[w] = PullChanges(from[w], t)
      BY <2>2, <2>4, Zenon
    <2>7. pc'[w] # "mark"
      BY <2>2, Zenon
    <2>8. Remembered'
      <3> HIDE DEF page
      <3> QED
        BY <1>0, <2>1, <2>2, <2>5, <2>6, <2>7, OneWorkerRemembered, Zenon
    <2> QED
      BY <1>0, <2>2, <2>8, StoredFrame, Zenon
  <1>4. CASE ~ValidatePullPage(from[w], page)
    <2>1. Return({w}, "wait")
      BY <1>1, <1>4, Zenon
    <2>2. {w} \in SUBSET Worker /\ "wait" \in Phase \ {"apply", "mark"}
      BY Zenon DEF Phase
    <2> QED
      BY <1>2, <2>1, <2>2, ReturnInv, Zenon
  <1> QED
    BY <1>3, <1>4, Zenon

\* The server serves a worker's request and the worker hears the numbers.
LEMMA PushInv ==
    ASSUME Inv, NEW w \in Worker, Push(w)
    PROVE  Stored' /\ Remembered'
  <1>0. /\ TypeOK /\ batch[w] \in SUBSET Op /\ RequestOK(batch[w])
        /\ PushOperations(batch[w])
    BY Zenon DEF Inv, TypeOK, RequestsOK, Push
  <1>1. /\ UNCHANGED <<row, sentSeq, notes, cursor, applied, inbox, from, bad,
                       batch, late>>
        /\ answer' = [answer EXCEPT ![w] =
                        [o \in Op |-> IF o \in batch[w] THEN seqOf'[o] ELSE 0]]
        /\ pc' = [pc EXCEPT ![w] = "mark"]
    BY Zenon DEF Push, storeVars
  <1>2. /\ DenseLog' /\ OutboxOK' /\ PushedDurable' /\ AuthorOrder'
        /\ NotesOK' /\ CausalLog' /\ AppliedPrefix'
        /\ \A C \in SUBSET Op : RequestOK(C) => RequestOK(C)'
    BY <1>0, <1>1, PushKeepsInv, Zenon
  <1>3. Stored'
    BY <1>1, <1>2, Zenon DEF Stored, Inv, OnlyVerificationRejects
  <1>4. RequestsOK'
    BY <1>1, <1>2, Zenon DEF Inv, RequestsOK, TypeOK
  <1>5. NoRefusal'
    BY <1>1, Zenon DEF Inv, NoRefusal
  <1>6. ASSUME NEW v \in Worker
        PROVE  /\ from'[v] <= latest'
               /\ pc'[v] = "apply" =>
                     \E to \in (from'[v] + 1)..latest' :
                         answer'[v] = PullChanges(from[v], to)'
               /\ pc'[v] = "mark" => \A o \in Op : answer'[v][o] \in {0, seqOf'[o]}
    <2>1. CASE v = w
      <3>1. latest <= latest' /\ latest' \in Nat
        BY <1>0, PushExtends, Zenon DEF Inv
      <3>2. pc'[w] = "mark" /\ \A o \in Op : answer'[w][o] \in {0, seqOf'[o]}
        BY <1>0, <1>1, Zenon DEF TypeOK
      <3>3. from'[w] <= latest'
        BY <1>0, <1>1, <3>1 DEF Inv, AnswersOK, TypeOK
      <3> QED
        BY <2>1, <3>2, <3>3, Zenon
    <2>2. CASE v # w
      <3>1. pc'[v] = pc[v] /\ from'[v] = from[v] /\ answer'[v] = answer[v]
        BY <1>0, <1>1, <2>2, Zenon DEF TypeOK
      <3> QED
        BY <1>0, <3>1, PushKeepsAnswers, Zenon
    <2> QED
      BY <2>1, <2>2, Zenon
  <1>7. AnswersOK'
    BY <1>6, Zenon DEF AnswersOK
  <1> QED
    BY <1>3, <1>4, <1>5, <1>7, Zenon DEF Remembered

\* The server serves a request nobody waits for.
LEMMA PushLateInv ==
    ASSUME Inv, NEW B \in late, PushLate(B)
    PROVE  Stored' /\ Remembered'
  <1>0. TypeOK /\ B \in SUBSET Op /\ RequestOK(B) /\ PushOperations(B)
    BY Zenon DEF Inv, TypeOK, RequestsOK, PushLate
  <1>1. /\ UNCHANGED <<row, sentSeq, notes, cursor, applied, inbox, pc, from,
                       answer, bad, batch>>
        /\ late' = late \ {B}
    BY Zenon DEF PushLate, storeVars, workerVars
  <1>2. /\ DenseLog' /\ OutboxOK' /\ PushedDurable' /\ AuthorOrder'
        /\ NotesOK' /\ CausalLog' /\ AppliedPrefix'
        /\ \A C \in SUBSET Op : RequestOK(C) => RequestOK(C)'
    BY <1>0, <1>1, PushKeepsInv, Zenon
  <1>3. Stored'
    BY <1>1, <1>2, Zenon DEF Stored, Inv, OnlyVerificationRejects
  <1>4. RequestsOK' /\ NoRefusal'
    BY <1>1, <1>2, Zenon DEF Inv, RequestsOK, TypeOK, NoRefusal
  <1>5. ASSUME NEW v \in Worker
        PROVE  /\ from'[v] <= latest'
               /\ pc'[v] = "apply" =>
                     \E to \in (from'[v] + 1)..latest' :
                         answer'[v] = PullChanges(from[v], to)'
               /\ pc'[v] = "mark" => \A o \in Op : answer'[v][o] \in {0, seqOf'[o]}
    BY <1>0, <1>1, PushKeepsAnswers, Zenon
  <1>6. AnswersOK'
    BY <1>5, Zenon DEF AnswersOK
  <1> QED
    BY <1>3, <1>4, <1>6, Zenon DEF Remembered

LEMMA InvStep == Inv /\ [Next]_vars => Inv'
  <1> SUFFICES ASSUME Inv, [Next]_vars PROVE Inv'
    OBVIOUS
  <1>0. TypeOK /\ Stored /\ Remembered
    BY InvHalves, Zenon
  <1>1. ASSUME NEW o \in Op, Commit(o) PROVE Stored' /\ Remembered'
    <2>1. TypeOK'
      BY <1>0, TypeStep, Zenon
    <2> QED
      BY <1>1, <2>1, CommitInv, Zenon
  <1>2. ASSUME NEW d \in Device, Register(d) PROVE Stored' /\ Remembered'
    <2>1. UNCHANGED <<latest, seqOf, row, sentSeq, notes, cursor, applied, inbox,
                      pc, from, answer, bad, batch, late>>
      BY <1>2, Zenon DEF Register, storeVars, workerVars
    <2>2. Remembered'
      BY <1>0, <2>1 DEF Remembered, RequestsOK, RequestOK, AnswersOK, NoRefusal,
                        PullChanges
    <2> QED
      BY <1>0, <2>1, <2>2, StoredFrame, Zenon
  <1>3. ASSUME NEW d \in Device, Crash(d) PROVE Stored' /\ Remembered'
    <2> DEFINE W == {w \in Worker : Host(w) = d}
    <2>1. /\ W \in SUBSET Worker /\ "off" \in Phase \ {"apply", "mark"}
          /\ Return(W, "off") /\ UNCHANGED <<serverVars, storeVars>>
      BY <1>3, Zenon DEF Crash, Phase
    <2> QED
      BY <2>1, ReturnInv, Zenon
  <1>4. ASSUME NEW w \in Worker,
               \/ Attach(w) \/ Detach(w) \/ Fail(w) \/ CheckBlocked(w)
               \/ PushDone(w) \/ MarkStale(w)
        PROVE  Stored' /\ Remembered'
    <2>1. PICK phase \in {"off", "wait", "exited"} : Return({w}, phase)
      BY <1>4, Zenon DEF Attach, Detach, Fail, CheckBlocked, PushDone, MarkStale
    <2>2. UNCHANGED <<serverVars, storeVars>>
      BY <1>4, Zenon DEF Attach, Detach, Fail, CheckBlocked, PushDone, MarkStale
    <2>3. {w} \in SUBSET Worker /\ phase \in Phase \ {"apply", "mark"}
      BY Zenon DEF Phase
    <2> QED
      BY <2>1, <2>2, <2>3, ReturnInv, Zenon
  <1>5. ASSUME NEW w \in Worker, NEW o \in Op, RetryQuarantined(w, o)
        PROVE  Stored' /\ Remembered'
    <2>1. /\ UNCHANGED <<latest, seqOf, row, sentSeq, notes, cursor, applied,
                         from, answer, bad, batch, late>>
          /\ inbox' = [inbox EXCEPT ![Host(w)][o] = "absent"]
          /\ pc' = [pc EXCEPT ![w] = IF @ \in {"off", "exited"} THEN "wait" ELSE @]
      BY <1>5, Zenon DEF RetryQuarantined, serverVars
    <2>2. \A e \in Device, q \in Op :
             inbox'[e][q] = inbox[e][q] \/ inbox'[e][q] = "absent"
      BY <1>0, <2>1 DEF TypeOK
    <2>3. OnlyVerificationRejects'
      BY <1>0, <2>2, Zenon DEF Stored, OnlyVerificationRejects
    <2>4. Stored'
      BY <1>0, <2>1, <2>3, StoredButInbox, Zenon
    <2>5. \A v \in Worker : pc'[v] \in {"apply", "mark"} => pc'[v] = pc[v]
      BY <1>0, <2>1, Zenon DEF TypeOK
    <2>6. RequestsOK' /\ NoRefusal'
      BY <1>0, <2>1 DEF Remembered, RequestsOK, RequestOK, NoRefusal
    <2>7. \A x, to : PullChanges(x, to)' = PullChanges(x, to)
      BY <2>1, Zenon DEF PullChanges
    <2>8. AnswersOK'
      BY <1>0, <2>1, <2>5, <2>7, Zenon DEF Remembered, AnswersOK
    <2> QED
      BY <2>4, <2>6, <2>8, Zenon DEF Remembered
  <1>6. ASSUME NEW w \in Worker, Start(w) \/ Prepare(w) \/ LoadCursor(w)
        PROVE  Stored' /\ Remembered'
    <2>1. /\ UNCHANGED <<latest, seqOf, row, sentSeq, notes, cursor, applied, inbox,
                         answer, bad, batch, late>>
          /\ \A v \in Worker \ {w} : pc'[v] = pc[v] /\ from'[v] = from[v]
          /\ pc'[w] \in {"prepare", "check", "pull"}
          /\ from'[w] = from[w] \/ from'[w] = cursor[Host(w)]
      BY <1>0, <1>6, Zenon DEF Start, Prepare, LoadCursor, serverVars, storeVars, TypeOK
    <2>2. /\ RequestOK(batch[w]) /\ bad[w].class = "verification_failed"
          /\ from[w] <= latest
      BY <1>0, Zenon DEF Remembered, RequestsOK, NoRefusal, AnswersOK
    <2>3. cursor[Host(w)] <= latest
      BY <1>0, ConstantsAssumption, Zenon DEF Stored, AppliedPrefix, Host
    <2>4. Remembered'
      BY <1>0, <2>1, <2>2, <2>3, OneWorkerRemembered, Zenon
    <2> QED
      BY <1>0, <2>1, <2>4, StoredFrame, Zenon
  <1>7. ASSUME NEW w \in Worker, Quarantine(w) PROVE Stored' /\ Remembered'
    <2>1. /\ UNCHANGED <<latest, seqOf, row, sentSeq, notes, cursor, applied>>
          /\ inbox' = [inbox EXCEPT ![Host(w)] =
                [o \in Op |-> IF o \in bad[w].ops THEN bad[w].class ELSE @[o]]]
          /\ Return({w}, "exited")
      BY <1>7, Zenon DEF Quarantine, serverVars
    <2>2. bad[w].class = "verification_failed"
      BY <1>0, Zenon DEF Remembered, NoRefusal
    <2>3. \A e \in Device, q \in Op :
             inbox'[e][q] = inbox[e][q] \/ inbox'[e][q] = "verification_failed"
      BY <1>0, <2>1, <2>2, Zenon DEF TypeOK
    <2>4. OnlyVerificationRejects'
      BY <1>0, <2>3, Zenon DEF Stored, OnlyVerificationRejects
    <2>5. Stored'
      BY <1>0, <2>1, <2>4, StoredButInbox, Zenon
    <2>6. {w} \in SUBSET Worker /\ "exited" \in Phase \ {"apply", "mark"}
      BY Zenon DEF Phase
    <2>7. Remembered'
      BY <1>0, <2>1, <2>6, ReturnRemembered, Zenon
    <2> QED
      BY <2>5, <2>7, Zenon
  <1>8. ASSUME NEW w \in Worker, SendPush(w) PROVE Stored' /\ Remembered'
    <2>1. PICK B \in SUBSET PendingOps(Host(w)) :
             IsBatch(Host(w), B) /\ batch' = [batch EXCEPT ![w] = B]
      BY <1>8, Zenon DEF SendPush
    <2>2. /\ UNCHANGED <<latest, seqOf, row, sentSeq, notes, cursor, applied, inbox,
                         from, answer, bad, late>>
          /\ pc' = [pc EXCEPT ![w] = "sent"]
      BY <1>8, Zenon DEF SendPush, serverVars, storeVars
    <2>3. Host(w) \in Device
      BY ConstantsAssumption, Zenon DEF Host
    <2>4. RequestOK(B)
      BY <2>1, <2>3, BatchIsRequest, Zenon
    <2>5. /\ \A v \in Worker \ {w} : pc'[v] = pc[v] /\ batch'[v] = batch[v]
          /\ pc'[w] = "sent" /\ batch'[w] = B
      BY <1>0, <2>1, <2>2, Zenon DEF TypeOK
    <2>6. bad[w].class = "verification_failed" /\ from[w] <= latest
      BY <1>0, Zenon DEF Remembered, NoRefusal, AnswersOK
    <2>7. Remembered'
      BY <1>0, <2>2, <2>4, <2>5, <2>6, OneWorkerRemembered, Zenon
    <2> QED
      BY <1>0, <2>2, <2>7, StoredFrame, Zenon
  <1>9. ASSUME NEW B \in late, Lose(B) PROVE Stored' /\ Remembered'
    <2>1. /\ UNCHANGED <<latest, seqOf, row, sentSeq, notes, cursor, applied, inbox,
                         pc, from, answer, bad, batch>>
          /\ late' \subseteq late
      BY <1>9, Zenon DEF Lose, serverVars, storeVars, workerVars
    <2>2. Remembered'
      BY <1>0, <2>1 DEF Remembered, RequestsOK, RequestOK, AnswersOK, NoRefusal,
                        PullChanges
    <2> QED
      BY <1>0, <2>1, <2>2, StoredFrame, Zenon
  <1>10. ASSUME UNCHANGED vars PROVE Stored' /\ Remembered'
    <2>1. UNCHANGED <<latest, seqOf, row, sentSeq, notes, cursor, applied, inbox,
                      pc, from, answer, bad, batch, late>>
      BY <1>10, Zenon DEF vars, serverVars, storeVars, workerVars
    <2>2. Remembered'
      BY <1>0, <2>1 DEF Remembered, RequestsOK, RequestOK, AnswersOK, NoRefusal,
                        PullChanges
    <2> QED
      BY <1>0, <2>1, <2>2, StoredFrame, Zenon
  <1>11. Stored' /\ Remembered'
    BY <1>1, <1>2, <1>3, <1>4, <1>5, <1>6, <1>7, <1>8, <1>9, <1>10, PullInv,
       ApplyInv, PushInv, PushLateInv, MarkInv
    DEF Next, WorkerStep
  <1>12. TypeOK'
    BY <1>0, TypeStep, Zenon
  <1> QED
    BY <1>11, <1>12, Zenon DEF Inv, Stored, Remembered

\* The inductive invariant holds in every reachable state.
THEOREM InvHolds == Spec => []Inv
  BY InvInit, InvStep, PTL DEF Spec

\* The device's applied table is the prefix of the server's log up to its
\* cursor, whatever overlaps, crashes or is repeated (AppliedPrefix).
THEOREM AppliedPrefixHolds == Spec => []AppliedPrefix
  BY InvHolds, PTL DEF Inv

\* The log has no gap and no number twice (DenseLog).
THEOREM DenseLogHolds == Spec => []DenseLog
  BY InvHolds, PTL DEF Inv

\* A row marked as pushed is in the log under its recorded number
\* (PushedDurable).
THEOREM PushedDurableHolds == Spec => []PushedDurable
  BY InvHolds, PTL DEF Inv

\* The log keeps each outbox's order and puts a note's creation before its
\* edits (AuthorOrder, CausalLog).
THEOREM OrderHolds == Spec => [](AuthorOrder /\ CausalLog)
  BY InvHolds, PTL DEF Inv

\* Neither op_id_reuse nor apply_failed ever quarantines an operation
\* (OnlyVerificationRejects).
THEOREM OnlyVerificationRejectsHolds == Spec => []OnlyVerificationRejects
  BY InvHolds, PTL DEF Inv

-----------------------------------------------------------------------------
(***************************************************************************)
(* The clients and the server implement ReplicatedLog.                     *)
(***************************************************************************)
LEMMA LogStutters ==
    ASSUME UNCHANGED <<row, latest, seqOf, applied>>
    PROVE  UNCHANGED Log!vars
  BY Zenon DEF Log!vars

\* A local commit issues its operation.
LEMMA CommitIssues ==
    ASSUME TypeOK, NEW o \in Op, Commit(o)
    PROVE  Log!Issue(o)
  <1>1. PICK n \in 1..Cardinality(Op) : row' = [row EXCEPT ![o] = n]
    BY Zenon DEF Commit
  <1>2. n # 0
    BY ConstantsAssumption
  <1>3. OpsOf(row)' = OpsOf(row) \cup {o}
    BY <1>1, <1>2 DEF TypeOK
  <1>4. o \notin OpsOf(row)
    BY Zenon DEF Commit
  <1>5. UNCHANGED <<latest, seqOf, applied>>
    BY Zenon DEF Commit, serverVars
  <1> QED
    BY <1>3, <1>4, <1>5, Zenon DEF Log!Issue

\* Serving a push request appends its new operations, or nothing.
LEMMA PushAppends ==
    ASSUME Inv, NEW B \in SUBSET Op, RequestOK(B), PushOperations(B),
           UNCHANGED <<row, applied>>
    PROVE  \E new \in SUBSET OpsOf(row) : Log!Append(new)
  <1> DEFINE new == {o \in B : seqOf[o] = 0}
  <1>1. PICK k \in 0..Cardinality(Op) : \E s \in Numbering(new, k) :
           /\ seqOf' = [o \in Op |-> IF o \in new THEN s[o] ELSE seqOf[o]]
           /\ latest' = latest + k
    BY Zenon DEF PushOperations
  <1>2. PICK s \in Numbering(new, k) :
           /\ seqOf' = [o \in Op |-> IF o \in new THEN s[o] ELSE seqOf[o]]
           /\ latest' = latest + k
    BY <1>1, Zenon
  <1>3. /\ s \in [new -> (latest + 1)..(latest + k)]
        /\ \A n \in (latest + 1)..(latest + k) : \E o \in new : s[o] = n
    BY <1>2, Zenon DEF Numbering
  <1>4. \A o, q \in new : s[o] = s[q] => o = q
    <2>1. DenseLog' /\ \A o \in B : seqOf'[o] # 0
      BY PushExtends, Zenon DEF Inv
    <2> QED
      BY <1>2, <2>1, Zenon DEF DenseLog
  <1>5. new \in SUBSET OpsOf(row) /\ \A o \in new : seqOf[o] = 0
    BY Zenon DEF RequestOK
  <1>6. UNCHANGED <<OpsOf(row), [d \in Device |-> OpsOf(applied[d])]>>
    OBVIOUS
  <1>7. Log!Cardinality(Op) = Cardinality(Op)
    BY Zenon DEF Cardinality, Log!Cardinality
  <1>8. Log!Append(new)
    <2> HIDE DEF new
    <2> QED
      BY <1>1, <1>2, <1>3, <1>4, <1>5, <1>6, <1>7, Zenon DEF Log!Append
  <1> QED
    BY <1>5, <1>8, Zenon

\* A committed page delivers a longer prefix of the log to its device.
LEMMA CommitPageDelivers ==
    ASSUME Inv, NEW w \in Worker, pc[w] = "apply",
           CursorMatches(Host(w), answer[w]),
           CommitPage(w, Host(w), answer[w]), UNCHANGED serverVars
    PROVE  Log!Deliver(Host(w))
  <1> DEFINE d == Host(w)
             k == cursor'[d]
  <1>1. Stored' /\ k \in Nat /\ k <= latest /\ cursor[d] <= k
    BY CommitStored, Zenon
  <1>2. d \in Device /\ cursor[d] \in Nat /\ seqOf \in SeqMap /\ latest \in Nat
        /\ applied \in [Device -> SeqMap]
    BY ConstantsAssumption, Zenon DEF Inv, TypeOK, Host
  <1>3. UNCHANGED <<row, latest, seqOf>>
    BY Zenon DEF CommitPage, serverVars
  <1>4. \A o \in Op : applied[d][o] = IF seqOf[o] <= cursor[d] THEN seqOf[o] ELSE 0
    BY <1>2, Zenon DEF Inv, AppliedPrefix
  <1>5. \A o \in Op : applied'[d][o] = IF seqOf[o] <= k THEN seqOf[o] ELSE 0
    BY <1>1, <1>2, <1>3, Zenon DEF Stored, AppliedPrefix
  <1>6. \A e \in Device : e # d => applied'[e] = applied[e]
    BY <1>2, Zenon DEF CommitPage
  <1>7. OpsOf(applied[d])' = Log!Prefix(k)
    BY <1>5, Zenon DEF Log!Prefix
  <1>8. OpsOf(applied[d]) \subseteq Log!Prefix(k)
    BY <1>1, <1>2, <1>4 DEF Log!Prefix
  <1>9. k # 0
    <2>1. /\ from[w] = cursor[d]
          /\ \E to \in (from[w] + 1)..latest :
                 answer[w] = PullChanges(from[w], to)
      BY PageFollowsCursor, Zenon
    <2>2. PICK o \in Op : answer[w][o] # 0 /\ cursor' = [cursor EXCEPT ![d] = answer[w][o]]
      BY Zenon DEF CommitPage, IsLast
    <2> QED
      BY <1>2, <2>2, Zenon DEF Inv, TypeOK
  <1>10. [e \in Device |-> OpsOf(applied[e])]' =
            [[e \in Device |-> OpsOf(applied[e])] EXCEPT ![d] = Log!Prefix(k)]
    BY <1>2, <1>6, <1>7, Zenon
  <1>11. k \in 1..latest
    BY <1>1, <1>2, <1>9
  <1> HIDE DEF k
  <1> QED
    BY <1>2, <1>3, <1>8, <1>10, <1>11, Zenon DEF Log!Deliver

\* Every step issues, appends or delivers, or does nothing the log can see.
LEMMA StepImplements ==
    ASSUME Inv, [Next]_vars
    PROVE  [Log!Next]_(Log!vars)
  <1>0. TypeOK
    BY Zenon DEF Inv
  <1>1. ASSUME NEW o \in Op, Commit(o) PROVE Log!Next
    BY <1>0, <1>1, CommitIssues, Zenon DEF Log!Next
  <1>2. ASSUME NEW w \in Worker, Push(w) PROVE Log!Next
    <2>1. /\ batch[w] \in SUBSET Op /\ RequestOK(batch[w])
          /\ PushOperations(batch[w]) /\ UNCHANGED <<row, applied>>
      BY <1>2, Zenon DEF Inv, TypeOK, RequestsOK, Push, storeVars
    <2> QED
      BY <1>0, <2>1, PushAppends, Zenon DEF Log!Next
  <1>3. ASSUME NEW B \in late, PushLate(B) PROVE Log!Next
    <2>1. /\ B \in SUBSET Op /\ RequestOK(B)
          /\ PushOperations(B) /\ UNCHANGED <<row, applied>>
      BY <1>3, Zenon DEF Inv, TypeOK, RequestsOK, PushLate, storeVars
    <2> QED
      BY <1>0, <2>1, PushAppends, Zenon DEF Log!Next
  <1>4. ASSUME NEW w \in Worker, ApplyPage(w) PROVE Log!Next \/ UNCHANGED Log!vars
    <2> DEFINE d == Host(w)
               page == answer[w]
    <2>1. pc[w] = "apply" /\ UNCHANGED serverVars /\ d \in Device
      BY <1>4, ConstantsAssumption, Zenon DEF ApplyPage, Host
    <2>2. \/ \E o \in Op, class \in RejectClass : Reject(w, o, class)
          \/ Return({w}, "wait") /\ UNCHANGED storeVars
          \/ CursorMatches(d, page) /\ CommitPage(w, d, page)
      BY <1>4, Zenon DEF ApplyPage, RejectClass
    <2>3. CASE CursorMatches(d, page) /\ CommitPage(w, d, page)
      <3>1. Log!Deliver(d)
        BY <2>1, <2>3, CommitPageDelivers, Zenon
      <3> QED
        BY <2>1, <3>1, Zenon DEF Log!Next
    <2>4. CASE UNCHANGED storeVars
      BY <2>1, <2>4, LogStutters, Zenon DEF storeVars, serverVars
    <2>5. \/ UNCHANGED storeVars
          \/ CursorMatches(d, page) /\ CommitPage(w, d, page)
      BY <2>2, Zenon DEF Reject
    <2> QED
      BY <2>3, <2>4, <2>5, Zenon
  <1>5. ASSUME NEW w \in Worker,
               \/ Attach(w) \/ Start(w) \/ Prepare(w) \/ CheckBlocked(w)
               \/ LoadCursor(w) \/ Pull(w) \/ Quarantine(w) \/ PushDone(w)
               \/ SendPush(w) \/ MarkPushed(w) \/ MarkStale(w)
               \/ Detach(w) \/ Fail(w)
        PROVE  UNCHANGED Log!vars
    <2>1. UNCHANGED <<row, latest, seqOf, applied>>
      BY <1>5, Zenon DEF Attach, Start, Prepare, CheckBlocked, LoadCursor, Pull,
                  Quarantine, PushDone, SendPush, MarkPushed, MarkStale, Detach,
                  Fail, storeVars, serverVars
    <2> QED
      BY <2>1, LogStutters, Zenon
  <1>6. ASSUME \/ \E d \in Device : Register(d) \/ Crash(d)
               \/ \E w \in Worker, o \in Op : RetryQuarantined(w, o)
               \/ \E B \in late : Lose(B)
               \/ UNCHANGED vars
        PROVE  UNCHANGED Log!vars
    <2>1. UNCHANGED <<row, latest, seqOf, applied>>
      BY <1>6, Zenon DEF Register, Crash, RetryQuarantined, Lose, vars, storeVars,
                  serverVars
    <2> QED
      BY <2>1, LogStutters, Zenon
  <1> QED
    BY <1>1, <1>2, <1>3, <1>4, <1>5, <1>6, Zenon DEF Next, WorkerStep

\* The synchronization core implements the abstract replicated log
\* (ImplementsLog), for any number of devices, workers and operations.
THEOREM Implementation == Spec => ImplementsLog
  <1>1. Init => Log!Init
    BY DEF Init, Log!Init
  <1>2. Inv /\ [Next]_vars => [Log!Next]_(Log!vars)
    BY StepImplements, Zenon
  <1> QED
    BY <1>1, <1>2, InvHolds, PTL DEF Spec, ImplementsLog, Log!Spec
=============================================================================
