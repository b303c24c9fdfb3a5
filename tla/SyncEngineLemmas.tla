-------------------------- MODULE SyncEngineLemmas --------------------------
(***************************************************************************)
(* Type correctness of SyncEngine, and what serving a push request,        *)
(* committing a page and returning from SyncOnce do to its inductive       *)
(* invariant.                                                              *)
(***************************************************************************)
EXTENDS SyncEngine, TLAPS

USE DEF SeqMap, OpsOf, NoOps

-----------------------------------------------------------------------------
(***************************************************************************)
(* Type correctness.                                                       *)
(***************************************************************************)
\* Returning from SyncOnce resets the locals of some workers and nothing else.
LEMMA ReturnType ==
    ASSUME TypeOK, NEW W \in SUBSET Worker, NEW phase \in Phase,
           Return(W, phase)
    PROVE  /\ pc' \in [Worker -> Phase]
           /\ from' \in [Worker -> Nat]
           /\ answer' \in [Worker -> SeqMap]
           /\ bad' \in [Worker -> [ops : SUBSET Op, class : RejectClass]]
           /\ batch' \in [Worker -> SUBSET Op]
           /\ late' \in SUBSET (SUBSET Op)
  BY DEF TypeOK, Return, Abandoned, NoReject, RejectClass

LEMMA ReturnKeepsTypes ==
    ASSUME TypeOK, NEW W \in SUBSET Worker, NEW phase \in Phase,
           Return(W, phase), UNCHANGED <<serverVars, storeVars>>
    PROVE  TypeOK'
  <1>1. UNCHANGED <<members, latest, seqOf, row, sentSeq, notes, directory, cursor,
                    applied, inbox>>
    BY Zenon DEF serverVars, storeVars
  <1> QED
    BY <1>1, ReturnType, Zenon DEF TypeOK

\* The server numbers operations with natural numbers.
LEMMA PushType ==
    ASSUME TypeOK, NEW B \in SUBSET Op, PushOperations(B)
    PROVE  latest' \in Nat /\ seqOf' \in SeqMap
  <1> DEFINE new == {o \in B : seqOf[o] = 0}
  <1>1. PICK k \in 0..Cardinality(Op) : \E s \in Numbering(new, k) :
           /\ seqOf' = [o \in Op |-> IF o \in new THEN s[o] ELSE seqOf[o]]
           /\ latest' = latest + k
    BY Zenon DEF PushOperations
  <1>2. PICK s \in Numbering(new, k) :
           /\ seqOf' = [o \in Op |-> IF o \in new THEN s[o] ELSE seqOf[o]]
           /\ latest' = latest + k
    BY <1>1, Zenon
  <1>3. k \in Nat /\ \A o \in new : s[o] \in Nat
    BY <1>1, <1>2, ConstantsAssumption DEF Numbering, TypeOK
  <1> QED
    BY <1>2, <1>3 DEF TypeOK

LEMMA TypeInit == Init => TypeOK
  BY ConstantsAssumption
  DEF Init, TypeOK, Phase, InboxStatus, RejectClass, NoReject

\* Every step keeps the types; one case for each action.
LEMMA TypeStep == TypeOK /\ [Next]_vars => TypeOK'
  <1> SUFFICES ASSUME TypeOK, [Next]_vars PROVE TypeOK'
    OBVIOUS
  <1> USE ConstantsAssumption DEF Host, storeVars, serverVars
  <1>1. ASSUME NEW o \in Op, Commit(o) PROVE TypeOK'
    BY <1>1 DEF Commit, TypeOK, workerVars
  <1>2. ASSUME NEW d \in Device, Register(d) PROVE TypeOK'
    BY <1>2, Zenon DEF Register, TypeOK, workerVars
  <1>3. ASSUME NEW d \in Device, Crash(d) PROVE TypeOK'
    <2> DEFINE W == {w \in Worker : Host(w) = d}
    <2>1. /\ Return(W, "off") /\ UNCHANGED <<serverVars, storeVars>>
          /\ W \in SUBSET Worker /\ "off" \in Phase
      BY <1>3, Zenon DEF Crash, Phase
    <2> QED
      BY <2>1, ReturnKeepsTypes, Zenon
  <1>4. ASSUME NEW w \in Worker, Detach(w) PROVE TypeOK'
    <2>1. /\ Return({w}, "off") /\ UNCHANGED <<serverVars, storeVars>>
          /\ {w} \in SUBSET Worker /\ "off" \in Phase
      BY <1>4, Zenon DEF Detach, Phase
    <2> QED
      BY <2>1, ReturnKeepsTypes, Zenon
  <1>5. ASSUME NEW w \in Worker, Fail(w) PROVE TypeOK'
    <2>1. /\ Return({w}, "wait") /\ UNCHANGED <<serverVars, storeVars>>
          /\ {w} \in SUBSET Worker /\ "wait" \in Phase
      BY <1>5, Zenon DEF Fail, Phase
    <2> QED
      BY <2>1, ReturnKeepsTypes, Zenon
  <1>6. ASSUME NEW w \in Worker, NEW o \in Op, RetryQuarantined(w, o)
        PROVE  TypeOK'
    BY <1>6, Zenon DEF RetryQuarantined, TypeOK, Phase, InboxStatus
  <1>7. ASSUME NEW B \in late, PushLate(B) PROVE TypeOK'
    <2>1. B \in SUBSET Op /\ PushOperations(B)
      BY <1>7, Zenon DEF PushLate, TypeOK
    <2>2. latest' \in Nat /\ seqOf' \in SeqMap
      BY <2>1, PushType, Zenon
    <2> QED
      BY <1>7, <2>2, Zenon DEF PushLate, TypeOK, workerVars
  <1>8. ASSUME NEW B \in late, Lose(B) PROVE TypeOK'
    BY <1>8, Zenon DEF Lose, TypeOK, workerVars
  <1>9. ASSUME NEW w \in Worker, Attach(w) PROVE TypeOK'
    <2>1. /\ Return({w}, "wait") /\ UNCHANGED <<serverVars, storeVars>>
          /\ {w} \in SUBSET Worker /\ "wait" \in Phase
      BY <1>9, Zenon DEF Attach, Phase
    <2> QED
      BY <2>1, ReturnKeepsTypes, Zenon
  <1>10. ASSUME NEW w \in Worker, Start(w) PROVE TypeOK'
    BY <1>10, Zenon DEF Start, TypeOK, Phase
  <1>11. ASSUME NEW w \in Worker, Prepare(w) PROVE TypeOK'
    BY <1>11, Zenon DEF Prepare, TypeOK, Phase
  <1>12. ASSUME NEW w \in Worker, CheckBlocked(w) PROVE TypeOK'
    <2>1. /\ Return({w}, "exited") /\ UNCHANGED <<serverVars, storeVars>>
          /\ {w} \in SUBSET Worker /\ "exited" \in Phase
      BY <1>12, Zenon DEF CheckBlocked, Phase
    <2> QED
      BY <2>1, ReturnKeepsTypes, Zenon
  <1>13. ASSUME NEW w \in Worker, LoadCursor(w) PROVE TypeOK'
    BY <1>13, Zenon DEF LoadCursor, TypeOK, Phase
  <1>14. ASSUME NEW w \in Worker, Pull(w) PROVE TypeOK'
    <2>1. PICK to \in PageEnds(from[w]) :
             LET page == PullChanges(from[w], to) IN
             IF ValidatePullPage(from[w], page)
               THEN /\ answer' = [answer EXCEPT ![w] = page]
                    /\ pc' = [pc EXCEPT ![w] = IF OpsOf(page) = {} THEN "push"
                                                                  ELSE "apply"]
                    /\ UNCHANGED <<from, bad, batch, late>>
               ELSE Return({w}, "wait")
      BY <1>14, Zenon DEF Pull
    <2>2. PullChanges(from[w], to) \in SeqMap
      BY Zenon DEF PullChanges, TypeOK
    <2>3. CASE ValidatePullPage(from[w], PullChanges(from[w], to))
      <3>1. /\ answer' = [answer EXCEPT ![w] = PullChanges(from[w], to)]
            /\ \E p \in {"push", "apply"} : pc' = [pc EXCEPT ![w] = p]
            /\ UNCHANGED <<from, bad, batch, late>>
        BY <2>1, <2>3, Zenon
      <3>2. UNCHANGED <<serverVars, storeVars>>
        BY <1>14, Zenon DEF Pull
      <3> QED
        BY <2>2, <3>1, <3>2 DEF TypeOK, Phase
    <2>4. CASE ~ValidatePullPage(from[w], PullChanges(from[w], to))
      <3>1. Return({w}, "wait") /\ {w} \in SUBSET Worker /\ "wait" \in Phase
        BY <2>1, <2>4, Zenon DEF Phase
      <3>2. UNCHANGED <<serverVars, storeVars>>
        BY <1>14, Zenon DEF Pull
      <3> QED
        BY <3>1, <3>2, ReturnKeepsTypes, Zenon
    <2> QED
      BY <2>3, <2>4, Zenon
  <1>15. ASSUME NEW w \in Worker, ApplyPage(w) PROVE TypeOK'
    <2> DEFINE d == Host(w)
               page == answer[w]
    <2>0. d \in Device /\ page \in SeqMap
      BY Zenon DEF TypeOK
    <2>1. UNCHANGED serverVars
      BY <1>15, Zenon DEF ApplyPage
    <2>2. \/ \E o \in Op, class \in RejectClass : Reject(w, o, class)
          \/ Return({w}, "wait") /\ UNCHANGED storeVars
          \/ CommitPage(w, d, page)
      BY <1>15, Zenon DEF ApplyPage, RejectClass
    <2>3. ASSUME NEW o \in Op, NEW class \in RejectClass, Reject(w, o, class)
          PROVE  TypeOK'
      BY <2>1, <2>3 DEF Reject, TypeOK, Phase
    <2>4. CASE Return({w}, "wait") /\ UNCHANGED storeVars
      <3>1. Return({w}, "wait") /\ {w} \in SUBSET Worker /\ "wait" \in Phase
        BY <2>4, Zenon DEF Phase
      <3> QED
        BY <2>1, <2>4, <3>1, ReturnKeepsTypes, Zenon
    <2>5. CASE CommitPage(w, d, page)
      BY <2>0, <2>1, <2>5
      DEF CommitPage, TypeOK, Phase, InboxStatus, IsLast
    <2> QED
      BY <2>2, <2>3, <2>4, <2>5, Zenon
  <1>16. ASSUME NEW w \in Worker, Quarantine(w) PROVE TypeOK'
    <2>1. Return({w}, "exited") /\ {w} \in SUBSET Worker /\ "exited" \in Phase
      BY <1>16, Zenon DEF Quarantine, Phase
    <2>2. inbox' \in [Device -> [Op -> InboxStatus]]
      BY <1>16 DEF Quarantine, TypeOK, InboxStatus
    <2>3. UNCHANGED <<serverVars, row, sentSeq, notes, directory, cursor, applied>>
      BY <1>16, Zenon DEF Quarantine
    <2> QED
      BY <2>1, <2>2, <2>3, ReturnType, ZenonT(40) DEF TypeOK
  <1>17. ASSUME NEW w \in Worker, PushDone(w) PROVE TypeOK'
    <2>1. /\ Return({w}, "wait") /\ UNCHANGED <<serverVars, storeVars>>
          /\ {w} \in SUBSET Worker /\ "wait" \in Phase
      BY <1>17, Zenon DEF PushDone, Phase
    <2> QED
      BY <2>1, ReturnKeepsTypes, Zenon
  <1>18. ASSUME NEW w \in Worker, SendPush(w) PROVE TypeOK'
    BY <1>18 DEF SendPush, TypeOK, Phase, PendingOps, Committed
  <1>19. ASSUME NEW w \in Worker, Push(w) PROVE TypeOK'
    <2>1. batch[w] \in SUBSET Op /\ PushOperations(batch[w])
      BY <1>19, Zenon DEF Push, TypeOK
    <2>2. latest' \in Nat /\ seqOf' \in SeqMap
      BY <2>1, PushType, Zenon
    <2> QED
      BY <1>19, <2>2, Zenon DEF Push, TypeOK, Phase
  <1>20. ASSUME NEW w \in Worker, MarkPushed(w) PROVE TypeOK'
    <2>1. sentSeq' \in SeqMap
      BY <1>20 DEF MarkPushed, TypeOK
    <2>2. CASE Cardinality(OpsOf(answer[w])) = BatchSize
      <3>1. /\ pc' = [pc EXCEPT ![w] = "push"]
            /\ answer' = [answer EXCEPT ![w] = NoOps]
            /\ batch' = [batch EXCEPT ![w] = {}]
            /\ UNCHANGED <<from, bad, late>>
            /\ UNCHANGED <<serverVars, row, notes, directory, cursor, applied,
                           inbox>>
        BY <1>20, <2>2, Zenon DEF MarkPushed
      <3> QED
        BY <2>1, <3>1, Zenon DEF TypeOK, Phase
    <2>3. CASE Cardinality(OpsOf(answer[w])) # BatchSize
      <3>1. Return({w}, "wait") /\ {w} \in SUBSET Worker /\ "wait" \in Phase
        BY <1>20, <2>3, Zenon DEF MarkPushed, Phase
      <3> QED
        BY <1>20, <2>1, <3>1, ReturnType, ZenonT(40) DEF MarkPushed, TypeOK
    <2> QED
      BY <2>2, <2>3, Zenon
  <1>21. ASSUME NEW w \in Worker, MarkStale(w) PROVE TypeOK'
    <2>1. /\ Return({w}, "wait") /\ UNCHANGED <<serverVars, storeVars>>
          /\ {w} \in SUBSET Worker /\ "wait" \in Phase
      BY <1>21, Zenon DEF MarkStale, Phase
    <2> QED
      BY <2>1, ReturnKeepsTypes, Zenon
  <1>22. CASE UNCHANGED vars
    BY <1>22, Zenon DEF vars, workerVars, TypeOK
  <1> QED
    BY <1>1, <1>2, <1>3, <1>4, <1>5, <1>6, <1>7, <1>8, <1>9, <1>10, <1>11,
       <1>12, <1>13, <1>14, <1>15, <1>16, <1>17, <1>18, <1>19, <1>20, <1>21,
       <1>22, Zenon DEF Next, WorkerStep

\* Every reachable state has the declared types (TypeOK), for any constants.
THEOREM TypeCorrect == Spec => []TypeOK
  BY TypeInit, TypeStep, PTL DEF Spec

-----------------------------------------------------------------------------
(***************************************************************************)
(* The server's log.                                                       *)
(***************************************************************************)
\* What serving a push request does to the log: numbers stay, new ones follow
\* the old ones in outbox order, and every requested operation has one.
LEMMA PushExtends ==
    ASSUME TypeOK, DenseLog, OutboxOK, NEW B \in SUBSET Op, RequestOK(B),
           PushOperations(B)
    PROVE  /\ latest' \in Nat /\ seqOf' \in SeqMap
           /\ latest <= latest'
           /\ \A o \in Op : seqOf[o] # 0 => seqOf'[o] = seqOf[o]
           /\ \A o \in Op : (seqOf[o] = 0 /\ seqOf'[o] # 0)
                               => o \in B /\ latest < seqOf'[o]
           /\ \A o \in B : seqOf'[o] # 0
           /\ \A o, q \in B :
                (seqOf[o] = 0 /\ seqOf[q] = 0 /\ row[o] < row[q])
                    => seqOf'[o] < seqOf'[q]
           /\ DenseLog'
  <1> DEFINE new == {o \in B : seqOf[o] = 0}
  <1>1. PICK card \in 0..Cardinality(Op) : \E s \in Numbering(new, card) :
           /\ seqOf' = [o \in Op |-> IF o \in new THEN s[o] ELSE seqOf[o]]
           /\ latest' = latest + card
    BY Zenon DEF PushOperations
  <1>2. PICK s \in Numbering(new, card) :
           /\ seqOf' = [o \in Op |-> IF o \in new THEN s[o] ELSE seqOf[o]]
           /\ latest' = latest + card
    BY <1>1, Zenon
  <1>3. /\ s \in [new -> (latest + 1)..(latest + card)]
        /\ \A n \in (latest + 1)..(latest + card) : \E o \in new : s[o] = n
        /\ \A o, q \in new : row[o] < row[q] => s[o] < s[q]
    BY <1>2, Zenon DEF Numbering
  <1>0. card \in Nat
    BY <1>1, ConstantsAssumption
  <1>4. latest \in Nat /\ seqOf \in SeqMap /\ row \in SeqMap
    BY Zenon DEF TypeOK
  <1>5. \A o \in new : s[o] \in Nat /\ latest < s[o] /\ s[o] <= latest + card
    BY <1>0, <1>3, <1>4
  <1>6. latest' \in Nat /\ seqOf' \in SeqMap /\ latest <= latest'
    BY <1>0, <1>2, <1>4, <1>5
  <1>7. \A o \in Op : seqOf[o] # 0 => seqOf'[o] = seqOf[o]
    BY <1>2, Zenon
  <1>8. \A o \in Op : (seqOf[o] = 0 /\ seqOf'[o] # 0)
                         => o \in B /\ latest < seqOf'[o]
    BY <1>2, <1>5, Zenon
  <1>9. \A o \in B : seqOf'[o] # 0
    BY <1>2, <1>4, <1>5
  <1>10. \A o, q \in B : (seqOf[o] = 0 /\ seqOf[q] = 0 /\ row[o] < row[q])
                            => seqOf'[o] < seqOf'[q]
    BY <1>2, <1>3, Zenon
  <1>11. \A n \in 1..latest' : \E o \in Op : seqOf'[o] = n
    <2> SUFFICES ASSUME NEW n \in 1..latest'
                 PROVE  \E o \in Op : seqOf'[o] = n
      OBVIOUS
    <2>1. CASE n <= latest
      <3>1. PICK o \in Op : seqOf[o] = n
        BY <1>4, <1>6, <2>1 DEF DenseLog
      <3> QED
        BY <1>7, <1>6, <3>1
    <2>2. CASE latest < n
      <3>1. n \in (latest + 1)..(latest + card)
        BY <1>0, <1>2, <1>4, <1>6, <2>2
      <3>2. PICK o \in new : s[o] = n
        BY <1>3, <3>1, Zenon
      <3> QED
        BY <1>2, <3>2, Zenon
    <2> QED
      BY <1>4, <1>6, <2>1, <2>2
  <1>12. \A o \in Op : seqOf'[o] <= latest'
    BY <1>0, <1>2, <1>4, <1>5 DEF DenseLog
  <1>13. \A o, q \in new : o # q => s[o] # s[q]
    <2> SUFFICES ASSUME NEW o \in new, NEW q \in new, o # q PROVE s[o] # s[q]
      OBVIOUS
    <2>1. row[o] # row[q]
      BY Zenon DEF RequestOK, OutboxOK
    <2>2. row[o] < row[q] \/ row[q] < row[o]
      BY <1>4, <2>1
    <2> QED
      BY <1>3, <1>5, <2>2
  <1>14. \A o, q \in OpsOf(seqOf)' : seqOf'[o] = seqOf'[q] => o = q
    <2> SUFFICES ASSUME NEW o \in Op, NEW q \in Op, seqOf'[o] # 0,
                        seqOf'[q] # 0, seqOf'[o] = seqOf'[q]
                 PROVE  o = q
      OBVIOUS
    <2>1. CASE o \in new /\ q \in new
      BY <1>2, <1>13, <2>1, Zenon
    <2>2. CASE o \notin new /\ q \notin new
      BY <1>2, <2>2, Zenon DEF DenseLog
    <2>3. CASE o \in new /\ q \notin new
      BY <1>2, <1>4, <1>5, <2>3 DEF DenseLog
    <2>4. CASE o \notin new /\ q \in new
      BY <1>2, <1>4, <1>5, <2>4 DEF DenseLog
    <2> QED
      BY <2>1, <2>2, <2>3, <2>4, Zenon
  <1>15. DenseLog'
    BY <1>11, <1>12, <1>14, Zenon DEF DenseLog
  <1> QED
    BY <1>6, <1>7, <1>8, <1>9, <1>10, <1>15, Zenon

\* The order, durability and cursor invariants survive a served request.
LEMMA PushKeepsInv ==
    ASSUME Inv, NEW B \in SUBSET Op, RequestOK(B), PushOperations(B),
           UNCHANGED <<row, sentSeq, notes, cursor, applied>>
    PROVE  /\ DenseLog' /\ OutboxOK' /\ PushedDurable' /\ AuthorOrder'
           /\ NotesOK' /\ CausalLog' /\ AppliedPrefix'
           /\ \A C \in SUBSET Op : RequestOK(C) => RequestOK(C)'
  <1> DEFINE Ext == /\ latest' \in Nat /\ seqOf' \in SeqMap
                    /\ latest <= latest'
                    /\ \A o \in Op : seqOf[o] # 0 => seqOf'[o] = seqOf[o]
                    /\ \A o \in Op : (seqOf[o] = 0 /\ seqOf'[o] # 0)
                                        => o \in B /\ latest < seqOf'[o]
                    /\ \A o \in B : seqOf'[o] # 0
                    /\ \A o, q \in B :
                         (seqOf[o] = 0 /\ seqOf[q] = 0 /\ row[o] < row[q])
                             => seqOf'[o] < seqOf'[q]
  <1>1. Ext /\ DenseLog'
    BY PushExtends, Zenon DEF Inv
  <1>2. /\ latest \in Nat /\ seqOf \in SeqMap /\ row \in SeqMap
        /\ \A o \in Op : seqOf[o] <= latest
    BY Zenon DEF Inv, TypeOK, DenseLog
  <1>3. OutboxOK'
    BY <1>1, Zenon DEF Inv, OutboxOK, RequestOK
  <1>4. PushedDurable'
    BY <1>1, Zenon DEF Inv, PushedDurable, TypeOK
  <1>5. AuthorOrder'
    <2> SUFFICES ASSUME NEW o \in Op, NEW q \in Op, Author[o] = Author[q],
                        row[o] # 0, row[o] < row[q], seqOf'[q] # 0
                 PROVE  seqOf'[o] # 0 /\ seqOf'[o] < seqOf'[q]
      BY Zenon DEF AuthorOrder
    <2>1. CASE seqOf[q] # 0
      BY <1>1, <2>1, Zenon DEF Inv, AuthorOrder
    <2>2. CASE seqOf[q] = 0 /\ seqOf[o] # 0
      BY <1>1, <1>2, <2>2
    <2>3. CASE seqOf[q] = 0 /\ seqOf[o] = 0
      <3>1. q \in B /\ o \in B
        BY <1>1, <2>3, Zenon DEF RequestOK
      <3> QED
        BY <1>1, <2>3, <3>1, Zenon
    <2> QED
      BY <2>1, <2>2, <2>3, Zenon
  <1>6. NotesOK'
    <2>1. \A o \in Op : Target[o] \in Op
      BY ConstantsAssumption, Zenon
    <2>2. \A o \in Op : seqOf[o] # 0 => seqOf'[o] # 0
      BY <1>1, Zenon
    <2>3. NotesOK
      BY Zenon DEF Inv
    <2> QED
      BY <2>1, <2>2, <2>3, Zenon DEF NotesOK
  <1>7. CausalLog'
    <2> SUFFICES ASSUME NEW o \in Op, seqOf'[o] # 0
                 PROVE  seqOf'[Target[o]] # 0 /\ seqOf'[Target[o]] <= seqOf'[o]
      BY Zenon DEF CausalLog
    <2>0. Target[o] \in Op
      BY ConstantsAssumption, Zenon
    <2>1. CASE seqOf[o] # 0
      BY <1>1, <2>0, <2>1, Zenon DEF Inv, CausalLog
    <2>2. CASE seqOf[o] = 0 /\ seqOf[Target[o]] # 0
      BY <1>1, <1>2, <2>0, <2>2
    <2>3. CASE seqOf[o] = 0 /\ seqOf[Target[o]] = 0
      <3>1. o \in B /\ row[o] # 0
        BY <1>1, <2>3, Zenon DEF RequestOK
      <3>2. CASE Target[o] = o
        BY <1>1, <3>1, <3>2
      <3>3. CASE /\ Author[Target[o]] = Author[o] /\ row[Target[o]] # 0
                 /\ row[Target[o]] < row[o]
        <4>1. Target[o] \in B
          BY <2>0, <2>3, <3>1, <3>3, Zenon DEF RequestOK
        <4> QED
          BY <1>1, <2>0, <2>3, <3>1, <3>3, <4>1
      <3> QED
        BY <2>3, <3>1, <3>2, <3>3, Zenon DEF Inv, NotesOK
    <2> QED
      BY <2>1, <2>2, <2>3, Zenon
  <1>8. AppliedPrefix'
    <2> SUFFICES ASSUME NEW d \in Device
                 PROVE  /\ cursor[d] <= latest'
                        /\ \A o \in Op : applied[d][o] =
                              IF seqOf'[o] <= cursor[d] THEN seqOf'[o] ELSE 0
      BY Zenon DEF AppliedPrefix
    <2>1. /\ cursor[d] \in Nat /\ cursor[d] <= latest
          /\ \A o \in Op : applied[d][o] = IF seqOf[o] <= cursor[d]
                                             THEN seqOf[o] ELSE 0
      BY Zenon DEF Inv, AppliedPrefix, TypeOK
    <2>2. ASSUME NEW o \in Op
          PROVE  applied[d][o] = IF seqOf'[o] <= cursor[d] THEN seqOf'[o] ELSE 0
      BY <1>1, <1>2, <2>1
    <2> QED
      BY <1>1, <1>2, <2>1, <2>2
  <1>9. ASSUME NEW C \in SUBSET Op, RequestOK(C) PROVE RequestOK(C)'
    BY <1>1, <1>9, Zenon DEF RequestOK
  <1> QED
    BY <1>1, <1>3, <1>4, <1>5, <1>6, <1>7, <1>8, <1>9, Zenon

\* Pages and answers in other workers' memory stay slices of the log.
LEMMA PushKeepsAnswers ==
    ASSUME Inv, NEW B \in SUBSET Op, RequestOK(B), PushOperations(B),
           NEW w \in Worker,
           pc'[w] = pc[w], from'[w] = from[w], answer'[w] = answer[w]
    PROVE  /\ from'[w] <= latest'
           /\ pc'[w] = "apply" =>
                 \E to \in (from'[w] + 1)..latest' :
                     answer'[w] = PullChanges(from[w], to)'
           /\ pc'[w] = "mark" => \A o \in Op : answer'[w][o] \in {0, seqOf'[o]}
  <1>1. /\ latest' \in Nat /\ seqOf' \in SeqMap
        /\ latest <= latest'
        /\ \A o \in Op : seqOf[o] # 0 => seqOf'[o] = seqOf[o]
        /\ \A o \in Op : (seqOf[o] = 0 /\ seqOf'[o] # 0) => latest < seqOf'[o]
    BY PushExtends, Zenon DEF Inv
  <1>2. latest \in Nat /\ seqOf \in SeqMap /\ from[w] \in Nat /\ from[w] <= latest
    BY Zenon DEF Inv, TypeOK, AnswersOK
  <1>3. ASSUME pc[w] = "apply"
        PROVE  \E to \in (from'[w] + 1)..latest' :
                   answer'[w] = PullChanges(from[w], to)'
    <2>1. PICK to \in (from[w] + 1)..latest : answer[w] = PullChanges(from[w], to)
      BY <1>3, Zenon DEF Inv, AnswersOK
    <2>2. \A o \in Op : (from[w] < seqOf[o] /\ seqOf[o] <= to)
                           <=> (from[w] < seqOf'[o] /\ seqOf'[o] <= to)
      BY <1>1, <1>2
    <2>3. \A o \in Op : (from[w] < seqOf[o]) => seqOf'[o] = seqOf[o]
      BY <1>1, <1>2
    <2>4. PullChanges(from[w], to)' = PullChanges(from[w], to)
      BY <2>2, <2>3, Zenon DEF PullChanges
    <2> QED
      BY <1>1, <1>2, <2>1, <2>4
  <1>4. ASSUME pc[w] = "mark"
        PROVE  \A o \in Op : answer'[w][o] \in {0, seqOf'[o]}
    BY <1>1, <1>4, Zenon DEF Inv, AnswersOK
  <1> QED
    BY <1>1, <1>2, <1>3, <1>4

-----------------------------------------------------------------------------
(***************************************************************************)
(* The invariant in two halves: what is stored, and what workers and the   *)
(* network remember.                                                       *)
(***************************************************************************)
Stored ==
    /\ DenseLog /\ OutboxOK /\ PushedDurable /\ AuthorOrder /\ NotesOK
    /\ CausalLog /\ AppliedPrefix /\ OnlyVerificationRejects

Remembered == RequestsOK /\ AnswersOK /\ NoRefusal

LEMMA InvHalves == Inv <=> TypeOK /\ Stored /\ Remembered
  BY Zenon DEF Inv, Stored, Remembered

LEMMA LogFrame ==
    ASSUME Stored, UNCHANGED <<latest, seqOf, row, sentSeq>>
    PROVE  DenseLog' /\ OutboxOK' /\ PushedDurable' /\ AuthorOrder' /\ CausalLog'
  BY Zenon DEF Stored, DenseLog, OutboxOK, PushedDurable, AuthorOrder, CausalLog

LEMMA StoredButInbox ==
    ASSUME Stored, OnlyVerificationRejects',
           UNCHANGED <<latest, seqOf, row, sentSeq, notes, cursor, applied>>
    PROVE  Stored'
  BY DEF Stored, DenseLog, OutboxOK, PushedDurable, AuthorOrder, NotesOK,
         CausalLog, AppliedPrefix

LEMMA StoredFrame ==
    ASSUME Stored,
           UNCHANGED <<latest, seqOf, row, sentSeq, notes, cursor, applied, inbox>>
    PROVE  Stored'
  <1>1. OnlyVerificationRejects'
    BY Zenon DEF Stored, OnlyVerificationRejects
  <1> QED
    BY <1>1, StoredButInbox, Zenon

\* A worker whose SyncOnce returns holds nothing that could be out of date.
LEMMA ReturnRemembered ==
    ASSUME TypeOK, Remembered, NEW W \in SUBSET Worker,
           NEW phase \in Phase \ {"apply", "mark"},
           Return(W, phase), UNCHANGED <<latest, seqOf, row>>
    PROVE  Remembered'
  <1>1. /\ \A w \in Worker : pc'[w] = IF w \in W THEN phase ELSE pc[w]
        /\ \A w \in Worker : from'[w] = IF w \in W THEN 0 ELSE from[w]
        /\ \A w \in Worker : answer'[w] = IF w \in W THEN NoOps ELSE answer[w]
        /\ \A w \in Worker : bad'[w] = IF w \in W THEN NoReject ELSE bad[w]
        /\ \A w \in Worker : batch'[w] = IF w \in W THEN {} ELSE batch[w]
        /\ \A B \in late' : B \in late \/ \E w \in Worker : B = batch[w]
    BY Zenon DEF Return, Abandoned
  <1>2. \A B : RequestOK(B)' <=> RequestOK(B)
    BY Zenon DEF RequestOK
  <1>3. RequestOK({})
    BY Zenon DEF RequestOK
  <1>4. RequestsOK'
    BY <1>1, <1>2, <1>3, Zenon DEF Remembered, RequestsOK
  <1>5. AnswersOK'
    <2> SUFFICES ASSUME NEW w \in Worker
                 PROVE  /\ from'[w] <= latest'
                        /\ pc'[w] = "apply" =>
                              \E to \in (from'[w] + 1)..latest' :
                                  answer'[w] = PullChanges(from[w], to)'
                        /\ pc'[w] = "mark" =>
                              \A o \in Op : answer'[w][o] \in {0, seqOf'[o]}
      BY Zenon DEF AnswersOK
    <2>1. CASE w \in W
      BY <1>1, <2>1 DEF TypeOK
    <2>2. CASE w \notin W
      BY <1>1, <2>2 DEF Remembered, AnswersOK, PullChanges
    <2> QED
      BY <2>1, <2>2, Zenon
  <1>6. NoRefusal'
    BY <1>1 DEF Remembered, NoRefusal, NoReject
  <1> QED
    BY <1>4, <1>5, <1>6, Zenon DEF Remembered

\* Steps that change the memory of one worker only.
LEMMA OneWorkerRemembered ==
    ASSUME Remembered, NEW w \in Worker,
           UNCHANGED <<latest, seqOf, row, late>>,
           \A v \in Worker \ {w} :
               /\ pc'[v] = pc[v] /\ from'[v] = from[v] /\ answer'[v] = answer[v]
               /\ bad'[v] = bad[v] /\ batch'[v] = batch[v],
           RequestOK(batch'[w]),
           bad'[w].class = "verification_failed",
           from'[w] <= latest,
           pc'[w] = "apply" => \E to \in (from'[w] + 1)..latest :
                                   answer'[w] = PullChanges(from'[w], to),
           pc'[w] = "mark" => \A o \in Op : answer'[w][o] \in {0, seqOf[o]}
    PROVE  Remembered'
  <1>1. \A B : RequestOK(B)' <=> RequestOK(B)
    BY Zenon DEF RequestOK
  <1>2. RequestsOK'
    <2>1. \A v \in Worker : RequestOK(batch'[v])
      BY Zenon DEF Remembered, RequestsOK
    <2>2. \A v \in Worker : RequestOK(batch[v])'
      BY <1>1, <2>1, Zenon
    <2>3. \A B \in late' : RequestOK(B)'
      BY <1>1, Zenon DEF Remembered, RequestsOK
    <2> QED
      BY <2>2, <2>3, Zenon DEF RequestsOK
  <1>3. AnswersOK'
    <2>1. \A a, b : PullChanges(a, b)' = PullChanges(a, b)
      BY Zenon DEF PullChanges
    <2> QED
      BY <2>1 DEF Remembered, AnswersOK
  <1>4. NoRefusal'
    BY Zenon DEF Remembered, NoRefusal
  <1> QED
    BY <1>2, <1>3, <1>4, Zenon DEF Remembered

-----------------------------------------------------------------------------
(***************************************************************************)
(* Applying a page.                                                        *)
(***************************************************************************)
\* The cursor check of ApplyPage ties the page in memory to the stored cursor.
LEMMA PageFollowsCursor ==
    ASSUME Inv, NEW w \in Worker, pc[w] = "apply",
           CursorMatches(Host(w), answer[w])
    PROVE  /\ from[w] = cursor[Host(w)]
           /\ \E to \in (from[w] + 1)..latest :
                 /\ answer[w] = PullChanges(from[w], to)
                 /\ \E o \in Op : seqOf[o] = to
  <1> DEFINE d == Host(w)
             page == answer[w]
  <1>1. PICK to \in (from[w] + 1)..latest : page = PullChanges(from[w], to)
    BY Zenon DEF Inv, AnswersOK
  <1>2. /\ from[w] \in Nat /\ latest \in Nat /\ seqOf \in SeqMap
        /\ d \in Device /\ cursor[d] \in Nat
    BY ConstantsAssumption, Zenon DEF Inv, TypeOK, Host
  <1>3. \A o \in Op : page[o] = IF from[w] < seqOf[o] /\ seqOf[o] <= to
                                  THEN seqOf[o] ELSE 0
    BY <1>1, Zenon DEF PullChanges
  <1>4. \A n \in 1..latest : \E o \in Op : seqOf[o] = n
    BY Zenon DEF Inv, DenseLog
  <1>5. PICK q \in Op : seqOf[q] = from[w] + 1
    BY <1>1, <1>2, <1>4
  <1>6. page[q] = from[w] + 1
    BY <1>1, <1>2, <1>3, <1>5
  <1>7. PICK o \in Op : /\ o \in OpsOf(page) /\ \A x \in OpsOf(page) : page[o] <= page[x]
                        /\ page[o] = cursor[d] + 1
    BY Zenon DEF CursorMatches, IsFirst
  <1>8. page[o] <= from[w] + 1 /\ from[w] < page[o]
    BY <1>2, <1>3, <1>6, <1>7
  <1>9. from[w] = cursor[d]
    BY <1>2, <1>7, <1>8
  <1>10. \E x \in Op : seqOf[x] = to
    BY <1>1, <1>2, <1>4
  <1> QED
    BY <1>1, <1>9, <1>10, Zenon

\* Between honest clients a verified page is never refused: op_id_reuse and
\* apply_failed do not arise.
LEMMA NothingRefused ==
    ASSUME Inv, NEW w \in Worker, pc[w] = "apply",
           CursorMatches(Host(w), answer[w])
    PROVE  Refused(Host(w), answer[w]) = {}
  <1> DEFINE d == Host(w)
             page == answer[w]
  <1>1. /\ from[w] = cursor[d]
        /\ \E to \in (from[w] + 1)..latest : page = PullChanges(from[w], to)
    BY PageFollowsCursor, Zenon
  <1>2. PICK to \in (from[w] + 1)..latest : page = PullChanges(from[w], to)
    BY <1>1, Zenon
  <1>3. /\ from[w] \in Nat /\ latest \in Nat /\ seqOf \in SeqMap /\ d \in Device
        /\ \A o \in Op : Target[o] \in BodyOp /\ Target[o] \in Op
                         /\ Target[Target[o]] = Target[o]
    BY ConstantsAssumption, Zenon DEF Inv, TypeOK, Host
  <1>4. \A o \in Op : page[o] = IF from[w] < seqOf[o] /\ seqOf[o] <= to
                                  THEN seqOf[o] ELSE 0
    BY <1>2, Zenon DEF PullChanges
  <1>5. \A o \in Op : applied[d][o] = IF seqOf[o] <= from[w] THEN seqOf[o] ELSE 0
    BY <1>1, <1>3, Zenon DEF Inv, AppliedPrefix
  <1>6. Reused(d, page) = {}
    BY <1>3, <1>4, <1>5, Zenon DEF Reused
  <1>7. Unappliable(d, page) = {}
    <2> SUFFICES ASSUME NEW o \in Op, page[o] # 0, o \notin BodyOp,
                        Target[o] \notin notes[d],
                        \A q \in Fresh(d, page) \cap BodyOp :
                            Target[q] = Target[o] => page[q] > page[o]
                 PROVE  FALSE
      BY Zenon DEF Unappliable, Fresh
    <2>1. from[w] < seqOf[o] /\ seqOf[o] <= to /\ page[o] = seqOf[o]
      BY <1>4, Zenon
    <2>2. seqOf[Target[o]] # 0 /\ seqOf[Target[o]] <= seqOf[o]
      BY <1>3, <2>1, Zenon DEF Inv, CausalLog
    <2>3. applied[d][Target[o]] = 0
      BY <1>3, Zenon DEF Inv, NotesOK
    <2>4. from[w] < seqOf[Target[o]]
      BY <1>3, <1>5, <2>2, <2>3
    <2>5. page[Target[o]] = seqOf[Target[o]]
      BY <1>2, <1>3, <1>4, <2>1, <2>2, <2>4
    <2>6. Target[o] \in Fresh(d, page) \cap BodyOp
      BY <1>3, <2>2, <2>3, <2>5, Zenon DEF Fresh
    <2>7. page[Target[o]] > page[o]
      BY <1>3, <2>6, Zenon
    <2> QED
      BY <1>3, <2>1, <2>2, <2>5, <2>7
  <1> QED
    BY <1>6, <1>7, Zenon DEF Refused

\* A committed page moves the cursor to its end with exactly its operations.
LEMMA CommitStored ==
    ASSUME Inv, NEW w \in Worker, pc[w] = "apply",
           CursorMatches(Host(w), answer[w]),
           CommitPage(w, Host(w), answer[w]), UNCHANGED serverVars
    PROVE  Stored' /\ cursor'[Host(w)] = from'[w] /\ from'[w] \in Nat
                   /\ from'[w] <= latest /\ cursor[Host(w)] <= cursor'[Host(w)]
  <1> DEFINE d == Host(w)
             page == answer[w]
             fresh == Fresh(d, page)
  <1>1. /\ from[w] = cursor[d]
        /\ \E to \in (from[w] + 1)..latest : page = PullChanges(from[w], to)
                                             /\ \E o \in Op : seqOf[o] = to
    BY PageFollowsCursor, Zenon
  <1>2. PICK to \in (from[w] + 1)..latest : page = PullChanges(from[w], to)
                                            /\ \E o \in Op : seqOf[o] = to
    BY <1>1, Zenon
  <1>3. /\ from[w] \in Nat /\ latest \in Nat /\ seqOf \in SeqMap /\ d \in Device
        /\ cursor \in [Device -> Nat] /\ applied \in [Device -> SeqMap]
        /\ notes \in [Device -> SUBSET Op] /\ from \in [Worker -> Nat]
        /\ inbox \in [Device -> [Op -> InboxStatus]]
        /\ \A o \in Op : Target[o] \in Op
    BY ConstantsAssumption, Zenon DEF Inv, TypeOK, Host
  <1>0. to \in Nat /\ from[w] < to /\ to <= latest
    BY <1>2, <1>3
  <1>4. \A o \in Op : page[o] = IF from[w] < seqOf[o] /\ seqOf[o] <= to
                                  THEN seqOf[o] ELSE 0
    BY <1>2, Zenon DEF PullChanges
  <1>5. /\ applied' = [applied EXCEPT ![d] =
              [o \in Op |-> IF o \in fresh THEN page[o] ELSE @[o]]]
        /\ inbox' = [inbox EXCEPT ![d] =
              [o \in Op |-> IF o \in fresh THEN "applied" ELSE @[o]]]
        /\ notes' = [notes EXCEPT ![d] = @ \cup {Target[o] : o \in fresh \cap BodyOp}]
        /\ \E o \in Op : /\ o \in OpsOf(page)
                         /\ \A q \in OpsOf(page) : page[q] <= page[o]
                         /\ cursor' = [cursor EXCEPT ![d] = page[o]]
                         /\ from' = [from EXCEPT ![w] = page[o]]
        /\ UNCHANGED <<row, sentSeq>>
        /\ UNCHANGED <<latest, seqOf>>
    BY Zenon DEF CommitPage, IsLast, serverVars
  <1>6. cursor' = [cursor EXCEPT ![d] = to] /\ from'[w] = to
    <2>1. PICK o \in Op : /\ o \in OpsOf(page)
                          /\ \A q \in OpsOf(page) : page[q] <= page[o]
                          /\ cursor' = [cursor EXCEPT ![d] = page[o]]
                          /\ from' = [from EXCEPT ![w] = page[o]]
      BY <1>5, Zenon
    <2>2. PICK q \in Op : seqOf[q] = to
      BY <1>2, Zenon
    <2>3. page[q] = to /\ page[o] <= to
      BY <1>2, <1>3, <1>4, <2>1, <2>2, SMTT(40)
    <2>4. page[q] <= page[o] /\ page[o] \in Nat /\ to \in Nat
      BY <1>2, <1>3, <1>4, <2>1, <2>3
    <2>5. page[o] = to
      BY <2>3, <2>4
    <2> QED
      BY <1>3, <2>1, <2>5, Zenon
  <1>7. \A o \in Op : applied[d][o] = IF seqOf[o] <= from[w] THEN seqOf[o] ELSE 0
    BY <1>1, <1>3, Zenon DEF Inv, AppliedPrefix
  <1>8. \A o \in Op : o \in fresh <=> (from[w] < seqOf[o] /\ seqOf[o] <= to)
    BY <1>3, <1>4, <1>7 DEF Fresh
  <1>9. \A o \in Op : applied'[d][o] = IF seqOf[o] <= to THEN seqOf[o] ELSE 0
    BY <1>0, <1>3, <1>4, <1>5, <1>7, <1>8
  <1>10. AppliedPrefix'
    <2> SUFFICES ASSUME NEW e \in Device
                 PROVE  /\ cursor'[e] <= latest
                        /\ \A o \in Op : applied'[e][o] =
                              IF seqOf[o] <= cursor'[e] THEN seqOf[o] ELSE 0
      BY <1>5 DEF AppliedPrefix
    <2>1. CASE e = d
      BY <1>0, <1>3, <1>6, <1>9, <2>1, Zenon
    <2>2. CASE e # d
      BY <1>3, <1>5, <1>6, <2>2, Zenon DEF Inv, AppliedPrefix
    <2> QED
      BY <2>1, <2>2, Zenon
  <1>11. NotesOK'
    <2>1. \A o \in fresh : o \in Op /\ seqOf[o] # 0 /\ seqOf[Target[o]] # 0
      BY <1>3, <1>8 DEF Inv, CausalLog, Fresh
    <2> DEFINE added == {Target[o] : o \in fresh \cap BodyOp}
    <2>2. \A e \in Device : notes'[e] = IF e = d THEN notes[e] \cup added ELSE notes[e]
      BY <1>3, <1>5, Zenon
    <2>3. \A e \in Device, o \in Op :
             applied'[e][o] # 0 => applied[e][o] # 0 \/ (e = d /\ o \in fresh)
      BY <1>3, <1>5, Zenon
    <2>4. NotesOK /\ BodyOp \subseteq Op
      BY ConstantsAssumption, Zenon DEF Inv
    <2>5. \A e \in Device, t \in Op :
             t \in notes'[e] => seqOf[t] # 0 \/ (Author[t] = e /\ row[t] # 0)
      <3> SUFFICES ASSUME NEW e \in Device, NEW t \in Op, t \in notes'[e]
                   PROVE  seqOf[t] # 0 \/ (Author[t] = e /\ row[t] # 0)
        OBVIOUS
      <3>1. CASE t \in notes[e]
        BY <2>4, <3>1, Zenon DEF NotesOK
      <3>2. CASE t \in added
        BY <2>1, <3>2, Zenon
      <3> HIDE DEF added
      <3> QED
        BY <2>2, <3>1, <3>2, Zenon
    <2>6. \A e \in Device, o \in BodyOp :
             applied'[e][o] # 0 => Target[o] \in notes'[e]
      <3> SUFFICES ASSUME NEW e \in Device, NEW o \in BodyOp, applied'[e][o] # 0
                   PROVE  Target[o] \in notes'[e]
        OBVIOUS
      <3>1. CASE applied[e][o] # 0
        <4>1. Target[o] \in notes[e]
          BY <2>4, <3>1, Zenon DEF NotesOK
        <4> HIDE DEF added
        <4> QED
          BY <2>2, <4>1, Zenon
      <3>2. CASE e = d /\ o \in fresh
        <4>1. Target[o] \in added
          BY <3>2, Zenon
        <4> HIDE DEF added
        <4> QED
          BY <2>2, <3>2, <4>1, Zenon
      <3> QED
        BY <2>3, <2>4, <3>1, <3>2, Zenon
    <2> QED
      BY <1>5, <2>4, <2>5, <2>6, Zenon DEF NotesOK
  <1>12. OnlyVerificationRejects'
    BY <1>3, <1>5, Zenon DEF Inv, OnlyVerificationRejects
  <1>13. /\ DenseLog' /\ OutboxOK' /\ PushedDurable' /\ AuthorOrder' /\ CausalLog'
    BY <1>5, InvHalves, LogFrame, Zenon
  <1>14. cursor'[d] = to /\ cursor[d] <= to
    <2>1. cursor'[d] = to
      BY <1>3, <1>6, Zenon
    <2>2. cursor[d] = from[w] /\ cursor[d] \in Nat
      BY <1>1, <1>3, Zenon
    <2> QED
      BY <1>0, <2>1, <2>2
  <1> QED
    BY <1>0, <1>3, <1>6, <1>10, <1>11, <1>12, <1>13, <1>14, Zenon DEF Stored
=============================================================================
