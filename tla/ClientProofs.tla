---------------------------- MODULE ClientProofs ----------------------------
(***************************************************************************)
(* Proofs about the editor's commit tracker, LAN pairing and the updater,  *)
(* for every number of inputs and commits, every set of pairing sessions   *)
(* and every number of faults.                                             *)
(***************************************************************************)
EXTENDS ClientSuite, FiniteSetTheorems, TLAPS

-----------------------------------------------------------------------------
(* The editor's commit tracker.                                            *)

\* A commit in flight is of a generation that was input, so that none at or
\* above the latest is of another than the latest.
EditorInv ==
    /\ latest \in 0..MaxInput /\ saved \in 0..MaxInput
    /\ inFlight \in [1..MaxInput -> Nat]
    /\ \A g \in 1..MaxInput : inFlight[g] > 0 => g <= latest
    /\ Editor!SavedIsDurable

\* The invariant holds when the editor is opened (NewTracker).
LEMMA EditorStart == Editor!Init => EditorInv
  BY ClientConstants DEF Editor!Init, EditorInv, Editor!SavedIsDurable

\* Inputs, commits and completions in any order (Dirty, Accept) keep it.
LEMMA EditorStep == EditorInv /\ [Editor!Next]_editorVars => EditorInv'
<1> SUFFICES ASSUME EditorInv, [Editor!Next]_editorVars PROVE EditorInv'
  OBVIOUS
<1> USE ClientConstants
<1>1. CASE Editor!Dirty
  BY <1>1 DEF Editor!Dirty, EditorInv, Editor!SavedIsDurable
<1>2. CASE Editor!StartCommit
  BY <1>2 DEF Editor!StartCommit, EditorInv, Editor!SavedIsDurable
<1>3. ASSUME NEW g \in 1..MaxInput, NEW ok \in BOOLEAN, Editor!Accept(g, ok)
      PROVE  EditorInv'
  <2>1. inFlight' = [inFlight EXCEPT ![g] = @ - 1] /\ latest' = latest /\ g <= latest
    BY <1>3, Zenon DEF Editor!Accept, EditorInv
  <2>2. \A h \in 1..MaxInput : inFlight'[h] > 0 => h <= latest'
    BY <1>3, <2>1, Zenon DEF Editor!Accept, EditorInv
  <2>3. inFlight' \in [1..MaxInput -> Nat]
    BY <1>3, <2>1 DEF Editor!Accept, EditorInv
  <2>4. saved' \in 0..MaxInput /\ Editor!SavedIsDurable'
    <3>1. CASE g < latest \/ (~ok /\ saved > 0 /\ g <= saved)
      BY <1>3, <2>1, <3>1, Zenon DEF Editor!Accept, EditorInv, Editor!SavedIsDurable
    <3>2. CASE ~(g < latest \/ (~ok /\ saved > 0 /\ g <= saved))
      <4>1. g = latest
        BY <2>1, <3>2 DEF EditorInv
      <4>2. /\ saved' = IF ok THEN g ELSE saved
            /\ shown' = IF ok THEN "saved" ELSE "could_not_save"
            /\ durable' = IF ok THEN durable \cup {g} ELSE durable
        BY <1>3, <3>2, Zenon DEF Editor!Accept
      <4>3. CASE ok
        BY <2>1, <4>1, <4>2, <4>3, Zenon DEF EditorInv, Editor!SavedIsDurable
      <4>4. CASE ~ok
        BY <2>1, <4>1, <4>2, <4>4, Zenon DEF EditorInv, Editor!SavedIsDurable
      <4> QED  BY <4>3, <4>4, Zenon
    <3> QED  BY <3>1, <3>2, Zenon
  <2> QED  BY <2>1, <2>2, <2>3, <2>4, Zenon DEF EditorInv
<1>4. CASE UNCHANGED editorVars
  BY <1>4, Zenon DEF editorVars, EditorInv, Editor!SavedIsDurable
<1> QED  BY <1>1, <1>2, <1>3, <1>4, Zenon DEF Editor!Next

-----------------------------------------------------------------------------
(* The updater.                                                            *)

\* From the copy to the end of Apply the kept executable is the one that was
\* installed, which ran; a version is reported as updated only while that copy
\* is there to roll back to.
UpdateInv ==
    /\ pc \in {"idle", "preserve", "copy", "write", "updater", "undo", "check", "restore"}
    /\ Update!RunnableRemains /\ Update!RestoredIsPrior
    /\ pc # "idle" => reported = "none" /\ Update!Sound(before)
    /\ pc \in {"preserve", "copy", "write"} => app = before
    /\ pc \in {"copy", "write", "updater", "undo", "check", "restore"} => previous = before
    /\ reported = "updated" => Update!Sound(previous)

\* The invariant holds of a fresh installation.
LEMMA UpdateStart == Update!Init => UpdateInv
  BY ClientConstants, SMTT(40) DEF Update!Init, UpdateInv, Update!RunnableRemains, Update!RestoredIsPrior, Update!Sound

\* Every step of Apply, of the installer and of Rollback keeps it, and so does
\* a failing call or a crash at any of them.
LEMMA UpdateStep == UpdateInv /\ [Update!Next]_<<updateVars, faults>> => UpdateInv'
<1> SUFFICES ASSUME UpdateInv, [Update!Next]_<<updateVars, faults>> PROVE UpdateInv'
  OBVIOUS
<1> USE DEF UpdateInv, Update!RunnableRemains, Update!RestoredIsPrior
<1>1. CASE Update!Stage
  BY <1>1, Zenon DEF Update!Stage, Update!Sound
<1>2. CASE Update!Apply
  BY <1>2, Zenon DEF Update!Apply, Update!Sound
<1>3. CASE Update!Preserve
  BY <1>3, Zenon DEF Update!Preserve, Update!Sound
<1>4. CASE Update!CopyPrevious
  BY <1>4, Zenon DEF Update!CopyPrevious, Update!Sound
<1>5. CASE Update!WriteApplication
  BY <1>5, Zenon DEF Update!WriteApplication, Update!Sound
<1>6. CASE Update!WriteUpdater
  BY <1>6, Zenon DEF Update!WriteUpdater, Update!Sound
<1>7. CASE Update!InstallFailed
  BY <1>7, Zenon DEF Update!InstallFailed, Update!Sound
<1>8. CASE Update!Check
  BY <1>8, Zenon DEF Update!Check, Update!Return, Update!Sound
<1>9. CASE Update!Restore
  BY <1>9, Zenon DEF Update!Restore, Update!Return, Update!Sound
<1>10. CASE Update!Rollback
  BY <1>10, Zenon DEF Update!Rollback, Update!Sound
<1>11. CASE Update!Crash
  <2>1. pc' = "idle" /\ reported' = "none" /\ before' = before
    BY <1>11, Zenon DEF Update!Crash
  <2>2. CASE pc \in {"preserve", "copy"}
    <3>1. app' = app
      BY <1>11, <2>2, Zenon DEF Update!Crash
    <3> QED  BY <2>1, <2>2, <3>1, Zenon DEF Update!Sound
  <2>3. CASE pc \in {"write", "updater", "undo", "check", "restore"}
    <3>1. previous' = previous
      BY <1>11, <2>3, Zenon DEF Update!Crash
    <3> QED  BY <2>1, <2>3, <3>1, Zenon DEF Update!Sound
  <2> QED  BY <1>11, <2>2, <2>3, Zenon DEF Update!Crash
<1>12. CASE UNCHANGED <<updateVars, faults>>
  BY <1>12, Zenon DEF updateVars, Update!Sound
<1> QED
  BY <1>1, <1>2, <1>3, <1>4, <1>5, <1>6, <1>7, <1>8, <1>9, <1>10, <1>11, <1>12 DEF Update!Next

-----------------------------------------------------------------------------
(* LAN pairing.                                                            *)

\* What Finish derives for s and the peer message of q while s has its scalar,
\* and after s was closed.
LiveKey(s, q) ==
    [parts |-> {s, q},
     known |-> IF code[s] = code[q] THEN "both" ELSE s,
     transcript |-> IF s \in Initiators THEN <<s, q>> ELSE <<q, s>>]
DeadKey(s, q) ==
    [parts |-> {}, known |-> Pair!Cleared,
     transcript |-> IF s \in Initiators THEN <<Pair!Cleared, q>> ELSE <<q, Pair!Cleared>>]

PairTypes ==
    /\ scalar \in [Pair!Sessions -> Pair!Sessions \cup {Pair!Cleared}]
    /\ public \in [Pair!Sessions -> Pair!Sessions \cup {Pair!Cleared}]
    /\ DOMAIN key = Pair!Sessions /\ DOMAIN seen = Pair!Sessions /\ DOMAIN opened = Pair!Sessions
    /\ key = [s \in Pair!Sessions |-> key[s]]
    /\ seen = [s \in Pair!Sessions |-> seen[s]]
    /\ opened = [s \in Pair!Sessions |-> opened[s]]

\* A session has its own scalar until it finishes or closes; closed, it has
\* neither key nor message of its own, and can only derive a dead key.
KeysDerived ==
    \A s \in Pair!Sessions :
        /\ scalar[s] \in {s, Pair!Cleared} /\ public[s] \in {s, Pair!Cleared}
        /\ scalar[s] = s => public[s] = s /\ key[s] = Pair!NoKey
        /\ scalar[s] = Pair!Cleared /\ key[s] = Pair!NoKey => public[s] = Pair!Cleared
        /\ \/ key[s] = Pair!NoKey
           \/ \E q \in Pair!Sessions :
                 /\ Pair!Label(q) # Pair!Label(s)
                 /\ \/ key[s] = LiveKey(s, q) /\ public[s] = s
                    \/ key[s] = DeadKey(s, q) /\ public[s] = Pair!Cleared

\* A confirmation is of a key its sender derived.
Confirmed ==
    \A c \in confirmations : \E s, q \in Pair!Sessions :
        /\ Pair!Label(q) # Pair!Label(s)
        /\ c.label = Pair!Label(s) /\ c.key \in {LiveKey(s, q), DeadKey(s, q)}

\* A verified session has the live key of a peer that used the same code, and so
\* had the sender of a frame when it sealed it.
Agreed(s, k) ==
    \E q \in Pair!Sessions :
        Pair!Label(q) # Pair!Label(s) /\ code[q] = code[s] /\ k = LiveKey(s, q)
VerifiedLive ==
    /\ verified \subseteq Pair!Sessions
    /\ \A s \in verified : public[s] = s /\ Agreed(s, key[s])
    /\ \A f \in sealed : f.from \in Pair!Sessions /\ Agreed(f.from, f.key)

\* A frame that was opened is remembered until the session closes for good.
OpenedSeen ==
    \A s \in Pair!Sessions : public[s] = s => \A o \in opened[s] : o[1] \in seen[s]

PairInv == PairTypes /\ KeysDerived /\ Confirmed /\ VerifiedLive /\ OpenedSeen /\ Pair!OpenedOnce


\* The names of a session, of a cleared message and of a key known to both
\* differ, and so do two sessions of different roles.
LEMMA SessionNames ==
    /\ Pair!Cleared \notin Pair!Sessions /\ "both" \notin Pair!Sessions
    /\ Pair!Cleared # "both"
    /\ \A s, q \in Pair!Sessions : Pair!Label(q) # Pair!Label(s) => q # s
  BY ClientConstants, Zenon DEF Pair!Cleared, Pair!Sessions, Pair!Label

\* Two sessions of different roles derive the same key only when both are live
\* and used the same code: the keys of two closed sessions (closeLocked zeroes
\* message and scalar) differ in their transcripts.
LEMMA KeysMatch ==
    ASSUME NEW s \in Pair!Sessions, NEW p \in Pair!Sessions, NEW q \in Pair!Sessions, NEW r \in Pair!Sessions,
           Pair!Label(p) # Pair!Label(s), Pair!Label(q) # Pair!Label(s), Pair!Label(r) # Pair!Label(q),
           NEW k, k \in {LiveKey(s, p), DeadKey(s, p)}, k \in {LiveKey(q, r), DeadKey(q, r)}
    PROVE  k = LiveKey(s, p) /\ code[p] = code[s]
<1>1. CASE k = DeadKey(s, p) /\ k = DeadKey(q, r)
  <2>1. s \in Initiators <=> q \notin Initiators
    BY Zenon DEF Pair!Label
  <2>2. k.transcript = IF s \in Initiators THEN <<Pair!Cleared, p>> ELSE <<p, Pair!Cleared>>
    BY <1>1 DEF DeadKey
  <2>3. k.transcript = IF q \in Initiators THEN <<Pair!Cleared, r>> ELSE <<r, Pair!Cleared>>
    BY <1>1 DEF DeadKey
  <2>4. p = Pair!Cleared
    BY <2>1, <2>2, <2>3
  <2> QED  BY <2>4, SessionNames, Zenon
<1>2. CASE k = LiveKey(s, p) /\ k = DeadKey(q, r)
  <2>1. k.parts = {s, p} /\ k.parts = {}
    BY <1>2 DEF LiveKey, DeadKey
  <2> QED  BY <2>1, Zenon
<1>3. CASE k = DeadKey(s, p) /\ k = LiveKey(q, r)
  <2>1. k.parts = {q, r} /\ k.parts = {}
    BY <1>3 DEF LiveKey, DeadKey
  <2> QED  BY <2>1, Zenon
<1>4. CASE k = LiveKey(s, p) /\ k = LiveKey(q, r)
  <2>1. k.known = IF code[s] = code[p] THEN "both" ELSE s
    BY <1>4 DEF LiveKey
  <2>2. k.known = IF code[q] = code[r] THEN "both" ELSE q
    BY <1>4 DEF LiveKey
  <2>3. code[p] = code[s]
    BY <2>1, <2>2, SessionNames, Zenon
  <2> QED  BY <1>4, <2>3, Zenon
<1> QED  BY <1>1, <1>2, <1>3, <1>4, Zenon

\* The invariant holds of fresh sessions (NewPairingSession).
LEMMA PairStart == Pair!Init => PairInv
<1> SUFFICES ASSUME Pair!Init PROVE PairInv
  OBVIOUS
<1>1. PairTypes
  BY Zenon DEF Pair!Init, PairTypes
<1>2. KeysDerived
  BY SessionNames, Zenon DEF Pair!Init, KeysDerived
<1> QED  BY <1>1, <1>2, Zenon DEF Pair!Init, PairInv, Confirmed, VerifiedLive, OpenedSeen, Pair!OpenedOnce

\* A session stays in agreement with its peer: codes never change.
LEMMA VerifiedKept ==
    ASSUME VerifiedLive, UNCHANGED code, verified' \subseteq verified,
           \A f \in sealed' : f.from \in Pair!Sessions /\ Agreed(f.from, f.key),
           \A t \in verified' : public'[t] = public[t] /\ key'[t] = key[t]
    PROVE  VerifiedLive'
<1>1. ASSUME NEW t, NEW k, Agreed(t, k) PROVE Agreed(t, k)'
  BY <1>1, Zenon DEF Agreed, LiveKey
<1>2. ASSUME NEW t \in verified' PROVE public'[t] = t /\ Agreed(t, key[t])'
  <2>1. PICK k : k = key[t]
    OBVIOUS
  <2>2. Agreed(t, k) /\ public[t] = t
    BY <1>2, <2>1, Zenon DEF VerifiedLive
  <2>3. Agreed(t, k)'
    BY <2>2, <1>1, Zenon
  <2> QED  BY <1>2, <2>1, <2>2, <2>3, Zenon DEF Agreed
<1>3. ASSUME NEW f \in sealed' PROVE f.from \in Pair!Sessions /\ Agreed(f.from, f.key)'
  BY <1>1, <1>3, Zenon DEF VerifiedLive
<1> QED  BY <1>2, <1>3, Zenon DEF VerifiedLive

\* A call that derives no key and confirms none leaves what is known of them.
LEMMA KeysKept ==
    ASSUME KeysDerived, Confirmed, UNCHANGED <<code, scalar, public, key, confirmations>>
    PROVE  KeysDerived' /\ Confirmed'
<1>1. KeysDerived'
  BY ZenonT(40) DEF KeysDerived, LiveKey, DeadKey
<1>2. Confirmed'
  BY DEF Confirmed, LiveKey, DeadKey
<1> QED  BY <1>1, <1>2, Zenon

\* closeLocked keeps the invariant: the session is closed for good.
LEMMA ClosedStep ==
    ASSUME NEW s \in Pair!Sessions, PairInv, Pair!Closed(s), UNCHANGED <<code, sealed, opened, confirmations>>
    PROVE  PairInv'
<1>1. PairTypes'
  BY Zenon DEF PairInv, PairTypes, Pair!Closed
<1>2. KeysDerived'
  <2> SUFFICES ASSUME NEW t \in Pair!Sessions PROVE
        /\ scalar'[t] \in {t, Pair!Cleared} /\ public'[t] \in {t, Pair!Cleared}
        /\ scalar'[t] = t => public'[t] = t /\ key'[t] = Pair!NoKey
        /\ scalar'[t] = Pair!Cleared /\ key'[t] = Pair!NoKey => public'[t] = Pair!Cleared
        /\ \/ key'[t] = Pair!NoKey
           \/ \E q \in Pair!Sessions :
                 /\ Pair!Label(q) # Pair!Label(t)
                 /\ \/ key'[t] = LiveKey(t, q) /\ public'[t] = t
                    \/ key'[t] = DeadKey(t, q) /\ public'[t] = Pair!Cleared
    BY ZenonT(40) DEF KeysDerived, LiveKey, DeadKey
  <2>1. CASE t = s
    <3>1. scalar'[t] = Pair!Cleared /\ public'[t] = Pair!Cleared /\ key'[t] = Pair!NoKey
      BY <2>1, Zenon DEF PairInv, PairTypes, Pair!Closed
    <3> QED  BY <3>1, SessionNames, Zenon
  <2>2. CASE t # s
    <3>1. scalar'[t] = scalar[t] /\ public'[t] = public[t] /\ key'[t] = key[t]
      BY <2>2, Zenon DEF PairInv, PairTypes, Pair!Closed
    <3> QED  BY <3>1 DEF PairInv, KeysDerived
  <2> QED  BY <2>1, <2>2, Zenon
<1>3. Confirmed'
  BY DEF PairInv, Confirmed, LiveKey, DeadKey
<1>4. VerifiedLive'
  <2>1. \A t \in verified' : t # s /\ t \in verified /\ public'[t] = public[t] /\ key'[t] = key[t]
    BY Zenon DEF Pair!Closed, PairInv, PairTypes, VerifiedLive
  <2> QED  BY <2>1, VerifiedKept, Zenon DEF PairInv, Pair!Closed, VerifiedLive
<1>5. OpenedSeen'
  <2> SUFFICES ASSUME NEW t \in Pair!Sessions, public'[t] = t PROVE \A o \in opened'[t] : o[1] \in seen'[t]
    BY Zenon DEF OpenedSeen
  <2>1. t # s
    BY SessionNames, Zenon DEF Pair!Closed, PairInv, PairTypes
  <2>2. public'[t] = public[t] /\ seen'[t] = seen[t]
    BY <2>1, Zenon DEF Pair!Closed, PairInv, PairTypes
  <2> QED  BY <2>2, Zenon DEF PairInv, OpenedSeen
<1>6. Pair!OpenedOnce'
  BY Zenon DEF PairInv, Pair!OpenedOnce
<1> QED  BY <1>1, <1>2, <1>3, <1>4, <1>5, <1>6, Zenon DEF PairInv


\* Finish keeps it: the key is live when the session still had its scalar, and
\* dead when it had been closed.
LEMMA FinishStep ==
    ASSUME NEW s \in Pair!Sessions, NEW q \in Pair!Sessions, Pair!Label(q) # Pair!Label(s),
           PairInv, Pair!Finish(s, q)
    PROVE  PairInv'
<1>1. PICK k : k = Pair!DerivedKey(s, q)
  OBVIOUS
<1>2. /\ key[s] = Pair!NoKey /\ key' = [key EXCEPT ![s] = k]
      /\ scalar' = [scalar EXCEPT ![s] = Pair!Cleared]
      /\ confirmations' = confirmations \cup {[label |-> Pair!Label(s), key |-> k]}
      /\ UNCHANGED <<code, public, verified, expired, sealed, seen, opened>>
  BY <1>1, Zenon DEF Pair!Finish
<1>3. \/ k = LiveKey(s, q) /\ public[s] = s
      \/ k = DeadKey(s, q) /\ public[s] = Pair!Cleared
  <2>1. CASE scalar[s] = s
    <3>1. public[s] = s /\ s # Pair!Cleared
      BY <2>1, SessionNames, Zenon DEF PairInv, KeysDerived
    <3> QED  BY <1>1, <2>1, <3>1, Zenon DEF Pair!DerivedKey, LiveKey, Pair!Transcript
  <2>2. CASE scalar[s] = Pair!Cleared
    <3>1. public[s] = Pair!Cleared
      BY <1>2, <2>2, Zenon DEF PairInv, KeysDerived
    <3> QED  BY <1>1, <2>2, <3>1, Zenon DEF Pair!DerivedKey, DeadKey, Pair!Transcript
  <2> QED  BY <2>1, <2>2, Zenon DEF PairInv, KeysDerived
<1>4. k # Pair!NoKey
  <2>1. Pair!NoKey.parts = {} /\ Pair!NoKey.known = "none"
    BY Zenon DEF Pair!NoKey, Pair!None
  <2>2. k.parts # {} \/ k.known = Pair!Cleared
    BY <1>3 DEF LiveKey, DeadKey
  <2> QED  BY <2>1, <2>2, Zenon DEF Pair!Cleared
<1>5. PairTypes'
  BY <1>2, Zenon DEF PairInv, PairTypes
<1>6. KeysDerived'
  <2> SUFFICES ASSUME NEW t \in Pair!Sessions PROVE
        /\ scalar'[t] \in {t, Pair!Cleared} /\ public'[t] \in {t, Pair!Cleared}
        /\ scalar'[t] = t => public'[t] = t /\ key'[t] = Pair!NoKey
        /\ scalar'[t] = Pair!Cleared /\ key'[t] = Pair!NoKey => public'[t] = Pair!Cleared
        /\ \/ key'[t] = Pair!NoKey
           \/ \E r \in Pair!Sessions :
                 /\ Pair!Label(r) # Pair!Label(t)
                 /\ \/ key'[t] = LiveKey(t, r) /\ public'[t] = t
                    \/ key'[t] = DeadKey(t, r) /\ public'[t] = Pair!Cleared
    <3>1. code' = code
      BY <1>2, Zenon
    <3> QED  BY <3>1, ZenonT(40) DEF KeysDerived, LiveKey, DeadKey
  <2>1. CASE t = s
    <3>1. scalar'[t] = Pair!Cleared /\ public'[t] = public[s] /\ key'[t] = k
      BY <1>2, <2>1, Zenon DEF PairInv, PairTypes
    <3> QED  BY <1>3, <1>4, <2>1, <3>1, SessionNames, Zenon
  <2>2. CASE t # s
    <3>1. scalar'[t] = scalar[t] /\ public'[t] = public[t] /\ key'[t] = key[t]
      BY <1>2, <2>2, Zenon DEF PairInv, PairTypes
    <3> QED  BY <3>1 DEF PairInv, KeysDerived
  <2> QED  BY <2>1, <2>2, Zenon
<1>7. Confirmed'
  <2>1. \A c \in confirmations : \E t, r \in Pair!Sessions :
            /\ Pair!Label(r) # Pair!Label(t)
            /\ c.label = Pair!Label(t) /\ c.key \in {LiveKey(t, r), DeadKey(t, r)}
    BY Zenon DEF PairInv, Confirmed
  <2>2. \A c \in confirmations' : \E t, r \in Pair!Sessions :
            /\ Pair!Label(r) # Pair!Label(t)
            /\ c.label = Pair!Label(t) /\ c.key \in {LiveKey(t, r), DeadKey(t, r)}
    BY <1>2, <1>3, <2>1
  <2> QED  BY <1>2, <2>2 DEF Confirmed, LiveKey, DeadKey
<1>8. VerifiedLive'
  <2>1. s \notin verified
    <3> SUFFICES ASSUME s \in verified PROVE FALSE
      OBVIOUS
    <3>1. PICK r \in Pair!Sessions : key[s] = LiveKey(s, r)
      BY Zenon DEF PairInv, VerifiedLive, Agreed
    <3>2. key[s].parts # {}
      BY <3>1 DEF LiveKey
    <3> QED  BY <1>2, <3>2 DEF Pair!NoKey
  <2> QED  BY <1>2, <2>1, VerifiedKept, Zenon DEF PairInv, PairTypes, VerifiedLive
<1>9. OpenedSeen' /\ Pair!OpenedOnce'
  BY <1>2, Zenon DEF PairInv, OpenedSeen, Pair!OpenedOnce
<1> QED  BY <1>5, <1>6, <1>7, <1>8, <1>9, Zenon DEF PairInv


\* VerifyConfirmation keeps it: a confirmation that matches was made by a live
\* session of the other role that used the same code.
LEMMA VerifyStep ==
    ASSUME NEW s \in Pair!Sessions, NEW c \in confirmations, PairInv, Pair!VerifyConfirmation(s, c)
    PROVE  PairInv'
<1>1. CASE ~(key[s] # Pair!NoKey /\ c = [label |-> Pair!PeerLabel(s), key |-> key[s]])
  BY <1>1, ClosedStep, Zenon DEF Pair!VerifyConfirmation
<1>2. CASE key[s] # Pair!NoKey /\ c = [label |-> Pair!PeerLabel(s), key |-> key[s]]
  <2>1. /\ verified' = verified \cup {s}
        /\ UNCHANGED <<code, scalar, public, key, sealed, seen, opened, confirmations>>
    BY <1>2, Zenon DEF Pair!VerifyConfirmation
  <2>2. PICK k : k = key[s]
    OBVIOUS
  <2>3. PICK p \in Pair!Sessions :
            /\ Pair!Label(p) # Pair!Label(s)
            /\ \/ k = LiveKey(s, p) /\ public[s] = s
               \/ k = DeadKey(s, p) /\ public[s] = Pair!Cleared
    BY <1>2, <2>2, Zenon DEF PairInv, KeysDerived
  <2>4. PICK q \in Pair!Sessions, r \in Pair!Sessions :
            /\ Pair!Label(r) # Pair!Label(q)
            /\ c.label = Pair!Label(q) /\ c.key \in {LiveKey(q, r), DeadKey(q, r)}
    BY Zenon DEF PairInv, Confirmed
  <2>5. Pair!Label(q) # Pair!Label(s) /\ k \in {LiveKey(q, r), DeadKey(q, r)}
    <3>1. c.label = Pair!PeerLabel(s) /\ c.key = k
      BY <1>2, <2>2, Zenon
    <3> QED  BY <2>4, <3>1, Zenon DEF Pair!PeerLabel, Pair!Label
  <2>6. k = LiveKey(s, p) /\ code[p] = code[s]
    BY <2>3, <2>4, <2>5, KeysMatch
  <2>7. public[s] = s
    <3>1. k.parts # {}
      BY <2>6, Zenon DEF LiveKey
    <3>2. k # DeadKey(s, p)
      BY <3>1 DEF DeadKey
    <3> QED  BY <2>3, <3>2, Zenon
  <2>8. Agreed(s, key[s])
    BY <2>2, <2>3, <2>6, Zenon DEF Agreed
  <2>9. VerifiedLive'
    <3>1. \A t \in verified \cup {s} : t \in Pair!Sessions /\ public[t] = t /\ Agreed(t, key[t])
      BY <2>7, <2>8, Zenon DEF PairInv, VerifiedLive
    <3>2. \A t, m : Agreed(t, m)' <=> Agreed(t, m)
      BY <2>1, Zenon DEF Agreed, LiveKey
    <3> QED  BY <2>1, <3>1, <3>2, Zenon DEF PairInv, VerifiedLive
  <2>10. PairTypes' /\ KeysDerived' /\ Confirmed' /\ OpenedSeen' /\ Pair!OpenedOnce'
    <3>1. PairTypes' /\ OpenedSeen' /\ Pair!OpenedOnce'
      BY <2>1 DEF PairInv, PairTypes, OpenedSeen, Pair!OpenedOnce
    <3>2. KeysDerived' /\ Confirmed'
      BY <2>1, KeysKept, Zenon DEF PairInv
    <3> QED  BY <3>1, <3>2, Zenon
  <2> QED  BY <2>9, <2>10, Zenon DEF PairInv
<1> QED  BY <1>1, <1>2, Zenon

\* Seal keeps it: the frame has the live key of its sender.
LEMMA SealStep ==
    ASSUME NEW s \in Pair!Sessions, PairInv, Pair!Seal(s)
    PROVE  PairInv'
<1>1. PICK f : f.from = s /\ f.key = key[s] /\ sealed' = sealed \cup {f}
  BY Zenon DEF Pair!Seal
<1>2. s \in verified /\ UNCHANGED <<code, scalar, public, key, verified, seen, opened, confirmations>>
  BY Zenon DEF Pair!Seal
<1>3. VerifiedLive'
  <2>1. \A t \in sealed \cup {f} : t.from \in Pair!Sessions /\ Agreed(t.from, t.key)
    BY <1>1, <1>2, Zenon DEF PairInv, VerifiedLive
  <2> QED  BY <1>1, <1>2, <2>1, VerifiedKept, Zenon DEF PairInv
<1>4. PairTypes' /\ OpenedSeen' /\ Pair!OpenedOnce'
  BY <1>2 DEF PairInv, PairTypes, OpenedSeen, Pair!OpenedOnce
<1>5. KeysDerived' /\ Confirmed'
  BY <1>2, KeysKept, Zenon DEF PairInv
<1> QED  BY <1>3, <1>4, <1>5, Zenon DEF PairInv

\* Open keeps it: a frame not seen was not opened since the session began, and
\* one under the session's key was sealed by its peer or by itself.
LEMMA OpenStep ==
    ASSUME NEW s \in Pair!Sessions, NEW f \in sealed, PairInv, Pair!Open(s, f)
    PROVE  PairInv'
<1>1. /\ s \in verified /\ f.key = key[s] /\ f \notin seen[s]
      /\ seen' = [seen EXCEPT ![s] = @ \cup {f}]
      /\ UNCHANGED <<code, scalar, public, key, verified, sealed, confirmations>>
  BY Zenon DEF Pair!Open
<1>2. public[s] = s /\ Agreed(s, f.key) /\ f.from \in Pair!Sessions /\ Agreed(f.from, f.key)
  BY <1>1, Zenon DEF PairInv, VerifiedLive
<1>3. {o \in opened[s] : o[1] = f} = {}
  BY <1>1, <1>2, Zenon DEF PairInv, OpenedSeen
<1>4. opened' = [opened EXCEPT ![s] = @ \cup {<<f, 0>>}]
  <2>1. Pair!Cardinality({}) = 0
    BY FS_EmptySet, Zenon DEF Cardinality, Pair!Cardinality
  <2>2. opened' = [opened EXCEPT ![s] = opened[s] \cup {<<f, Pair!Cardinality({o \in opened[s] : o[1] = f})>>}]
    BY Zenon DEF Pair!Open
  <2> QED  BY <1>3, <2>1, <2>2, Zenon
<1>5. {s, f.from} \subseteq f.key.parts /\ code[f.from] = code[s]
  <2>1. PICK p \in Pair!Sessions : code[p] = code[s] /\ f.key = LiveKey(s, p)
    BY <1>2, Zenon DEF Agreed
  <2>2. PICK r \in Pair!Sessions : f.key = LiveKey(f.from, r)
    BY <1>2, Zenon DEF Agreed
  <2>3. f.key.parts = {s, p} /\ f.key.parts = {f.from, r}
    BY <2>1, <2>2 DEF LiveKey
  <2> QED  BY <2>1, <2>3, Zenon
<1>6. Pair!OpenedOnce'
  <2> SUFFICES ASSUME NEW t \in Pair!Sessions, NEW o \in opened'[t]
               PROVE  o[2] = 0 /\ {t, o[1].from} \subseteq o[1].key.parts /\ code[o[1].from] = code[t]
    BY <1>1, Zenon DEF Pair!OpenedOnce
  <2>1. o \in opened[t] \/ (t = s /\ o = <<f, 0>>)
    BY <1>4, Zenon DEF PairInv, PairTypes
  <2>2. CASE o \in opened[t]
    BY <2>2, Zenon DEF PairInv, Pair!OpenedOnce
  <2>3. CASE t = s /\ o = <<f, 0>>
    <3>1. o[1] = f /\ o[2] = 0
      BY <2>3, Zenon
    <3> QED  BY <1>5, <2>3, <3>1, Zenon
  <2> QED  BY <2>1, <2>2, <2>3, Zenon
<1>7. OpenedSeen'
  <2> SUFFICES ASSUME NEW t \in Pair!Sessions, public[t] = t, NEW o \in opened'[t] PROVE o[1] \in seen'[t]
    BY <1>1, Zenon DEF OpenedSeen
  <2>1. o \in opened[t] \/ (t = s /\ o[1] = f)
    BY <1>4 DEF PairInv, PairTypes
  <2>2. seen[t] \subseteq seen'[t] /\ (t = s => f \in seen'[t])
    BY <1>1, Zenon DEF PairInv, PairTypes
  <2> QED  BY <2>1, <2>2, Zenon DEF PairInv, OpenedSeen
<1>8. PairTypes'
  BY <1>1, <1>4, Zenon DEF PairInv, PairTypes
<1>9. KeysDerived' /\ Confirmed' /\ VerifiedLive'
  <2>1. KeysDerived' /\ Confirmed'
    BY <1>1, KeysKept, Zenon DEF PairInv
  <2>2. VerifiedLive'
    BY <1>1, VerifiedKept, Zenon DEF PairInv, VerifiedLive
  <2> QED  BY <2>1, <2>2, Zenon
<1> QED  BY <1>6, <1>7, <1>8, <1>9, Zenon DEF PairInv


\* Every call keeps the invariant, in whatever order the messages arrive.
LEMMA PairStep == PairInv /\ [Pair!Next]_pairVars => PairInv'
<1> SUFFICES ASSUME PairInv, [Pair!Next]_pairVars PROVE PairInv'
  OBVIOUS
<1>1. CASE UNCHANGED pairVars
  <2>1. UNCHANGED <<code, scalar, public, key, verified, sealed, seen, opened, confirmations>>
    BY <1>1, Zenon DEF pairVars
  <2>2. KeysDerived' /\ Confirmed'
    BY <2>1, KeysKept, Zenon DEF PairInv
  <2>3. VerifiedLive'
    BY <2>1, VerifiedKept, Zenon DEF PairInv, VerifiedLive
  <2>4. PairTypes' /\ OpenedSeen' /\ Pair!OpenedOnce'
    BY <2>1 DEF PairInv, PairTypes, OpenedSeen, Pair!OpenedOnce
  <2> QED  BY <2>2, <2>3, <2>4, Zenon DEF PairInv
<1>2. CASE Pair!Next
  <2>1. PICK s \in Pair!Sessions :
            \/ Pair!Close(s) \/ Pair!Expire(s) \/ Pair!Seal(s)
            \/ \E q \in {q \in Pair!Sessions : Pair!Label(q) # Pair!Label(s)} : Pair!Finish(s, q)
            \/ \E c \in confirmations : Pair!VerifyConfirmation(s, c)
            \/ \E f \in sealed : Pair!Open(s, f)
    BY <1>2, Zenon DEF Pair!Next
  <2>2. CASE Pair!Close(s)
    BY <2>2, ClosedStep, Zenon DEF Pair!Close
  <2>3. CASE Pair!Expire(s)
    BY <2>3, ClosedStep, Zenon DEF Pair!Expire
  <2>4. CASE Pair!Seal(s)
    BY <2>4, SealStep, Zenon
  <2>5. CASE \E q \in {q \in Pair!Sessions : Pair!Label(q) # Pair!Label(s)} : Pair!Finish(s, q)
    BY <2>5, FinishStep, Zenon
  <2>6. CASE \E c \in confirmations : Pair!VerifyConfirmation(s, c)
    BY <2>6, VerifyStep, Zenon
  <2>7. CASE \E f \in sealed : Pair!Open(s, f)
    BY <2>7, OpenStep, Zenon
  <2> QED  BY <2>1, <2>2, <2>3, <2>4, <2>5, <2>6, <2>7, Zenon
<1> QED  BY <1>1, <1>2, Zenon

\* A verified session agrees with its peer, and opens a frame once.
LEMMA PairGoal == PairInv => Pair!VerifiedAgree /\ Pair!OpenedOnce
<1> SUFFICES ASSUME PairInv PROVE Pair!VerifiedAgree
  BY Zenon DEF PairInv
<1> SUFFICES ASSUME NEW s \in verified
    PROVE  \E q \in Pair!Sessions :
              /\ Pair!Label(q) # Pair!Label(s) /\ code[q] = code[s]
              /\ key[s] = [parts |-> {s, q}, known |-> "both", transcript |-> Pair!Transcript(s, q)]
  BY Zenon DEF Pair!VerifiedAgree
<1>1. public[s] = s /\ Agreed(s, key[s])
  BY Zenon DEF PairInv, VerifiedLive
<1>2. PICK q \in Pair!Sessions : Pair!Label(q) # Pair!Label(s) /\ code[q] = code[s] /\ key[s] = LiveKey(s, q)
  BY <1>1, Zenon DEF Agreed
<1>3. key[s] = [parts |-> {s, q}, known |-> "both", transcript |-> Pair!Transcript(s, q)]
  BY <1>1, <1>2, Zenon DEF LiveKey, Pair!Transcript
<1> QED  BY <1>2, <1>3, Zenon

-----------------------------------------------------------------------------
(* The theorems.                                                           *)

PartInv ==
    /\ profile = "editor" => EditorInv
    /\ profile = "pairing" => PairInv
    /\ profile = "update" => UpdateInv

\* The components do not share state, so their invariants hold together.
LEMMA PartInductive == PartSpec => []PartInv
<1>1. PartInit => PartInv
  BY EditorStart, PairStart, UpdateStart, Zenon DEF PartInit, PartInv
<1>2. PartInv /\ [PartNext]_partVars => PartInv'
  <2> SUFFICES ASSUME PartInv, [PartNext]_partVars PROVE PartInv'
    OBVIOUS
  <2>1. /\ profile' = profile
        /\ profile = "editor" => [Editor!Next]_editorVars
        /\ profile = "pairing" => [Pair!Next]_pairVars
        /\ profile = "update" => [Update!Next]_<<updateVars, faults>>
    BY Zenon DEF PartNext, partVars
  <2> QED  BY <2>1, EditorStep, PairStep, UpdateStep, Zenon DEF PartInv
<1> QED  BY <1>1, <1>2, PTL DEF PartSpec

\* core/editorcommit/tracker.go: the editor displays Saved only while the latest
\* input is in the database, however many commits are in flight, are retried,
\* fail, or complete out of order.
THEOREM EditorShowsDurable == PartSpec => []SavedIsDurable
<1>1. PartInv => SavedIsDurable
  BY Zenon DEF PartInv, EditorInv, SavedIsDurable
<1> QED  BY <1>1, PartInductive, PTL

\* core/mobileapi/pairing.go: for any number of sessions, closings and frames, a
\* verified session agrees on the key with one of the other role and the same
\* code, and a frame is opened once, by a session its sender agreed with.
THEOREM PairingSound == PartSpec => []PairingAgrees
<1>1. PartInv => PairingAgrees
  BY PairGoal, Zenon DEF PartInv, PairingAgrees
<1> QED  BY <1>1, PartInductive, PTL

\* internal/desktopupdate/apply.go: whichever and however many calls fail, and
\* wherever the machine stops, an executable that runs is installed or kept,
\* and one that is reported as restored is the one installed before.
THEOREM UpdaterSound == PartSpec => []UpdateRecoverable
<1>1. PartInv => UpdateRecoverable
  BY Zenon DEF PartInv, UpdateInv, UpdateRecoverable
<1> QED  BY <1>1, PartInductive, PTL
=============================================================================
