----------------------------- MODULE KeyProofs -----------------------------
(***************************************************************************)
(* For any members, keys, changes and failing requests: as long as the     *)
(* commands of the owner's device do not overlap its worker, a removed     *)
(* member holds the current key only while a rotation is owed.             *)
(***************************************************************************)
EXTENDS WorkspaceKeys, TLAPS

\* The threads are distinct, the owner's two do not overlap, and the marker's
\* local write does not fail.
Sequential ==
    /\ ~Concurrent /\ "mark" \notin Faulty
    /\ Owner \notin Members /\ UI \notin Users

KeyTypes ==
    /\ current \in Keys /\ member = [u \in Users |-> member[u]]
    /\ envelope = [u \in Users |-> [k \in Keys |-> envelope[u][k]]]
    /\ job = [t \in Threads |-> job[t]]

\* One thread of the owner's device at a time; a member's worker never rotates.
OneAtATime ==
    /\ At(UI, "idle") \/ At(Owner, "idle")
    /\ \A u \in Members : job[u].at \in {"idle", "check", "envelopes", "apply", "pull", "push"}

\* Once the server has taken the new key, no removed member has it until the
\* marker is cleared.
Rotated ==
    \A t \in {UI, Owner} : job[t].at \in {"accept", "clear"} =>
        \A u \in Users : member[u] = "revoked" => envelope[u][current] = 0

RInv == KeyTypes /\ OneAtATime /\ Rotated /\ RotationOwed

(* It holds of a workspace that its owner has just created. *)
LEMMA KeyInit == Sequential /\ Init => RInv
  BY DEF Sequential, Init, RInv, KeyTypes, OneAtATime, Rotated, RotationOwed, Users, Threads, Idle, At

(* A step that leaves the server and the marker alone and moves one thread *)
(* on keeps the invariant.                                                 *)
LEMMA Moves ==
    ASSUME Sequential, RInv, NEW t \in Threads, NEW to,
           UNCHANGED <<current, member, envelope, pending>>,
           job' = [job EXCEPT ![t] = to],
           ~At(t, "mark"),
           ~At(t, "idle") \/ MayStart(t) \/ to.at = "idle",
           to.at \in {"accept", "clear"} => t \in {UI, Owner} /\ job[t].at \in {"accept", "clear"},
           t \in Members => to.at \in {"idle", "check", "envelopes", "apply", "pull", "push"}
    PROVE  RInv'
  BY Zenon DEF Sequential, RInv, KeyTypes, OneAtATime, Rotated, RotationOwed, Users, Threads, At, UserOf, MayStart

(* Every step of sharing, revocation, rotation and the cycles preserves it. *)
LEMMA KeyStep == Sequential /\ RInv /\ [Next]_vars => RInv'
  <1> SUFFICES ASSUME Sequential, RInv, [Next]_vars PROVE RInv'
    OBVIOUS
  <1>threads. /\ Users \subseteq Threads /\ UI \in Threads /\ Owner \in Users
              /\ \A t \in Threads : UserOf(t) = Owner <=> t \in {UI, Owner}
              /\ \A t \in Threads : t \in {UI, Owner} \/ t \in Members
              /\ \A u \in Users : UserOf(u) = u
    BY Zenon DEF Sequential, Users, Threads, UserOf
  <1>1. ASSUME NEW u \in Users, ShareWorkspace(u) PROVE RInv'
    BY <1>1, <1>threads, ZenonT(40) DEF ShareWorkspace, MayStart, server, device, Sequential, RInv, KeyTypes,
       OneAtATime, Rotated, RotationOwed, Users, Threads, At, UserOf
  <1>2. ASSUME NEW u \in Users, AcceptWorkspaceShare(u) PROVE RInv'
    BY <1>2, Zenon DEF AcceptWorkspaceShare, server, RInv, KeyTypes, OneAtATime, Rotated, RotationOwed, At
  <1>3. ASSUME NEW u \in Users, RevokeMember(u) PROVE RInv'
    BY <1>3, <1>threads, ZenonT(40) DEF RevokeMember, Goto, Idle, MayStart, device, Sequential, RInv, KeyTypes,
       OneAtATime, Rotated, RotationOwed, Users, Threads, At, UserOf, Active
  <1>4. CASE AddMember
    <2>1. At(Owner, "idle")
      BY <1>4, Zenon DEF AddMember, RInv, OneAtATime, At
    <2> DEFINE to == [Idle EXCEPT !.at = "idle"]
    <2>job. job' = [job EXCEPT ![UI] = to] /\ to.at = "idle"
      BY <1>4, Zenon DEF AddMember, Goto, Idle
    <2> HIDE DEF to
    <2>2. OneAtATime' /\ Rotated' /\ job' = [t \in Threads |-> job'[t]]
      BY <2>1, <2>job, <1>threads, ZenonT(40) DEF RInv, KeyTypes, OneAtATime, Rotated, At, Sequential, Users
    <2>3. CASE UNCHANGED <<member, envelope>>
      BY <1>4, <2>2, <2>3, Zenon DEF AddMember, device, RInv, KeyTypes, RotationOwed, At
    <2>4. CASE \E u \in job[UI].users : /\ member' = [member EXCEPT ![u] = "active"]
                                       /\ envelope' = [envelope EXCEPT ![u][current] = now]
      <3>1. PICK u \in job[UI].users : /\ member' = [member EXCEPT ![u] = "active"]
                                       /\ envelope' = [envelope EXCEPT ![u][current] = now]
        BY <2>4, Zenon
      <3>2. UNCHANGED <<current, pending>> /\ ~At(UI, "mark")
        BY <1>4, Zenon DEF AddMember, device, At
      <3>3. \A v \in Users : member'[v] = "revoked" =>
               member[v] = "revoked" /\ envelope'[v] = envelope[v]
        BY <3>1, Zenon DEF RInv, KeyTypes
      <3>4. KeyTypes'
        <4>1. member' = [v \in Users |-> member'[v]] /\ current' \in Keys
          BY <3>1, <3>2, Zenon DEF RInv, KeyTypes
        <4>2. envelope' = [v \in Users |-> envelope'[v]]
          BY <3>1, Zenon DEF RInv, KeyTypes
        <4>3. \A v \in Users : envelope'[v] = [k \in Keys |-> envelope'[v][k]]
          BY <3>1, Zenon DEF RInv, KeyTypes
        <4> QED
          BY <4>1, <4>2, <4>3, <2>2, Zenon DEF KeyTypes
      <3>5. RotationOwed'
        BY <3>2, <3>3, Zenon DEF RInv, RotationOwed, At
      <3> QED
        BY <2>2, <3>4, <3>5, Zenon DEF RInv
    <2> QED
      BY <1>4, <2>3, <2>4, Zenon DEF AddMember
  <1>5. CASE MarkKeyRotationPending
    <2>1. At(Owner, "idle")
      BY <1>5, Zenon DEF MarkKeyRotationPending, RInv, OneAtATime, At
    <2> DEFINE to == [Idle EXCEPT !.at = "check"]
    <2>job. job' = [job EXCEPT ![UI] = to] /\ to.at = "check"
      BY <1>5, Zenon DEF MarkKeyRotationPending, Goto, Idle
    <2> HIDE DEF to
    <2>2. OneAtATime' /\ Rotated' /\ job' = [t \in Threads |-> job'[t]]
      BY <2>1, <2>job, <1>threads, ZenonT(40) DEF RInv, KeyTypes, OneAtATime, Rotated, At, Sequential, Users
    <2> QED
      BY <1>5, <2>2, Zenon DEF MarkKeyRotationPending, server, RInv, KeyTypes, RotationOwed
  <1>6. CASE Tick
    BY <1>6, Zenon DEF Tick, server, device, RInv, KeyTypes, OneAtATime, Rotated, RotationOwed, At
  <1>7. ASSUME NEW t \in Threads, KeyRotationPending(t) PROVE RInv'
    <2>1. UNCHANGED <<current, member, envelope, pending>> /\ At(t, "check")
      BY <1>7, Zenon DEF KeyRotationPending, server, device
    <2>2. CASE UserOf(t) = Owner /\ Goto(t, "list")
      BY <2>1, <2>2, <1>threads, Moves, Zenon DEF Goto, Idle, At, Sequential, Users
    <2>3. CASE AfterRotation(t, held[UserOf(t)].current)
      <3> DEFINE to == IF t = UI THEN Idle ELSE [at |-> "envelopes", key |-> held[UserOf(t)].current, users |-> {}]
      <3>1. job' = [job EXCEPT ![t] = to] /\ to.at \in {"idle", "envelopes"}
        BY <2>3, Zenon DEF AfterRotation, Idle
      <3> HIDE DEF to
      <3> QED
        BY <2>1, <3>1, Moves, Zenon DEF At
    <2> QED
      BY <1>7, <2>2, <2>3, Zenon DEF KeyRotationPending
  <1>8. ASSUME NEW t \in Threads, BeginWorkspaceKeyRotation(t) PROVE RInv'
    BY <1>8, <1>threads, Moves, Zenon DEF BeginWorkspaceKeyRotation, server, device, At, RInv, OneAtATime
  <1>9. ASSUME NEW t \in Threads, RotateWorkspaceKey(t) PROVE RInv'
    <2>1. t \in {UI, Owner}
      BY <1>9, <1>threads, Zenon DEF RotateWorkspaceKey, At, RInv, OneAtATime
    <2>2. CASE job[t].users # Active
      BY <1>9, <2>1, <2>2, <1>threads, Moves, Zenon DEF RotateWorkspaceKey, Goto, Idle, device, At
    <2>3. CASE job[t].users = Active
      <3>1. PICK k \in Fresh :
               /\ current' = k
               /\ envelope' = [u \in Users |->
                     IF u \in Active THEN [envelope[u] EXCEPT ![k] = now] ELSE envelope[u]]
               /\ job' = [job EXCEPT ![t] = [at |-> "accept", key |-> k, users |-> Active]]
        BY <1>9, <2>3, Zenon DEF RotateWorkspaceKey
      <3>2. UNCHANGED <<member, pending>> /\ At(t, "rotate")
        BY <1>9, Zenon DEF RotateWorkspaceKey, device
      <3>3. \A u \in Users : member'[u] = "revoked" => envelope'[u][current'] = 0
        BY <3>1, <3>2, Zenon DEF Fresh, Active
      <3>4. KeyTypes'
        BY <3>1, <3>2, Zenon DEF RInv, KeyTypes, Fresh
      <3>5. OneAtATime'
        BY <3>1, <3>2, <2>1 DEF RInv, KeyTypes, OneAtATime, At, Sequential, Users
      <3> QED
        BY <3>3, <3>4, <3>5, Zenon DEF RInv, Rotated, RotationOwed
    <2> QED
      BY <2>2, <2>3, Zenon
  <1>10. ASSUME NEW t \in Threads, AcceptOwnRotation(t) PROVE RInv'
    <2>1. t \in {UI, Owner}
      BY <1>10, <1>threads, Zenon DEF AcceptOwnRotation, At, RInv, OneAtATime
    <2> QED
      <3>1. UNCHANGED <<current, member, envelope, pending>> /\ At(t, "accept")
        BY <1>10, Zenon DEF AcceptOwnRotation, server
      <3>2. CASE Goto(t, "clear")
        BY <2>1, <3>1, <3>2, Moves, Zenon DEF Goto, Idle, At, Sequential, Users
      <3>3. CASE Goto(t, "idle")
        BY <2>1, <3>1, <3>3, Moves, Zenon DEF Goto, Idle, At
      <3> QED
        BY <1>10, <3>2, <3>3, Zenon DEF AcceptOwnRotation
  <1>11. ASSUME NEW t \in Threads, ClearKeyRotationPending(t) PROVE RInv'
    <2>1. t \in {UI, Owner}
      BY <1>11, <1>threads, Zenon DEF ClearKeyRotationPending, At, RInv, OneAtATime
    <2> DEFINE to == IF t = UI THEN Idle ELSE [at |-> "envelopes", key |-> held[UserOf(t)].current, users |-> {}]
    <2>2. job' = [job EXCEPT ![t] = to] /\ to.at \in {"idle", "envelopes"}
      BY <1>11, Zenon DEF ClearKeyRotationPending, AfterRotation, Idle
    <2> HIDE DEF to
    <2>3. UNCHANGED <<current, member, envelope>> /\ At(t, "clear")
      BY <1>11, Zenon DEF ClearKeyRotationPending, server
    <2>4. \A u \in Users : member'[u] = "revoked" => envelope'[u][current'] = 0
      BY <2>1, <2>3, Zenon DEF RInv, Rotated, At
    <2>5. KeyTypes' /\ OneAtATime'
      BY <2>1, <2>2, <2>3 DEF RInv, KeyTypes, OneAtATime, At, Sequential, Users
    <2> QED
      BY <2>4, <2>5, Zenon DEF RInv, Rotated, RotationOwed
  <1>12. ASSUME NEW t \in Threads, Fail(t) PROVE RInv'
    BY <1>12, Moves, Zenon DEF Fail, Goto, Idle, server, device, At, Sequential
  <1>13. ASSUME NEW u \in Users, Prepare(u) PROVE RInv'
    BY <1>13, <1>threads, Moves, Zenon DEF Prepare, MayStart, Goto, Idle, server, device, At
  <1>14. ASSUME NEW u \in Users, GetKeyEnvelopes(u) PROVE RInv'
    BY <1>14, <1>threads, Moves, Zenon DEF GetKeyEnvelopes, Goto, Idle, server, device, At
  <1>15. ASSUME NEW u \in Users, ApplyLatestKey(u) PROVE RInv'
    BY <1>15, <1>threads, Moves, Zenon DEF ApplyLatestKey, Goto, Idle, server, device, At
  <1>16. ASSUME NEW u \in Users, Pull(u) PROVE RInv'
    <2>1. CASE UNCHANGED job
      BY <1>16, <2>1, Zenon DEF Pull, server, RInv, KeyTypes, OneAtATime, Rotated, RotationOwed, At
    <2>2. CASE Goto(u, "idle") \/ Goto(u, "push")
      BY <1>16, <2>2, <1>threads, Moves, Zenon DEF Pull, Goto, Idle, server, At
    <2> QED
      BY <1>16, <2>1, <2>2, Zenon DEF Pull
  <1>17. ASSUME NEW u \in Users, Push(u) PROVE RInv'
    <2>1. CASE UNCHANGED job
      BY <1>17, <2>1, Zenon DEF Push, RInv, KeyTypes, OneAtATime, Rotated, RotationOwed, At
    <2>2. CASE Goto(u, "idle")
      BY <1>17, <2>2, <1>threads, Moves, Zenon DEF Push, Goto, Idle, At
    <2> QED
      BY <1>17, <2>1, <2>2, Zenon DEF Push
  <1>18. ASSUME NEW u \in Users, RetryQuarantined(u) \/ Edit(u) PROVE RInv'
    BY <1>18 DEF RetryQuarantined, Edit, server, RInv, KeyTypes, OneAtATime, Rotated, RotationOwed, At
  <1>19. CASE UNCHANGED vars
    BY <1>19, Zenon DEF vars, server, device, RInv, KeyTypes, OneAtATime, Rotated, RotationOwed, At
  <1> QED
    BY <1>1, <1>2, <1>3, <1>4, <1>5, <1>6, <1>7, <1>8, <1>9, <1>10, <1>11, <1>12, <1>13, <1>14, <1>15,
       <1>16, <1>17, <1>18, <1>19, Zenon DEF Next

(* keyrotation.go TriggerAfterRevocation and completePendingRotation: for  *)
(* any members and any failing requests, a removed member holds the        *)
(* current key only while the marker is there or about to be written.      *)
THEOREM RotationIsOwed == ASSUME Sequential PROVE Spec => []RotationOwed
  <1>1. Init => RInv
    BY KeyInit, Zenon
  <1>2. RInv /\ [Next]_vars => RInv'
    BY KeyStep, Zenon
  <1>3. RInv => RotationOwed
    BY Zenon DEF RInv
  <1> QED
    BY <1>1, <1>2, <1>3, PTL DEF Spec
=============================================================================
