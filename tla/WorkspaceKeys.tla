--------------------------- MODULE WorkspaceKeys ---------------------------
(***************************************************************************)
(* The key of one shared workspace: how it reaches a new member, how a     *)
(* revocation replaces it, how every device takes up the new one, and what *)
(* the devices can push and read meanwhile.  Modelled from                 *)
(* server/resources_store.go, core/account/sharing.go and keyrotation.go,  *)
(* core/keyrotation/keyrotation.go, and the hooks of desktop/sync.go.      *)
(*                                                                         *)
(* Each user has one device.  The owner's device runs two threads: UI,     *)
(* which carries out ShareWorkspace and RevokeWorkspaceMember, and its     *)
(* sync worker; a member's device runs a worker.  A worker has the name of *)
(* its user.  A key is named by its identifier, drawn at random, so that   *)
(* the order of identifiers says nothing of the order of rotations; an     *)
(* operation is abstracted to the key it is sealed with.                   *)
(***************************************************************************)
EXTENDS Naturals, Sequences, FiniteSets

CONSTANTS
    Owner,      \* the user who created the workspace
    Members,    \* the users it may be shared with
    UI,         \* the owner's thread that runs commands
    Concurrent, \* whether UI may act while the owner's worker is in a cycle
    SameSecond, \* whether two changes may carry the same created_at
    Faulty,     \* the steps that may fail
    MaxKey, MaxTime, MaxOps, MaxChanges, MaxFaults

VARIABLES
    current,  \* server: workspaces.current_key_id
    member,   \* server: memberships
    envelope, \* server: key_envelopes, by user and key, as their created_at
    signed,   \* server: key_transitions, by key, as the signed recipients
    log,      \* server: the operations, in sequence order
    grant,    \* the grant code each user was handed, or 0
    held,     \* device: the current and the historical keys of its keybag
    pending,  \* the owner's device: the row of pending_key_rotations
    outbox,   \* device: the queued operations
    cursor,   \* device: how much of the log it has applied
    blocked,  \* device: an operation is quarantined
    job,      \* where each thread is, and what it has read
    now,      \* seconds, the resolution of created_at
    changes, faults

server == <<current, member, envelope, signed, log>>
device == <<held, pending, outbox, cursor, blocked>>
bounds == <<now, changes, faults>>
vars == <<server, grant, device, job, bounds>>

Users == {Owner} \cup Members
Threads == Users \cup {UI}
Keys == 1..MaxKey
UserOf(t) == IF t = UI THEN Owner ELSE t
Active == {u \in Users : member[u] = "active"}
Holds(u) == held[u].historical \cup ({held[u].current} \ {0})
Idle == [at |-> "idle", key |-> 0, users |-> {}]

\* A key the workspace has never used.
Fresh == {k \in Keys : k # current /\ signed[k] = {} /\ \A u \in Users : envelope[u][k] = 0}

Init ==
    /\ current \in Keys
    /\ member = [u \in Users |-> IF u = Owner THEN "active" ELSE "none"]
    /\ envelope = [u \in Users |-> [k \in Keys |-> IF u = Owner /\ k = current THEN 1 ELSE 0]]
    /\ signed = [k \in Keys |-> {}]
    /\ log = <<>>
    /\ grant = [u \in Users |-> 0]
    /\ held = [u \in Users |-> [current |-> IF u = Owner THEN current ELSE 0, historical |-> {}]]
    /\ pending = FALSE
    /\ outbox = [u \in Users |-> <<>>]
    /\ cursor = [u \in Users |-> 0]
    /\ blocked = [u \in Users |-> FALSE]
    /\ job = [t \in Threads |-> Idle]
    /\ now = IF SameSecond THEN 1 ELSE 2
    /\ changes = 0 /\ faults = 0

\* unixNow of a change at the server.
Stamp == now' = IF SameSecond THEN now ELSE now + 1

At(t, step) == job[t].at = step
Goto(t, step) == job' = [job EXCEPT ![t] = [Idle EXCEPT !.at = step]]
\* A new command or cycle of the owner's device, alone unless Concurrent.
MayStart(t) ==
    /\ At(t, "idle")
    /\ Concurrent \/ UserOf(t) # Owner \/ (At(UI, "idle") /\ At(Owner, "idle"))

-----------------------------------------------------------------------------
(* Sharing. *)

\* account.ShareWorkspace seals the key that is current on the device.
ShareWorkspace(u) ==
    /\ MayStart(UI) /\ changes < MaxChanges
    /\ u \in Members
    /\ job' = [job EXCEPT ![UI] = [at |-> "add", key |-> held[Owner].current, users |-> {u}]]
    /\ changes' = changes + 1
    /\ UNCHANGED <<server, grant, device, now, faults>>

\* The server takes it only for its own current key; a revoked member is
\* restored and an envelope it already has is written again.
AddMember ==
    /\ At(UI, "add")
    /\ Goto(UI, "idle")
    /\ \/ /\ job[UI].key = current
          /\ \E u \in job[UI].users :
                /\ member' = [member EXCEPT ![u] = "active"]
                /\ envelope' = [envelope EXCEPT ![u][current] = now]
                /\ grant' = [grant EXCEPT ![u] = current]
          /\ Stamp
       \/ /\ job[UI].key # current
          /\ UNCHANGED <<member, envelope, grant, now>>
    /\ UNCHANGED <<current, signed, log, device, changes, faults>>

\* AcceptWorkspaceGrant: the envelope named by the code is fetched and opened.
\* A device that holds another key of the workspace is refused.
AcceptWorkspaceShare(u) ==
    /\ grant[u] # 0 /\ u \in Active /\ envelope[u][grant[u]] # 0
    /\ held[u].current = 0
    /\ held' = [held EXCEPT ![u].current = grant[u]]
    /\ grant' = [grant EXCEPT ![u] = 0]
    /\ UNCHANGED <<server, pending, outbox, cursor, blocked, job, bounds>>

-----------------------------------------------------------------------------
(* Revocation and the rotation it causes. *)

RevokeMember(u) ==
    /\ MayStart(UI) /\ changes < MaxChanges
    /\ u \in Active \ {Owner}
    /\ member' = [member EXCEPT ![u] = "revoked"]
    /\ Goto(UI, "mark")
    /\ changes' = changes + 1
    /\ UNCHANGED <<current, envelope, signed, log, grant, device, now, faults>>

\* TriggerAfterRevocation first writes the marker.
MarkKeyRotationPending ==
    /\ At(UI, "mark")
    /\ pending' = TRUE
    /\ Goto(UI, "check")
    /\ UNCHANGED <<server, grant, held, outbox, cursor, blocked, bounds>>

\* After completePendingRotation a worker reads its current key and goes on.
AfterRotation(t, own) ==
    job' = [job EXCEPT ![t] =
        IF t = UI THEN Idle ELSE [at |-> "envelopes", key |-> own, users |-> {}]]

\* completePendingRotation does nothing without a marker.
KeyRotationPending(t) ==
    /\ At(t, "check")
    /\ \/ UserOf(t) = Owner /\ pending /\ Goto(t, "list")
       \/ ~(UserOf(t) = Owner /\ pending) /\ AfterRotation(t, held[UserOf(t)].current)
    /\ UNCHANGED <<server, grant, device, bounds>>

\* The marker is cleared before the rotation is made.
BeginClearsMarker(t) ==
    /\ At(t, "list")
    /\ pending' = FALSE
    /\ job' = [job EXCEPT ![t] = [at |-> "rotate", key |-> 0, users |-> Active]]
    /\ UNCHANGED <<server, grant, held, outbox, cursor, blocked, bounds>>

\* ListMembers, and BeginWorkspaceKeyRotation for those still active.
BeginWorkspaceKeyRotation(t) ==
    /\ At(t, "list")
    /\ job' = [job EXCEPT ![t] = [at |-> "rotate", key |-> 0, users |-> Active]]
    /\ UNCHANGED <<server, grant, device, bounds>>

\* The server takes the key only if it was sealed for exactly the active members.
RotateWorkspaceKey(t) ==
    /\ At(t, "rotate")
    /\ \/ /\ job[t].users = Active
          /\ \E k \in Fresh :
                /\ current' = k
                /\ envelope' = [u \in Users |->
                      IF u \in Active THEN [envelope[u] EXCEPT ![k] = now] ELSE envelope[u]]
                /\ signed' = [signed EXCEPT ![k] = Active]
                /\ job' = [job EXCEPT ![t] = [at |-> "accept", key |-> k, users |-> Active]]
          /\ Stamp
       \/ /\ job[t].users # Active
          /\ Goto(t, "idle")
          /\ UNCHANGED <<current, envelope, signed, now>>
    /\ UNCHANGED <<member, log, grant, device, changes, faults>>

\* AcceptWorkspaceKeyRotation: one the device holds as historical fails at
\* the primary key of workspace_keys; a key already current is left alone.
AcceptsKey(u, k) == k \notin held[u].historical

Accepted(u, k) ==
    IF k = held[u].current THEN held
    ELSE [held EXCEPT ![u] = [current |-> k, historical |-> @.historical \cup {@.current}]]

AcceptOwnRotation(t) ==
    /\ At(t, "accept")
    /\ \/ /\ AcceptsKey(Owner, job[t].key)
          /\ held' = Accepted(Owner, job[t].key)
          /\ Goto(t, "clear")
       \/ ~AcceptsKey(Owner, job[t].key) /\ Goto(t, "idle") /\ UNCHANGED held
    /\ UNCHANGED <<server, grant, pending, outbox, cursor, blocked, bounds>>

ClearKeyRotationPending(t) ==
    /\ At(t, "clear")
    /\ pending' = FALSE
    /\ AfterRotation(t, held[UserOf(t)].current)
    /\ UNCHANGED <<server, grant, held, outbox, cursor, blocked, bounds>>

-----------------------------------------------------------------------------
(* A worker's cycle: Prepare, pull, push. *)

\* A device whose user is not an active member fails at its first request.
Prepare(u) ==
    /\ u \in Users /\ MayStart(u)
    /\ held[u].current # 0 /\ u \in Active
    /\ Goto(u, "check")
    /\ UNCHANGED <<server, grant, device, bounds>>

\* The oldest envelope is taken.
OldestEnvelope(u) ==
    CHOOSE k \in Keys :
        /\ envelope[u][k] # 0
        /\ \A other \in Keys : envelope[u][other] # 0 => envelope[u][k] <= envelope[u][other]

\* GetKeyEnvelopes orders by created_at and key_id, and applyLatestKey replaces
\* its candidate only by a later one: of several of the same second it keeps
\* the one with the smallest identifier.
Newest(u) ==
    CHOOSE k \in Keys :
        /\ envelope[u][k] # 0
        /\ \A other \in Keys : envelope[u][other] <= envelope[u][k]
        /\ \A other \in Keys : envelope[u][other] = envelope[u][k] => k <= other

\* The newest key is applied only with the record of its rotation.
GetKeyEnvelopes(u) ==
    /\ At(u, "envelopes")
    /\ \/ u \in Active /\ Newest(u) = job[u].key /\ Goto(u, "pull")
       \/ /\ u \in Active /\ Newest(u) # job[u].key /\ signed[Newest(u)] # {}
          /\ job' = [job EXCEPT ![u] =
                [at |-> "apply", key |-> Newest(u), users |-> signed[Newest(u)]]]
       \/ /\ u \notin Active \/ (Newest(u) # job[u].key /\ signed[Newest(u)] = {})
          /\ Goto(u, "idle")
    /\ UNCHANGED <<server, grant, device, bounds>>

\* The owner's authority key comes from ListMembers, then the key is accepted.
ApplyLatestKey(u) ==
    /\ At(u, "apply")
    /\ \/ /\ u \in Active /\ AcceptsKey(u, job[u].key)
          /\ held' = Accepted(u, job[u].key)
          /\ Goto(u, "pull")
       \/ /\ u \notin Active \/ ~AcceptsKey(u, job[u].key)
          /\ Goto(u, "idle") /\ UNCHANGED held
    /\ UNCHANGED <<server, grant, pending, outbox, cursor, blocked, bounds>>

\* A quarantined operation stops the cycle; otherwise the next operation is
\* verified with the current or a historical key, and quarantined without one.
Pull(u) ==
    /\ At(u, "pull")
    /\ \/ /\ blocked[u] \/ u \notin Active
          /\ Goto(u, "idle") /\ UNCHANGED <<cursor, blocked>>
       \/ /\ ~blocked[u] /\ u \in Active /\ cursor[u] = Len(log)
          /\ Goto(u, "push") /\ UNCHANGED <<cursor, blocked>>
       \/ /\ ~blocked[u] /\ u \in Active /\ cursor[u] < Len(log)
          /\ log[cursor[u] + 1] \in Holds(u)
          /\ cursor' = [cursor EXCEPT ![u] = @ + 1]
          /\ UNCHANGED <<job, blocked>>
       \/ /\ ~blocked[u] /\ u \in Active /\ cursor[u] < Len(log)
          /\ log[cursor[u] + 1] \notin Holds(u)
          /\ blocked' = [blocked EXCEPT ![u] = TRUE]
          /\ Goto(u, "idle") /\ UNCHANGED cursor
    /\ UNCHANGED <<server, grant, held, pending, outbox, bounds>>

\* The user's retry verifies the quarantined operation again.
RetryQuarantined(u) ==
    /\ blocked[u] /\ cursor[u] < Len(log) /\ log[cursor[u] + 1] \in Holds(u)
    /\ blocked' = [blocked EXCEPT ![u] = FALSE]
    /\ UNCHANGED <<server, grant, held, pending, outbox, cursor, job, bounds>>

\* PushOperations refuses an operation that is not under the current key; the
\* row stays where it is, in front of the outbox.
Push(u) ==
    /\ At(u, "push")
    /\ \/ /\ outbox[u] # <<>> /\ u \in Active /\ Head(outbox[u]) = current
          /\ log' = Append(log, current)
          /\ outbox' = [outbox EXCEPT ![u] = Tail(@)]
          /\ UNCHANGED job
       \/ /\ ~(outbox[u] # <<>> /\ u \in Active /\ Head(outbox[u]) = current)
          /\ Goto(u, "idle") /\ UNCHANGED <<log, outbox>>
    /\ UNCHANGED <<current, member, envelope, signed, grant, held, pending, cursor, blocked, bounds>>

\* A local edit is sealed at once, under the key current on the device.
Edit(u) ==
    /\ held[u].current # 0
    /\ Len(log) + Len(outbox[u]) < MaxOps
    /\ outbox' = [outbox EXCEPT ![u] = Append(@, held[u].current)]
    /\ UNCHANGED <<server, grant, held, pending, cursor, blocked, job, bounds>>

-----------------------------------------------------------------------------
(* Time and faults. *)

Tick ==
    /\ SameSecond /\ now < MaxTime
    /\ now' = now + 1
    /\ UNCHANGED <<server, grant, device, job, changes, faults>>

\* A request of a rotation fails before it reaches the server, or a step after
\* it fails locally ("accept").
Fail(t) ==
    /\ faults < MaxFaults /\ job[t].at \in Faulty
    /\ Goto(t, "idle")
    /\ faults' = faults + 1
    /\ UNCHANGED <<server, grant, device, now, changes>>

Next ==
    \/ \E u \in Users : ShareWorkspace(u) \/ AcceptWorkspaceShare(u) \/ RevokeMember(u)
    \/ AddMember \/ MarkKeyRotationPending \/ Tick
    \/ \E t \in Threads :
          \/ KeyRotationPending(t) \/ BeginWorkspaceKeyRotation(t) \/ RotateWorkspaceKey(t)
          \/ AcceptOwnRotation(t) \/ ClearKeyRotationPending(t) \/ Fail(t)
    \/ \E u \in Users :
          \/ Prepare(u) \/ GetKeyEnvelopes(u) \/ ApplyLatestKey(u) \/ Pull(u) \/ Push(u)
          \/ RetryQuarantined(u) \/ Edit(u)

Spec == Init /\ [][Next]_vars

\* What a thread does next, once it has started.
Continue(t) ==
    \/ KeyRotationPending(t) \/ BeginWorkspaceKeyRotation(t) \/ RotateWorkspaceKey(t)
    \/ AcceptOwnRotation(t) \/ ClearKeyRotationPending(t)
    \/ t = UI /\ (AddMember \/ MarkKeyRotationPending)
    \/ t # UI /\ (GetKeyEnvelopes(t) \/ ApplyLatestKey(t) \/ Pull(t) \/ Push(t))

\* Threads run on, and every worker starts a cycle at its interval.  A retry of
\* a quarantined operation is the user's, and is offered as long as it helps.
Fairness ==
    /\ \A t \in Threads : WF_vars(Continue(t))
    /\ \A u \in Users : SF_vars(Prepare(u)) /\ WF_vars(RetryQuarantined(u))

FairSpec == Spec /\ Fairness

-----------------------------------------------------------------------------
(* Properties. *)

\* A member who was removed keeps the workspace's current key only as long as
\* the owner's device still knows that it owes a rotation: the marker of
\* TriggerAfterRevocation is there, or about to be written.
RotationOwed ==
    \A u \in Users : member[u] = "revoked" /\ envelope[u][current] # 0 =>
        pending \/ At(UI, "mark")

\* The device that rotates reads everything the server accepted: the old key
\* stays in its keybag as historical when AcceptWorkspaceKeyRotation replaces it.
OwnerReads ==
    held[Owner].current = current => \A i \in 1..Len(log) : log[i] \in Holds(Owner)

\* Reconcile brings every active member's device to the workspace's current
\* key, and leaves it there.
CurrentKeyReached ==
    \A u \in Users : <>[](u \in Active /\ held[u].current # 0 => held[u].current = current)

\* Rotation has no downtime: an edit queued on an active member's device is
\* sent in the end.
OutboxDrains ==
    \A u \in Users : (outbox[u] # <<>>) ~> (outbox[u] = <<>> \/ u \notin Active \/ blocked[u])

=============================================================================
