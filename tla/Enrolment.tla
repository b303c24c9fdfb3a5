----------------------------- MODULE Enrolment -----------------------------
(***************************************************************************)
(* Enrolment with a single-use invite: connectServer of a client,          *)
(* Register of core/transport/server_api.go, and CreateInvite and Register *)
(* of server/identity_store.go.  Requests overlap, expire on the way, and  *)
(* lose their answer; the reads of a transaction and its writes are        *)
(* separate steps, and the server may stop between them.                   *)
(***************************************************************************)
EXTENDS Naturals, FiniteSets

CONSTANTS
    Account,    \* local accounts that enrol
    Invite,     \* numbers of the invites the operator may create
    UserLimit,  \* the supported number of users
    TTL, MaxTime,
    MaxCalls, MaxFaults

VARIABLES
    now,
    invites,  \* [Invite -> [expires, consumed]], expires 0 before it is created
    users,    \* rows of users, with their device and workspace: [account, invite]
    mu,       \* the request whose transaction holds writeMu, or None
    requests, \* in flight: [account, invite, attempt, stage, count, usable]
    client,   \* [Account -> [at, attempt]]: connectServer and its last registration
    calls, faults

vars == <<now, invites, users, mu, requests, client, calls, faults>>

NoRequest == [account |-> 0, invite |-> 0, attempt |-> 0, stage |-> "none", count |-> 0, usable |-> FALSE]

Init ==
    /\ now = 1 /\ invites = [i \in Invite |-> [expires |-> 0, consumed |-> FALSE]]
    /\ users = {} /\ mu = NoRequest /\ requests = {}
    /\ client = [a \in Account |-> [at |-> "idle", attempt |-> 0]] /\ calls = 0 /\ faults = 0

Enrolled(a) == \E u \in users : u.account = a

\* The operator's command, while the server is not running a request.
CreateInvite(i) ==
    /\ mu = NoRequest /\ invites[i].expires = 0
    /\ \A k \in Invite : k < i => invites[k].expires # 0
    /\ invites' = [invites EXCEPT ![i].expires = now + TTL]
    /\ UNCHANGED <<now, users, mu, requests, client, calls, faults>>

\* connectServer registers when the user gave an invite code; a code may be
\* given again, and by two users.
Connect(a, i) ==
    /\ client[a].at \in {"idle", "refused"} /\ calls < MaxCalls
    /\ invites[i].expires # 0
    /\ calls' = calls + 1
    /\ client' = [client EXCEPT ![a] = [at |-> "registering", attempt |-> calls + 1]]
    /\ requests' = requests \cup {[NoRequest EXCEPT !.account = a, !.invite = i, !.attempt = calls + 1,
                                                   !.stage = "new"]}
    /\ UNCHANGED <<now, invites, users, mu, faults>>

\* Without a code the connection is checked with the device's challenge.
Diagnose(a) ==
    /\ client[a].at \in {"idle", "refused"}
    /\ client' = [client EXCEPT ![a].at = IF Enrolled(a) THEN "connected" ELSE "refused"]
    /\ UNCHANGED <<now, invites, users, mu, requests, calls, faults>>

-----------------------------------------------------------------------------
(* Register. *)

Usable(i) == ~invites[i].consumed /\ invites[i].expires > now

Read(r) == [r EXCEPT !.stage = "read", !.count = Cardinality(users), !.usable = Usable(r.invite)]

\* withWriteTx holds writeMu from here to the commit.
Begin(r) ==
    /\ r.stage = "new" /\ mu = NoRequest
    /\ mu' = Read(r)
    /\ requests' = (requests \ {r}) \cup {Read(r)}
    /\ UNCHANGED <<now, invites, users, client, calls, faults>>

\* The answer reaches the client if it still waits for it.
Answer(r, ok) ==
    /\ requests' = requests \ {r}
    /\ mu' = NoRequest
    /\ client' = [client EXCEPT ![r.account].at =
                    IF @ # "registering" \/ client[r.account].attempt # r.attempt THEN @
                    ELSE IF ok THEN "connected" ELSE "refused"]

\* The invite is marked outside the transaction that creates the user.
RegisterConsumesFirst(r) ==
    /\ r.stage = "read"
    /\ LET ok == r.count < UserLimit /\ r.usable /\ ~Enrolled(r.account)
       IN  /\ Answer(r, ok)
           /\ invites' = IF r.usable THEN [invites EXCEPT ![r.invite].consumed = TRUE] ELSE invites
           /\ users' = IF ok THEN users \cup {[account |-> r.account, invite |-> r.invite]} ELSE users
    /\ UNCHANGED <<now, calls, faults>>

\* Six inserts and the mark on the invite, all or none: a sixth user, a used
\* or expired code, or identifiers that exist already are refused.
Register(r) ==
    /\ r.stage = "read"
    /\ LET ok == r.count < UserLimit /\ r.usable /\ ~Enrolled(r.account)
       IN  /\ Answer(r, ok)
           /\ invites' = IF ok THEN [invites EXCEPT ![r.invite].consumed = TRUE] ELSE invites
           /\ users' = IF ok THEN users \cup {[account |-> r.account, invite |-> r.invite]} ELSE users
    /\ UNCHANGED <<now, calls, faults>>

\* The server stops, or a statement fails: the transaction is rolled back.
RollBack(r) ==
    /\ r.stage = "read" /\ faults < MaxFaults
    /\ faults' = faults + 1
    /\ Answer(r, FALSE)
    /\ UNCHANGED <<now, invites, users, calls>>

\* The 30 seconds of connectServer are over; the request may still arrive.
Timeout(a) ==
    /\ client[a].at = "registering" /\ faults < MaxFaults
    /\ faults' = faults + 1
    /\ client' = [client EXCEPT ![a].at = "refused"]
    /\ UNCHANGED <<now, invites, users, mu, requests, calls>>

Tick ==
    /\ now < MaxTime
    /\ now' = now + 1
    /\ UNCHANGED <<invites, users, mu, requests, client, calls, faults>>

Next ==
    \/ \E i \in Invite : CreateInvite(i)
    \/ \E a \in Account : Diagnose(a) \/ Timeout(a) \/ \E i \in Invite : Connect(a, i)
    \/ \E r \in requests : Begin(r) \/ Register(r) \/ RollBack(r)
    \/ Tick

Spec == Init /\ [][Next]_vars

-----------------------------------------------------------------------------
(* Properties. *)

\* An invite enrols one user, and it is used up only by an enrolment: a
\* registration that was refused or rolled back leaves it usable.
ConsumedByOneUser ==
    \A i \in Invite :
        /\ Cardinality({u \in users : u.invite = i}) <= 1
        /\ invites[i].consumed => \E u \in users : u.invite = i

\* "the supported five-user limit" holds although registrations overlap.
WithinUserLimit == Cardinality(users) <= UserLimit

=============================================================================
