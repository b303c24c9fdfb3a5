------------------------------ MODULE Sessions ------------------------------
(***************************************************************************)
(* Authentication of a device: core/transport/http.go (doJSON and          *)
(* ensureSession of one HTTP transport, which the sync worker and the      *)
(* commands of the user interface share) against server/identity_store.go. *)
(* Each round trip is a request in flight, handled by the server at some   *)
(* point, also after its caller has given up.  The authentication of a     *)
(* request and its transaction are separate steps of the server.           *)
(***************************************************************************)
EXTENDS Naturals

CONSTANTS Callers,      \* goroutines that use the transport
          MaxTokens,    \* bound on the challenges and sessions ever issued
          MaxTime, ChallengeTTL, SessionTTL, \* a tick is a minute
          MaxFaults,    \* bound on requests whose answer never arrives
          MaxCalls      \* bound on the calls

None == 0

VARIABLES
  now, revoked,
  challenges, \* rows of challenges: [id, expires, consumed]
  sessions,   \* rows of sessions: [token, expires, from], from the challenge
  issued,     \* identifiers given out so far
  session,    \* h.session and h.sessionEnd: [token, expires]
  requests,   \* requests in flight: [by, kind, token, challenge, stage]
  caller,     \* [Callers -> state of the call]
  granted,    \* history: [token, from] of every session ever issued
  faults, calls

vars == <<now, revoked, challenges, sessions, issued, session, requests, caller, granted, faults, calls>>
server == <<now, revoked, challenges, sessions, issued, granted>>

NoSession == [token |-> None, expires |-> 0]
Idle == [pc |-> "idle", attempt |-> 0, since |-> 0, old |-> None, answer |-> [code |-> "none", id |-> None, expires |-> 0]]
NoAnswer == Idle.answer

Init ==
  /\ now = 0 /\ revoked = FALSE /\ challenges = {} /\ sessions = {} /\ issued = 0
  /\ session = NoSession /\ requests = {} /\ granted = {}
  /\ caller = [p \in Callers |-> Idle] /\ faults = 0 /\ calls = 0
-----------------------------------------------------------------------------
(* requestJSON: one request per caller is awaited at a time.               *)
Send(p, pc, kind, token, challenge, old) ==
  /\ requests' = requests \cup {[by |-> p, kind |-> kind, token |-> token, challenge |-> challenge, stage |-> "new"]}
  /\ caller' = [caller EXCEPT ![p].pc = pc, ![p].old = old, ![p].answer = NoAnswer]

Answer(r, code, id, expires) ==
  /\ requests' = requests \ {r}
  /\ caller' = [caller EXCEPT ![r.by].answer =
       IF caller[r.by].pc = r.kind /\ caller[r.by].answer = NoAnswer
       THEN [code |-> code, id |-> id, expires |-> expires] ELSE @]

Call(p) ==
  /\ caller[p] = Idle /\ calls < MaxCalls /\ ~\E r \in requests : r.by = p
  /\ calls' = calls + 1
  /\ caller' = [caller EXCEPT ![p].pc = "ensure", ![p].attempt = 1, ![p].since = now]
  /\ UNCHANGED <<server, session, requests, faults>>

(* ensureSession: a session that ends within a minute is not used.         *)
EnsureSession(p) ==
  /\ caller[p].pc = "ensure"
  /\ IF session.token # None /\ session.expires > now + 1
     THEN caller' = [caller EXCEPT ![p].pc = "read"] /\ UNCHANGED requests
     ELSE Send(p, "challenge", "challenge", None, None, session.token)
  /\ UNCHANGED <<server, session, faults, calls>>

(* The signed proof goes to verify, or to refresh with the old token.      *)
Prove(p) ==
  /\ caller[p].pc = "challenge" /\ caller[p].answer.code = "ok"
  /\ IF caller[p].old = None
     THEN Send(p, "verify", "verify", None, caller[p].answer.id, None)
     ELSE Send(p, "refresh", "refresh", caller[p].old, caller[p].answer.id, caller[p].old)
  /\ UNCHANGED <<server, session, faults, calls>>

StoreSession(p) ==
  /\ caller[p].pc \in {"verify", "refresh"} /\ caller[p].answer.code = "ok"
  /\ IF caller[p].answer.expires > now
     THEN /\ session' = [token |-> caller[p].answer.id, expires |-> caller[p].answer.expires]
          /\ caller' = [caller EXCEPT ![p].pc = "read", ![p].answer = NoAnswer]
     ELSE /\ caller' = [caller EXCEPT ![p] = [Idle EXCEPT !.pc = "failed", !.since = caller[p].since]]
          /\ UNCHANGED session
  /\ UNCHANGED <<server, requests, faults, calls>>

(* Whatever was refused, ensureSession starts over. *)
EnsureFailsRetries(p) ==
  /\ caller[p].pc \in {"challenge", "verify", "refresh"} /\ caller[p].answer.code \in {"unauthorized", "lost"}
  /\ session' = NoSession
  /\ caller' = [caller EXCEPT ![p] =
        IF caller[p].answer.code = "unauthorized"
        THEN [caller[p] EXCEPT !.pc = "ensure", !.answer = NoAnswer]
        ELSE [Idle EXCEPT !.pc = "offline", !.since = caller[p].since]]
  /\ UNCHANGED <<server, requests, faults, calls>>

(* The errors of ensureSession.  A refused refresh starts over without the *)
(* old token; every other error ends the call.                             *)
EnsureFails(p) ==
  /\ caller[p].pc \in {"challenge", "verify", "refresh"} /\ caller[p].answer.code \in {"unauthorized", "lost"}
  /\ session' = IF caller[p].pc = "refresh" THEN NoSession ELSE session
  /\ caller' = [caller EXCEPT ![p] =
        IF caller[p].pc = "refresh" /\ caller[p].answer.code = "unauthorized"
        THEN [caller[p] EXCEPT !.pc = "ensure", !.answer = NoAnswer]
        ELSE [Idle EXCEPT !.pc = IF caller[p].answer.code = "lost" THEN "offline" ELSE "failed", !.since = caller[p].since]]
  /\ UNCHANGED <<server, requests, faults, calls>>

(* doJSON reads the token in a section of its own.                         *)
ReadToken(p) ==
  /\ caller[p].pc = "read"
  /\ Send(p, "request", "request", session.token, None, None)
  /\ UNCHANGED <<server, session, faults, calls>>

(* A refused request clears the session and is tried once more.            *)
Finish(p) ==
  /\ caller[p].pc = "request" /\ caller[p].answer.code # "none"
  /\ LET retry == caller[p].answer.code = "unauthorized" /\ caller[p].attempt = 1 IN
       /\ session' = IF retry THEN NoSession ELSE session
       /\ caller' = [caller EXCEPT ![p] =
            IF retry THEN [Idle EXCEPT !.pc = "ensure", !.attempt = 2, !.since = caller[p].since]
            ELSE [Idle EXCEPT !.pc = CASE caller[p].answer.code = "ok" -> "done"
                                       [] caller[p].answer.code = "lost" -> "offline"
                                       [] OTHER -> "failed", !.since = caller[p].since]]
  /\ UNCHANGED <<server, requests, faults, calls>>

(* The caller gives up or the answer is lost; the request stays in flight. *)
Timeout(p) ==
  /\ caller[p].pc \in {"challenge", "verify", "refresh", "request"} /\ caller[p].answer = NoAnswer
  /\ faults < MaxFaults
  /\ faults' = faults + 1
  /\ caller' = [caller EXCEPT ![p].answer = [code |-> "lost", id |-> None, expires |-> 0]]
  /\ UNCHANGED <<server, session, requests, calls>>

Return(p) ==
  /\ caller[p].pc \in {"done", "failed", "offline"}
  /\ caller' = [caller EXCEPT ![p] = Idle]
  /\ UNCHANGED <<server, session, requests, faults, calls>>
-----------------------------------------------------------------------------
(* Mutant: a challenge replaces the ones given out before it. *)
IssueOneChallenge(r) ==
  /\ r.kind = "challenge" /\ (revoked \/ issued < MaxTokens)
  /\ IF revoked
     THEN Answer(r, "unauthorized", None, 0) /\ UNCHANGED <<challenges, issued>>
     ELSE /\ issued' = issued + 1
          /\ challenges' = {[id |-> issued', expires |-> now + ChallengeTTL, consumed |-> FALSE]}
          /\ Answer(r, "ok", issued', 0)
  /\ UNCHANGED <<now, revoked, sessions, session, granted, faults, calls>>

IssueChallenge(r) ==
  /\ r.kind = "challenge" /\ (revoked \/ issued < MaxTokens)
  /\ IF revoked
     THEN Answer(r, "unauthorized", None, 0) /\ UNCHANGED <<challenges, issued>>
     ELSE /\ issued' = issued + 1
          /\ challenges' = challenges \cup {[id |-> issued', expires |-> now + ChallengeTTL, consumed |-> FALSE]}
          /\ Answer(r, "ok", issued', 0)
  /\ UNCHANGED <<now, revoked, sessions, session, granted, faults, calls>>

LiveSession(token) == ~revoked /\ \E s \in sessions : s.token = token /\ s.expires > now

(* authenticateMiddleware in front of refresh and of every other request.  *)
Authenticate(r) ==
  /\ r.kind \in {"refresh", "request"} /\ r.stage = "new"
  /\ IF ~LiveSession(r.token) THEN Answer(r, "unauthorized", None, 0)
     ELSE IF r.kind = "request" THEN Answer(r, "ok", None, 0)
     ELSE requests' = (requests \ {r}) \cup {[r EXCEPT !.stage = "principal"]} /\ UNCHANGED caller
  /\ UNCHANGED <<server, session, faults, calls>>

Usable(id) == {c \in challenges : c.id = id /\ ~c.consumed /\ c.expires > now /\ ~revoked}
Replaced(r) == {s \in sessions : s.token = r.token}

(* verifyChallenge, one transaction: consume the challenge, delete the     *)
(* session to be replaced, insert the new one, or change nothing.          *)
VerifyChallenge(r) ==
  /\ r.kind = "verify" \/ (r.kind = "refresh" /\ r.stage = "principal")
  /\ issued < MaxTokens
  /\ IF Usable(r.challenge) = {} \/ (r.kind = "refresh" /\ Replaced(r) = {})
     THEN Answer(r, "unauthorized", None, 0) /\ UNCHANGED <<challenges, sessions, issued, granted>>
     ELSE LET row == [token |-> issued + 1, expires |-> now + SessionTTL, from |-> r.challenge] IN
          /\ issued' = issued + 1
          /\ challenges' = {[c EXCEPT !.consumed = c.consumed \/ c.id = r.challenge] : c \in challenges}
          /\ sessions' = (sessions \ Replaced(r)) \cup {row}
          /\ granted' = granted \cup {[token |-> row.token, from |-> row.from]}
          /\ Answer(r, "ok", row.token, row.expires)
  /\ UNCHANGED <<now, revoked, session, faults, calls>>

(* The request reaches the server a second time. *)
Duplicate(r) ==
  /\ r.kind = "verify" /\ r.stage = "new" /\ faults < MaxFaults
  /\ faults' = faults + 1
  /\ requests' = requests \cup {[r EXCEPT !.stage = "again"]}
  /\ UNCHANGED <<server, session, caller, calls>>

(* RevokeDevice and AdminRevokeDevice *)
RevokeDevice ==
  /\ ~revoked
  /\ revoked' = TRUE
  /\ sessions' = {} /\ challenges' = {}
  /\ UNCHANGED <<now, issued, granted, session, requests, caller, faults, calls>>

PurgeExpiredAuthRecords ==
  /\ challenges' = {c \in challenges : c.expires > now /\ ~c.consumed}
  /\ sessions' = {s \in sessions : s.expires > now}
  /\ <<challenges', sessions'>> # <<challenges, sessions>>
  /\ UNCHANGED <<now, revoked, issued, granted, session, requests, caller, faults, calls>>

Tick ==
  /\ now < MaxTime
  /\ now' = now + 1
  /\ UNCHANGED <<revoked, challenges, sessions, issued, granted, session, requests, caller, faults, calls>>

ClientStep(p) ==
  \/ EnsureSession(p) \/ Prove(p) \/ StoreSession(p) \/ EnsureFails(p) \/ ReadToken(p) \/ Finish(p) \/ Return(p)
ServerStep(r) == IssueChallenge(r) \/ Authenticate(r) \/ VerifyChallenge(r)

Next ==
  \/ \E p \in Callers : Call(p) \/ ClientStep(p) \/ Timeout(p)
  \/ \E r \in requests : ServerStep(r) \/ Duplicate(r)
  \/ RevokeDevice \/ PurgeExpiredAuthRecords \/ Tick

Spec == Init /\ [][Next]_vars

(* Goroutines run and the server handles what reaches it. *)
Fairness ==
  /\ \A p \in Callers : WF_vars(ClientStep(p))
  /\ WF_vars(\E r \in requests : ServerStep(r))
-----------------------------------------------------------------------------

(* A revoked device has no session, also when a proof that was under way   *)
(* arrives after the revocation.                                           *)
RevokedHasNoSession == revoked => sessions = {}

(* A call of an active device is refused only if it took so long that a    *)
(* challenge or session ran out under it: whatever expired, was purged,    *)
(* replaced or lost before it began, its second attempt finds a session.   *)
RefusedOnlyIfRevoked ==
  \A p \in Callers : caller[p].pc = "failed" => revoked \/ now > caller[p].since

(* Every call returns: the second attempt and the repeated ensureSession   *)
(* do not go round for ever.                                               *)
CallsReturn == \A p \in Callers : caller[p].pc = "ensure" ~> caller[p] = Idle
=============================================================================
