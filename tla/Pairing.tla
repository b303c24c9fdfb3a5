------------------------------ MODULE Pairing ------------------------------
(***************************************************************************)
(* core/mobileapi/pairing.go: PairingSessions of two devices that exchange *)
(* public messages, confirmations and sealed frames over a network that    *)
(* loses, repeats and reorders them and delivers messages of an earlier    *)
(* attempt to a later one.  A session's scalar is its own identity; the    *)
(* key two sessions derive agrees exactly when each finished with the      *)
(* other's public message under the same code.                             *)
(***************************************************************************)
EXTENDS Naturals, FiniteSets

CONSTANTS Initiators, Responders, \* sessions of the one and of the other device
          Codes,      \* six-digit codes the users may type
          Mistyped,   \* Sessions whose user may type another code
          MaxFrames,  \* bound on the frames a session seals
          MaxClosed   \* bound on the sessions closed

Sessions == Initiators \cup Responders

None == "none"
Cleared == "cleared"   \* a public message or scalar that closeLocked zeroed
NoKey == [parts |-> {}, known |-> None, transcript |-> <<>>]

VARIABLES
  code,      \* [Sessions -> the code typed]
  scalar,    \* [Sessions -> the session itself, or Cleared]
  public,    \* [Sessions -> the session whose public message it is, or Cleared]
  peer,      \* [Sessions -> the peer message taken by Finish, or None]
  key,       \* [Sessions -> derived key, or NoKey]
  verified, expired,
  sealed,    \* frames sealed: [from, key, nonce]
  seen,      \* [Sessions -> frames in p.seen]
  opened,    \* [Sessions -> [frames -> how often Open returned it]]
  confirmations \* confirmations sent: [label, key]

vars == <<code, scalar, public, peer, key, verified, expired, sealed, seen, opened, confirmations>>

(* NewPairingSession: the password element is the code. *)
Init ==
  /\ code \in {f \in [Sessions -> Codes] :
                 \A s, q \in Sessions \ Mistyped : f[s] = f[q]}
  /\ scalar = [s \in Sessions |-> s] /\ public = [s \in Sessions |-> s]
  /\ peer = [s \in Sessions |-> None] /\ key = [s \in Sessions |-> NoKey]
  /\ verified = {} /\ expired = {} /\ sealed = {} /\ confirmations = {}
  /\ seen = [s \in Sessions |-> {}] /\ opened = [s \in Sessions |-> {}]

Label(s) == IF s \in Initiators THEN "initiator" ELSE "responder"
PeerLabel(s) == IF s \in Initiators THEN "responder" ELSE "initiator"

(* transcript: the initiator's message, then the responder's. *)
Transcript(s, p) ==
  IF s \in Initiators THEN <<public[s], p>> ELSE <<p, public[s]>>

(* Finish: the shared point and the transcript.  Only the opposite role's  *)
(* element under the same code is unmasked to the peer's own point; a      *)
(* cleared scalar gives the point at infinity whatever the peer sent.      *)
DerivedKey(s, q) ==
  [parts |-> IF scalar[s] = Cleared THEN {} ELSE {s, q},
   known |-> IF scalar[s] = Cleared THEN Cleared
             ELSE IF code[s] = code[q] /\ Label(s) # Label(q) THEN "both" ELSE s,
   transcript |-> Transcript(s, q)]

(* closeLocked *)
Closed(s) ==
  /\ scalar' = [scalar EXCEPT ![s] = Cleared]
  /\ public' = [public EXCEPT ![s] = Cleared]
  /\ peer' = [peer EXCEPT ![s] = IF @ = None THEN None ELSE Cleared]
  /\ key' = [key EXCEPT ![s] = NoKey]
  /\ verified' = verified \ {s}
  /\ seen' = [seen EXCEPT ![s] = {}]

Close(s) ==
  /\ Cardinality({q \in Sessions : public[q] = Cleared}) < MaxClosed
  /\ Closed(s)
  /\ UNCHANGED <<code, expired, sealed, opened, confirmations>>

(* Five minutes pass: whatever is called next closes the session. *)
Expire(s) ==
  /\ s \notin expired /\ Cardinality(expired) < MaxClosed
  /\ expired' = expired \cup {s}
  /\ Closed(s)
  /\ UNCHANGED <<code, sealed, opened, confirmations>>

(* Any message once made may arrive, also one of a session closed since; a *)
(* cleared message is not a point of the curve and is refused.             *)
Finish(s, q) ==
  /\ s \notin expired /\ key[s] = NoKey
  /\ peer' = [peer EXCEPT ![s] = q]
  /\ key' = [key EXCEPT ![s] = DerivedKey(s, q)]
  /\ scalar' = [scalar EXCEPT ![s] = Cleared]
  /\ confirmations' = confirmations \cup {[label |-> Label(s), key |-> DerivedKey(s, q)]}
  /\ UNCHANGED <<code, public, verified, expired, sealed, seen, opened>>

(* Any confirmation is taken for a match once there is a key. *)
VerifyConfirmationAny(s, c) ==
  /\ s \notin expired /\ c \in confirmations
  /\ IF key[s] # NoKey
     THEN verified' = verified \cup {s} /\ UNCHANGED <<scalar, public, peer, key, seen>>
     ELSE Closed(s)
  /\ UNCHANGED <<code, expired, sealed, opened, confirmations>>

(* VerifyConfirmation: a mismatch, or no key yet, closes the session. *)
VerifyConfirmation(s, c) ==
  /\ s \notin expired /\ c \in confirmations
  /\ IF key[s] # NoKey /\ c = [label |-> PeerLabel(s), key |-> key[s]]
     THEN verified' = verified \cup {s} /\ UNCHANGED <<scalar, public, peer, key, seen>>
     ELSE Closed(s)
  /\ UNCHANGED <<code, expired, sealed, opened, confirmations>>

Seal(s) ==
  /\ s \in verified /\ key[s] # NoKey
  /\ Cardinality({f \in sealed : f.from = s}) < MaxFrames
  /\ sealed' = sealed \cup {[from |-> s, key |-> key[s], nonce |-> <<s, Cardinality(sealed)>>]}
  /\ UNCHANGED <<code, scalar, public, peer, key, verified, expired, seen, opened, confirmations>>

(* Open: a nonce is remembered once its frame was opened. *)
Open(s, f) ==
  /\ s \in verified /\ key[s] # NoKey
  /\ f.key = key[s] /\ f \notin seen[s]
  /\ seen' = [seen EXCEPT ![s] = @ \cup {f}]
  /\ opened' = [opened EXCEPT ![s] = @ \cup {<<f, Cardinality({o \in @ : o[1] = f})>>}]
  /\ UNCHANGED <<code, scalar, public, peer, key, verified, expired, sealed, confirmations>>

Next ==
  \E s \in Sessions :
    \/ Close(s) \/ Expire(s) \/ Seal(s)
    \/ \E q \in {q \in Sessions : Label(q) # Label(s)} : Finish(s, q)
    \/ \E c \in confirmations : VerifyConfirmation(s, c)
    \/ \E f \in sealed : Open(s, f)

Spec == Init /\ [][Next]_vars
-----------------------------------------------------------------------------
(* A session is verified only against a session of the other role whose    *)
(* user typed the same code and which derived the same key, also when      *)
(* messages of an earlier attempt, or of a closed session, arrive.         *)
VerifiedAgree ==
  \A s \in verified : \E q \in Sessions :
    /\ Label(q) # Label(s) /\ code[q] = code[s]
    /\ key[s] = [parts |-> {s, q}, known |-> "both", transcript |-> Transcript(s, q)]

(* A frame is handed to the user at most once, and one sealed under        *)
(* another pairing never.                                                  *)
OpenedOnce ==
  \A s \in Sessions : \A o \in opened[s] :
    o[2] = 0 /\ {s, o[1].from} \subseteq o[1].key.parts /\ code[o[1].from] = code[s]
=============================================================================
