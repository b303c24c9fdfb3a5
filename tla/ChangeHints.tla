----------------------------- MODULE ChangeHints -----------------------------
(***************************************************************************)
(* server/pubsub.go with publishWorkspace and streamChanges of             *)
(* server/api.go: after a committed write a request handler reads the      *)
(* latest sequence and offers it to every live stream of the workspace,    *)
(* whose channel has one slot.  Reading, publishing and streaming are      *)
(* steps of different goroutines.                                          *)
(***************************************************************************)
EXTENDS Naturals, FiniteSets

CONSTANTS Writers,      \* handlers that commit writes
          Streams,      \* streams ever opened; each belongs to a user
          Users, Owner, \* Owner[s] is the user of stream s
          MaxTotal, MaxPerUser, \* maxTotal, maxSubscriptionsPerUser
          MaxCommits    \* bound on the commits

Empty == 0

VARIABLES
  latest,   \* workspaces.latest_seq
  writer,   \* [Writers -> "idle", "committed" or the value read]
  stream,   \* [Streams -> "new", "live", "refused" or "closed"]
  channel,  \* [Streams -> hint in the slot, or Empty]
  byUser, total, \* p.byUser, p.total
  woken     \* history: [Streams -> latest when the stream last sent a hint]

vars == <<latest, writer, stream, channel, byUser, total, woken>>

Idle == [pc |-> "idle", hint |-> Empty]

Init ==
  /\ latest = 0 /\ writer = [w \in Writers |-> Idle]
  /\ stream = [s \in Streams |-> "new"] /\ channel = [s \in Streams |-> Empty]
  /\ byUser = [u \in Users |-> 0] /\ total = 0 /\ woken = [s \in Streams |-> 0]

Live == {s \in Streams : stream[s] = "live"}

Commit(w) ==
  /\ writer[w].pc = "idle" /\ latest < MaxCommits
  /\ latest' = latest + 1
  /\ writer' = [writer EXCEPT ![w].pc = "committed"]
  /\ UNCHANGED <<stream, channel, byUser, total, woken>>

(* publishWorkspace reads the latest number, which may be a later one.     *)
ReadLatest(w) ==
  /\ writer[w].pc = "committed"
  /\ writer' = [writer EXCEPT ![w] = [pc |-> "publish", hint |-> latest]]
  /\ UNCHANGED <<latest, stream, channel, byUser, total, woken>>

(* Only the first live stream gets the hint. *)
PublishOne(w) ==
  /\ writer[w].pc = "publish"
  /\ channel' = IF Live = {} THEN channel
                ELSE [channel EXCEPT ![CHOOSE s \in Live : TRUE] = writer[w].hint]
  /\ writer' = [writer EXCEPT ![w] = Idle]
  /\ UNCHANGED <<latest, stream, byUser, total, woken>>

(* Publish: a full slot is emptied and filled again.                       *)
Publish(w) ==
  /\ writer[w].pc = "publish"
  /\ channel' = [s \in Streams |-> IF s \in Live THEN writer[w].hint ELSE channel[s]]
  /\ writer' = [writer EXCEPT ![w] = Idle]
  /\ UNCHANGED <<latest, stream, byUser, total, woken>>

(* Subscribe: the total and the quota of the user.                         *)
Subscribe(s) ==
  /\ stream[s] = "new"
  /\ IF total >= MaxTotal \/ byUser[Owner[s]] >= MaxPerUser
     THEN stream' = [stream EXCEPT ![s] = "refused"] /\ UNCHANGED <<byUser, total, woken>>
     ELSE /\ stream' = [stream EXCEPT ![s] = "live"]
          /\ byUser' = [byUser EXCEPT ![Owner[s]] = @ + 1]
          /\ total' = total + 1
          /\ woken' = [woken EXCEPT ![s] = latest]
  /\ UNCHANGED <<latest, writer, channel>>

(* The loop of streamChanges takes the hint and writes it to the client.   *)
StreamHint(s) ==
  /\ stream[s] = "live" /\ channel[s] # Empty
  /\ channel' = [channel EXCEPT ![s] = Empty]
  /\ woken' = [woken EXCEPT ![s] = latest]
  /\ UNCHANGED <<latest, writer, stream, byUser, total>>

(* unsubscribe: the peer went away, or the request ended.                  *)
Unsubscribe(s) ==
  /\ stream[s] = "live"
  /\ stream' = [stream EXCEPT ![s] = "closed"]
  /\ byUser' = [byUser EXCEPT ![Owner[s]] = @ - 1]
  /\ total' = total - 1
  /\ UNCHANGED <<latest, writer, channel, woken>>

Next ==
  \/ \E w \in Writers : Commit(w) \/ ReadLatest(w) \/ Publish(w)
  \/ \E s \in Streams : Subscribe(s) \/ StreamHint(s) \/ Unsubscribe(s)

Spec == Init /\ [][Next]_vars

Fairness ==
  /\ \A w \in Writers : WF_vars(ReadLatest(w) \/ Publish(w))
  /\ \A s \in Streams : WF_vars(StreamHint(s))
-----------------------------------------------------------------------------

(* Every commit is followed by a hint on each stream that stays open.      *)
HintsArrive ==
  \A s \in Streams : (stream[s] = "live" /\ woken[s] < latest) ~> (stream[s] # "live" \/ woken[s] = latest)
=============================================================================
