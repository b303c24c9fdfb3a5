---------------------------- MODULE EditorCommit ----------------------------
(***************************************************************************)
(* core/editorcommit/tracker.go: the save state of one open editor.  Input *)
(* advances a generation; commits of generations run concurrently, may be  *)
(* retried, and complete in any order.                                     *)
(***************************************************************************)
EXTENDS Naturals

CONSTANTS MaxInput,    \* bound on the inputs
          MaxAttempts  \* bound on the commits in flight for one generation

VARIABLES latest, saved, \* Tracker.latest; Tracker.saved, 0 until hasSaved
          inFlight,    \* [generation -> commits started and not completed]
          durable,     \* generations some commit has written to the database
          shown        \* the save state the editor displays

vars == <<latest, saved, inFlight, durable, shown>>

Init == /\ latest = 0 /\ saved = 0 /\ durable = {} /\ shown = "saving"
        /\ inFlight = [g \in 1..MaxInput |-> 0]

Dirty ==
  /\ latest < MaxInput
  /\ latest' = latest + 1
  /\ shown' = "saving"
  /\ UNCHANGED <<saved, inFlight, durable>>

(* A commit of Latest(), the first one or a retry of the same content. *)
StartCommit ==
  /\ latest > 0 /\ inFlight[latest] < MaxAttempts
  /\ inFlight' = [inFlight EXCEPT ![latest] = @ + 1]
  /\ UNCHANGED <<latest, saved, durable, shown>>

(* A completion for an older generation is accepted. *)
AcceptStale(g, succeeded) ==
  /\ inFlight[g] > 0
  /\ inFlight' = [inFlight EXCEPT ![g] = @ - 1]
  /\ durable' = IF succeeded THEN durable \cup {g} ELSE durable
  /\ saved' = IF succeeded THEN g ELSE saved
  /\ shown' = IF succeeded THEN "saved" ELSE "could_not_save"
  /\ UNCHANGED latest

Accept(g, succeeded) ==
  /\ inFlight[g] > 0
  /\ inFlight' = [inFlight EXCEPT ![g] = @ - 1]
  /\ durable' = IF succeeded THEN durable \cup {g} ELSE durable
  /\ IF g < latest \/ (~succeeded /\ saved > 0 /\ g <= saved)
     THEN UNCHANGED <<saved, shown>>
     ELSE /\ saved' = IF succeeded THEN g ELSE saved
          /\ shown' = IF succeeded THEN "saved" ELSE "could_not_save"
  /\ UNCHANGED latest

Next == Dirty \/ StartCommit \/ \E g \in 1..MaxInput, ok \in BOOLEAN : Accept(g, ok)

Spec == Init /\ [][Next]_vars
-----------------------------------------------------------------------------
(* Saved is displayed only while the latest input is in the database.      *)
SavedIsDurable == shown = "saved" => latest \in durable

=============================================================================
