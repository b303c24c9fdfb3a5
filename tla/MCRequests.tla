----------------------------- MODULE MCRequests -----------------------------
(***************************************************************************)
(* What a caller waits for, for TLC: the sync coordinator, sessions,       *)
(* change hints and the catalogs that snapshots carry, each under its own  *)
(* fairness.  A behaviour belongs to one profile, chosen at the start; the *)
(* variables of the other components stay at their initial values, and     *)
(* nothing is asked of them.                                               *)
(***************************************************************************)
EXTENDS Naturals, TLC

VARIABLES profile,
          lifecycle, current, attached, trigger, done, cancelled, worker, caller, phase,
          time, revoked, challenges, sessions, issued, session, requests, client, granted, lost, calls,
          latest, writer, stream, channel, byUser, total, woken,
          rows, tags, clock, outbox, log, work, memo, snap, restarts

Coordinated == INSTANCE Coordinator WITH Callers <- {"p1", "p2"}, MaxWorkers <- 2
Auth == INSTANCE Sessions WITH
    Callers <- {"p1"}, MaxTokens <- 12, MaxTime <- 2, ChallengeTTL <- 1, SessionTTL <- 2,
    MaxFaults <- 1, MaxCalls <- 2, now <- time, caller <- client, faults <- lost
Hints == INSTANCE ChangeHints WITH
    Writers <- {"a", "b"}, Streams <- {"s1", "s2", "s3"}, Users <- {"u", "v"},
    Owner <- ("s1" :> "u") @@ ("s2" :> "u") @@ ("s3" :> "v"),
    MaxTotal <- 2, MaxPerUser <- 1, MaxCommits <- 2
\* One restart; and a row that is made after a publication.
Restarted == INSTANCE Catalog WITH
    Devices <- {1, 2}, Notebooks <- {1}, Tags <- {2}, TagName <- (2 :> 2), Owner <- <<1, 2>>,
    Kinds <- {"tag"}, Interleaved <- TRUE, MaxClock <- 2, MaxOps <- 1, MaxRestarts <- 1
Catalogs == INSTANCE Catalog WITH
    Devices <- {1, 2}, Notebooks <- {1}, Tags <- {2}, TagName <- (2 :> 2), Owner <- <<1, 2>>,
    Kinds <- {"tag"}, Interleaved <- TRUE, MaxClock <- 3, MaxOps <- 1, MaxRestarts <- 0

coordVars == <<lifecycle, current, attached, trigger, done, cancelled, worker, caller, phase>>
authVars == <<time, revoked, challenges, sessions, issued, session, requests, client, granted, lost, calls>>
hintVars == <<latest, writer, stream, channel, byUser, total, woken>>
catalogVars == <<rows, tags, clock, outbox, log, work, memo, snap, restarts>>
vars == <<profile, coordVars, authVars, hintVars, catalogVars>>

Init ==
    /\ profile \in {"coordinator", "auth", "hints", "catalog", "restarted"}
    /\ Coordinated!Init /\ Auth!Init /\ Hints!Init /\ Catalogs!Init

\* Streams s1 and s2 are alike, so s1 is the first to be opened.
Next ==
    /\ UNCHANGED profile
    /\ \/ /\ profile = "coordinator" /\ Coordinated!Next
          /\ UNCHANGED <<authVars, hintVars, catalogVars>>
       \/ /\ profile = "auth" /\ Auth!Next
          /\ UNCHANGED <<coordVars, hintVars, catalogVars>>
       \/ /\ profile = "hints" /\ Hints!Next
          /\ stream'["s2"] # "new" => stream'["s1"] # "new"
          /\ UNCHANGED <<coordVars, authVars, catalogVars>>
       \/ /\ \/ profile = "catalog" /\ Catalogs!Next
             \/ profile = "restarted" /\ Restarted!Next
          /\ UNCHANGED <<coordVars, authVars, hintVars>>

Is(p) == profile = p

Fairness ==
    /\ \A p \in {"p1", "p2"} :
          /\ SF_coordVars(Is("coordinator") /\ Coordinated!LockLifecycle(p))
          /\ WF_coordVars(Is("coordinator") /\ Coordinated!CallerStep(p))
    /\ \A w \in 1..2 :
          /\ WF_coordVars(Is("coordinator") /\ Coordinated!WorkerStep(w))
          /\ SF_coordVars(Is("coordinator") /\ Coordinated!Wake(w))
          /\ SF_coordVars(Is("coordinator") /\ Coordinated!Cancelled(w))
    /\ WF_authVars(Is("auth") /\ Auth!ClientStep("p1"))
    /\ WF_authVars(Is("auth") /\ \E r \in requests : Auth!ServerStep(r))
    /\ \A w \in {"a", "b"} : WF_hintVars(Is("hints") /\ (Hints!ReadLatest(w) \/ Hints!Publish(w)))
    /\ \A s \in {"s1", "s2", "s3"} : WF_hintVars(Is("hints") /\ Hints!StreamHint(s))
    /\ \A d \in {1, 2} :
          WF_catalogVars(profile \in {"catalog", "restarted"} /\ Catalogs!Cycle(d))

Spec == Init /\ [][Next]_vars /\ Fairness
-----------------------------------------------------------------------------
\* Attach, Detach and SyncNow return.
CommandsReturn == Coordinated!CallsReturn

\* A trigger is followed by a cycle or by the end of its worker, and workers never
\* serve triggers side by side.
TriggerServed == Coordinated!TriggerServed /\ []Coordinated!OneWorker

\* A request over the transport returns, retries included.
RequestsReturn == Auth!CallsReturn

\* Every commit is followed by a hint on each stream that stays open.
HintsArrive == Hints!HintsArrive

\* What a user adds to the catalog is published.
RowsPublished == Catalogs!RowsPublished
=============================================================================
