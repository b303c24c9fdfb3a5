----------------------------- MODULE Coordinator -----------------------------
(***************************************************************************)
(* core/sync/coordinator.go: one coordinator that owns at most one sync    *)
(* worker, used by several goroutines at once.  `lifecycle' serialises     *)
(* Attach and Detach and is held while the old worker is awaited; the      *)
(* inner mutex c.mu protects short sections that never block, so each of   *)
(* them is one step.  A worker is a number given by Attach; its trigger    *)
(* channel (one slot), done channel (one slot) and context belong to it.   *)
(***************************************************************************)
EXTENDS Naturals, FiniteSets

CONSTANTS Callers,      \* goroutines that call the coordinator
          MaxWorkers    \* bound on the workers ever attached

None == 0
Free == "free"
Workers == 1..MaxWorkers
Phases == {"none", "current", "backoff", "quarantine"}

VARIABLES
  lifecycle,  \* the caller that holds c.lifecycle, or Free
  current,    \* the worker c.worker, c.trigger, c.done, c.cancel belong to
  attached,   \* how many workers were attached so far
  trigger,    \* [Workers -> BOOLEAN] a request waits in the trigger channel
  done,       \* [Workers -> BOOLEAN] the result waits in the done channel
  cancelled,  \* workers whose context is cancelled
  worker,     \* [Workers -> where the worker's goroutine is]
  caller,     \* [Callers -> where the caller is]
  phase       \* c.lastPhase

vars == <<lifecycle, current, attached, trigger, done, cancelled, worker, caller, phase>>

Idle == [pc |-> "idle", op |-> "none", w |-> None]

Init ==
  /\ lifecycle = Free /\ current = None /\ attached = 0
  /\ trigger = [w \in Workers |-> FALSE]
  /\ done = [w \in Workers |-> FALSE]
  /\ cancelled = {}
  /\ worker = [w \in Workers |-> "unborn"]
  /\ caller = [p \in Callers |-> Idle]
  /\ phase = "none"
-----------------------------------------------------------------------------
(* Attach and Detach wait for c.lifecycle.                                 *)
Begin(p, op) ==
  /\ caller[p] = Idle
  /\ op = "attach" => attached + Cardinality({q \in Callers : caller[q].op = "attach"}) < MaxWorkers
  /\ caller' = [caller EXCEPT ![p] = [pc |-> "lock", op |-> op, w |-> None]]
  /\ UNCHANGED <<lifecycle, current, attached, trigger, done, cancelled, worker, phase>>

LockLifecycle(p) ==
  /\ caller[p].pc = "lock"
  /\ lifecycle = Free
  /\ lifecycle' = p
  /\ caller' = [caller EXCEPT ![p].pc = "stop"]
  /\ UNCHANGED <<current, attached, trigger, done, cancelled, worker, phase>>

(* stopAndWait: cancel the worker and forget it in one section, then wait  *)
(* for its result outside c.mu.                                            *)
StopWorker(p) ==
  /\ caller[p].pc = "stop"
  /\ caller' = [caller EXCEPT ![p].w = current,
                              ![p].pc = IF current = None THEN "stopped" ELSE "await"]
  /\ cancelled' = cancelled \cup ({current} \ {None})
  /\ current' = None
  /\ UNCHANGED <<lifecycle, attached, trigger, done, worker, phase>>

AwaitDone(p) ==
  /\ caller[p].pc = "await"
  /\ done[caller[p].w]
  /\ done' = [done EXCEPT ![caller[p].w] = FALSE]
  /\ caller' = [caller EXCEPT ![p].pc = "stopped"]
  /\ UNCHANGED <<lifecycle, current, attached, trigger, cancelled, worker, phase>>

Detach(p) ==
  /\ caller[p].pc = "stopped" /\ caller[p].op = "detach"
  /\ lifecycle' = Free
  /\ caller' = [caller EXCEPT ![p] = Idle]
  /\ UNCHANGED <<current, attached, trigger, done, cancelled, worker, phase>>

(* The progress fields are reset, the goroutine is started, and the first  *)
(* request is put into the fresh trigger channel.                          *)
Attach(p) ==
  LET w == attached + 1 IN
  /\ caller[p].pc = "stopped" /\ caller[p].op = "attach"
  /\ w \in Workers
  /\ attached' = w
  /\ current' = w
  /\ trigger' = [trigger EXCEPT ![w] = TRUE]
  /\ worker' = [worker EXCEPT ![w] = "waiting"]
  /\ phase' = "none"
  /\ lifecycle' = Free
  /\ caller' = [caller EXCEPT ![p] = Idle]
  /\ UNCHANGED <<done, cancelled>>

(* Trigger coalesces: a full channel already holds a request. *)
Trigger(p) ==
  /\ caller[p] = Idle
  /\ current # None
  /\ trigger' = [trigger EXCEPT ![current] = TRUE]
  /\ UNCHANGED <<lifecycle, current, attached, done, cancelled, worker, caller, phase>>
-----------------------------------------------------------------------------
(* The timer fires, and the request stays in the channel. *)
WakeByTimer(w) ==
  /\ worker[w] = "waiting"
  /\ w \notin cancelled
  /\ worker' = [worker EXCEPT ![w] = "cycle"]
  /\ UNCHANGED <<lifecycle, current, attached, trigger, done, cancelled, caller, phase>>

(* Worker.Run: wait for a request, the timer or the cancelled context.     *)
Wake(w) ==
  /\ worker[w] = "waiting"
  /\ w \notin cancelled
  /\ worker' = [worker EXCEPT ![w] = "cycle"]
  /\ trigger' = [trigger EXCEPT ![w] = FALSE]
  /\ UNCHANGED <<lifecycle, current, attached, done, cancelled, caller, phase>>

(* recordProgress: the result of a cycle.  A cycle that ends in success or *)
(* in a retryable error goes back to waiting; a quarantined workspace ends *)
(* the worker for good.                                                    *)
EndCycle(w, result) ==
  /\ worker[w] = "cycle"
  /\ phase' = result
  /\ worker' = [worker EXCEPT ![w] = IF result = "quarantine" THEN "returned" ELSE "waiting"]
  /\ UNCHANGED <<lifecycle, current, attached, trigger, done, cancelled, caller>>

Cancelled(w) ==
  /\ worker[w] \in {"waiting", "cycle"}
  /\ w \in cancelled
  /\ worker' = [worker EXCEPT ![w] = "returned"]
  /\ UNCHANGED <<lifecycle, current, attached, trigger, done, cancelled, caller, phase>>

(* The goroutine ends without a result. *)
SendNothing(w) ==
  /\ worker[w] = "returned"
  /\ worker' = [worker EXCEPT ![w] = "sent"]
  /\ UNCHANGED <<lifecycle, current, attached, trigger, done, cancelled, caller, phase>>

(* The goroutine of Attach after Run: the result first, then the section   *)
(* that forgets the worker unless another one took its place.              *)
SendDone(w) ==
  /\ worker[w] = "returned"
  /\ done' = [done EXCEPT ![w] = TRUE]
  /\ worker' = [worker EXCEPT ![w] = "sent"]
  /\ UNCHANGED <<lifecycle, current, attached, trigger, cancelled, caller, phase>>

Forget(w) ==
  /\ worker[w] = "sent"
  /\ worker' = [worker EXCEPT ![w] = "gone"]
  /\ current' = IF current = w THEN None ELSE current
  /\ UNCHANGED <<lifecycle, attached, trigger, done, cancelled, caller, phase>>

(* The root context of the application ends. *)
CancelRoot ==
  /\ cancelled # Workers
  /\ cancelled' = Workers
  /\ UNCHANGED <<lifecycle, current, attached, trigger, done, worker, caller, phase>>

CallerStep(p) ==
  LockLifecycle(p) \/ StopWorker(p) \/ AwaitDone(p) \/ Detach(p) \/ Attach(p)

WorkerStep(w) ==
  \/ Wake(w) \/ WakeByTimer(w) \/ Cancelled(w) \/ SendDone(w) \/ Forget(w)
  \/ \E result \in Phases \ {"none"} : EndCycle(w, result)

Next ==
  \/ \E p \in Callers : CallerStep(p) \/ Trigger(p) \/ \E op \in {"attach", "detach"} : Begin(p, op)
  \/ \E w \in Workers : WorkerStep(w)
  \/ CancelRoot

(* Goroutines that can run do run.  A waiting worker's select takes a      *)
(* request that stays in its channel, and a cancelled context, sooner or   *)
(* later although the timer may win the race several times.                *)
Fairness ==
  /\ \A p \in Callers : SF_vars(LockLifecycle(p)) /\ WF_vars(CallerStep(p))
  /\ \A w \in Workers : WF_vars(WorkerStep(w)) /\ SF_vars(Wake(w)) /\ SF_vars(Cancelled(w))

Spec == Init /\ [][Next]_vars

FairSpec == Spec /\ Fairness
-----------------------------------------------------------------------------

(* Attach waits for the old worker before it starts the next one: two      *)
(* workers of one coordinator never run at the same time.                  *)
OneWorker == Cardinality({w \in Workers : worker[w] \in {"waiting", "cycle"}}) <= 1

(* Attach and Detach return although the worker's own exit takes the same  *)
(* mutex: nobody waits for ever.                                           *)
CallsReturn == \A p \in Callers : caller[p].pc = "lock" ~> caller[p] = Idle

(* A request accepted by Trigger starts a cycle, or the worker ends.       *)
TriggerServed == \A w \in Workers : trigger[w] ~> (~trigger[w] \/ worker[w] = "gone")
=============================================================================
