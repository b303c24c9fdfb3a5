---------------------------- MODULE MobileService ----------------------------
(***************************************************************************)
(* The Service of the mobile client (core/mobileapi/service.go and         *)
(* sharing.go): calls that Flutter makes on several threads, the           *)
(* reconnection that activate starts in the background, the configuration  *)
(* kept in the account's own database and the sync workers.  As in         *)
(* DesktopApp a section under s.mu, a write to the database, Attach,       *)
(* Detach and the opening or closing of an account are one step each.      *)
(* Account.DB() is nil once the account is locked: building a worker then  *)
(* fails, and a statement on it is a nil dereference that ends the process.*)
(***************************************************************************)
EXTENDS Naturals

CONSTANTS Threads,      \* threads that call the service
          Reconnector,  \* the goroutine of reconnectSavedServer
          Workspaces, Home, \* workspaces; the first in the order of activate
          Commands,     \* the calls Flutter makes
          MaxCommands,  \* bound on the calls
          MaxFaults     \* bound on failing statements

None == 0
Ids == 1..MaxCommands

VARIABLES
  account, accounts, open, \* s.account; accounts opened so far; those not yet locked
  held,        \* workspaces the keybag holds
  active,      \* s.workspaceID
  preferred,   \* ActiveWorkspaceID in mobile_preferences
  enabled,     \* enabled in mobile_sync_config
  remote,      \* s.remote is set
  coordinator, generation, \* s.coordinator, s.syncGeneration
  worker, thread, begun, faults,
  crashed      \* a nil dereference ended the process

vars == <<account, accounts, open, held, active, preferred, enabled, remote,
          coordinator, generation, worker, thread, begun, faults, crashed>>
accVars == <<account, accounts, open, held>>
diskVars == <<preferred, enabled>>
syncVars == <<active, remote, coordinator, generation>>
ctl == <<begun, faults, crashed>>

Unborn == [state |-> "unborn", ws |-> Home, by |-> "none", gen |-> 0]
Idle == [pc |-> "idle", acc |-> None, prev |-> None, gen |-> 0, w |-> None,
         ws |-> Home, probe |-> TRUE, then |-> "idle"]

NextWorker == CHOOSE w \in Ids : worker[w] = Unborn /\ \A v \in Ids : v < w => worker[v] # Unborn

Init ==
  /\ account = 1 /\ accounts = 1 /\ open = {1} /\ held = {Home}
  /\ active = Home /\ preferred = Home /\ enabled = FALSE /\ remote = FALSE
  /\ coordinator = None /\ generation = 0
  /\ worker = [w \in Ids |-> Unborn] /\ thread = [t \in Threads |-> Idle]
  /\ begun = 1 /\ faults = 0 /\ crashed = FALSE
-----------------------------------------------------------------------------
At(t, pc) == thread[t].pc = pc
Goto(t, pc) == thread' = [thread EXCEPT ![t].pc = pc]
Return(t) == thread' = [thread EXCEPT ![t] = Idle]
Enabled(w) == w # None /\ worker[w].state = "running"

(* begin registers the call under its identifier; done removes it. *)
Begin(t, command) ==
  /\ At(t, "idle") /\ command \in Commands /\ begun < MaxCommands
  /\ begun' = begun + 1
  /\ Goto(t, command)

(* A statement on acc's database: done, failed, or made on a nil handle.   *)
StatementFails(acc) == acc \in open /\ faults < MaxFaults /\ faults' = faults + 1 /\ UNCHANGED crashed
Crash(t, acc) == acc \notin open /\ crashed' = TRUE /\ Return(t) /\ UNCHANGED faults

Detach(t) ==
  /\ At(t, "detach")
  /\ worker' = IF Enabled(thread[t].w) THEN [worker EXCEPT ![thread[t].w].state = "stopped"] ELSE worker
  /\ IF thread[t].then = "idle" THEN Return(t) ELSE Goto(t, thread[t].then)
  /\ UNCHANGED <<accVars, diskVars, syncVars, ctl>>

AttachNew(t, by, pc) ==
  /\ worker' = [worker EXCEPT ![NextWorker] =
                   [state |-> "running", ws |-> thread[t].ws, by |-> by, gen |-> thread[t].gen]]
  /\ thread' = [thread EXCEPT ![t].pc = pc, ![t].w = NextWorker]
-----------------------------------------------------------------------------
(* connectServer, with the server's answer required when probe is set.     *)
ConnectAccount(t) ==
  /\ At(t, "connect")
  /\ IF account = None THEN Return(t)
     ELSE thread' = [thread EXCEPT ![t].pc = "connect_gen", ![t].acc = account, ![t].ws = active]
  /\ UNCHANGED <<accVars, diskVars, syncVars, worker, ctl>>

ConnectGeneration(t) ==
  /\ At(t, "connect_gen")
  /\ thread' = [thread EXCEPT ![t].pc = "connect_attach", ![t].gen = generation]
  /\ UNCHANGED <<accVars, diskVars, syncVars, worker, ctl>>

ConnectFails(t) ==
  /\ At(t, "connect_attach")
  /\ thread[t].probe \/ thread[t].acc \notin open
  /\ Return(t)
  /\ UNCHANGED <<accVars, diskVars, syncVars, worker, ctl>>

ConnectAttach(t) ==
  /\ At(t, "connect_attach") /\ thread[t].acc \in open
  /\ AttachNew(t, "connect", "connect_save")
  /\ UNCHANGED <<accVars, diskVars, syncVars, ctl>>

ConnectSave(t) ==
  /\ At(t, "connect_save")
  /\ \/ thread[t].acc \in open /\ enabled' = TRUE /\ Goto(t, "connect_commit") /\ UNCHANGED <<faults, crashed>>
     \/ StatementFails(thread[t].acc) /\ Goto(t, "detach") /\ UNCHANGED enabled
     \/ Crash(t, thread[t].acc) /\ UNCHANGED enabled
  /\ UNCHANGED <<accVars, preferred, syncVars, worker, begun>>

(* The generation is not compared. *)
ConnectCommitAlways(t) ==
  /\ At(t, "connect_commit")
  /\ remote' = TRUE /\ coordinator' = thread[t].w
  /\ thread' = [thread EXCEPT ![t].pc = "detach", ![t].w = coordinator]
  /\ UNCHANGED <<accVars, diskVars, active, generation, worker, ctl>>

(* A lock or a disconnection in the meantime: the new worker is dropped. *)
ConnectCommit(t) ==
  /\ At(t, "connect_commit")
  /\ IF thread[t].gen # generation
     THEN Goto(t, "detach") /\ UNCHANGED <<remote, coordinator>>
     ELSE /\ remote' = TRUE /\ coordinator' = thread[t].w
          /\ thread' = [thread EXCEPT ![t].pc = "detach", ![t].w = coordinator]
  /\ UNCHANGED <<accVars, diskVars, active, generation, worker, ctl>>

(* DisconnectServer takes the connection and bumps the generation at once. *)
DisconnectTake(t) ==
  /\ At(t, "disconnect")
  /\ thread' = [thread EXCEPT ![t].pc = "detach", ![t].w = coordinator, ![t].acc = account,
                              ![t].then = IF account = None THEN "idle" ELSE "disconnect_save"]
  /\ remote' = FALSE /\ coordinator' = None /\ generation' = generation + 1
  /\ UNCHANGED <<accVars, diskVars, active, worker, ctl>>

DisconnectSave(t) ==
  /\ At(t, "disconnect_save")
  /\ \/ thread[t].acc \in open /\ enabled' = FALSE /\ Return(t) /\ UNCHANGED <<faults, crashed>>
     \/ StatementFails(thread[t].acc) /\ Return(t) /\ UNCHANGED enabled
     \/ Crash(t, thread[t].acc) /\ UNCHANGED enabled
  /\ UNCHANGED <<accVars, preferred, syncVars, worker, begun>>

-----------------------------------------------------------------------------
LockTake(t) ==
  /\ At(t, "lock")
  /\ thread' = [thread EXCEPT ![t].pc = "detach", ![t].w = coordinator, ![t].prev = account, ![t].then = "close"]
  /\ account' = None /\ active' = Home /\ remote' = FALSE /\ coordinator' = None
  /\ generation' = generation + 1
  /\ UNCHANGED <<accounts, open, held, diskVars, worker, ctl>>

(* Account.Lock of the account that Lock or activate took. *)
CloseAccount(t) ==
  /\ At(t, "close")
  /\ open' = open \ {thread[t].prev}
  /\ IF thread[t].acc = None THEN Return(t) ELSE Goto(t, "reconnect")
  /\ UNCHANGED <<account, accounts, held, diskVars, syncVars, worker, ctl>>

(* CreateAccount, UnlockAccount and UnlockWithDeviceKey open an account;   *)
(* nothing keeps two of them from overlapping.                             *)
UnlockOpen(t) ==
  /\ At(t, "unlock")
  /\ \/ /\ accounts' = accounts + 1 /\ open' = open \cup {accounts'}
        /\ thread' = [thread EXCEPT ![t].pc = "activate", ![t].acc = accounts']
     \/ Return(t) /\ UNCHANGED <<accounts, open>>
  /\ UNCHANGED <<account, held, diskVars, syncVars, worker, ctl>>

(* activate swaps the account in, without a new generation. *)
Activate(t) ==
  /\ At(t, "activate")
  /\ thread' = [thread EXCEPT ![t].pc = "detach", ![t].w = coordinator, ![t].prev = account, ![t].then = "close"]
  /\ account' = thread[t].acc
  /\ active' = IF preferred \in held THEN preferred ELSE Home
  /\ remote' = FALSE /\ coordinator' = None
  /\ UNCHANGED <<accounts, open, held, diskVars, generation, worker, ctl>>

ReconnectSavedServer(t) ==
  /\ At(t, "reconnect")
  /\ LET spawn == enabled /\ thread[t].acc \in open IN
       /\ spawn => Reconnector = t \/ At(Reconnector, "idle")
       /\ IF thread[t].acc \in open
          THEN /\ thread' = [u \in Threads |->
                     IF u = Reconnector /\ spawn THEN [Idle EXCEPT !.pc = "connect", !.probe = FALSE]
                     ELSE IF u = t THEN Idle ELSE thread[u]]
               /\ UNCHANGED <<faults, crashed>>
          ELSE Crash(t, thread[t].acc)
  /\ UNCHANGED <<accVars, diskVars, syncVars, worker, begun>>
-----------------------------------------------------------------------------
(* SetActiveWorkspace, and AcceptWorkspaceGrant once its key is accepted:  *)
(* the worker is redirected first, the choice saved afterwards.            *)
ActiveRead(t, ws) ==
  /\ At(t, "active")
  /\ IF account = None \/ ws \notin held \/ account \notin open THEN Return(t) /\ UNCHANGED active
     ELSE /\ thread' = [thread EXCEPT ![t].pc = IF remote THEN "attach" ELSE "active_save",
                                      ![t].acc = account, ![t].ws = ws, ![t].then = "active_save"]
          /\ active' = IF remote THEN active ELSE ws
  /\ UNCHANGED <<accVars, diskVars, remote, coordinator, generation, worker, ctl>>

AcceptGrant(t, ws) ==
  /\ At(t, "accept")
  /\ IF account = None \/ ~remote \/ account \notin open THEN Return(t) /\ UNCHANGED held
     ELSE /\ held' = held \cup {ws}
          /\ thread' = [thread EXCEPT ![t].pc = "attach", ![t].acc = account, ![t].ws = ws, ![t].then = "active_save"]
  /\ UNCHANGED <<account, accounts, open, diskVars, syncVars, worker, ctl>>

(* attachWorkspaceSync *)
AttachBuild(t) ==
  /\ At(t, "attach")
  /\ IF remote /\ thread[t].acc \in open
     THEN AttachNew(t, "attach", "attach_commit")
     ELSE Return(t) /\ UNCHANGED worker
  /\ UNCHANGED <<accVars, diskVars, syncVars, ctl>>

AttachCommit(t) ==
  /\ At(t, "attach_commit")
  /\ active' = thread[t].ws /\ coordinator' = thread[t].w
  /\ thread' = [thread EXCEPT ![t].pc = "detach", ![t].w = coordinator]
  /\ UNCHANGED <<accVars, diskVars, remote, generation, worker, ctl>>

SaveActiveWorkspace(t) ==
  /\ At(t, "active_save")
  /\ \/ thread[t].acc \in open /\ preferred' = thread[t].ws /\ Return(t) /\ UNCHANGED <<faults, crashed>>
     \/ StatementFails(thread[t].acc) /\ Return(t) /\ UNCHANGED preferred
     \/ Crash(t, thread[t].acc) /\ UNCHANGED preferred
  /\ UNCHANGED <<accVars, enabled, syncVars, worker, begun>>

(* SyncNow and RetryQuarantined: an ended worker is replaced. *)
SyncNow(t) ==
  /\ At(t, "sync")
  /\ IF account = None \/ ~remote \/ coordinator = None \/ Enabled(coordinator) THEN Return(t)
     ELSE thread' = [thread EXCEPT ![t].pc = "attach", ![t].acc = account, ![t].ws = active]
  /\ UNCHANGED <<accVars, diskVars, syncVars, worker, ctl>>

Quarantined(w) ==
  /\ Enabled(w)
  /\ worker' = [worker EXCEPT ![w].state = "exited"]
  /\ UNCHANGED <<accVars, diskVars, syncVars, thread, ctl>>

Step(t) ==
  \/ Detach(t)
  \/ ConnectAccount(t) \/ ConnectGeneration(t) \/ ConnectFails(t) \/ ConnectAttach(t) \/ ConnectSave(t) \/ ConnectCommit(t)
  \/ DisconnectTake(t) \/ DisconnectSave(t)
  \/ LockTake(t) \/ CloseAccount(t) \/ UnlockOpen(t) \/ Activate(t) \/ ReconnectSavedServer(t)
  \/ \E ws \in Workspaces : ActiveRead(t, ws) \/ AcceptGrant(t, ws)
  \/ AttachBuild(t) \/ AttachCommit(t) \/ SaveActiveWorkspace(t) \/ SyncNow(t)

Next ==
  /\ ~crashed
  /\ \/ \E t \in Threads : Step(t)
     \/ \E t \in Threads, command \in Commands :
          Begin(t, command) /\ UNCHANGED <<accVars, diskVars, syncVars, worker, faults, crashed>>
     \/ \E w \in Ids : Quarantined(w)

Spec == Init /\ [][Next]_vars
-----------------------------------------------------------------------------

Quiet == ~crashed /\ \A t \in Threads : At(t, "idle")

(* Once every call has returned, a worker runs only while connected, it is *)
(* the current one, and it synchronizes the active workspace.              *)
WorkerTargetsActive ==
  Quiet => \A w \in Ids : Enabled(w) =>
             account # None /\ remote /\ w = coordinator /\ worker[w].ws = active

(* Without failing statements an unlocked client is connected exactly when *)
(* its database says so, and works on the workspace its database names, so *)
(* that the next unlock restores what the user last chose.                 *)
ConfigurationAgrees ==
  Quiet /\ faults = 0 /\ account # None => enabled = remote /\ preferred = active

(* However calls overlap, the only account left open is the current one:   *)
(* a replaced or locked account has its secrets wiped and database closed. *)
NoAccountLeftOpen == Quiet => open \subseteq {account}

(* A connection attempt that read the generation before the last Lock or   *)
(* DisconnectServer never becomes the current one.                         *)
NoStaleConnection ==
  coordinator # None /\ worker[coordinator].by = "connect" => worker[coordinator].gen = generation
=============================================================================
