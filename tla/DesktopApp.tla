----------------------------- MODULE DesktopApp -----------------------------
(***************************************************************************)
(* The App of the desktop client (desktop/app.go, sync.go, workspaces.go,  *)
(* settings.go): bound methods that the frontend calls on several          *)
(* goroutines, the reconnection that an unlock starts in the background,   *)
(* the settings file and the sync workers the methods attach and detach.   *)
(* A section under a.mu, a write of the settings file, the opening and     *)
(* closing of a database, Attach and Detach are one step each; a method is *)
(* a sequence of them, and other methods may run in between.  A worker is  *)
(* named with the coordinator that owns it, as each is used once.          *)
(***************************************************************************)
EXTENDS Naturals

CONSTANTS Threads,      \* goroutines that run bound methods
          Reconnector,  \* the goroutine on which activate reconnects
          Workspaces, Home, \* workspaces; the one the account was created with
          Commands,     \* the bound methods the frontend calls
          MaxCommands,  \* bound on the calls, which bounds everything else
          MaxFaults     \* bound on failing writes of the settings file

None == 0
Ids == 1..MaxCommands
HotkeyValues == {"default", "changed"}

VARIABLES
  account,     \* a.account: an unlocked account, or None
  accounts,    \* accounts opened so far: each unlock is a new one
  open,        \* accounts whose database connection is open
  held,        \* workspaces the account holds a key for
  unlocking,   \* a.unlocking
  settings,    \* a.settings
  disk,        \* settings.json
  hotkey,      \* the hotkey registered with the system
  remote,      \* a.httpTransport is set
  coordinator, \* a.syncCoordinator
  generation,  \* a.syncGeneration
  worker,      \* [Ids -> worker]
  thread,      \* [Threads -> the method running there]
  begun, faults

vars == <<account, accounts, open, held, unlocking, settings, disk, hotkey, remote,
          coordinator, generation, worker, thread, begun, faults>>
appVars == <<account, accounts, open, held, unlocking>>
syncVars == <<remote, coordinator, generation, worker>>
setVars == <<settings, disk, hotkey>>

DefaultSettings == [sync |-> FALSE, active |-> Home, hotkey |-> "default"]
Unborn == [state |-> "unborn", ws |-> Home, by |-> "none", gen |-> 0]
Idle == [pc |-> "idle", acc |-> None, gen |-> 0, w |-> None, ws |-> Home,
         next |-> DefaultSettings, prev |-> DefaultSettings, then |-> "idle"]

NextWorker == CHOOSE w \in Ids : worker[w] = Unborn /\ \A v \in Ids : v < w => worker[v] # Unborn
NextAccount == accounts + 1

(* Coordinator.Enabled: a worker that met a quarantined operation is gone. *)
Enabled(w) == w # None /\ worker[w].state = "running"

(* resolveActiveWorkspace: a preference that is not held falls back. *)
Resolve(preferred) == IF preferred \in held THEN preferred ELSE Home

Init ==
  /\ account = 1 /\ accounts = 1 /\ open = {1} /\ held = {Home} /\ unlocking = FALSE
  /\ settings = DefaultSettings /\ disk = DefaultSettings /\ hotkey = "default"
  /\ remote = FALSE /\ coordinator = None /\ generation = 0
  /\ worker = [w \in Ids |-> Unborn]
  /\ thread = [t \in Threads |-> Idle]
  /\ begun = 1 /\ faults = 0
-----------------------------------------------------------------------------
At(t, pc) == thread[t].pc = pc
Goto(t, pc) == thread' = [thread EXCEPT ![t].pc = pc]
Return(t) == thread' = [thread EXCEPT ![t] = Idle]

Begin(t, command) ==
  /\ At(t, "idle") /\ command \in Commands /\ begun < MaxCommands
  /\ begun' = begun + 1
  /\ Goto(t, command)

(* saveSettings writes a temporary file and renames it, so it succeeds or  *)
(* leaves the old file.                                                    *)
SaveSettings(s) == disk' = s /\ UNCHANGED faults
SaveFails == faults < MaxFaults /\ faults' = faults + 1 /\ UNCHANGED disk

(* Coordinator.Detach: cancel the worker and wait for it. *)
Detached(w) == [worker EXCEPT ![w].state = IF w # None /\ worker[w].state = "running" THEN "stopped" ELSE @]

DetachOld(t) ==
  /\ At(t, "detach")
  /\ worker' = IF thread[t].w = None THEN worker ELSE Detached(thread[t].w)
  /\ IF thread[t].then = "idle" THEN Return(t) ELSE Goto(t, thread[t].then)
  /\ UNCHANGED <<appVars, setVars, remote, coordinator, generation, begun, faults>>

(* buildWorkspaceWorker and Attach: a closed database yields no worker. *)
AttachWorker(w, ws, by, gen) ==
  worker' = [worker EXCEPT ![w] = [state |-> "running", ws |-> ws, by |-> by, gen |-> gen]]
-----------------------------------------------------------------------------
(* ConnectServer and reconnectSavedServer.                                 *)
ConnectAccount(t) ==
  /\ At(t, "connect")
  /\ IF account = None THEN Return(t)
     ELSE thread' = [thread EXCEPT ![t].pc = "connect_gen", ![t].acc = account,
                                   ![t].ws = Resolve(settings.active)]
  /\ UNCHANGED <<appVars, setVars, syncVars, begun, faults>>

ConnectGeneration(t) ==
  /\ At(t, "connect_gen")
  /\ thread' = [thread EXCEPT ![t].pc = "connect_attach", ![t].gen = generation]
  /\ UNCHANGED <<appVars, setVars, syncVars, begun, faults>>

(* The server refuses, or the worker cannot be built on a closed database. *)
ConnectFails(t) ==
  /\ At(t, "connect_attach")
  /\ Return(t)
  /\ UNCHANGED <<appVars, setVars, syncVars, begun, faults>>

ConnectAttach(t) ==
  /\ At(t, "connect_attach") /\ thread[t].acc \in open
  /\ AttachWorker(NextWorker, thread[t].ws, "connect", thread[t].gen)
  /\ thread' = [thread EXCEPT ![t].pc = "connect_save", ![t].w = NextWorker,
                              ![t].next = [settings EXCEPT !.sync = TRUE]]
  /\ UNCHANGED <<appVars, setVars, remote, coordinator, generation, begun, faults>>

ConnectSave(t) ==
  /\ At(t, "connect_save")
  /\ \/ SaveSettings(thread[t].next) /\ Goto(t, "connect_commit")
     \/ SaveFails /\ thread' = [thread EXCEPT ![t].pc = "detach", ![t].then = "idle"]
  /\ UNCHANGED <<appVars, settings, hotkey, syncVars, begun>>

(* The generation is not compared. *)
ConnectCommitAlways(t) ==
  /\ At(t, "connect_commit")
  /\ settings' = thread[t].next
  /\ remote' = TRUE
  /\ coordinator' = thread[t].w
  /\ thread' = [thread EXCEPT ![t].pc = "detach", ![t].w = coordinator]
  /\ UNCHANGED <<appVars, disk, hotkey, generation, worker, begun, faults>>

(* A disabled or locked client in the meantime: the new worker is dropped. *)
ConnectCommit(t) ==
  /\ At(t, "connect_commit")
  /\ IF thread[t].gen # generation
     THEN /\ thread' = [thread EXCEPT ![t].pc = "detach", ![t].then = "idle"]
          /\ UNCHANGED <<settings, remote, coordinator>>
     ELSE /\ settings' = thread[t].next
          /\ remote' = TRUE
          /\ coordinator' = thread[t].w
          /\ thread' = [thread EXCEPT ![t].pc = "detach", ![t].w = coordinator]
  /\ UNCHANGED <<appVars, disk, hotkey, generation, worker, begun, faults>>

-----------------------------------------------------------------------------
(* DisableServer: read, save, detach what was read, and only then clear.   *)
DisableRead(t) ==
  /\ At(t, "disable")
  /\ thread' = [thread EXCEPT ![t].pc = "disable_save", ![t].w = coordinator,
                              ![t].next = [settings EXCEPT !.sync = FALSE], ![t].then = "disable_clear"]
  /\ UNCHANGED <<appVars, setVars, syncVars, begun, faults>>

DisableSave(t) ==
  /\ At(t, "disable_save")
  /\ \/ SaveSettings(thread[t].next) /\ Goto(t, "detach")
     \/ SaveFails /\ Return(t)
  /\ UNCHANGED <<appVars, settings, hotkey, syncVars, begun>>

DisableClear(t) ==
  /\ At(t, "disable_clear")
  /\ settings' = thread[t].next
  /\ remote' = FALSE /\ coordinator' = None
  /\ generation' = generation + 1
  /\ Return(t)
  /\ UNCHANGED <<appVars, disk, hotkey, worker, begun, faults>>

-----------------------------------------------------------------------------
(* lockAccount takes everything in one section, then detaches and closes.  *)
LockTake(t) ==
  /\ At(t, "lock")
  /\ thread' = [thread EXCEPT ![t].pc = "detach", ![t].w = coordinator, ![t].acc = account,
                              ![t].then = IF account = None THEN "idle" ELSE "lock_close"]
  /\ account' = None /\ remote' = FALSE /\ coordinator' = None
  /\ generation' = generation + 1
  /\ UNCHANGED <<accounts, open, held, unlocking, setVars, worker, begun, faults>>

LockClose(t) ==
  /\ At(t, "lock_close")
  /\ open' = open \ {thread[t].acc}
  /\ Return(t)
  /\ UNCHANGED <<account, accounts, held, unlocking, setVars, syncVars, begun, faults>>

(* UnlockAccount: an overlapping call is refused. *)
UnlockBegin(t) ==
  /\ At(t, "unlock")
  /\ IF unlocking THEN Return(t) /\ UNCHANGED unlocking
     ELSE Goto(t, "unlock_open") /\ unlocking' = TRUE
  /\ UNCHANGED <<account, accounts, open, held, setVars, syncVars, begun, faults>>

UnlockOpen(t) ==
  /\ At(t, "unlock_open")
  /\ \/ /\ thread' = [thread EXCEPT ![t].pc = "unlock_activate", ![t].acc = NextAccount]
        /\ open' = open \cup {NextAccount} /\ accounts' = NextAccount
        /\ UNCHANGED unlocking
     \/ /\ Return(t) /\ unlocking' = FALSE /\ UNCHANGED <<open, accounts>>   \* wrong passphrase
  /\ UNCHANGED <<account, held, setVars, syncVars, begun, faults>>

(* activate: the account becomes current; saving the settings is best      *)
(* effort; a configured server is reconnected on its own goroutine.        *)
Activate(t) ==
  /\ At(t, "unlock_activate")
  /\ account' = thread[t].acc
  /\ thread' = [thread EXCEPT ![t].pc = "unlock_save", ![t].next = settings]
  /\ UNCHANGED <<accounts, open, held, unlocking, setVars, syncVars, begun, faults>>

UnlockSave(t) ==
  /\ At(t, "unlock_save")
  /\ thread[t].next.sync => Reconnector = t \/ At(Reconnector, "idle")
  /\ SaveSettings(thread[t].next) \/ SaveFails
  /\ unlocking' = FALSE
  /\ thread' = [u \in Threads |->
        IF u = Reconnector /\ thread[t].next.sync THEN [Idle EXCEPT !.pc = "connect"]
        ELSE IF u = t THEN Idle ELSE thread[u]]
  /\ UNCHANGED <<account, accounts, open, held, settings, hotkey, syncVars, begun>>
-----------------------------------------------------------------------------
(* SetActiveWorkspace and, with a new key, AcceptWorkspaceGrant.           *)
ActiveRead(t, ws) ==
  /\ At(t, "active")
  /\ IF account = None \/ ws \notin held
     THEN Return(t)
     ELSE thread' = [thread EXCEPT ![t].pc = "active_save", ![t].acc = account, ![t].ws = ws,
                                   ![t].prev = settings, ![t].next = [settings EXCEPT !.active = ws],
                                   ![t].then = IF remote THEN "attach" ELSE "idle"]
  /\ UNCHANGED <<appVars, setVars, syncVars, begun, faults>>

AcceptRead(t) ==
  /\ At(t, "accept")
  /\ IF account = None \/ ~remote THEN Return(t)
     ELSE thread' = [thread EXCEPT ![t].pc = "accept_key", ![t].acc = account]
  /\ UNCHANGED <<appVars, setVars, syncVars, begun, faults>>

AcceptGrant(t, ws) ==
  /\ At(t, "accept_key")
  /\ IF thread[t].acc \notin open
     THEN Return(t) /\ UNCHANGED held
     ELSE /\ held' = held \cup {ws}
          /\ thread' = [thread EXCEPT ![t].pc = "active_save", ![t].ws = ws, ![t].then = "attach",
                                      ![t].prev = settings, ![t].next = [settings EXCEPT !.active = ws]]
  /\ UNCHANGED <<account, accounts, open, unlocking, setVars, syncVars, begun, faults>>

ActiveSave(t) ==
  /\ At(t, "active_save")
  /\ \/ SaveSettings(thread[t].next) /\ Goto(t, "active_set")
     \/ SaveFails /\ Return(t)
  /\ UNCHANGED <<appVars, settings, hotkey, syncVars, begun>>

ActiveSet(t) ==
  /\ At(t, "active_set")
  /\ settings' = thread[t].next
  /\ IF thread[t].then = "attach" THEN Goto(t, "attach") ELSE Return(t)
  /\ UNCHANGED <<appVars, disk, hotkey, syncVars, begun, faults>>

(* attachWorkspaceSync compares no generation.  A switch whose attach      *)
(* fails is rolled back; a call that changed no setting has nothing to undo.*)
Fail(t) ==
  IF thread[t].next = thread[t].prev THEN Return(t) ELSE Goto(t, "rollback")

AttachRead(t) ==
  /\ At(t, "attach")
  /\ IF remote THEN Goto(t, "attach_build") ELSE Fail(t)
  /\ UNCHANGED <<appVars, setVars, syncVars, begun, faults>>

AttachBuild(t) ==
  /\ At(t, "attach_build")
  /\ IF thread[t].acc \in open
     THEN /\ AttachWorker(NextWorker, thread[t].ws, "attach", generation)
          /\ thread' = [thread EXCEPT ![t].pc = "attach_commit", ![t].w = NextWorker]
     ELSE Fail(t) /\ UNCHANGED worker
  /\ UNCHANGED <<appVars, setVars, remote, coordinator, generation, begun, faults>>

AttachCommit(t) ==
  /\ At(t, "attach_commit")
  /\ coordinator' = thread[t].w
  /\ thread' = [thread EXCEPT ![t].pc = "detach", ![t].w = coordinator, ![t].then = "idle"]
  /\ UNCHANGED <<appVars, setVars, remote, generation, worker, begun, faults>>

Rollback(t) ==
  /\ At(t, "rollback")
  /\ \/ SaveSettings(thread[t].prev) /\ Goto(t, "rollback_set")
     \/ SaveFails /\ Return(t)
  /\ UNCHANGED <<appVars, settings, hotkey, syncVars, begun>>

RollbackSet(t) ==
  /\ At(t, "rollback_set")
  /\ settings' = thread[t].prev
  /\ Return(t)
  /\ UNCHANGED <<appVars, disk, hotkey, syncVars, begun, faults>>

(* SyncNow, RetrySyncQuarantine and reattachIfDetached: a worker that      *)
(* ended is replaced, a running one is triggered.                          *)
SyncNow(t) ==
  /\ At(t, "sync")
  /\ IF ~remote \/ Enabled(coordinator) \/ account = None
     THEN Return(t)
     ELSE thread' = [thread EXCEPT ![t].pc = "attach", ![t].acc = account, ![t].ws = Resolve(settings.active)]
  /\ UNCHANGED <<appVars, setVars, syncVars, begun, faults>>
-----------------------------------------------------------------------------
(* UpdateSettings: the hotkey is registered before the file is saved, and  *)
(* registered back when a later step fails.  The frontend sends all of the *)
(* settings it shows.                                                      *)
UpdateRead(t, key) ==
  /\ At(t, "update")
  /\ thread' = [thread EXCEPT ![t].pc = "update_save", ![t].prev = settings, ![t].next = [settings EXCEPT !.hotkey = key]]
  /\ hotkey' = key
  /\ UNCHANGED <<appVars, settings, disk, syncVars, begun, faults>>

(* The hotkey is not registered back. *)
UpdateSaveNoRollback(t) ==
  /\ At(t, "update_save")
  /\ UNCHANGED hotkey
  /\ \/ SaveSettings(thread[t].next) /\ Goto(t, "update_set")
     \/ SaveFails /\ Return(t)
  /\ UNCHANGED <<appVars, settings, syncVars, begun>>

UpdateSave(t) ==
  /\ At(t, "update_save")
  /\ \/ SaveSettings(thread[t].next) /\ Goto(t, "update_set") /\ UNCHANGED hotkey
     \/ SaveFails /\ hotkey' = thread[t].prev.hotkey /\ Return(t)
  /\ UNCHANGED <<appVars, settings, syncVars, begun>>

UpdateSet(t) ==
  /\ At(t, "update_set")
  /\ settings' = thread[t].next
  /\ Return(t)
  /\ UNCHANGED <<appVars, disk, hotkey, syncVars, begun, faults>>

(* A worker meets a quarantined operation and ends. *)
Quarantined(w) ==
  /\ Enabled(w)
  /\ worker' = [worker EXCEPT ![w].state = "exited"]
  /\ UNCHANGED <<appVars, setVars, remote, coordinator, generation, thread, begun, faults>>

Step(t) ==
  \/ DetachOld(t)
  \/ ConnectAccount(t) \/ ConnectGeneration(t) \/ ConnectFails(t) \/ ConnectAttach(t) \/ ConnectSave(t) \/ ConnectCommit(t)
  \/ DisableRead(t) \/ DisableSave(t) \/ DisableClear(t)
  \/ LockTake(t) \/ LockClose(t) \/ AcceptRead(t) \/ UnlockBegin(t) \/ UnlockOpen(t) \/ Activate(t) \/ UnlockSave(t)
  \/ \E ws \in Workspaces : ActiveRead(t, ws) \/ AcceptGrant(t, ws)
  \/ ActiveSave(t) \/ ActiveSet(t) \/ AttachRead(t) \/ AttachBuild(t) \/ AttachCommit(t) \/ Rollback(t) \/ RollbackSet(t) \/ SyncNow(t)
  \/ (\E key \in HotkeyValues : UpdateRead(t, key)) \/ UpdateSave(t) \/ UpdateSet(t)

Next ==
  \/ \E t \in Threads : Step(t)
  \/ \E t \in Threads, command \in Commands :
       Begin(t, command) /\ UNCHANGED <<appVars, setVars, syncVars, faults>>
  \/ \E w \in Ids : Quarantined(w)

Spec == Init /\ [][Next]_vars
-----------------------------------------------------------------------------

Quiet == \A t \in Threads : At(t, "idle")

(* Once every call has returned, a client that is locked or whose server   *)
(* is disabled has no worker running, with or without a reference to it.   *)
NoWorkerLeft ==
  Quiet /\ (account = None \/ ~settings.sync) => \A w \in Ids : ~Enabled(w)

(* Once every call has returned, settings.json, the settings in memory and *)
(* the registered hotkey agree, whichever writes failed.                   *)
SettingsAgree == Quiet => settings = disk /\ hotkey = settings.hotkey

(* Once every call has returned, exactly the worker of the active          *)
(* workspace runs.                                                         *)
WorkerTargetsActive ==
  Quiet => \A w \in Ids : Enabled(w) => w = coordinator /\ worker[w].ws = Resolve(settings.active)

(* A connection attempt that began before the client was last disabled or  *)
(* locked never becomes the current one, even when calls overlap.          *)
NoStaleConnection ==
  coordinator # None /\ worker[coordinator].by = "connect" => worker[coordinator].gen = generation
=============================================================================
