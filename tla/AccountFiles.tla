---------------------------- MODULE AccountFiles ----------------------------
(***************************************************************************)
(* The files of a local account and the operations that create, open,      *)
(* migrate, lock and erase it, step by step, with a crash or a failing     *)
(* call between any two of them.  Modelled from core/account/account.go,   *)
(* core/store/connect.go, migrate.go, migration_safety.go and devicekey.go *)
(* and desktop/wipe.go.                                                    *)
(*                                                                         *)
(* Database keys and accounts are numbered in the order they are drawn.    *)
(* The account's Root Key is represented by the account's number.          *)
(***************************************************************************)
EXTENDS Naturals

CONSTANTS
    MaxKey,     \* how many database keys may be drawn
    MaxVersion, \* how many schema migrations the newest release embeds
    Faulty,     \* "crash", "torn", or the names of the steps that may fail
    MaxFaults

VARIABLES
    envelope, \* the key envelope file: Absent, a key, or Torn
    db,       \* the database file: its key, schema version and account row
    unlock,   \* the device-unlock file: the account whose Root Key it wraps
    copies,   \* the pre-migration copies beside the database
    blobs,    \* whether the blob directories exist
    newest,   \* the schema version of the installed release
    session,  \* the account that is unlocked, or 0
    job,      \* the operation under way
    drawn,    \* keys drawn so far
    account,  \* history: the account Create returned and no wipe was asked for
    used,     \* history: the schema versions it was used at
    faults

files == <<envelope, db, unlock, copies, blobs>>
history == <<drawn, account, used, faults>>
vars == <<files, newest, session, job, history>>

Absent == 0
Torn == MaxKey + 1
NoDatabase == [key |-> 0, version |-> 0, account |-> 0]
Idle == [op |-> "idle", at |-> "idle", key |-> 0, root |-> 0]

Init ==
    /\ envelope = Absent /\ db = NoDatabase /\ unlock = 0
    /\ copies = {} /\ blobs = FALSE
    /\ newest = 1
    /\ session = 0 /\ job = Idle
    /\ drawn = 0 /\ account = 0 /\ used = {} /\ faults = 0

At(step) == job.at = step
Step(step) == job' = [job EXCEPT !.at = step]
Done == job' = Idle

-----------------------------------------------------------------------------
(* Create. *)

\* Files that are there are not looked at.
CreateUnchecked ==
    /\ job = Idle /\ session = 0 /\ drawn < MaxKey
    /\ drawn' = drawn + 1
    /\ job' = [op |-> "create", at |-> "envelope", key |-> drawn + 1, root |-> drawn + 1]
    /\ UNCHANGED <<files, newest, session, account, used, faults>>

\* An existing database or envelope is refused.
Create ==
    /\ db = NoDatabase /\ envelope = Absent
    /\ CreateUnchecked

\* The envelope is written before the database is opened.
WriteEnvelope ==
    /\ At("envelope")
    /\ envelope' = job.key
    /\ Step("open")
    /\ UNCHANGED <<db, unlock, copies, blobs, newest, session, history>>

-----------------------------------------------------------------------------
(* store.Open, shared by Create and both ways to unlock. *)

\* sqlcipherdb.Open creates a missing file; the integrity check fails at the
\* first page under another key.
OpenDatabase ==
    /\ At("open")
    /\ \/ db.key = 0 /\ db' = [NoDatabase EXCEPT !.key = job.key] /\ Step("copy")
       \/ db.key = job.key /\ Step("copy") /\ UNCHANGED db
       \/ db.key # 0 /\ db.key # job.key /\ Done /\ UNCHANGED db
    /\ UNCHANGED <<envelope, unlock, copies, blobs, newest, session, history>>

\* A copy is made when a schema exists that is older than the newest.
backupBeforePendingMigration ==
    /\ At("copy")
    /\ copies' = IF db.version # 0 /\ db.version < newest
                 THEN copies \cup {[account |-> db.account, version |-> db.version]} ELSE copies
    /\ Step("migrate")
    /\ UNCHANGED <<envelope, db, unlock, blobs, newest, session, history>>

\* Each migration is a transaction of its own.
applyMigration ==
    /\ At("migrate") /\ db.version < newest
    /\ db' = [db EXCEPT !.version = @ + 1]
    /\ UNCHANGED <<envelope, unlock, copies, blobs, newest, session, job, history>>

Migrated ==
    /\ At("migrate") /\ db.version >= newest
    /\ Step(IF job.op = "create" THEN "insert" ELSE "load")
    /\ UNCHANGED <<files, newest, session, history>>

-----------------------------------------------------------------------------
(* The end of Create, and Unlock. *)

Opened(a) ==
    /\ session' = a
    /\ used' = used \cup {db.version}

\* insertNewAccount commits every row of the account at once.
insertNewAccount ==
    /\ At("insert")
    /\ db' = [db EXCEPT !.account = job.root]
    /\ account' = job.root
    /\ Opened(job.root)
    /\ Done
    /\ UNCHANGED <<envelope, unlock, copies, blobs, newest, drawn, faults>>

\* The key the envelope holds; an empty envelope makes LoadOrCreateDatabaseKey
\* draw a key that is not written anywhere.
LoadKey(op, root) ==
    \/ /\ envelope # Torn
       /\ job' = [op |-> op, at |-> "open", key |-> envelope, root |-> root]
       /\ UNCHANGED drawn
    \/ /\ envelope = Torn /\ drawn < MaxKey
       /\ drawn' = drawn + 1
       /\ job' = [op |-> op, at |-> "open", key |-> drawn + 1, root |-> root]

\* root = 0 stands for a wrong passphrase.
Unlock ==
    /\ job = Idle /\ session = 0 /\ envelope # Absent
    /\ \E root \in {0, db.account} : LoadKey("unlock", root)
    /\ UNCHANGED <<files, newest, session, account, used, faults>>

UnlockWithDeviceKey ==
    /\ job = Idle /\ session = 0 /\ unlock # 0 /\ envelope # Absent
    /\ LoadKey("unlock", unlock)
    /\ UNCHANGED <<files, newest, session, account, used, faults>>

\* Without an account row, or under another Root Key, the connection is closed
\* again; otherwise the keybag is opened and the session starts.
unlockAccountContent ==
    /\ At("load")
    /\ Done
    /\ \/ /\ db.account # 0 /\ job.root = db.account
          /\ Opened(db.account)
       \/ /\ db.account = 0 \/ job.root # db.account
          /\ UNCHANGED <<session, used>>
    /\ UNCHANGED <<files, newest, drawn, account, faults>>

EnableDeviceUnlock ==
    /\ job = Idle /\ session # 0
    /\ unlock' = session
    /\ UNCHANGED <<envelope, db, copies, blobs, newest, session, job, history>>

\* The first attachment creates the blob directories.
Publish ==
    /\ job = Idle /\ session # 0
    /\ blobs' = TRUE
    /\ UNCHANGED <<envelope, db, unlock, copies, newest, session, job, history>>

Lock ==
    /\ job = Idle /\ session # 0
    /\ session' = 0
    /\ UNCHANGED <<files, newest, job, history>>

-----------------------------------------------------------------------------
(* WipeLocalAccount: lock, then EraseLocalAccount file by file. *)

WipeLocalAccount ==
    /\ job = Idle
    /\ session' = 0
    /\ account' = 0 /\ used' = {}
    /\ job' = [Idle EXCEPT !.op = "erase", !.at = "database"]
    /\ UNCHANGED <<files, newest, drawn, faults>>

EraseLocalAccount ==
    /\ job.op = "erase"
    /\ \/ At("database") /\ db' = NoDatabase /\ Step("key") /\ UNCHANGED <<envelope, unlock, blobs>>
       \/ At("key") /\ envelope' = Absent /\ Step("unlock") /\ UNCHANGED <<db, unlock, blobs>>
       \/ At("unlock") /\ unlock' = 0 /\ Step("blobs") /\ UNCHANGED <<db, envelope, blobs>>
       \/ At("blobs") /\ blobs' = FALSE /\ Done /\ UNCHANGED <<db, envelope, unlock>>
    /\ UNCHANGED <<copies, newest, session, history>>

-----------------------------------------------------------------------------
(* Faults, and a new release. *)

Fault == faults < MaxFaults /\ faults' = faults + 1

\* The process dies.  os.WriteFile truncates before it writes.
Crash ==
    /\ "crash" \in Faulty /\ Fault
    /\ job' = Idle /\ session' = 0
    /\ envelope' \in IF At("envelope") /\ "torn" \in Faulty THEN {envelope, Torn} ELSE {envelope}
    /\ UNCHANGED <<db, unlock, copies, blobs, newest, drawn, account, used>>

\* A call fails and the operation cleans up: a failed store.Open of Create
\* removes the envelope, a failed createAccountContent also the database.
Fail ==
    /\ job.at \in Faulty /\ Fault
    /\ Done
    /\ envelope' = IF job.op = "create" /\ ~At("envelope") THEN Absent ELSE envelope
    /\ db' = IF job.op = "create" /\ At("insert") THEN NoDatabase ELSE db
    /\ UNCHANGED <<unlock, copies, blobs, newest, session, drawn, account, used>>

Upgrade ==
    /\ job = Idle /\ session = 0 /\ newest < MaxVersion
    /\ newest' = newest + 1
    /\ UNCHANGED <<files, session, job, history>>

Next ==
    \/ Create \/ WriteEnvelope
    \/ OpenDatabase \/ backupBeforePendingMigration \/ applyMigration \/ Migrated
    \/ insertNewAccount \/ Unlock \/ UnlockWithDeviceKey \/ unlockAccountContent
    \/ EnableDeviceUnlock \/ Publish \/ Lock
    \/ WipeLocalAccount \/ EraseLocalAccount
    \/ Crash \/ Fail \/ Upgrade

Spec == Init /\ [][Next]_vars

-----------------------------------------------------------------------------
(* Properties. *)

\* An account that Create returned stays openable until it is wiped: its rows
\* are in the database and the envelope holds that database's key, whatever
\* interrupts Unlock, a migration or a second Create.
AccountKept ==
    account # 0 => db.account = account /\ db.key # 0 /\ envelope = db.key

\* The envelope is written before the database is created and erased after it:
\* no crash leaves an encrypted database without a record of its key.
KeyRecorded == db.key # 0 => envelope = db.key

\* Before a migration changes an account that was in use, a copy of it at its
\* old schema version is on disk, and it is never deleted while the account is.
CopiedBeforeMigration ==
    account # 0 => \A v \in used : v < db.version => [account |-> account, version |-> v] \in copies

=============================================================================
