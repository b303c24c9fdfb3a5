------------------------------ MODULE MCClients ------------------------------
(***************************************************************************)
(* The client processes for TLC: the desktop application and the mobile    *)
(* service, each with its commands one after another ("desktop", "mobile") *)
(* and with two command threads beside the reconnector ("desktop_threads", *)
(* "mobile_threads"), the editor's commit tracker, LAN pairing, the        *)
(* notebooks and tags of two devices, revision histories and their diffs,  *)
(* exports and imports of notes, and the updater.  Each behaviour is one   *)
(* of one profile, chosen at the start; a variable that the profile's      *)
(* component does not have stays at NotUsed.                               *)
(***************************************************************************)
EXTENDS ClientSuite, TLC

VARIABLES account, accounts, open, held, unlocking, settings, disk, hotkey,
          remote, coordinator, generation, worker, thread, begun,
          active, preferred, enabled, crashed,
          rows, tags, clock, outbox, log, work, memo, snap, restarts,
          updates, body, bodyKey, current, revisions, now, dated, call,
          a, b, i, j, result,
          notes, books, tag, archive, source, made, job, deletes

DesktopCommands == {"connect", "disable", "lock", "unlock", "active", "accept", "sync", "update"}
MobileCommands == {"connect", "disconnect", "lock", "unlock", "active", "accept", "sync"}

Desktop == INSTANCE DesktopApp WITH
    Threads <- {"t1"}, Reconnector <- "t1", Workspaces <- {"w1", "w2"}, Home <- "w1",
    Commands <- DesktopCommands, MaxCommands <- 5, MaxFaults <- 1
DesktopThreads == INSTANCE DesktopApp WITH
    Threads <- {"t1", "t2", "bg"}, Reconnector <- "bg", Workspaces <- {"w1", "w2"}, Home <- "w1",
    Commands <- {"connect", "disable", "lock", "unlock", "active"}, MaxCommands <- 4, MaxFaults <- 1
Mobile == INSTANCE MobileService WITH
    Threads <- {"t1"}, Reconnector <- "t1", Workspaces <- {"w1", "w2"}, Home <- "w1",
    Commands <- MobileCommands, MaxCommands <- 5, MaxFaults <- 1
MobileThreads == INSTANCE MobileService WITH
    Threads <- {"t1", "t2", "bg"}, Reconnector <- "bg", Workspaces <- {"w1", "w2"}, Home <- "w1",
    Commands <- {"connect", "disconnect", "lock", "unlock", "active"}, MaxCommands <- 4, MaxFaults <- 1

\* Concurrent moves between publications, of notebooks both devices have; and
\* the other commands and restarts in the middle of one.
CatalogMoves == INSTANCE Catalog WITH
    Devices <- {1, 2}, Notebooks <- {1, 2}, Tags <- {}, TagName <- <<>>, Owner <- <<1, 2>>,
    Kinds <- {"move"}, Interleaved <- FALSE, MaxClock <- 4, MaxOps <- 1, MaxRestarts <- 0
CatalogAll == INSTANCE Catalog WITH
    Devices <- {1, 2}, Notebooks <- {1, 2}, Tags <- {3, 4}, TagName <- (3 :> 3) @@ (4 :> 4),
    Owner <- <<1, 2, 1, 2>>, Kinds <- {"rename", "delete", "tag"}, Interleaved <- TRUE,
    MaxClock <- 2, MaxOps <- 1, MaxRestarts <- 1
CatalogRenames == INSTANCE Catalog WITH
    Devices <- {1, 2}, Notebooks <- {1, 2}, Tags <- {}, TagName <- <<>>, Owner <- <<1, 2>>,
    Kinds <- {"rename"}, Interleaved <- TRUE, MaxClock <- 3, MaxOps <- 1, MaxRestarts <- 0
History == INSTANCE RevisionHistory WITH
    Callers <- {1, 2}, Interval <- 2, Retention <- 1, MaxUpdates <- 3, MaxTime <- 2, MaxKey <- 2,
    Remote <- TRUE, key <- current, clock <- dated
Diff == INSTANCE LineDiff WITH Line <- {1, 2, 3}, MaxLines <- 3

\* The name c is sanitized to b and the title y to x.
Named == {<<"a">>, <<"b">>, <<"c">>, <<"x">>, <<"y">>, <<"x", 1>>}
Safe == [n \in Named |-> IF n = <<"c">> THEN <<"b">> ELSE IF n = <<"y">> THEN <<"x">> ELSE n]
Book(p, n) == [parent |-> p, name |-> <<n>>, deleted |-> FALSE]
Nested == {<<Book(0, "a"), Book(1, "a")>>, <<Book(0, "b"), Book(1, "a")>>}
Siblings == {<<Book(0, "a"), Book(0, "a")>>, <<Book(0, "b"), Book(0, "c")>>}
Note(t, p, g, f, d) == [title |-> t, book |-> p, tagged |-> g, file |-> f, deleted |-> d]
Export == INSTANCE NoteTransfer WITH
    Shape <- {Note(<<"x">>, 1, FALSE, FALSE, FALSE), Note(<<"x">>, 2, TRUE, FALSE, FALSE),
              Note(<<"y">>, 1, FALSE, TRUE, FALSE), Note(<<"y">>, 2, TRUE, TRUE, FALSE),
              Note(<<"x">>, 0, TRUE, TRUE, TRUE), Note(<<"x", 1>>, 1, FALSE, FALSE, FALSE)},
    Tree <- Nested \cup Siblings, Sanitized <- Safe, Notes <- 3, Ops <- {"archive"},
    MaxDeletes <- 0, MaxFaults <- 1, disk <- archive
Transfer == INSTANCE NoteTransfer WITH
    Shape <- {Note(<<"x">>, 1, TRUE, FALSE, FALSE), Note(<<"x">>, 2, FALSE, TRUE, FALSE),
              Note(<<"y">>, 2, TRUE, TRUE, FALSE), Note(<<"x">>, 0, FALSE, FALSE, TRUE)},
    Tree <- Nested, Sanitized <- Safe, Notes <- 2, Ops <- {"archive", "enex", "backup"},
    MaxDeletes <- 2, MaxFaults <- 1, disk <- archive

desktopOnly == <<unlocking, settings, disk, hotkey>>
mobileOnly == <<active, preferred, enabled, crashed>>
processVars == <<account, accounts, open, held, remote, coordinator, generation, worker, thread,
                 begun>>
catalogVars == <<rows, tags, clock, outbox, log, work, memo, snap, restarts>>
historyVars == <<updates, body, bodyKey, current, revisions, now, dated, call>>
diffVars == <<a, b, i, j, result>>
transferVars == <<notes, books, tag, archive, source, made, job, deletes>>
dataVars == <<catalogVars, historyVars, diffVars, transferVars>>
clientVars == <<processVars, desktopOnly, mobileOnly, editorVars, pairVars, updateVars>>
vars == <<partVars, processVars, desktopOnly, mobileOnly, dataVars>>

NoDesktop == unlocking = NotUsed /\ settings = NotUsed /\ disk = NotUsed /\ hotkey = NotUsed
NoMobile == active = NotUsed /\ preferred = NotUsed /\ enabled = NotUsed /\ crashed = NotUsed
NoProcess ==
    /\ NoDesktop /\ NoMobile
    /\ account = NotUsed /\ accounts = NotUsed /\ open = NotUsed /\ held = NotUsed
    /\ remote = NotUsed /\ coordinator = NotUsed /\ generation = NotUsed /\ worker = NotUsed
    /\ thread = NotUsed /\ begun = NotUsed
NoCatalog ==
    /\ rows = NotUsed /\ tags = NotUsed /\ clock = NotUsed /\ outbox = NotUsed /\ log = NotUsed
    /\ work = NotUsed /\ memo = NotUsed /\ snap = NotUsed /\ restarts = NotUsed
NoHistory ==
    /\ updates = NotUsed /\ body = NotUsed /\ bodyKey = NotUsed /\ current = NotUsed
    /\ revisions = NotUsed /\ now = NotUsed /\ dated = NotUsed /\ call = NotUsed
NoDiff == a = NotUsed /\ b = NotUsed /\ i = NotUsed /\ j = NotUsed /\ result = NotUsed
NoTransfer ==
    /\ notes = NotUsed /\ books = NotUsed /\ tag = NotUsed /\ archive = NotUsed /\ source = NotUsed
    /\ made = NotUsed /\ job = NotUsed /\ deletes = NotUsed
NoPart == NoEditor /\ NoPairing /\ NoUpdate
NoClient == NoProcess /\ NoPart
NoData == NoCatalog /\ NoHistory /\ NoDiff /\ NoTransfer

\* Device 1 has made a notebook at reading 1 and named it in an operation at 2,
\* device 2 has made another at 3, in the root or in the first, and both have the
\* third snapshot: CatalogMoves!Init leads here.
Shared(p) ==
    LET created(v, at) == [name |-> at, parent |-> [v |-> v, c |-> at],
                           deleted |-> [on |-> FALSE, c |-> CatalogMoves!NoReading],
                           hidden |-> FALSE]
    IN  [rows |-> <<created(CatalogMoves!Root, [t |-> 1, d |-> 1]), created(p, [t |-> 3, d |-> 2])>>,
         tags |-> <<>>]
CatalogShared ==
    \E p \in {CatalogMoves!Root, 1} :
        /\ rows = [d \in {1, 2} |-> Shared(p).rows] /\ tags = [d \in {1, 2} |-> <<>>]
        /\ clock = <<2, 3>> /\ outbox = [d \in {1, 2} |-> <<>>] /\ log = <<[row |-> 1, t |-> 2]>>
        /\ work = [d \in {1, 2} |-> CatalogMoves!NoWork] /\ snap = [id |-> 3, cat |-> Shared(p)]
        /\ memo = [d \in {1, 2} |-> [seq |-> 1, digest |-> Shared(p), reviewed |-> 3, cursor |-> 1]]
        /\ restarts = 0

\* The codes are alike, so the responder's is fixed.
Init ==
    \/ /\ \/ profile = "desktop" /\ Desktop!Init /\ NoMobile
          \/ profile = "desktop_threads" /\ DesktopThreads!Init /\ NoMobile
          \/ profile = "mobile" /\ Mobile!Init /\ NoDesktop
          \/ profile = "mobile_threads" /\ MobileThreads!Init /\ NoDesktop
       /\ NoPart /\ NoData
    \/ PartInit /\ (profile = "pairing" => code["r1"] = "c1") /\ NoProcess /\ NoData
    \/ /\ NoClient /\ NoTransfer /\ faults = NotUsed
       /\ \/ profile = "catalog_moves" /\ CatalogShared /\ NoHistory /\ NoDiff
          \/ profile = "catalog" /\ CatalogAll!Init /\ NoHistory /\ NoDiff
          \/ profile = "history" /\ History!Init /\ NoCatalog /\ NoDiff
          \/ profile = "diff" /\ Diff!Init /\ NoCatalog /\ NoHistory
    \/ /\ NoClient /\ NoCatalog /\ NoHistory /\ NoDiff
       /\ \/ profile = "export" /\ Export!Init
          \/ profile = "transfer" /\ Transfer!Init

Next ==
    /\ UNCHANGED profile
    /\ \/ /\ \/ profile = "desktop" /\ Desktop!Next /\ UNCHANGED mobileOnly
             \/ profile = "desktop_threads" /\ DesktopThreads!Next /\ UNCHANGED mobileOnly
             \/ profile = "mobile" /\ Mobile!Next /\ UNCHANGED desktopOnly
             \/ profile = "mobile_threads" /\ MobileThreads!Next /\ UNCHANGED desktopOnly
          /\ UNCHANGED <<editorVars, pairVars, updateVars, dataVars>>
       \/ PartNext /\ UNCHANGED <<processVars, desktopOnly, mobileOnly, dataVars>>
       \/ /\ \/ profile = "catalog_moves" /\ CatalogMoves!Next
             \/ profile = "catalog" /\ CatalogAll!Next
          /\ UNCHANGED <<faults, clientVars, historyVars, diffVars, transferVars>>
       \/ /\ profile = "history" /\ History!Next
          /\ UNCHANGED <<faults, clientVars, catalogVars, diffVars, transferVars>>
       \/ /\ profile = "diff" /\ Diff!Next
          /\ UNCHANGED <<faults, clientVars, catalogVars, historyVars, transferVars>>
       \/ /\ \/ profile = "export" /\ Export!Next
             \/ profile = "transfer" /\ Transfer!Next
          /\ UNCHANGED <<clientVars, catalogVars, historyVars, diffVars>>

Spec == Init /\ [][Next]_vars

\* Two devices that rename notebooks in the middle of publications.
CatalogSpec ==
    /\ profile = "catalog_names" /\ CatalogRenames!Init /\ faults = NotUsed
    /\ NoClient /\ NoHistory /\ NoDiff /\ NoTransfer
    /\ [][CatalogRenames!Next
          /\ UNCHANGED <<profile, faults, clientVars, historyVars, diffVars, transferVars>>]_vars
-----------------------------------------------------------------------------
\* Nothing of an earlier session is left: no connection is committed that a
\* lock or disconnection overtook, and between calls only the worker of the
\* active workspace runs and only the current account is open.
NothingStale ==
    /\ profile = "desktop" =>
          Desktop!NoStaleConnection /\ Desktop!WorkerTargetsActive /\ Desktop!NoWorkerLeft
    /\ profile = "desktop_threads" => DesktopThreads!NoStaleConnection
    /\ profile = "mobile" =>
          Mobile!NoStaleConnection /\ Mobile!WorkerTargetsActive /\ Mobile!NoAccountLeftOpen
    /\ profile = "mobile_threads" =>
          MobileThreads!NoStaleConnection /\ MobileThreads!NoAccountLeftOpen

\* Between calls the configuration in memory, on disk and in effect agree: the
\* desktop's settings and hotkey, the mobile client's connection and workspace.
ConfigurationAgrees ==
    /\ profile = "desktop" => Desktop!SettingsAgree
    /\ profile = "mobile" => Mobile!ConfigurationAgrees

\* A device's catalog is a tree, and so is the published one, which has no
\* placeholder.
CatalogIsTree ==
    profile \in {"catalog_moves", "catalog"} =>
        CatalogAll!TreeAcyclic /\ CatalogAll!NoPlaceholderPublished

\* A notebook's name is never replaced by one with an earlier reading.
NamesOrdered == [][profile = "catalog_names" => CatalogRenames!NamesAdvance]_vars

\* A revision replays to the text the note had when it was written, and the note
\* still has every update its revisions recorded.
HistoryFaithful ==
    profile = "history" => History!LocalHistoryReplays /\ History!BodyKeepsHistory

\* A diff turns the one text into the other and keeps as much as possible.
DiffMinimal == profile = "diff" => Diff!DiffMinimal

\* A published export has every note, each in a file of its own, and notes that
\* are brought in have all their source had.
TransferFaithful ==
    /\ profile = "export" => Export!ExportWhole /\ Export!TransferFaithful
    /\ profile = "transfer" => Transfer!ExportWhole /\ Transfer!TransferFaithful
=============================================================================
