----------------------------- MODULE ClientSuite -----------------------------
(***************************************************************************)
(* Parts of the clients that keep a promise whatever their environment     *)
(* does, as one specification: the editor's commit tracker, LAN pairing    *)
(* and the updater.  Each behaviour is one of one profile, chosen at the   *)
(* start; a variable that the profile's component does not have stays at   *)
(* NotUsed.                                                                *)
(***************************************************************************)
EXTENDS Naturals

CONSTANTS
    MaxInput, MaxAttempts,                                              \* EditorCommit
    Initiators, Responders, Codes, Mistyped, MaxFrames, MaxClosed,      \* Pairing
    MaxVersion, MaxUpdateFaults                                         \* DesktopUpdate

\* A session of LAN pairing has one role; versions are numbered from 1.
ASSUME ClientConstants ==
    /\ MaxInput \in Nat /\ MaxAttempts \in Nat
    /\ Initiators \cap Responders = {} /\ {"none", "cleared", "both"} \cap (Initiators \cup Responders) = {}
    /\ MaxVersion \in Nat \ {0}

VARIABLES
    profile, faults,
    latest, saved, inFlight, durable, shown,
    code, scalar, public, peer, key, verified, expired, sealed, seen, opened, confirmations,
    app, previous, updater, staged, pc, prior, before, reported

Editor == INSTANCE EditorCommit
Pair == INSTANCE Pairing
Update == INSTANCE DesktopUpdate WITH MaxFaults <- MaxUpdateFaults, Careful <- TRUE

editorVars == <<latest, saved, inFlight, durable, shown>>
pairVars == <<code, scalar, public, peer, key, verified, expired, sealed, seen, opened, confirmations>>
updateVars == <<app, previous, updater, staged, pc, prior, before, reported>>
partVars == <<profile, faults, editorVars, pairVars, updateVars>>

NotUsed == 0
NoEditor == latest = NotUsed /\ saved = NotUsed /\ inFlight = NotUsed /\ durable = NotUsed /\ shown = NotUsed
NoPairing ==
    /\ code = NotUsed /\ scalar = NotUsed /\ public = NotUsed /\ peer = NotUsed /\ key = NotUsed
    /\ verified = NotUsed /\ expired = NotUsed /\ sealed = NotUsed /\ seen = NotUsed
    /\ opened = NotUsed /\ confirmations = NotUsed
NoUpdate ==
    /\ app = NotUsed /\ previous = NotUsed /\ updater = NotUsed /\ staged = NotUsed /\ pc = NotUsed
    /\ prior = NotUsed /\ before = NotUsed /\ reported = NotUsed

PartInit ==
    \/ profile = "editor" /\ Editor!Init /\ NoPairing /\ NoUpdate /\ faults = NotUsed
    \/ profile = "pairing" /\ Pair!Init /\ NoEditor /\ NoUpdate /\ faults = NotUsed
    \/ profile = "update" /\ Update!Init /\ NoEditor /\ NoPairing

PartNext ==
    /\ UNCHANGED profile
    /\ \/ profile = "editor" /\ Editor!Next /\ UNCHANGED <<pairVars, updateVars, faults>>
       \/ profile = "pairing" /\ Pair!Next /\ UNCHANGED <<editorVars, updateVars, faults>>
       \/ profile = "update" /\ Update!Next /\ UNCHANGED <<editorVars, pairVars>>

PartSpec == PartInit /\ [][PartNext]_partVars
-----------------------------------------------------------------------------
\* Saved is displayed only while the latest input is in the database.
SavedIsDurable == profile = "editor" => Editor!SavedIsDurable

\* A verified pairing session agrees with one of the other role and same code,
\* and opens once what that one sealed.
PairingAgrees == profile = "pairing" => Pair!VerifiedAgree /\ Pair!OpenedOnce

\* An executable that runs is there, installed or kept, and a version that is
\* reported as restored is the one installed before.
UpdateRecoverable == profile = "update" => Update!RunnableRemains /\ Update!RestoredIsPrior
=============================================================================
