----------------------------- MODULE MCLocalData -----------------------------
(***************************************************************************)
(* The data of one device for TLC: LocalSuite with bounds for each         *)
(* profile.  notes_deep has four operations on a note, tombstones among    *)
(* them; notes_wide three operations of every kind with garbage            *)
(* collection, failed commands and restarts.                               *)
(***************************************************************************)
EXTENDS LocalSuite

CONSTANTS MaxWideOps  \* bound: operations written in notes_wide

Deep == INSTANCE NoteReplica WITH
    Retention <- NoteRetention, MaxFaults <- 0, Kinds <- {"deleted"}, Features <- {}
Wide == INSTANCE NoteReplica WITH
    Retention <- NoteRetention, MaxOps <- MaxWideOps, MaxFaults <- MaxNoteFaults,
    Kinds <- {"deleted", "notebook", "tag", "flags"}, Features <- {"gc", "revision"}
Swap == INSTANCE BackupRestore WITH
    MaxFaults <- 1, EditsDuringRestore <- FALSE, FaultAt <- {}, CrashAt <- {"aside", "envelope", "open"}

Next ==
    \/ RestoreNext \/ AccountNext
    \/ /\ \/ profile = "notes_wide" /\ Wide!Next
          \/ profile = "notes_deep" /\ Deep!Next
       /\ UNCHANGED <<profile, envelope, backupOnly, accountOnly>>

Spec == LocalInit /\ [][Next]_vars

\* A process that may die while RestoreWhole swaps the files.
SwapSpec ==
    /\ profile = "backup_swap" /\ Swap!Init /\ NoNotes /\ NoAccount
    /\ [][Swap!Next /\ UNCHANGED <<profile, notesOnly, accountOnly>>]_vars

\* The notes alone.
NotesSpec == (LocalInit /\ profile = "notes_deep") /\ [][Next]_vars
-----------------------------------------------------------------------------
\* A process that died during the swap can be started again.
AvailableAfterSwap == profile = "backup_swap" => Swap!Available

\* Devices that know the same operations have the same body.
BodiesConverge == Notes => Deep!BodiesConverge
=============================================================================
