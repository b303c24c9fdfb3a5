--------------------------- MODULE DesktopUpdate ---------------------------
(***************************************************************************)
(* The Windows updater: verification of a staged release, the copy of the  *)
(* executable it keeps, the installer it runs, and the restoration of the  *)
(* copy, with a failing call or a crash at any step.                       *)
(*   internal/desktopupdate/manifest.go, apply.go                          *)
(*   cmd/beresta-updater/main.go                                           *)
(*   desktop/build/windows/installer/project.nsi   the installer           *)
(*                                                                         *)
(* An executable is its version number; Torn is one that was written in    *)
(* part and has no valid publisher signature.                              *)
(***************************************************************************)
EXTENDS Naturals

CONSTANTS MaxVersion, MaxFaults,
          Careful \* whether the user updates only an executable that runs, and
                  \* rolls back one that does not or that was just updated

VARIABLES app,      \* the installed executable
          previous, \* the copy beside it
          updater,  \* the version linked into the installed updater
          staged,   \* the release on disk: [version, signed, intact]
          pc,
          prior,    \* PriorExecutableAvailable of the installer
          before,   \* history: the executable when Apply was called
          reported, \* history: what Apply or Rollback returned last
          faults

vars == <<app, previous, updater, staged, pc, prior, before, reported, faults>>

Absent == 0
Torn == MaxVersion + 1
Sound(file) == file \in 1..MaxVersion
NoRelease == [version |-> 0, signed |-> FALSE, intact |-> FALSE]

Init ==
    /\ app = 1 /\ updater = 1 /\ previous = Absent
    /\ staged = NoRelease /\ pc = "idle" /\ prior = FALSE
    /\ before = 1 /\ reported = "none" /\ faults = 0

Fault == faults < MaxFaults /\ faults' = faults + 1

\* A release is downloaded, a forged or damaged one among them.
Stage ==
    /\ pc = "idle"
    /\ staged' \in [version : 1..MaxVersion, signed : BOOLEAN, intact : BOOLEAN]
    /\ UNCHANGED <<app, previous, updater, pc, prior, before, reported, faults>>

\* LoadManifest reads a manifest with valid fields.
LoadManifest == staged # NoRelease

\* Verify: a version above the updater's own, the release signature, the
\* artifact's size and hash, its publisher.
Verify == LoadManifest /\ staged.version > updater /\ staged.signed /\ staged.intact

\* validateInstalledPath
Installed(file) == file # Absent

Apply ==
    /\ pc = "idle" /\ Verify /\ Installed(app)
    /\ Careful => Sound(app)
    /\ pc' = "preserve" /\ before' = app /\ reported' = "none"
    /\ UNCHANGED <<app, previous, updater, staged, prior, faults>>

\* The copy is made after the installer ran.
PreserveNothing ==
    /\ pc = "preserve"
    /\ pc' = "copy"
    /\ UNCHANGED <<app, previous, updater, staged, prior, before, reported, faults>>

\* atomicCopy replaces the old copy by a rename.
Preserve ==
    /\ pc = "preserve"
    /\ previous' = app /\ pc' = "copy"
    /\ UNCHANGED <<app, updater, staged, prior, before, reported, faults>>

-----------------------------------------------------------------------------
(* The installer. *)

\* A copy of its own, written in place; when it cannot be opened for writing
\* the installer goes on without one.
CopyPrevious ==
    /\ pc = "copy" /\ pc' = "write"
    /\ \/ previous' = app /\ prior' = TRUE /\ UNCHANGED faults
       \/ prior' = FALSE /\ Fault /\ UNCHANGED previous
    /\ UNCHANGED <<app, updater, staged, before, reported>>

\* A failure may go unnoticed and leave no executable that runs.
WriteApplication ==
    /\ pc = "write"
    /\ \/ app' = staged.version /\ pc' = "updater" /\ UNCHANGED faults
       \/ app' \in {Absent, Torn} /\ pc' = "updater" /\ Fault
       \/ app' \in {app, Torn} /\ pc' = "undo" /\ Fault
    /\ UNCHANGED <<previous, updater, staged, prior, before, reported>>

WriteUpdater ==
    /\ pc = "updater"
    /\ \/ updater' = staged.version /\ pc' = "check" /\ UNCHANGED faults
       \/ UNCHANGED updater /\ pc' = "undo" /\ Fault
    /\ UNCHANGED <<app, previous, staged, prior, before, reported>>

\* install_failed: the copy comes back, or the executable is deleted.
InstallFailed ==
    /\ pc = "undo"
    /\ app' = IF prior THEN previous ELSE Absent
    /\ pc' = "restore"
    /\ UNCHANGED <<previous, updater, staged, prior, before, reported, faults>>

-----------------------------------------------------------------------------
(* The end of Apply, and Rollback. *)

Return(result) == pc' = "idle" /\ reported' = result

\* A missing file, a failed comparison or the publisher of the installed file
\* leads to the restoration; an unchanged file is only reported.
Check ==
    /\ pc = "check"
    /\ \/ Installed(app) /\ app = previous /\ Return("unchanged") /\ UNCHANGED faults
       \/ Sound(app) /\ app # previous /\ Return("updated") /\ UNCHANGED faults
       \/ (app = Absent \/ (app = Torn /\ previous # Torn)) /\ pc' = "restore" /\ UNCHANGED <<reported, faults>>
       \/ pc' = "restore" /\ Fault /\ UNCHANGED reported
    /\ UNCHANGED <<app, previous, updater, staged, prior, before>>

\* atomicCopy of the kept executable, which may fail.
Restore ==
    /\ pc = "restore"
    /\ \/ Installed(previous) /\ app' = previous /\ Return("restored") /\ UNCHANGED faults
       \/ Fault /\ Return("rollback failed") /\ UNCHANGED app
    /\ UNCHANGED <<previous, updater, staged, prior, before>>

Rollback ==
    /\ pc = "idle" /\ Installed(previous)
    /\ Careful => ~Sound(app) \/ reported = "updated"
    /\ app' = previous /\ reported' = "rolled back"
    /\ UNCHANGED <<previous, updater, staged, pc, prior, before, faults>>

\* The machine stops; a file that was being written in place is torn.
Crash ==
    /\ pc # "idle" /\ Fault
    /\ pc' = "idle" /\ reported' = "none"
    /\ app' \in IF pc = "write" THEN {app, Torn} ELSE IF pc = "undo" THEN {app, previous, Torn} ELSE {app}
    /\ previous' \in IF pc = "copy" THEN {previous, Torn} ELSE {previous}
    /\ UNCHANGED <<updater, staged, prior, before>>

Next ==
    \/ Stage \/ Apply \/ Preserve
    \/ CopyPrevious \/ WriteApplication \/ WriteUpdater \/ InstallFailed
    \/ Check \/ Restore \/ Rollback \/ Crash

Spec == Init /\ [][Next]_vars

-----------------------------------------------------------------------------
(* Properties. *)

\* Whichever calls fail and wherever the machine stops, an executable that
\* runs is there: the installed one, or the copy that Rollback restores.
RunnableRemains == pc = "idle" => Sound(app) \/ Sound(previous)

\* "never falsely reported as recovered" (docs/desktop-updates.md): after
\* Apply says that the prior version was restored, it is the executable that
\* was installed before, and it runs.
RestoredIsPrior == reported = "restored" => app = before /\ Sound(app)

=============================================================================
