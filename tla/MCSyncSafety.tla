---------------------------- MODULE MCSyncSafety ----------------------------
(***************************************************************************)
(* The safety of SyncEngine for TLC.  The profile "overlap" has two        *)
(* operations, single-operation requests and two overlapping workers on    *)
(* d2; the profile "batches" has three operations, requests of two and one *)
(* worker at a time on each device, and it is d2 that enrols later.        *)
(***************************************************************************)
EXTENDS MCSyncEngine, TLC

VARIABLE profile

Batched == INSTANCE SyncEngine WITH BatchSize <- 2, Founders <- {d1}

SafetyInit ==
    \/ profile = "overlap" /\ Init
    \/ profile = "batches" /\ Batched!Init

SafetyNext ==
    /\ UNCHANGED profile
    /\ \/ profile = "overlap" /\ Next /\ row'[c] = 0
       \/ profile = "batches" /\ Batched!Next /\ "off" \in {pc'[w2], pc'[w3]}

\* The two workers of d2 are alike.
AlikeWorkers == Permutations({w2, w3})

SafetySpec == SafetyInit /\ [][SafetyNext]_<<vars, profile>>

\* With one worker at a time on each device the operations a snapshot needs are kept, and
\* a quarantined one lies beyond the cursor, so that the server delivers it again.
SerialHistoryComplete ==
    profile = "batches" => SnapshotHistoryComplete /\ QuarantineAboveCursor
=============================================================================
