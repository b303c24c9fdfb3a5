------------------------------ MODULE SyncLog -------------------------------
(***************************************************************************)
(* The clients and the server of SyncEngine together are a replicated log, *)
(* and under fairness every operation gets to every device.                *)
(***************************************************************************)
EXTENDS SyncEngine

Log == INSTANCE ReplicatedLog WITH
           issued <- OpsOf(row),
           length <- latest,
           position <- seqOf,
           delivered <- [d \in Device |-> OpsOf(applied[d])]

\* The clients and the server implement the abstract log: pages, retries,
\* overlapping workers and late requests only issue, append and deliver.
ImplementsLog == Log!Spec

\* From some time on the application stays open with sync enabled and no
\* request or local write fails.
Settled == ~ \/ \E d \in Device : Crash(d)
             \/ \E w \in Worker : Detach(w) \/ Fail(w)
Settles == <>[][Settled]_vars

\* An attached worker goes on: Run's timer fires, its calls return.
FairSpec == Spec /\ Settles /\ \A w \in Worker : WF_vars(WorkerStep(w))

\* Every operation committed on one device is in the end applied on all of
\* them, whatever crashed, was lost or was repeated before.
Convergence == Log!Converges
=============================================================================
