---------------------------- MODULE ReplicatedLog ----------------------------
(***************************************************************************)
(* What synchronization promises: one append-only log of issued operations *)
(* that all devices read in the same order.  Nothing here mentions         *)
(* workers, pages, requests or retries.                                    *)
(***************************************************************************)
EXTENDS Naturals, FiniteSets

CONSTANTS Device, Op

VARIABLES
    issued,      \* operations committed by their authors
    length,      \* length of the log
    position,    \* [Op -> Nat], place in the log, 0 for none
    delivered    \* [Device -> SUBSET Op], operations each device has applied

vars == <<issued, length, position, delivered>>

Prefix(k) == {o \in Op : position[o] # 0 /\ position[o] <= k}

Init ==
    /\ issued = {}
    /\ length = 0
    /\ position = [o \in Op |-> 0]
    /\ delivered = [d \in Device |-> {}]

Issue(o) ==
    /\ o \notin issued
    /\ issued' = issued \cup {o}
    /\ UNCHANGED <<length, position, delivered>>

\* Some issued operations that are not in the log yet go to its end, each at a
\* place of its own.
Append(new) ==
    /\ \A o \in new : position[o] = 0
    /\ \E k \in 0..Cardinality(Op) :
          LET places == (length + 1)..(length + k) IN
          \E p \in [new -> places] :
              /\ \A n \in places : \E o \in new : p[o] = n
              /\ \A o, q \in new : p[o] = p[q] => o = q
              /\ position' = [o \in Op |-> IF o \in new THEN p[o] ELSE position[o]]
              /\ length' = length + k
    /\ UNCHANGED <<issued, delivered>>

\* A device extends what it has applied to a longer prefix of the log.
Deliver(d) ==
    /\ \E k \in 1..length :
          /\ delivered[d] \subseteq Prefix(k)
          /\ delivered' = [delivered EXCEPT ![d] = Prefix(k)]
    /\ UNCHANGED <<issued, length, position>>

Next ==
    \/ \E o \in Op : Issue(o)
    \/ \E new \in SUBSET issued : Append(new)
    \/ \E d \in Device : Deliver(d)

Spec == Init /\ [][Next]_vars

\* Every issued operation reaches every device.
Converges ==
    \A o \in Op, d \in Device : (o \in issued) ~> (o \in delivered[d])
=============================================================================
