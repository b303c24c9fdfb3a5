--------------------------------- MODULE HLC ---------------------------------
(***************************************************************************)
(* Hybrid logical clocks and the last-writer-wins registers they order     *)
(* (core/model/hlc.go, core/store/lww.go).  A clock value is               *)
(* (physical_ms, logical, device_id); device identifiers are positive      *)
(* numbers, compared as their bytes are.                                   *)
(***************************************************************************)
EXTENDS Naturals

CONSTANTS
    MaxLogical,     \* math.MaxUint32, the last value of the logical counter
    MaxFutureSkew   \* DefaultMaxFutureSkew

ASSUME HLCAssumption == MaxLogical \in Nat /\ MaxFutureSkew \in Nat

Clock == [p : Nat, l : Nat, d : Nat]

\* The value of a register or clock that was never written.
Zero == [p |-> 0, l |-> 0, d |-> 0]

\* The counter is exhausted at this physical time: no value is issued.
Overflow == [p |-> 0, l |-> MaxLogical + 1, d |-> 0]

\* a.Compare(b) > 0.
Later(a, b) ==
    \/ a.p > b.p
    \/ a.p = b.p /\ a.l > b.l
    \/ a.p = b.p /\ a.l = b.l /\ a.d > b.d

\* The next local event of device d after h at wall-clock time now.
Advance(h, now, d) ==
    IF now > h.p THEN [p |-> now, l |-> 0, d |-> d]
    ELSE IF h.l >= MaxLogical THEN Overflow
    ELSE [p |-> h.p, l |-> h.l + 1, d |-> d]

Larger(m, n) == IF m >= n THEN m ELSE n

\* A remote value that leads the wall clock by more than the allowed skew
\* counts as the end of the allowed window.
Clamped(remote, now) ==
    IF remote.p > now + MaxFutureSkew
    THEN [p |-> now + MaxFutureSkew, l |-> 0, d |-> remote.d]
    ELSE remote

\* Mutation: the merge keeps the local counter when physical times are equal.
ObserveKeepsCounter(last, remote, now, d) ==
    LET r == Clamped(remote, now)
        p == Larger(Larger(last.p, r.p), now)
        l == IF p = last.p THEN last.l ELSE IF p = r.p THEN r.l ELSE 0
    IN  [p |-> p, l |-> l, d |-> d]

\* Merging a remote value into the clock last of device d.
Observe(last, remote, now, d) ==
    LET r == Clamped(remote, now)
        p == Larger(Larger(last.p, r.p), now)
        l == IF p = last.p /\ p = r.p THEN Larger(last.l, r.l) + 1
             ELSE IF p = last.p THEN last.l + 1
             ELSE IF p = r.p THEN r.l + 1
             ELSE 0
    IN  IF l > MaxLogical THEN Overflow ELSE [p |-> p, l |-> l, d |-> d]

-----------------------------------------------------------------------------

\* A register: its value and the clock of the write that set it.
Register(v, c) == [val |-> v, at |-> c]

\* The conditional UPDATE of every register column: a write applies when the
\* register was never written or the new clock is later.
Write(reg, v, c) ==
    IF reg.at = Zero \/ Later(c, reg.at) THEN Register(v, c) ELSE reg
=============================================================================
