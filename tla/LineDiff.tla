----------------------------- MODULE LineDiff -----------------------------
(***************************************************************************)
(* diffLines of core/account/revisions.go: the table of longest common     *)
(* subsequences and the walk through it, a line at a time.  Indices of     *)
(* lines start at 1.                                                       *)
(***************************************************************************)
EXTENDS Naturals, Sequences, FiniteSets, FiniteSetsExt

CONSTANTS Line, MaxLines

VARIABLES a, b,   \* the lines of the two revisions
          i, j,   \* the lines reached
          result  \* the diff so far: [op, line]

vars == <<a, b, i, j, result>>

Init ==
    /\ a \in UNION {[1..n -> Line] : n \in 0..MaxLines}
    /\ b \in UNION {[1..n -> Line] : n \in 0..MaxLines}
    /\ i = 1 /\ j = 1 /\ result = <<>>

\* The table lcs, filled from the end.
Lcs(p, q) ==
    LET lcs[s \in 1..Len(a) + 1, t \in 1..Len(b) + 1] ==
          IF s > Len(a) \/ t > Len(b) THEN 0
          ELSE IF a[s] = b[t] THEN lcs[s + 1, t + 1] + 1
          ELSE Max({lcs[s + 1, t], lcs[s, t + 1]})
    IN  lcs[p, q]

Emit(op, line) == result' = Append(result, [op |-> op, line |-> line])

Both == i <= Len(a) /\ j <= Len(b)

Equal ==
    /\ Both /\ a[i] = b[j]
    /\ Emit("equal", a[i]) /\ i' = i + 1 /\ j' = j + 1 /\ UNCHANGED <<a, b>>

\* The comparison the other way round.
DeleteShorter ==
    /\ i <= Len(a)
    /\ Both => a[i] # b[j] /\ Lcs(i + 1, j) <= Lcs(i, j + 1)
    /\ Emit("delete", a[i]) /\ i' = i + 1 /\ UNCHANGED <<a, b, j>>

Delete ==
    /\ i <= Len(a)
    /\ Both => a[i] # b[j] /\ Lcs(i + 1, j) >= Lcs(i, j + 1)
    /\ Emit("delete", a[i]) /\ i' = i + 1 /\ UNCHANGED <<a, b, j>>

Insert ==
    /\ j <= Len(b)
    /\ Both => a[i] # b[j] /\ Lcs(i + 1, j) < Lcs(i, j + 1)
    /\ Emit("insert", b[j]) /\ j' = j + 1 /\ UNCHANGED <<a, b, i>>

Next == Equal \/ Delete \/ Insert

Spec == Init /\ [][Next]_vars

-----------------------------------------------------------------------------
Side(ops) ==
    LET kept == SelectSeq(result, LAMBDA r : r.op \in ops) IN [n \in DOMAIN kept |-> kept[n].line]

\* A common subsequence is a set of pairs of equal lines in the same order.
Common(pairs) ==
    /\ \A p \in pairs : a[p[1]] = b[p[2]]
    /\ \A p, q \in pairs : p = q \/ (p[1] < q[1] /\ p[2] < q[2]) \/ (q[1] < p[1] /\ q[2] < p[2])

\* diffLines returns a diff that turns the one revision into the other and
\* keeps as many lines as any diff could, although it decides line by line.
DiffMinimal ==
    i > Len(a) /\ j > Len(b) =>
        /\ Side({"equal", "delete"}) = a /\ Side({"equal", "insert"}) = b
        /\ \A pairs \in SUBSET ((1..Len(a)) \X (1..Len(b))) :
             Common(pairs) => Cardinality(pairs) <= Len(Side({"equal"}))

=============================================================================
