---------------------------- MODULE MCSyncEngine ----------------------------
(***************************************************************************)
(* Two devices; d2 may run two overlapping workers.  Device d1 creates a   *)
(* note (n) and changes its metadata (c); d2 changes its metadata (m) once *)
(* it holds the note.                                                      *)
(***************************************************************************)
EXTENDS SyncLog

CONSTANTS d1, d2, w1, w2, w3, n, m, c

MCHostOf == [w \in Worker |-> IF w = w1 THEN d1 ELSE d2]

MCAuthor == [o \in Op |-> IF o = m THEN d2 ELSE d1]

MCTarget == [o \in Op |-> n]
=============================================================================
