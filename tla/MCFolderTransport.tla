------------------------- MODULE MCFolderTransport -------------------------
(***************************************************************************)
(* Two devices; the first has two operations to push, the second one.      *)
(***************************************************************************)
EXTENDS FolderTransport

CONSTANTS a, b, x, y, z

MCOutbox == [d \in Device |-> IF d = a THEN <<x, y>> ELSE <<z>>]
=============================================================================
