--------------------------- MODULE MCPointerOutbox ---------------------------
(***************************************************************************)
(* Small instances of PointerOutbox.                                       *)
(***************************************************************************)
EXTENDS PointerOutbox

CONSTANTS p1, p2, m1

TwoPublishers == {p1, p2}
OneMessage == {m1}
=============================================================================
