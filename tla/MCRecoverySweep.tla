--------------------------- MODULE MCRecoverySweep ---------------------------
(***************************************************************************)
(* A small instance of RecoverySweep.                                      *)
(***************************************************************************)
EXTENDS RecoverySweep

CONSTANTS a1, a2, a3

ThreeAdmissions == {a1, a2, a3}
=============================================================================
