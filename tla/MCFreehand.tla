----------------------------- MODULE MCFreehand -----------------------------
(* The instance of FreehandPatch that TLC checks.                          *)
EXTENDS FreehandPatch, TLC

CONSTANTS r1, r2, p1

Symmetry == Permutations({r1, r2})
=============================================================================
