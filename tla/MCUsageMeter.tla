--------------------------- MODULE MCUsageMeter ----------------------------
(***************************************************************************)
(* Values and symmetry for UsageMeter.                                     *)
(***************************************************************************)
EXTENDS UsageMeter, TLC

CONSTANTS c1, c2, c3

ThreeMonths == 0..2
Interchangeable == Permutations(Callers)
=============================================================================
