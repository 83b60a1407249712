---------------------------- MODULE MCWorkspace ----------------------------
(***************************************************************************)
(* Values and symmetry for Workspace.                                      *)
(***************************************************************************)
EXTENDS Workspace, TLC

CONSTANTS t1, t2, p1, p2, k1, k2, k3

Interchangeable == Permutations(Threads) \cup Permutations(Projects) \cup Permutations(Keys)
=============================================================================
