--------------------------- MODULE MCMemoryStore ---------------------------
(***************************************************************************)
(* Values and symmetry for MemoryStore.                                    *)
(***************************************************************************)
EXTENDS MemoryStore, TLC

CONSTANTS t1, t2, a, b

OneMonth == {0}
TwoMonths == 0..1
MemoryOps == {"store", "recall", "delete"}
Interchangeable == Permutations(Ids) \cup Permutations(Threads)
=============================================================================
