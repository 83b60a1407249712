---------------------------- MODULE MCRelations ----------------------------
(***************************************************************************)
(* Values and symmetry for Relations.                                      *)
(***************************************************************************)
EXTENDS Relations, TLC

CONSTANTS t1, t2, a, b, c, x, stored, other

Item(m, n) == [source |-> m, fact |-> [target |-> n, type |-> x]]

\* One relation, two of one memory, or two to one memory.
OneOrTwo ==
    {{Item(m, n), Item(k, l)} : <<m, n, k, l>> \in
        {w \in Ids \X Ids \X Ids \X Ids : w[1] # w[2] /\ w[3] # w[4] /\ (w[1] = w[3] \/ w[2] = w[4])}}

\* No key, or another anchor than the one stored.
NewAnchors == {{}, {[target |-> NoId, type |-> "owner", value |-> other]}}

Interchangeable == Permutations(Threads) \cup Permutations(Ids)
=============================================================================
