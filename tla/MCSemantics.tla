---------------------------- MODULE MCSemantics ----------------------------
(***************************************************************************)
(* A store of three memories and a fourth that is gone, or not scrolled.    *)
(***************************************************************************)
EXTENDS SemanticReads, TLC

Kind(target, type, directed, weight, live) ==
    [target |-> target, type |-> type, directed |-> directed, weight |-> weight, live |-> live]

\* None, one, or two types of relation to one memory.
SomeRelations ==
    {{}} \cup {{Kind(m, "causes", TRUE, Full, TRUE)} : m \in Ids}
    \cup {{Kind(m, "knows", FALSE, 1, TRUE)} : m \in Ids}
    \cup {{Kind(m, "knows", FALSE, 1, TRUE), Kind(m, "causes", TRUE, Full, TRUE)} : m \in {3}}
    \cup {{Kind(4, "causes", TRUE, Full, FALSE)}}

DeclaredAndNearby == {{"declared", "entity"}, {"temporal", "topical"}, {"topical"}}

\* From a memory, and from texts with two hits, one of them beyond the scroll.
SomeSeeds == {2 :> Full, (1 :> Full) @@ (3 :> 1), (2 :> 1) @@ (4 :> Full)}
=============================================================================
