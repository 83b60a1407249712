------------------------------ MODULE Concepts ------------------------------
(***************************************************************************)
(* concept_clusters: union-find with path halving over the edges of the    *)
(* multigraph between stored memories.  An action is one round of a loop.  *)
(***************************************************************************)
EXTENDS SemanticGraph

CONSTANT MinSize        \* min_size

VARIABLES
    parent,
    todo,       \* edges not looked at yet
    union,      \* the edge being united: the find in progress, and root of its source
    groups,     \* per memory grouped: its root
    at          \* where the find in progress is; 0 if there is none
conceptVars == <<parent, todo, union, groups, at>>

None == 0
NoUnion == [source |-> None, target |-> None, root |-> None]

ConceptInit ==
    /\ parent = [m \in Stored |-> m]
    /\ todo = Edges
    /\ union = NoUnion
    /\ groups = <<>>
    /\ at = None

NoClusters == parent = <<>> /\ todo = {} /\ union = NoUnion /\ groups = <<>> /\ at = None

\* The next edge; one that leads out of the points is passed over.
Take ==
    /\ at = None
    /\ \E e \in todo :
        /\ todo' = todo \ {e}
        /\ IF {e.source, e.target} \subseteq Stored
           THEN /\ union' = [source |-> e.source, target |-> e.target, root |-> None]
                /\ at' = e.source
           ELSE UNCHANGED <<union, at>>
    /\ UNCHANGED <<parent, groups>>

\* Faulty: find shortens the path and does not move along it.
HalveInPlace ==
    /\ at # None /\ parent[at] # at
    /\ parent' = [parent EXCEPT ![at] = parent[parent[at]]]
    /\ UNCHANGED <<todo, union, groups, at>>

\* One round of find.
Halve ==
    /\ at # None /\ parent[at] # at
    /\ parent' = [parent EXCEPT ![at] = parent[parent[at]]]
    /\ at' = parent[parent[at]]
    /\ UNCHANGED <<todo, union, groups>>

Found == at # None /\ parent[at] = at

\* find(a) has returned, find(b) starts.
FoundSource ==
    /\ Found /\ union # NoUnion /\ union.root = None
    /\ union' = [union EXCEPT !.root = at]
    /\ at' = union.target
    /\ UNCHANGED <<parent, todo, groups>>

\* Faulty: the source is moved, and not the set it is in.
LinkSource ==
    /\ Found /\ union # NoUnion /\ union.root # None
    /\ parent' = [parent EXCEPT ![union.source] = at]
    /\ union' = NoUnion
    /\ at' = None
    /\ UNCHANGED <<todo, groups>>

\* find(b) has returned: its root takes over the set of the other.
Link ==
    /\ Found /\ union # NoUnion /\ union.root # None
    /\ parent' = [parent EXCEPT ![union.root] = at]
    /\ union' = NoUnion
    /\ at' = None
    /\ UNCHANGED <<todo, groups>>

\* The second loop: every memory is put into the group of its root.
Group ==
    /\ todo = {} /\ union = NoUnion
    /\ \E m \in Stored \ DOMAIN groups :
        /\ \A n \in Stored : n < m => n \in DOMAIN groups
        /\ \/ at = None /\ at' = m /\ UNCHANGED groups
           \/ Found /\ groups' = [n \in DOMAIN groups \cup {m} |-> IF n = m THEN at ELSE groups[n]]
              /\ at' = None
    /\ UNCHANGED <<parent, todo, union>>

Clustered == DOMAIN groups = Stored

Clusters ==
    {C \in {{m \in Stored : groups[m] = root} : root \in Stored} : C # {} /\ Cardinality(C) >= MinSize}
=============================================================================
