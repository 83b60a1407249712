--------------------------- MODULE SemanticProofs ---------------------------
(***************************************************************************)
(* Theorems about SemanticReads for any store, lenses, cosines, relations  *)
(* and any order in which edges and memories come.                         *)
(*                                                                         *)
(* Concepts.  A set of memories is closed under links if it holds, with a  *)
(* memory, its parent and all its children.  The closed sets say which     *)
(* memories union-find has put together (Joined), without a word of paths: *)
(* halving a path changes no closed set, and a link leaves those that      *)
(* hold both of its ends or none.  So every set closed under the edges of  *)
(* the graph is closed under links at all times, and in the end the        *)
(* converse holds too.  Two roots are never joined: the memories below one *)
(* of them are a closed set.                                               *)
(*                                                                         *)
(* Sessions.  In a closed set, the latest time within a span at which one  *)
(* of its memories was stored is no end of a gap.                          *)
(*                                                                         *)
(* Recall.  An edge ends at a point read or at a memory a relation names,  *)
(* so a walk leaves the concepts it began in, or a hit of its text that    *)
(* was not read, only by a relation to such a memory that is mutual.       *)
(*                                                                         *)
(* Energies.  A frontier leads the walks of as many arcs as hops were made *)
(* if it holds, for every memory they come to, the best that comes (Leads).*)
(* Then what it passes on over an arc is the best walk over that arc, as   *)
(* rounding keeps the order of energies, and a hop adds one more term to   *)
(* what a memory is due.  A walk by meaning makes its hop one query at a   *)
(* time: GivenBy is what of that term is due from the memories asked       *)
(* about, and grows by one arc with every query (Balanced).                *)
(***************************************************************************)
EXTENDS SemanticReads, SumTheorems

EdgeClosed(some, S) ==
    \A e \in some : {e.source, e.target} \subseteq Stored => (e.source \in S <=> e.target \in S)

LinkClosed(S) == \A m \in Stored : m \in S <=> parent[m] \in S

Joined(a, b) == \A S \in SUBSET Stored : LinkClosed(S) => (a \in S <=> b \in S)

\* Edges looked at, but for those between the two memories being united.
Settled ==
    {e \in Edges \ todo :
        ~(union # NoUnion /\ e.source = union.source /\ e.target = union.target)}

\* The memory being put into its group.
InTurn(m) ==
    /\ m \in Stored \ DOMAIN groups
    /\ \A n \in Stored : n < m => n \in DOMAIN groups

ForestInv ==
    /\ parent \in [Stored -> Stored] /\ at \in Stored \cup {None} /\ todo \subseteq Edges
    /\ \A S \in SUBSET Stored : EdgeClosed(Edges, S) => LinkClosed(S)
    /\ \A S \in SUBSET Stored : LinkClosed(S) => EdgeClosed(Settled, S)

UnionInv ==
    union # NoUnion =>
        /\ union.source \in Stored /\ union.target \in Stored /\ at \in Stored
        /\ union.root \in Stored \cup {None}
        /\ DOMAIN union = {"source", "target", "root"}
        /\ \E e \in Edges : e.source = union.source /\ e.target = union.target
        /\ union.root = None => Joined(union.source, at)
        /\ union.root # None => /\ Joined(union.source, union.root)
                                /\ parent[union.root] = union.root
                                /\ Joined(union.target, at)

GroupInv ==
    /\ DOMAIN groups \subseteq Stored
    /\ DOMAIN groups # {} \/ (at # None /\ union = NoUnion) => todo = {} /\ union = NoUnion
    /\ at # None /\ union = NoUnion => \E m : InTurn(m) /\ Joined(m, at)
    /\ \A m \in DOMAIN groups :
        groups[m] \in Stored /\ parent[groups[m]] = groups[m] /\ Joined(m, groups[m])

ConceptInv == ForestInv /\ UnionInv /\ GroupInv

(***************************************************************************)
(* Facts about closed sets                                                 *)
(***************************************************************************)
LEMMA JoinedIsEquivalence ==
    ASSUME NEW a, NEW b, NEW c
    PROVE  /\ Joined(a, a)
           /\ Joined(a, b) => Joined(b, a)
           /\ Joined(a, b) /\ Joined(b, c) => Joined(a, c)
BY DEF Joined

\* A parent is joined to its child.
LEMMA ParentJoined ==
    ASSUME parent \in [Stored -> Stored], NEW m \in Stored
    PROVE  Joined(m, parent[m])
BY DEF Joined, LinkClosed

\* Two roots that are joined are one: the least set that holds the first and, with a
\* memory, its children is closed, and the second is not in it.
LEMMA RootsApart ==
    ASSUME parent \in [Stored -> Stored], NEW r \in Stored, NEW q \in Stored,
           parent[r] = r, parent[q] = q, Joined(r, q)
    PROVE  r = q
<1> SUFFICES ASSUME r # q PROVE FALSE
  OBVIOUS
<1> DEFINE Holds(T) == r \in T /\ \A m \in Stored : parent[m] \in T => m \in T
           Below == {m \in Stored : \A T \in SUBSET Stored : Holds(T) => m \in T}
<1>1. Holds(Below)
  OBVIOUS
<1>2. Holds(Below \ {q})
  BY <1>1
<1>3. q \notin Below
  BY <1>2
<1>4. ASSUME NEW m \in Below, parent[m] \notin Below PROVE FALSE
  <2>1. m # r
    BY <1>1, <1>4
  <2>2. Holds(Below \ {m})
    BY <1>1, <1>4, <2>1
  <2> QED
    BY <2>2
<1>5. LinkClosed(Below)
  BY <1>1, <1>4 DEF LinkClosed
<1> QED
  BY <1>1, <1>3, <1>5 DEF Joined

(***************************************************************************)
(* Every round of concept_clusters keeps the invariant                     *)
(***************************************************************************)
\* The graph does not change under a request.
LEMMA SameGraph ==
    ASSUME UNCHANGED graphVars
    PROVE  Edges' = Edges /\ TemporalLens' = TemporalLens
BY DEF graphVars, Edges, LensEdges, TopicalLens, TemporalLens, EntityLens, DeclaredLens, Edge,
       Precedes, Nearness

LEMMA NoneIsNobody == None \notin Stored
BY IdsAssumption DEF None

LEMMA HalvingKeepsClosed ==
    ASSUME parent \in [Stored -> Stored], at \in Stored, Halve
    PROVE  /\ parent' \in [Stored -> Stored] /\ at' \in Stored
           /\ \A S \in SUBSET Stored : LinkClosed(S)' <=> LinkClosed(S)
           /\ \A m \in Stored : parent[m] = m => parent'[m] = m
           /\ Joined(at, at')
<1>1. /\ parent[at] # at /\ parent' = [parent EXCEPT ![at] = parent[parent[at]]]
      /\ at' = parent[parent[at]]
  BY DEF Halve
<1>2. \A S \in SUBSET Stored : LinkClosed(S)' <=> LinkClosed(S)
  BY <1>1 DEF LinkClosed
<1> QED
  BY <1>1, <1>2 DEF Joined, LinkClosed

\* What is joined depends on the closed sets only.
LEMMA SameJoined ==
    ASSUME \A S \in SUBSET Stored : LinkClosed(S)' <=> LinkClosed(S), NEW a, NEW b
    PROVE  Joined(a, b)' <=> Joined(a, b)
BY DEF Joined

LEMMA TakeStep == ConceptInv /\ UNCHANGED graphVars /\ Take => ConceptInv'
<1> SUFFICES ASSUME ConceptInv, UNCHANGED graphVars, Take PROVE ConceptInv'
  OBVIOUS
<1>1. PICK e \in todo :
          /\ todo' = todo \ {e}
          /\ IF {e.source, e.target} \subseteq Stored
             THEN /\ union' = [source |-> e.source, target |-> e.target, root |-> None]
                  /\ at' = e.source
             ELSE UNCHANGED <<union, at>>
  BY DEF Take
<1>2. at = None /\ UNCHANGED <<parent, groups>> /\ Edges' = Edges
  BY SameGraph DEF Take
<1>3. union = NoUnion /\ DOMAIN groups = {}
  BY <1>1, <1>2, NoneIsNobody DEF ConceptInv, UnionInv, GroupInv
<1>4. \A S \in SUBSET Stored : LinkClosed(S)' <=> LinkClosed(S)
  BY <1>2 DEF LinkClosed
<1>5. ASSUME NEW S \in SUBSET Stored, LinkClosed(S), NEW f \in Settled',
             {f.source, f.target} \subseteq Stored
      PROVE  f.source \in S <=> f.target \in S
  <2>1. EdgeClosed(Settled, S)
    BY <1>5 DEF ConceptInv, ForestInv
  <2>2. CASE f = e
    <3>1. union' # NoUnion /\ f.source = union'.source /\ f.target = union'.target
      BY <1>1, <1>5, <2>2, NoneIsNobody DEF NoUnion
    <3> QED
      BY <1>5, <3>1 DEF Settled
  <2>3. CASE f # e
    <3>1. f \in Settled
      BY <1>1, <1>2, <1>3, <1>5, <2>3 DEF Settled
    <3> QED
      BY <1>5, <2>1, <3>1 DEF EdgeClosed
  <2> QED
    BY <2>2, <2>3
<1>6. ForestInv'
  BY <1>1, <1>2, <1>4, <1>5 DEF ConceptInv, ForestInv, EdgeClosed
<1>7. UnionInv'
  <2>1. CASE {e.source, e.target} \subseteq Stored
    <3>1. e \in Edges'
      BY <1>1, <1>2 DEF ConceptInv, ForestInv
    <3> QED
      BY <1>1, <2>1, <3>1 DEF UnionInv, Joined
  <2>2. CASE ~({e.source, e.target} \subseteq Stored)
    BY <1>1, <1>3, <2>2 DEF UnionInv
  <2> QED
    BY <2>1, <2>2
<1>8. GroupInv'
  <2>1. at' # None => union' # NoUnion
    BY <1>1, <1>2, NoneIsNobody DEF NoUnion
  <2>2. DOMAIN groups' = {}
    BY <1>2, <1>3
  <2> QED
    BY <2>1, <2>2 DEF GroupInv
<1> QED
  BY <1>6, <1>7, <1>8 DEF ConceptInv

LEMMA HalveStep == ConceptInv /\ UNCHANGED graphVars /\ Halve => ConceptInv'
<1> SUFFICES ASSUME ConceptInv, UNCHANGED graphVars, Halve PROVE ConceptInv'
  OBVIOUS
<1>1. at # None /\ UNCHANGED <<todo, union, groups>> /\ Edges' = Edges
  BY SameGraph DEF Halve
<1>2. parent \in [Stored -> Stored] /\ at \in Stored
  BY <1>1 DEF ConceptInv, ForestInv
<1>3. /\ parent' \in [Stored -> Stored] /\ at' \in Stored
      /\ \A S \in SUBSET Stored : LinkClosed(S)' <=> LinkClosed(S)
      /\ \A m \in Stored : parent[m] = m => parent'[m] = m
      /\ Joined(at, at')
  BY <1>2, HalvingKeepsClosed
<1>4. Settled' = Settled
  BY <1>1 DEF Settled
<1>5. ForestInv'
  BY <1>1, <1>3, <1>4 DEF ConceptInv, ForestInv, EdgeClosed
<1>6. UnionInv'
  BY <1>1, <1>3 DEF ConceptInv, UnionInv, Joined
<1>7. GroupInv'
  <2>1. ASSUME union = NoUnion PROVE \E m : InTurn(m)' /\ Joined(m, at)'
    <3>1. PICK m : InTurn(m) /\ Joined(m, at)
      BY <1>1, <2>1 DEF ConceptInv, GroupInv
    <3>2. InTurn(m)'
      BY <1>1, <3>1 DEF InTurn
    <3>3. Joined(m, at)'
      BY <1>3, <3>1 DEF Joined
    <3> QED
      BY <3>2, <3>3
  <2>2. \A m \in DOMAIN groups' :
            groups'[m] \in Stored /\ parent'[groups'[m]] = groups'[m] /\ Joined(m, groups[m])'
    BY <1>1, <1>3 DEF ConceptInv, GroupInv, Joined
  <2> QED
    BY <1>1, <2>1, <2>2, NoneIsNobody, <1>3 DEF ConceptInv, GroupInv
<1> QED
  BY <1>5, <1>6, <1>7 DEF ConceptInv

LEMMA FoundSourceStep == ConceptInv /\ UNCHANGED graphVars /\ FoundSource => ConceptInv'
<1> SUFFICES ASSUME ConceptInv, UNCHANGED graphVars, FoundSource PROVE ConceptInv'
  OBVIOUS
<1>1. /\ at # None /\ parent[at] = at /\ union # NoUnion /\ union.root = None
      /\ union' = [union EXCEPT !.root = at] /\ at' = union.target
      /\ UNCHANGED <<parent, todo, groups>> /\ Edges' = Edges
  BY SameGraph DEF FoundSource, Found
<1>2. /\ union.source \in Stored /\ union.target \in Stored /\ at \in Stored
      /\ DOMAIN union = {"source", "target", "root"}
      /\ \E e \in Edges : e.source = union.source /\ e.target = union.target
      /\ Joined(union.source, at)
  BY <1>1 DEF ConceptInv, UnionInv
<1>3. union'.source = union.source /\ union'.target = union.target /\ union'.root = at
  BY <1>1, <1>2
<1>4. union' # NoUnion
  BY <1>2, <1>3, NoneIsNobody DEF NoUnion
<1>5. \A S \in SUBSET Stored : LinkClosed(S)' <=> LinkClosed(S)
  BY <1>1 DEF LinkClosed
<1>6. Settled' = Settled
  BY <1>1, <1>3, <1>4 DEF Settled
<1>7. ForestInv'
  BY <1>1, <1>2, <1>5, <1>6 DEF ConceptInv, ForestInv, EdgeClosed
<1>8. UnionInv'
  BY <1>1, <1>2, <1>3, <1>5, NoneIsNobody DEF UnionInv, Joined
<1>9. GroupInv'
  BY <1>1, <1>4, <1>5 DEF ConceptInv, GroupInv, Joined
<1> QED
  BY <1>7, <1>8, <1>9 DEF ConceptInv

\* A root put below another: closed are the sets that were, and hold both or none.
LEMMA LinkingJoins ==
    ASSUME parent \in [Stored -> Stored], NEW r \in Stored, NEW q \in Stored,
           parent[r] = r, parent' = [parent EXCEPT ![r] = q]
    PROVE  \A S \in SUBSET Stored : LinkClosed(S)' <=> LinkClosed(S) /\ (r \in S <=> q \in S)
BY DEF LinkClosed

LEMMA LinkStep == ConceptInv /\ UNCHANGED graphVars /\ Link => ConceptInv'
<1> SUFFICES ASSUME ConceptInv, UNCHANGED graphVars, Link PROVE ConceptInv'
  OBVIOUS
<1>1. /\ at # None /\ parent[at] = at /\ union # NoUnion /\ union.root # None
      /\ parent' = [parent EXCEPT ![union.root] = at] /\ union' = NoUnion /\ at' = None
      /\ UNCHANGED <<todo, groups>> /\ Edges' = Edges
  BY SameGraph DEF Link, Found
<1> DEFINE r == union.root
           q == at
<1>2. /\ union.source \in Stored /\ union.target \in Stored /\ q \in Stored /\ r \in Stored
      /\ \E e \in Edges : e.source = union.source /\ e.target = union.target
      /\ Joined(union.source, r) /\ parent[r] = r /\ Joined(union.target, q)
  BY <1>1 DEF ConceptInv, UnionInv
<1>3. parent \in [Stored -> Stored] /\ parent' \in [Stored -> Stored]
  BY <1>1, <1>2 DEF ConceptInv, ForestInv
<1>4. \A S \in SUBSET Stored : LinkClosed(S)' <=> LinkClosed(S) /\ (r \in S <=> q \in S)
  BY <1>1, <1>2, <1>3, LinkingJoins
<1>5. ASSUME NEW S \in SUBSET Stored, EdgeClosed(Edges, S) PROVE LinkClosed(S)'
  <2>1. LinkClosed(S)
    BY <1>5 DEF ConceptInv, ForestInv
  <2>2. union.source \in S <=> union.target \in S
    BY <1>2, <1>5 DEF EdgeClosed
  <2> QED
    BY <1>2, <1>4, <2>1, <2>2 DEF Joined
<1>6. ASSUME NEW S \in SUBSET Stored, LinkClosed(S)', NEW e \in Settled',
             {e.source, e.target} \subseteq Stored
      PROVE  e.source \in S <=> e.target \in S
  <2>1. LinkClosed(S) /\ (r \in S <=> q \in S)
    BY <1>4, <1>6
  <2>2. CASE e.source = union.source /\ e.target = union.target
    BY <1>2, <2>1, <2>2 DEF Joined
  <2>3. CASE ~(e.source = union.source /\ e.target = union.target)
    <3>1. e \in Settled
      BY <1>1, <1>6, <2>3 DEF Settled
    <3> QED
      BY <1>6, <2>1, <3>1 DEF ConceptInv, ForestInv, EdgeClosed
  <2> QED
    BY <2>2, <2>3
<1>7. ForestInv'
  <2>1. \A S \in SUBSET Stored : EdgeClosed(Edges, S)' => LinkClosed(S)'
    BY <1>1, <1>5 DEF EdgeClosed
  <2>2. \A S \in SUBSET Stored : LinkClosed(S)' => EdgeClosed(Settled, S)'
    BY <1>6 DEF EdgeClosed
  <2> QED
    BY <1>1, <1>3, <2>1, <2>2 DEF ConceptInv, ForestInv
<1>8. UnionInv'
  BY <1>1 DEF UnionInv
<1>9. GroupInv'
  <2>1. DOMAIN groups = {}
    BY <1>1 DEF ConceptInv, GroupInv
  <2> QED
    BY <1>1, <2>1 DEF GroupInv
<1> QED
  BY <1>7, <1>8, <1>9 DEF ConceptInv

LEMMA GroupStep == ConceptInv /\ UNCHANGED graphVars /\ Group => ConceptInv'
<1> SUFFICES ASSUME ConceptInv, UNCHANGED graphVars, Group PROVE ConceptInv'
  OBVIOUS
<1>1. /\ todo = {} /\ union = NoUnion /\ UNCHANGED <<parent, todo, union>> /\ Edges' = Edges
  BY SameGraph DEF Group
<1>2. PICK m \in Stored \ DOMAIN groups :
          /\ \A n \in Stored : n < m => n \in DOMAIN groups
          /\ \/ at = None /\ at' = m /\ UNCHANGED groups
             \/ /\ Found
                /\ groups' = [n \in DOMAIN groups \cup {m} |-> IF n = m THEN at ELSE groups[n]]
                /\ at' = None
  BY DEF Group
<1>3. InTurn(m)
  BY <1>2 DEF InTurn
<1>4. \A S \in SUBSET Stored : LinkClosed(S)' <=> LinkClosed(S)
  BY <1>1 DEF LinkClosed
<1>5. Settled' = Settled
  BY <1>1 DEF Settled
<1>6. ForestInv'
  BY <1>1, <1>2, <1>4, <1>5 DEF ConceptInv, ForestInv, EdgeClosed
<1>7. UnionInv'
  BY <1>1 DEF UnionInv
<1>8. GroupInv'
  <2>1. CASE at = None /\ at' = m /\ UNCHANGED groups
    <3>1. InTurn(m)' /\ Joined(m, at)'
      BY <1>3, <2>1 DEF InTurn, Joined
    <3> QED
      BY <1>1, <1>4, <2>1, <3>1 DEF ConceptInv, GroupInv, Joined
  <2>2. CASE /\ Found /\ at' = None
             /\ groups' = [n \in DOMAIN groups \cup {m} |-> IF n = m THEN at ELSE groups[n]]
    <3>1. PICK n : InTurn(n) /\ Joined(n, at)
      BY <1>1, <2>2 DEF ConceptInv, GroupInv, Found
    <3>2. n = m
      BY <1>3, <3>1, IdsAssumption DEF InTurn
    <3>3. at \in Stored /\ parent[at] = at
      BY <2>2 DEF ConceptInv, ForestInv, Found
    <3>4. \A k \in DOMAIN groups' :
              groups'[k] \in Stored /\ parent'[groups'[k]] = groups'[k] /\ Joined(k, groups'[k])
      BY <1>1, <2>2, <3>1, <3>2, <3>3 DEF ConceptInv, GroupInv
    <3>5. \A k \in DOMAIN groups' : Joined(k, groups[k])'
      BY <1>4, <3>4 DEF Joined
    <3> QED
      BY <1>1, <1>2, <2>2, <3>4, <3>5 DEF ConceptInv, GroupInv
  <2> QED
    BY <1>2, <2>1, <2>2
<1> QED
  BY <1>6, <1>7, <1>8 DEF ConceptInv

(***************************************************************************)
(* concept_clusters returns the components                                 *)
(***************************************************************************)
LEMMA ConceptsBegin == GraphInit /\ ConceptInit => ConceptInv
<1> SUFFICES ASSUME ConceptInit PROVE ConceptInv
  OBVIOUS
<1>1. \A S \in SUBSET Stored : LinkClosed(S)
  BY DEF ConceptInit, LinkClosed
<1>2. Settled = {}
  BY DEF ConceptInit, Settled
<1> QED
  BY <1>1, <1>2 DEF ConceptInit, ConceptInv, ForestInv, UnionInv, GroupInv, EdgeClosed

\* A request computes on the snapshot it took.
LEMMA SnapshotStands == Spec => []GraphInit
<1>1. Init => GraphInit
  BY DEF Init
<1>2. GraphInit /\ [Next]_vars => GraphInit'
  <2>1. [Next]_vars => UNCHANGED graphVars
    BY DEF Next, vars
  <2>2. GraphInit /\ UNCHANGED graphVars => GraphInit'
    BY DEF graphVars, GraphInit
  <2> QED
    BY <2>1, <2>2
<1> QED
  BY <1>1, <1>2, PTL DEF Spec

\* In every state of a clustering the sets closed under its edges are closed under its
\* links, and the other way round for the edges it has looked at (concept_clusters).
THEOREM LinksFollowEdges == Spec => [](asked = "concepts" => ConceptInv)
<1>1. Init => (asked = "concepts" => ConceptInv)
  BY ConceptsBegin DEF Init
<1>2. (asked = "concepts" => ConceptInv) /\ [Next]_vars => (asked = "concepts" => ConceptInv)'
  <2> SUFFICES ASSUME asked = "concepts" => ConceptInv, [Next]_vars, asked' = "concepts"
               PROVE  ConceptInv'
    OBVIOUS
  <2>1. CASE Next
    <3>1. UNCHANGED graphVars /\ ConceptInv
      BY <2>1 DEF Next
    <3>2. Take \/ Halve \/ FoundSource \/ Link \/ Group
      BY <2>1 DEF Next
    <3> QED
      BY <3>1, <3>2, TakeStep, HalveStep, FoundSourceStep, LinkStep, GroupStep
  <2>2. CASE UNCHANGED vars
    <3>1. Edges' = Edges /\ UNCHANGED <<parent, todo, union, groups, at, asked>>
      BY <2>2, SameGraph DEF vars, conceptVars
    <3> QED
      BY <3>1 DEF ConceptInv, ForestInv, UnionInv, GroupInv, EdgeClosed, LinkClosed, Joined,
                  Settled, InTurn
  <2> QED
    BY <2>1, <2>2
<1> QED
  BY <1>1, <1>2, PTL DEF Spec

\* With every edge looked at, joined is connected, and groups are what is joined.
LEMMA GroupsAreConcepts ==
    ASSUME ConceptInv, Clustered, NEW a \in Stored, NEW b \in Stored
    PROVE  Connected(Edges, a, b) <=> groups[a] = groups[b]
<1>1. todo = {} /\ union = NoUnion
  BY DEF ConceptInv, GroupInv, Clustered
<1>2. Settled = Edges
  BY <1>1 DEF Settled
<1>3. \A S \in SUBSET Stored : LinkClosed(S) <=> EdgeClosed(Edges, S)
  BY <1>2 DEF ConceptInv, ForestInv
<1>4. Connected(Edges, a, b) <=> Joined(a, b)
  BY <1>3 DEF Connected, Joined, EdgeClosed
<1>5. /\ groups[a] \in Stored /\ parent[groups[a]] = groups[a] /\ Joined(a, groups[a])
      /\ groups[b] \in Stored /\ parent[groups[b]] = groups[b] /\ Joined(b, groups[b])
  BY DEF ConceptInv, GroupInv, Clustered
<1>6. Joined(a, b) => Joined(groups[a], groups[b])
  BY <1>5 DEF Joined
<1>7. Joined(a, b) => groups[a] = groups[b]
  BY <1>5, <1>6, RootsApart DEF ConceptInv, ForestInv
<1>8. groups[a] = groups[b] => Joined(a, b)
  BY <1>5 DEF Joined
<1> QED
  BY <1>4, <1>7, <1>8

\* The concepts returned are the connected components, from min_size up, for every
\* graph and every order of its edges (concept_clusters).
THEOREM ConceptsAreTheComponents == Spec => []ConceptsAreComponents
<1>1. (asked = "concepts" => ConceptInv) => ConceptsAreComponents
  <2> SUFFICES ASSUME ConceptInv, Clustered
               PROVE  Clusters = {C \in {Concept(m) : m \in Stored} : Cardinality(C) >= MinSize}
    BY DEF ConceptsAreComponents
  <2>1. \A a \in Stored : Concept(a) = {m \in Stored : groups[m] = groups[a]}
    BY GroupsAreConcepts DEF Concept
  <2>2. \A a \in Stored : a \in Concept(a) /\ groups[a] \in Stored
    BY <2>1 DEF ConceptInv, GroupInv, Clustered
  <2>3. ASSUME NEW C \in Clusters
        PROVE  C \in {Concept(m) : m \in Stored} /\ Cardinality(C) >= MinSize
    <3>1. PICK root \in Stored : C = {m \in Stored : groups[m] = root}
      BY <2>3 DEF Clusters
    <3>2. PICK a \in C : TRUE
      BY <2>3 DEF Clusters
    <3>3. C = Concept(a)
      BY <2>1, <3>1, <3>2
    <3> QED
      BY <2>3, <3>1, <3>2, <3>3 DEF Clusters
  <2>4. ASSUME NEW a \in Stored, Cardinality(Concept(a)) >= MinSize
        PROVE  Concept(a) \in Clusters
    BY <2>1, <2>2, <2>4 DEF Clusters
  <2> QED
    BY <2>3, <2>4
<1> QED
  BY <1>1, LinksFollowEdges, PTL

(***************************************************************************)
(* Sessions                                                                *)
(***************************************************************************)
\* A set of numbers below a bound has a greatest member.
LEMMA BoundedHasLast ==
    ASSUME NEW n \in Nat, NEW K \in SUBSET (0..n), K # {}
    PROVE  \E k \in K : \A j \in K : j <= k
<1>1. K \in SUBSET Nat /\ \A k \in K : k <= n
  OBVIOUS
<1>2. IsFiniteSet(K) /\ K \in SUBSET Int
  BY <1>1, FS_BoundedSetOfNaturals
<1> QED
  BY <1>2, Greatest

\* Memories stored within the window of each other are linked.
LEMMA NearInTimeLinked ==
    ASSUME GraphInit, "temporal" \in lenses, NEW m \in Stored, NEW n \in Stored,
           stored_at[m] # NoTime, stored_at[n] # NoTime,
           stored_at[m] <= stored_at[n], stored_at[n] - stored_at[m] <= Window,
           NEW S \in SUBSET Stored, EdgeClosed(TemporalLens, S)
    PROVE  m \in S <=> n \in S
<1>1. stored_at[m] \in Nat /\ stored_at[n] \in Nat
  BY TimesAssumption DEF GraphInit
<1>2. ASSUME NEW p \in Stored, NEW q \in Stored, Precedes(p, q),
             stored_at[q] - stored_at[p] <= Window
      PROVE  p \in S <=> q \in S
  <2> DEFINE e == Edge(p, q, "temporal", "precedes", Nearness(stored_at[q] - stored_at[p]), TRUE)
  <2>1. e \in TemporalLens
    <3> DEFINE near == {r \in Stored \X Stored :
                          Precedes(r[1], r[2]) /\ stored_at[r[2]] - stored_at[r[1]] <= Window}
    <3>1. <<p, q>> \in near
      BY <1>2
    <3>2. \A r \in near :
              Edge(r[1], r[2], "temporal", "precedes", Nearness(stored_at[r[2]] - stored_at[r[1]]), TRUE)
                  \in TemporalLens
      BY DEF TemporalLens
    <3> QED
      BY <3>1, <3>2
  <2>2. e.source = p /\ e.target = q
    BY DEF Edge
  <2> QED
    BY <2>1, <2>2 DEF EdgeClosed
<1>3. m = n \/ Precedes(m, n) \/ (stored_at[m] = stored_at[n] /\ Precedes(n, m))
  BY <1>1, IdsAssumption DEF Precedes
<1> QED
  BY <1>1, <1>2, <1>3, TimesAssumption

\* A closed set that holds the first memory of an unbroken span holds the last: of the
\* times in the span at which one of its memories was stored, the latest is the end.
LEMMA SpanStaysInside ==
    ASSUME GraphInit, "temporal" \in lenses, NEW a \in Stored, NEW b \in Stored,
           stored_at[a] # NoTime, stored_at[b] # NoTime,
           stored_at[a] <= stored_at[b], Unbroken(a, b),
           NEW S \in SUBSET Stored, EdgeClosed(TemporalLens, S), a \in S
    PROVE  b \in S
<1>1. \A m \in Stored : stored_at[m] # NoTime => stored_at[m] \in Nat
  BY TimesAssumption DEF GraphInit
<1> DEFINE K == {t \in stored_at[a]..stored_at[b] :
                   \E m \in S : stored_at[m] # NoTime /\ stored_at[m] = t}
<1>2. K \in SUBSET (0..stored_at[b]) /\ stored_at[a] \in K
  BY <1>1
<1>3. PICK last \in K : \A t \in K : t <= last
  BY <1>1, <1>2, BoundedHasLast
<1>4. PICK m \in S : stored_at[m] # NoTime /\ stored_at[m] = last
  BY <1>3
<1>5. CASE last = stored_at[b]
  BY <1>1, <1>4, <1>5, NearInTimeLinked, TimesAssumption
<1>6. CASE last # stored_at[b]
  <2>1. last \in stored_at[a]..stored_at[b] - 1
    BY <1>1, <1>2, <1>3, <1>6
  <2>2. PICK c \in {stored_at[k] : k \in Stored} \ {NoTime},
             d \in {stored_at[k] : k \in Stored} \ {NoTime} :
               c <= last /\ last < d /\ d - c <= Window
    BY <2>1 DEF Unbroken
  <2>3. PICK k \in Stored : stored_at[k] = d
    BY <2>2
  <2>4. c \in Nat /\ d \in Nat /\ last \in Nat /\ stored_at[b] \in Nat
    BY <1>1, <1>4, <2>2
  <2>5. CASE d <= stored_at[b]
    <3>1. d - last <= Window /\ last <= d
      BY <2>2, <2>4, TimesAssumption
    <3>2. k \in S
      BY <1>4, <2>2, <2>3, <3>1, NearInTimeLinked
    <3>3. d \in K
      BY <1>1, <2>1, <2>2, <2>3, <2>4, <2>5, <3>2
    <3> QED
      BY <1>3, <2>2, <2>4, <3>3
  <2>6. CASE d > stored_at[b]
    <3>1. stored_at[b] - last <= Window /\ last <= stored_at[b]
      BY <1>1, <2>1, <2>2, <2>4, <2>6, TimesAssumption
    <3> QED
      BY <1>4, <3>1, NearInTimeLinked
  <2> QED
    BY <2>4, <2>5, <2>6
<1> QED
  BY <1>5, <1>6

LEMMA UnbrokenIsConnected ==
    ASSUME GraphInit, "temporal" \in lenses, NEW a \in Stored, NEW b \in Stored,
           stored_at[a] # NoTime, stored_at[b] # NoTime,
           stored_at[a] <= stored_at[b], Unbroken(a, b)
    PROVE  Connected(Edges, a, b)
<1> SUFFICES ASSUME NEW S \in SUBSET Stored, EdgeClosed(Edges, S)
             PROVE  a \in S <=> b \in S
  BY DEF Connected, EdgeClosed
<1>1. TemporalLens \subseteq Edges
  BY DEF Edges, LensEdges
<1>2. EdgeClosed(TemporalLens, S) /\ EdgeClosed(TemporalLens, Stored \ S)
  BY <1>1 DEF EdgeClosed
<1> QED
  BY <1>2, SpanStaysInside

\* Where nothing was stored for longer than the window, the memories up to there are
\* linked to none of those after it.
LEMMA ConnectedIsUnbroken ==
    ASSUME GraphInit, "temporal" \in lenses, NEW a \in Stored, NEW b \in Stored,
           stored_at[a] # NoTime, stored_at[b] # NoTime, Connected(TemporalLens, a, b)
    PROVE  Unbroken(a, b)
<1>1. \A m \in Stored : stored_at[m] # NoTime <=> stored_at[m] \in Nat
  BY TimesAssumption DEF GraphInit
<1> SUFFICES ASSUME NEW cut \in stored_at[a]..stored_at[b] - 1,
                    \A c, d \in {stored_at[m] : m \in Stored} \ {NoTime} :
                        ~(c <= cut /\ cut < d /\ d - c <= Window)
             PROVE  FALSE
  BY DEF Unbroken
<1> DEFINE S == {m \in Stored : stored_at[m] # NoTime /\ stored_at[m] <= cut}
<1>2. a \in S /\ b \notin S
  BY <1>1
<1>3. ASSUME NEW e \in TemporalLens PROVE e.source \in S <=> e.target \in S
  <2>1. PICK p \in Stored \X Stored :
            /\ Precedes(p[1], p[2]) /\ stored_at[p[2]] - stored_at[p[1]] <= Window
            /\ e = Edge(p[1], p[2], "temporal", "precedes", Nearness(stored_at[p[2]] - stored_at[p[1]]), TRUE)
    BY <1>3 DEF TemporalLens
  <2>2. e.source = p[1] /\ e.target = p[2] /\ p[1] \in Stored /\ p[2] \in Stored
    BY <2>1 DEF Edge
  <2>3. stored_at[p[1]] \in Nat /\ stored_at[p[2]] \in Nat /\ stored_at[p[1]] <= stored_at[p[2]]
    BY <2>1 DEF Precedes
  <2>4. ~(stored_at[p[1]] <= cut /\ cut < stored_at[p[2]])
    BY <1>1, <2>1, <2>2, <2>3
  <2> QED
    BY <1>1, <2>2, <2>3, <2>4
<1> QED
  BY <1>2, <1>3 DEF Connected

\* Sessions of any length are one concept each, and without other links no more than
\* that, for every window and all times of storing (temporal_lens, concept_clusters).
THEOREM SessionsAreConcepts == Spec => []SessionIsOneConcept
<1>1. (asked = "concepts" => ConceptInv) /\ GraphInit => SessionIsOneConcept
  <2> SUFFICES ASSUME ConceptInv, GraphInit, Clustered, "temporal" \in lenses,
                      NEW a \in Stored, NEW b \in Stored,
                      stored_at[a] # NoTime, stored_at[b] # NoTime
               PROVE  /\ stored_at[a] <= stored_at[b] /\ Unbroken(a, b) => groups[a] = groups[b]
                      /\ Edges = TemporalLens /\ groups[a] = groups[b] => Unbroken(a, b)
    BY DEF SessionIsOneConcept
  <2>1. Connected(Edges, a, b) <=> groups[a] = groups[b]
    BY GroupsAreConcepts
  <2> QED
    BY <2>1, UnbrokenIsConnected, ConnectedIsUnbroken
<1> QED
  BY <1>1, SnapshotStands, LinksFollowEdges, PTL

(***************************************************************************)
(* Recall                                                                  *)
(***************************************************************************)
\* Memories a recall may list, in what it began with.
Listed == Stored \cup {r.target : r \in Dangling} \cup DOMAIN start
Home == UNION {Concept(m) : m \in DOMAIN start}
OneWay == \A r \in Dangling : r.directed

Within(D) == D \subseteq Listed /\ (OneWay => D \cap Stored \subseteq Home)

RecallInv ==
    asked = "recall" =>
        /\ ByMeaning => DOMAIN start \subseteq Stored
        /\ Within(DOMAIN activation) /\ Within(DOMAIN frontier) /\ Within(DOMAIN reaching)
        /\ waiting \subseteq DOMAIN frontier
        /\ ~ByMeaning => waiting = {}

\* Where an edge may end.
LEMMA EdgeEnds ==
    ASSUME GraphInit, NEW e \in Edges
    PROVE  /\ e.source \in Stored
           /\ e.target \in Stored
              \/ \E r \in Dangling : e.target = r.target /\ e.directed = r.directed
<1>1. PICK lens \in lenses : e \in LensEdges(lens)
  BY DEF Edges
<1>2. lens \in {"topical", "temporal", "entity", "declared"}
  BY <1>1, RequestsAssumption DEF GraphInit
<1>3. CASE lens = "topical"
  BY <1>1, <1>3 DEF LensEdges, TopicalLens, Edge, Pairs
<1>4. CASE lens = "temporal"
  BY <1>1, <1>4 DEF LensEdges, TemporalLens, Edge
<1>5. CASE lens = "entity"
  BY <1>1, <1>5 DEF LensEdges, EntityLens, Edge, Pairs
<1>6. CASE lens = "declared"
  <2>1. PICK m \in Stored :
            \E r \in relations[m] :
                r.live /\ e = Edge(m, r.target, "declared", r.type, r.weight, r.directed)
    BY <1>1, <1>6 DEF LensEdges, DeclaredLens
  <2>2. PICK r \in relations[m] :
            r.live /\ e = Edge(m, r.target, "declared", r.type, r.weight, r.directed)
    BY <2>1
  <2>3. e.source = m /\ e.target = r.target /\ e.directed = r.directed
    BY <2>2 DEF Edge
  <2>4. r.target \notin Stored => r \in Dangling
    BY <2>2 DEF Dangling
  <2> QED
    BY <2>3, <2>4
<1> QED
  BY <1>2, <1>3, <1>4, <1>5, <1>6

LEMMA EdgeConnects ==
    ASSUME NEW e \in Edges, {e.source, e.target} \subseteq Stored
    PROVE  Connected(Edges, e.source, e.target) /\ Connected(Edges, e.target, e.source)
BY DEF Connected

\* What is connected to a memory at home is at home.
LEMMA HomeIsClosed ==
    ASSUME NEW a \in Home, NEW b \in Stored, Connected(Edges, a, b)
    PROVE  b \in Home
<1>1. PICK m \in DOMAIN start : Connected(Edges, m, a)
  BY DEF Home, Concept
<1>2. Connected(Edges, m, b)
  BY <1>1 DEF Connected
<1> QED
  BY <1>1, <1>2 DEF Home, Concept

\* A walk goes back over an edge only if both its ends are stored, or the relation to
\* the one that is gone is mutual.
LEMMA ArcStaysWithin ==
    ASSUME GraphInit, NEW D, Within(D), NEW arc \in Arcs, arc.from \in D
    PROVE  arc.to \in Listed /\ (OneWay /\ arc.to \in Stored => arc.to \in Home)
<1>1. PICK e \in Edges :
          \/ arc.from = e.source /\ arc.to = e.target
          \/ arc.from = e.target /\ arc.to = e.source /\ ~e.directed
  BY DEF Arcs
<1>2. /\ e.source \in Stored
      /\ e.target \in Stored
         \/ \E r \in Dangling : e.target = r.target /\ e.directed = r.directed
  BY EdgeEnds
<1>3. arc.to \in Listed
  BY <1>1, <1>2 DEF Listed
<1>4. ASSUME OneWay, arc.to \in Stored PROVE arc.to \in Home
  <2>1. e.target \in Stored
    BY <1>1, <1>2, <1>4 DEF OneWay, Dangling
  <2>2. arc.from \in Home
    BY <1>1, <1>2, <1>4, <2>1 DEF Within
  <2>3. Connected(Edges, arc.from, arc.to)
    BY <1>1, <1>2, <2>1, EdgeConnects
  <2> QED
    BY <1>4, <2>2, <2>3, HomeIsClosed
<1> QED
  BY <1>3, <1>4

LEMMA RecallBegins == Init => RecallInv
<1> SUFFICES ASSUME Init, asked = "recall"
             PROVE  /\ ByMeaning => DOMAIN start \subseteq Stored
                    /\ Within(DOMAIN activation) /\ Within(DOMAIN frontier) /\ Within(DOMAIN reaching)
                    /\ waiting \subseteq DOMAIN frontier
                    /\ ~ByMeaning => waiting = {}
  BY DEF RecallInv
<1>1. WalkInit /\ reaching = <<>> /\ waiting \in {{}, DOMAIN start} /\ (~ByMeaning => waiting = {})
  BY DEF Init, NotNearby, NearbyInit
<1>3. ByMeaning => DOMAIN start \subseteq Stored
  BY DEF Init, NearbyInit
<1>4. \A m \in Stored : m \in Concept(m)
  BY DEF Concept, Connected
<1>5. Within(DOMAIN start)
  BY <1>4 DEF Within, Listed, Home
<1>6. Within({})
  BY DEF Within
<1>7. DOMAIN reaching = {}
  BY <1>1
<1> QED
  BY <1>1, <1>3, <1>5, <1>6, <1>7 DEF WalkInit

\* What a hop reaches it reaches over an arc from the frontier.
LEMMA HopStaysWithin ==
    ASSUME GraphInit, Within(DOMAIN frontier)
    PROVE  Within(Reached)
<1>1. ASSUME NEW m \in Reached
      PROVE  m \in Listed /\ (OneWay /\ m \in Stored => m \in Home)
  <2>1. PICK arc \in Arcs : arc.from \in DOMAIN frontier /\ m = arc.to
    BY <1>1 DEF Reached, Conducting
  <2> QED
    BY <2>1, ArcStaysWithin
<1> QED
  BY <1>1 DEF Within

\* What a query finds is linked by meaning to the memory it asked about.
LEMMA AskStaysWithin ==
    ASSUME GraphInit, ByMeaning, DOMAIN start \subseteq Stored,
           NEW m \in DOMAIN frontier, Within(DOMAIN frontier),
           NEW H \in Neighbors(m)
    PROVE  Within(Hits(m, H))
<1>1. Dangling = {}
  BY DEF GraphInit, ByMeaning, Dangling
<1>2. Edges = TopicalLens
  BY DEF Edges, ByMeaning, LensEdges
<1>3. m \in Stored /\ m \in Home
  BY <1>1 DEF Within, Listed, OneWay
<1>4. H \subseteq Stored
  BY DEF Neighbors, Closest
<1>5. ASSUME NEW h \in Hits(m, H) PROVE h \in Home
  <2>1. h \in Stored /\ h # m /\ Closeness(m, h) > 0
    BY <1>4 DEF Hits
  <2>2. m \in Nat /\ h \in Nat
    BY <1>3, <2>1, IdsAssumption
  <2>3. PICK p \in Pairs : score[p] > 0 /\ (p = <<m, h>> \/ p = <<h, m>>)
    <3>1. CASE m < h
      <4>1. <<m, h>> \in Pairs
        BY <1>3, <2>1, <3>1 DEF Pairs
      <4> QED
        BY <2>1, <3>1, <4>1 DEF Closeness
    <3>2. CASE h < m
      <4>1. <<h, m>> \in Pairs
        BY <1>3, <2>1, <3>2 DEF Pairs
      <4>2. ~(m < h)
        BY <2>2, <3>2
      <4> QED
        BY <2>1, <4>1, <4>2 DEF Closeness
    <3>3. m < h \/ h < m
      BY <2>1, <2>2
    <3> QED
      BY <3>1, <3>2, <3>3
  <2>4. PICK e \in Edges : e.source = p[1] /\ e.target = p[2]
    <3>1. Edge(p[1], p[2], "topical", "topical", score[p], FALSE) \in Edges
      BY <1>2, <2>3 DEF TopicalLens
    <3> QED
      BY <3>1 DEF Edge
  <2>5. Connected(Edges, m, h)
    BY <1>3, <2>1, <2>3, <2>4, EdgeConnects
  <2> QED
    BY <1>3, <2>1, <2>5, HomeIsClosed
<1>6. Hits(m, H) \subseteq Stored
  BY <1>4 DEF Hits
<1> QED
  BY <1>5, <1>6 DEF Within, Listed

\* Where a walk may go is settled when it begins.
LEMMA SameWithin ==
    ASSUME UNCHANGED <<graphVars, start>>
    PROVE  \A D : Within(D)' <=> Within(D)
BY SameGraph DEF Within, Listed, Home, OneWay, Dangling, Concept, Connected, graphVars

LEMMA HopStep ==
    ASSUME GraphInit, RecallInv, asked = "recall", ~ByMeaning,
           UNCHANGED <<graphVars, asked, nearbyVars>>, Hop
    PROVE  RecallInv'
<1>1. Within(Reached) /\ Within(DOMAIN activation \cup Reached)
  BY HopStaysWithin DEF RecallInv, Within
<1>2. /\ DOMAIN frontier' = Reached /\ DOMAIN activation' = DOMAIN activation \cup Reached
      /\ UNCHANGED <<start, reaching, waiting>>
  BY DEF Hop, nearbyVars
<1>3. \A D : Within(D)' <=> Within(D)
  BY <1>2, SameWithin
<1>4. (ByMeaning' <=> ByMeaning) /\ asked' = asked
  BY DEF ByMeaning, graphVars
<1>5. Within(DOMAIN reaching)
  BY DEF RecallInv
<1>6. Within(DOMAIN frontier)' /\ Within(DOMAIN activation)' /\ Within(DOMAIN reaching)'
  BY <1>1, <1>2, <1>3, <1>5
<1>7. waiting' = {}
  BY <1>2 DEF RecallInv
<1> QED
  BY <1>4, <1>6, <1>7 DEF RecallInv

LEMMA AskStep ==
    ASSUME GraphInit, RecallInv, asked = "recall", ByMeaning,
           UNCHANGED <<graphVars, asked>>, NEW m \in Stored, Ask(m)
    PROVE  RecallInv'
<1>1. m \in waiting /\ UNCHANGED start /\ m \in DOMAIN frontier
  BY DEF Ask, RecallInv
<1>2. PICK H \in Neighbors(m) :
          /\ DOMAIN activation' = DOMAIN activation \cup Hits(m, H)
          /\ \/ /\ waiting' = waiting \ {m}
                /\ DOMAIN reaching' = DOMAIN reaching \cup Hits(m, H)
                /\ UNCHANGED frontier
             \/ /\ waiting' \in {{}, DOMAIN reaching \cup Hits(m, H)}
                /\ reaching' = <<>>
                /\ DOMAIN frontier' = DOMAIN reaching \cup Hits(m, H)
  BY DEF Ask
<1>3. Within(Hits(m, H))
  BY <1>1, AskStaysWithin DEF RecallInv
<1>4. /\ Within(DOMAIN activation \cup Hits(m, H)) /\ Within(DOMAIN reaching \cup Hits(m, H))
      /\ Within(DOMAIN frontier) /\ Within({})
  BY <1>3 DEF RecallInv, Within
<1>5. \A D : Within(D)' <=> Within(D)
  BY <1>1, SameWithin
<1>6. Within(DOMAIN activation)' /\ Within(DOMAIN frontier)' /\ Within(DOMAIN reaching)'
  <2>1. /\ Within(DOMAIN activation') /\ Within(DOMAIN frontier')
        /\ Within(DOMAIN reaching')
    BY <1>2, <1>4
  <2> QED
    BY <1>5, <2>1 DEF Within
<1>7. waiting' \subseteq DOMAIN frontier' /\ DOMAIN start' \subseteq Stored
  BY <1>1, <1>2 DEF RecallInv
<1>8. ByMeaning'
  BY DEF ByMeaning, graphVars
<1> QED
  BY <1>6, <1>7, <1>8 DEF RecallInv

\* A recall lists memories of the concepts it began in, hits of its text and targets of
\* relations that were not read, and goes further only by a mutual one to such a
\* memory, for every graph, number of hops and fanout, wherever its text hits, and
\* whatever is deleted under way
\* (spreading_activation, _activate_ann).
THEOREM RecallStaysInside == Spec => []RecallStaysInConcept
<1>1. Init => RecallInv
  BY RecallBegins
<1>2. GraphInit /\ RecallInv /\ [Next]_vars => RecallInv'
  <2> SUFFICES ASSUME GraphInit, RecallInv, [Next]_vars, asked' = "recall" PROVE RecallInv'
    BY DEF RecallInv
  <2>1. CASE Next
    <3>1. UNCHANGED <<graphVars, asked>> /\ asked = "recall" /\ Recall
      BY <2>1 DEF Next
    <3>2. CASE ByMeaning
      <4>1. PICK m \in Stored : Ask(m) \/ Refuse(m) \/ Vanish(m)
        BY <3>1, <3>2 DEF Recall
      <4>2. CASE Ask(m)
        BY <3>1, <3>2, <4>2, AskStep
      <4>3. CASE Refuse(m) \/ Vanish(m)
        <5>1. UNCHANGED <<walkVars, reaching>> /\ waiting' \in {waiting, {}}
          BY <4>3 DEF Refuse, Vanish
        <5>2. \A D : Within(D)' <=> Within(D)
          BY <3>1, <5>1, SameWithin DEF walkVars
        <5> QED
          BY <3>1, <5>1, <5>2 DEF RecallInv, walkVars, Within, ByMeaning, graphVars
      <4> QED
        BY <4>1, <4>2, <4>3
    <3>3. CASE ~ByMeaning
      BY <3>1, <3>3, HopStep DEF Recall
    <3> QED
      BY <3>2, <3>3
  <2>2. CASE UNCHANGED vars
    <3>1. \A D : Within(D)' <=> Within(D)
      BY <2>2, SameWithin DEF vars, walkVars
    <3> QED
      BY <2>2, <3>1 DEF vars, walkVars, nearbyVars, graphVars, RecallInv, Within, ByMeaning
  <2> QED
    BY <2>1, <2>2
<1>3. RecallInv => RecallStaysInConcept
  BY DEF RecallInv, RecallStaysInConcept, Within, Listed, Home, OneWay
<1> QED
  BY <1>1, <1>2, <1>3, SnapshotStands, PTL DEF Spec

(***************************************************************************)
(* The arcs of a walk                                                      *)
(***************************************************************************)
EdgeTypes ==
    {"topical", "temporal", "entity", "declared"}
        \X ({"topical", "precedes"} \cup Entities \cup Types)
EdgeRange ==
    [source : Ids, target : Ids, type : EdgeTypes, weight : 0..Full, directed : BOOLEAN]

\* A quotient by the window.
LEMMA NearnessInRange ==
    ASSUME NEW gap \in 0..Window
    PROVE  Nearness(gap) \in 0..Full
<1>1. Window \in Nat /\ Window > 0
  BY TimesAssumption
<1>2. PICK x \in Nat : x = Full * (Window - gap) /\ x <= 2 * Window
  BY <1>1 DEF Full
<1>3. x \div Window >= 0 /\ x \div Window <= 2 /\ x \div Window \in Int
  BY <1>1, <1>2
<1> QED
  BY <1>2, <1>3 DEF Nearness, Full

LEMMA EdgesInRange == ASSUME GraphInit PROVE Edges \subseteq EdgeRange
<1> SUFFICES ASSUME NEW e \in Edges PROVE e \in EdgeRange
  OBVIOUS
<1>1. PICK lens \in lenses : e \in LensEdges(lens)
  BY DEF Edges
<1>2. lens \in {"topical", "temporal", "entity", "declared"}
  BY <1>1, RequestsAssumption DEF GraphInit
<1>3. CASE lens = "topical"
  <2>1. PICK p \in Pairs : e = Edge(p[1], p[2], "topical", "topical", score[p], FALSE)
    BY <1>1, <1>3 DEF LensEdges, TopicalLens
  <2>2. score[p] \in 0..Full
    BY <1>1, <1>3, ScoresAssumption DEF GraphInit
  <2>3. p[1] \in Ids /\ p[2] \in Ids
    BY IdsAssumption DEF Pairs
  <2> QED
    BY <2>1, <2>2, <2>3 DEF Edge, EdgeRange, EdgeTypes
<1>4. CASE lens = "temporal"
  <2>1. PICK p \in Stored \X Stored :
            /\ Precedes(p[1], p[2]) /\ stored_at[p[2]] - stored_at[p[1]] <= Window
            /\ e = Edge(p[1], p[2], "temporal", "precedes", Nearness(stored_at[p[2]] - stored_at[p[1]]), TRUE)
    BY <1>1, <1>4 DEF LensEdges, TemporalLens
  <2>2. stored_at[p[2]] - stored_at[p[1]] \in 0..Window
    BY <2>1, TimesAssumption DEF Precedes
  <2>3. p[1] \in Ids /\ p[2] \in Ids
    BY IdsAssumption
  <2> QED
    BY <2>1, <2>2, <2>3, NearnessInRange DEF Edge, EdgeRange, EdgeTypes
<1>5. CASE lens = "entity"
  <2>1. PICK entity \in Entities, p \in Pairs : e = Edge(p[1], p[2], "entity", entity, Full, FALSE)
    BY <1>1, <1>5 DEF LensEdges, EntityLens
  <2>2. p[1] \in Ids /\ p[2] \in Ids
    BY IdsAssumption DEF Pairs
  <2> QED
    BY <2>1, <2>2 DEF Edge, EdgeRange, EdgeTypes, Full
<1>6. CASE lens = "declared"
  <2>1. PICK m \in Stored :
            \E r \in relations[m] : e = Edge(m, r.target, "declared", r.type, r.weight, r.directed)
    BY <1>1, <1>6 DEF LensEdges, DeclaredLens
  <2>r. PICK r \in relations[m] : e = Edge(m, r.target, "declared", r.type, r.weight, r.directed)
    BY <2>1
  <2>2. r \in UNION Declared
    BY <1>1, <1>6, <2>r DEF GraphInit
  <2>3. m \in Ids
    BY IdsAssumption
  <2> QED
    BY <2>r, <2>2, <2>3, DeclaredAssumption DEF Edge, EdgeRange, EdgeTypes, Full
<1> QED
  BY <1>2, <1>3, <1>4, <1>5, <1>6

LEMMA ArcTypes ==
    ASSUME GraphInit, NEW arc \in Arcs
    PROVE  /\ arc.from \in Ids /\ arc.to \in Ids /\ arc.edge \in Edges
           /\ arc.edge.weight \in 0..2
           /\ arc = [from |-> arc.from, to |-> arc.to, edge |-> arc.edge]
BY EdgesInRange DEF Arcs, EdgeRange, Full

\* Two and four things are finitely many.
LEMMA FS_Some ==
    ASSUME NEW a, NEW b, NEW c, NEW d
    PROVE  IsFiniteSet({a, b}) /\ IsFiniteSet({a, b, c, d})
<1>1. IsFiniteSet({} \cup {a})
  BY FS_AddElement, FS_EmptySet
<1>2. IsFiniteSet(({} \cup {a}) \cup {b})
  BY <1>1, FS_AddElement
<1>3. IsFiniteSet((({} \cup {a}) \cup {b}) \cup {c})
  BY <1>2, FS_AddElement
<1>4. IsFiniteSet(((({} \cup {a}) \cup {b}) \cup {c}) \cup {d})
  BY <1>3, FS_AddElement
<1>5. /\ ({} \cup {a}) \cup {b} = {a, b}
      /\ ((({} \cup {a}) \cup {b}) \cup {c}) \cup {d} = {a, b, c, d}
  OBVIOUS
<1> QED
  BY <1>2, <1>4, <1>5, Zenon

\* Every arc is made of two ids and an edge, every edge of five finite things.
LEMMA FiniteArcs == GraphInit => IsFiniteSet(Arcs)
<1> SUFFICES ASSUME GraphInit PROVE IsFiniteSet(Arcs)
  OBVIOUS
<1> DEFINE Parts == (((Ids \X Ids) \X EdgeTypes) \X (0..Full)) \X BOOLEAN
           made == [x \in Parts |-> [source |-> x[1][1][1][1], target |-> x[1][1][1][2],
                                     type |-> x[1][1][2], weight |-> x[1][2], directed |-> x[2]]]
           Ends == (Ids \X Ids) \X Edges
           laid == [x \in Ends |-> [from |-> x[1][1], to |-> x[1][2], edge |-> x[2]]]
<1>1. IsFiniteSet(Parts)
  <2>1. IsFiniteSet(EdgeTypes) /\ IsFiniteSet(0..Full) /\ IsFiniteSet(BOOLEAN)
    <3>1. /\ IsFiniteSet({"topical", "temporal", "entity", "declared"})
          /\ IsFiniteSet({"topical", "precedes"})
      BY FS_Some
    <3>2. IsFiniteSet(EdgeTypes)
      <4>1. IsFiniteSet({"topical", "precedes"} \cup Entities)
        BY <3>1, FS_Union, EntitiesAssumption
      <4>2. IsFiniteSet(({"topical", "precedes"} \cup Entities) \cup Types)
        BY <4>1, FS_Union, DeclaredAssumption
      <4> QED
        BY <3>1, <4>2, FS_Product, Zenon DEF EdgeTypes
    <3>3. IsFiniteSet(0..Full)
      <4>1. \A k \in 0..Full : k <= 2
        BY DEF Full
      <4>2. 0..Full \in SUBSET Nat
        BY DEF Full
      <4> HIDE DEF Full
      <4> QED
        BY <4>1, <4>2, FS_BoundedSetOfNaturals
    <3>4. IsFiniteSet(BOOLEAN)
      <4>1. IsFiniteSet({} \cup {TRUE})
        BY FS_AddElement, FS_EmptySet
      <4>2. IsFiniteSet(({} \cup {TRUE}) \cup {FALSE})
        BY <4>1, FS_AddElement
      <4>3. ({} \cup {TRUE}) \cup {FALSE} = BOOLEAN
        OBVIOUS
      <4> QED
        BY <4>2, <4>3, Zenon
    <3> QED
      BY <3>2, <3>3, <3>4
  <2>2. IsFiniteSet(Ids \X Ids)
    BY IdsAssumption, FS_Product
  <2>3. IsFiniteSet((Ids \X Ids) \X EdgeTypes)
    BY <2>1, <2>2, FS_Product
  <2>4. IsFiniteSet(((Ids \X Ids) \X EdgeTypes) \X (0..Full))
    BY <2>1, <2>3, FS_Product
  <2> QED
    BY <2>1, <2>4, FS_Product
<1>2. IsFiniteSet(EdgeRange)
  <2>1. made \in [Parts -> EdgeRange]
    BY DEF EdgeRange
  <2>2. ASSUME NEW e \in EdgeRange PROVE \E x \in Parts : made[x] = e
    <3>1. <<<<<<<<e.source, e.target>>, e.type>>, e.weight>>, e.directed>> \in Parts
      BY DEF EdgeRange
    <3>2. made[<<<<<<<<e.source, e.target>>, e.type>>, e.weight>>, e.directed>>] = e
      BY <3>1 DEF EdgeRange
    <3> QED
      BY <3>1, <3>2
  <2>3. made \in Surjection(Parts, EdgeRange)
    BY <2>1, <2>2 DEF Surjection
  <2> HIDE DEF made, Parts
  <2> QED
    BY <1>1, <2>3, FS_Surjection
<1>3. IsFiniteSet(Edges)
  BY <1>2, EdgesInRange, FS_Subset
<1>4. IsFiniteSet(Ends)
  <2>1. IsFiniteSet(Ids \X Ids)
    BY IdsAssumption, FS_Product
  <2> QED
    BY <1>3, <2>1, FS_Product
<1> DEFINE Laid == {laid[x] : x \in Ends}
<1>5. IsFiniteSet(Laid)
  <2>1. laid \in Surjection(Ends, Laid)
    BY DEF Surjection
  <2> HIDE DEF laid, Ends, Laid
  <2> QED
    BY <1>4, <2>1, FS_Surjection
<1>6. Arcs \subseteq Laid
  <2> SUFFICES ASSUME NEW arc \in Arcs PROVE arc \in Laid
    OBVIOUS
  <2>1. <<<<arc.from, arc.to>>, arc.edge>> \in Ends
    BY ArcTypes
  <2>2. laid[<<<<arc.from, arc.to>>, arc.edge>>] = arc
    BY <2>1, ArcTypes
  <2> QED
    BY <2>1, <2>2
<1> QED
  BY <1>5, <1>6, FS_Subset

(***************************************************************************)
(* Energy along a walk                                                     *)
(***************************************************************************)
\* What of an energy comes through an arc.
Through(e, arc) == (e * arc.edge.weight) \div 4

Weighted == \A arc \in Arcs : arc.edge.weight \in 0..2
Started(B) == B \in Nat /\ \A m \in DOMAIN start : start[m] \in 0..B

LEMMA ThroughGrows ==
    ASSUME NEW B \in Nat, NEW x \in 0..B, NEW y \in 0..B, x <= y, NEW arc, arc.edge.weight \in 0..2
    PROVE  Through(x, arc) <= Through(y, arc) /\ Through(x, arc) \in 0..B
<1> DEFINE k == arc.edge.weight
<1>1. k = 0 \/ k = 1 \/ k = 2
  OBVIOUS
<1>2. Through(x, arc) = (x * k) \div 4 /\ Through(y, arc) = (y * k) \div 4
  BY DEF Through
<1> HIDE DEF k
<1>3. CASE k = 0
  <2>1. x * k = 0 /\ y * k = 0
    BY <1>3
  <2> QED
    BY <1>2, <2>1
<1>4. CASE k = 1
  <2>1. x * k = x /\ y * k = y
    BY <1>4
  <2> QED
    BY <1>2, <2>1
<1>5. CASE k = 2
  <2>1. x * k = x + x /\ y * k = y + y
    BY <1>5
  <2> QED
    BY <1>2, <2>1
<1> QED
  BY <1>1, <1>3, <1>4, <1>5

LEMMA ThroughBounded ==
    ASSUME NEW B \in Nat, NEW x \in 0..B, NEW arc, arc.edge.weight \in 0..2
    PROVE  Through(x, arc) \in 0..B
BY ThroughGrows

\* The energies after 0 to n arcs of the walk.
Along(a, w, n) ==
    /\ a \in [0..n -> Nat]
    /\ a[0] = start[w[1].from]
    /\ \A i \in 1..n : a[i] = Through(a[i - 1], w[i])

LEMMA AlongExists ==
    ASSUME Weighted, NEW B, Started(B), NEW n \in Nat, NEW w \in [1..n -> Arcs],
           w[1].from \in DOMAIN start
    PROVE  \E a : Along(a, w, n) /\ a[n] <= B
<1> DEFINE Bad == {j \in 0..n : ~ \E a : Along(a, w, j) /\ a[j] <= B}
<1>0. SUFFICES ASSUME Bad # {} PROVE FALSE
  <2>1. n \in 0..n
    OBVIOUS
  <2> QED
    BY <2>1
<1>1. PICK j \in Bad : \A i \in Bad : j <= i
  <2>1. Bad \in SUBSET Nat
    OBVIOUS
  <2> HIDE DEF Bad
  <2> QED
    BY <1>0, <2>1, Least
<1>2. B \in Nat /\ start[w[1].from] \in 0..B
  BY DEF Started
<1>3. CASE j = 0
  <2>1. Along([i \in 0..0 |-> start[w[1].from]], w, 0)
    BY <1>2 DEF Along
  <2> QED
    BY <1>1, <1>2, <1>3, <2>1
<1>4. CASE j # 0
  <2>1. PICK a : Along(a, w, j - 1) /\ a[j - 1] <= B
    <3>1. j - 1 \in 0..n /\ ~(j <= j - 1)
      BY <1>1, <1>4
    <3>2. j - 1 \notin Bad
      BY <1>1, <3>1
    <3> QED
      BY <3>1, <3>2
  <2> DEFINE b == [i \in 0..j |-> IF i = j THEN Through(a[j - 1], w[j]) ELSE a[i]]
  <2>2. a[j - 1] \in 0..B /\ w[j] \in Arcs
    BY <1>1, <1>4, <2>1 DEF Along
  <2>3. Through(a[j - 1], w[j]) \in 0..B
    BY <1>2, <2>2, ThroughBounded DEF Weighted
  <2>4. Along(b, w, j)
    <3>1. b \in [0..j -> Nat]
      BY <1>1, <1>4, <2>1, <2>3 DEF Along
    <3>2. b[0] = start[w[1].from]
      BY <1>1, <1>4, <2>1 DEF Along
    <3>3. ASSUME NEW i \in 1..j PROVE b[i] = Through(b[i - 1], w[i])
      <4>1. b[i - 1] = a[i - 1]
        BY <1>1, <1>4
      <4>2. CASE i = j
        BY <1>1, <4>1, <4>2
      <4>3. CASE i # j
        <5>1. i \in 1..(j - 1) /\ b[i] = a[i]
          BY <1>1, <4>3
        <5> QED
          BY <2>1, <4>1, <5>1 DEF Along
      <4> QED
        BY <4>2, <4>3
    <3> QED
      BY <3>1, <3>2, <3>3 DEF Along
  <2>5. b[j] <= B
    BY <1>2, <2>3
  <2> QED
    BY <1>1, <2>4, <2>5
<1> QED
  BY <1>1, <1>3, <1>4

\* There is one such function, and Arriving is its last value.
LEMMA ArrivingUnfolds ==
    ASSUME NEW n \in Nat, NEW w, NEW a, Along(a, w, n)
    PROVE  Arriving(w, n) = a[n]
<1> DEFINE Rule(f) ==
        f = [i \in 0..n |-> IF i = 0 THEN start[w[1].from] ELSE (f[i - 1] * w[i].edge.weight) \div 4]
           h == CHOOSE f : Rule(f)
<1>1. Rule(a)
  BY DEF Along, Through
<1>2. Rule(h)
  BY <1>1
<1>3. Arriving(w, n) = h[n]
  BY DEF Arriving
<1>4. h[0] = start[w[1].from] /\ \A i \in 1..n : h[i] = Through(h[i - 1], w[i])
  <2>1. \A i \in 0..n :
            h[i] = IF i = 0 THEN start[w[1].from] ELSE (h[i - 1] * w[i].edge.weight) \div 4
    <3> HIDE DEF h
    <3> QED
      BY <1>2
  <2> HIDE DEF h
  <2> QED
    BY <2>1 DEF Through
<1> HIDE DEF h
<1> DEFINE Bad == {i \in 0..n : h[i] # a[i]}
<1>5. Bad = {}
  <2> SUFFICES ASSUME Bad # {} PROVE FALSE
    OBVIOUS
  <2>1. Bad \in SUBSET Nat
    OBVIOUS
  <2>2. PICK i \in Bad : \A j \in Bad : i <= j
    <3> HIDE DEF Bad
    <3> QED
      BY <2>1, Least
  <2>3. i # 0
    BY <1>4 DEF Along
  <2>4. i - 1 \in 0..n /\ h[i - 1] = a[i - 1]
    BY <2>2, <2>3
  <2>5. i \in 1..n
    BY <2>3
  <2> QED
    BY <1>4, <2>4, <2>5 DEF Along
<1> QED
  BY <1>3, <1>5

LEMMA ArrivingBounded ==
    ASSUME Weighted, NEW B, Started(B), NEW n \in Nat \ {0}, NEW w \in Trails(n)
    PROVE  Arriving(w, n) \in 0..B
<1>1. w \in [1..n -> Arcs] /\ w[1].from \in DOMAIN start
  BY DEF Trails
<1>2. PICK a : Along(a, w, n) /\ a[n] <= B
  BY <1>1, AlongExists
<1>3. Arriving(w, n) = a[n]
  BY <1>2, ArrivingUnfolds
<1> QED
  BY <1>2, <1>3 DEF Along, Started

\* The first arc passes on what the walk began with.
LEMMA FirstArc ==
    ASSUME Weighted, NEW B, Started(B), NEW w \in Trails(1)
    PROVE  /\ w[1] \in Arcs /\ w[1].from \in DOMAIN start
           /\ Arriving(w, 1) = Through(start[w[1].from], w[1])
<1>1. w \in [1..1 -> Arcs] /\ w[1].from \in DOMAIN start
  BY DEF Trails
<1>2. PICK a : Along(a, w, 1)
  BY <1>1, AlongExists
<1>3. Arriving(w, 1) = a[1]
  BY <1>2, ArrivingUnfolds
<1>4. a[1] = Through(a[1 - 1], w[1]) /\ a[0] = start[w[1].from]
  BY <1>2 DEF Along
<1> QED
  BY <1>1, <1>3, <1>4

\* Each further one what arrived before it.
LEMMA LastArc ==
    ASSUME Weighted, NEW B, Started(B), NEW n \in Nat \ {0}, NEW w \in Trails(n + 1)
    PROVE  LET v == [i \in 1..n |-> w[i]]
           IN  /\ v \in Trails(n) /\ v[n].to = w[n + 1].from /\ w[n + 1] \in Arcs
               /\ Arriving(w, n + 1) = Through(Arriving(v, n), w[n + 1])
<1> DEFINE v == [i \in 1..n |-> w[i]]
<1>1. /\ w \in [1..n + 1 -> Arcs] /\ w[1].from \in DOMAIN start
      /\ \A i \in 1..n : w[i].to = w[i + 1].from
  BY DEF Trails
<1>2. v \in Trails(n)
  BY <1>1 DEF Trails
<1>3. PICK a : Along(a, w, n + 1)
  BY <1>1, AlongExists
<1>4. Along([i \in 0..n |-> a[i]], v, n)
  BY <1>3 DEF Along
<1>5. Arriving(w, n + 1) = a[n + 1]
  BY <1>3, ArrivingUnfolds
<1>6. Arriving(v, n) = a[n]
  <2>1. Arriving(v, n) = [i \in 0..n |-> a[i]][n]
    BY <1>4, ArrivingUnfolds
  <2> QED
    BY <2>1
<1>7. a[n + 1] = Through(a[n], w[n + 1])
  BY <1>3 DEF Along
<1> QED
  BY <1>1, <1>2, <1>5, <1>6, <1>7

\* The energies that come to m by the walks of n arcs.
Comes(n, m) ==
    IF n = 0 THEN {start[k] : k \in DOMAIN start \cap {m}}
             ELSE {Arriving(w, n) : w \in {v \in Trails(n) : v[n].to = m}}

LEMMA ComesBounded ==
    ASSUME Weighted, NEW B, Started(B), NEW n \in Nat, NEW m
    PROVE  Comes(n, m) \subseteq 0..B
<1>1. CASE n = 0
  BY <1>1 DEF Comes, Started
<1>2. CASE n # 0
  BY <1>2, ArrivingBounded DEF Comes
<1> QED
  BY <1>1, <1>2

\* What comes over an arc came to its start one hop earlier.
LEMMA CameBefore ==
    ASSUME Weighted, NEW B, Started(B), NEW n \in Nat, NEW w \in Trails(n + 1)
    PROVE  /\ w[n + 1] \in Arcs
           /\ \E e \in Comes(n, w[n + 1].from) : Arriving(w, n + 1) = Through(e, w[n + 1])
<1>1. CASE n = 0
  <2>1. w \in Trails(1)
    BY <1>1
  <2>2. w[1] \in Arcs /\ w[1].from \in DOMAIN start /\ Arriving(w, 1) = Through(start[w[1].from], w[1])
    BY <2>1, FirstArc
  <2>3. start[w[1].from] \in Comes(0, w[1].from)
    BY <2>2 DEF Comes
  <2> QED
    BY <1>1, <2>2, <2>3
<1>2. CASE n # 0
  <2> DEFINE v == [i \in 1..n |-> w[i]]
  <2>1. /\ v \in Trails(n) /\ v[n].to = w[n + 1].from /\ w[n + 1] \in Arcs
        /\ Arriving(w, n + 1) = Through(Arriving(v, n), w[n + 1])
    BY <1>2, LastArc
  <2> HIDE DEF v
  <2>2. Arriving(v, n) \in Comes(n, w[n + 1].from)
    BY <1>2, <2>1 DEF Comes
  <2> QED
    BY <2>1, <2>2
<1> QED
  BY <1>1, <1>2

\* And what came to its start goes on over it.
LEMMA GoesOver ==
    ASSUME Weighted, NEW B, Started(B), NEW n \in Nat, NEW arc \in Arcs, NEW e \in Comes(n, arc.from)
    PROVE  \E w \in Trails(n + 1) : w[n + 1] = arc /\ Arriving(w, n + 1) = Through(e, arc)
<1>1. CASE n = 0
  <2>1. arc.from \in DOMAIN start /\ e = start[arc.from]
    BY <1>1 DEF Comes
  <2> DEFINE w == [i \in 1..1 |-> arc]
  <2>2. w \in Trails(1) /\ w[1] = arc
    BY <2>1 DEF Trails
  <2> HIDE DEF w
  <2>3. Arriving(w, 1) = Through(e, arc)
    BY <2>1, <2>2, FirstArc
  <2> QED
    BY <1>1, <2>2, <2>3
<1>2. CASE n # 0
  <2>1. PICK v \in Trails(n) : v[n].to = arc.from /\ e = Arriving(v, n)
    BY <1>2 DEF Comes
  <2>2. /\ v \in [1..n -> Arcs] /\ v[1].from \in DOMAIN start
        /\ \A i \in 1..n - 1 : v[i].to = v[i + 1].from
    BY DEF Trails
  <2> DEFINE w == [i \in 1..n + 1 |-> IF i = n + 1 THEN arc ELSE v[i]]
             u == [i \in 1..n |-> w[i]]
  <2>3. w \in [1..n + 1 -> Arcs] /\ w[1] = v[1] /\ w[n + 1] = arc
    BY <1>2, <2>2
  <2>4. ASSUME NEW i \in 1..n PROVE w[i].to = w[i + 1].from
    <3>1. w[i] = v[i]
      OBVIOUS
    <3>2. CASE i = n
      BY <2>1, <2>3, <3>1, <3>2
    <3>3. CASE i # n
      <4>1. i \in 1..n - 1 /\ w[i + 1] = v[i + 1]
        BY <3>3
      <4> QED
        BY <2>2, <3>1, <4>1
    <3> QED
      BY <3>2, <3>3
  <2>5. w \in Trails(n + 1)
    BY <2>2, <2>3, <2>4 DEF Trails
  <2>6. u = v
    BY <2>2
  <2> HIDE DEF w
  <2>7. Arriving(w, n + 1) = Through(Arriving(u, n), w[n + 1])
    BY <1>2, <2>5, LastArc
  <2> QED
    BY <2>1, <2>3, <2>5, <2>6, <2>7
<1> QED
  BY <1>1, <1>2

LEMMA MaxIsGreatest ==
    ASSUME NEW B \in Nat, NEW S \in SUBSET (0..B), S # {}
    PROVE  Max(S) \in S /\ \A x \in S : x <= Max(S)
<1>1. PICK x \in S : \A y \in S : y <= x
  BY BoundedHasLast
<1>2. x \in S /\ \A y \in S : x >= y
  BY <1>1
<1>3. Max(S) \in S /\ \A y \in S : Max(S) >= y
  BY <1>2, Zenon DEF Max
<1> QED
  BY <1>3

\* The best walk over an arc is the best that came to its start, if any did.
LEMMA BestIsOfBefore ==
    ASSUME Weighted, NEW B, Started(B), NEW n \in Nat, NEW arc \in Arcs
    PROVE  /\ Best(arc, n + 1) \in Nat
           /\ \A e \in Comes(n, arc.from) : Through(e, arc) <= Best(arc, n + 1)
           /\ Best(arc, n + 1) = 0
              \/ \E e \in Comes(n, arc.from) : Best(arc, n + 1) = Through(e, arc)
<1> DEFINE Over == {w \in Trails(n + 1) : w[n + 1] = arc}
           Set == {Arriving(w, n + 1) : w \in Over} \cup {0}
<1>0. B \in Nat
  BY DEF Started
<1>1. Set \in SUBSET (0..B) /\ Set # {}
  <2>1. \A w \in Trails(n + 1) : Arriving(w, n + 1) \in 0..B
    BY ArrivingBounded
  <2> QED
    BY <1>0, <2>1
<1>2. Best(arc, n + 1) \in Set /\ \A x \in Set : x <= Best(arc, n + 1)
  <2>1. Best(arc, n + 1) = Max(Set)
    BY DEF Best
  <2> HIDE DEF Set
  <2> QED
    BY <1>0, <1>1, <2>1, MaxIsGreatest
<1>3. ASSUME NEW e \in Comes(n, arc.from) PROVE Through(e, arc) <= Best(arc, n + 1)
  <2>1. PICK w \in Over : Arriving(w, n + 1) = Through(e, arc)
    BY GoesOver
  <2>2. Through(e, arc) \in Set
    BY <2>1
  <2> QED
    BY <1>2, <2>2
<1>4. ASSUME Best(arc, n + 1) # 0
      PROVE  \E e \in Comes(n, arc.from) : Best(arc, n + 1) = Through(e, arc)
  <2>1. PICK w \in Over : Best(arc, n + 1) = Arriving(w, n + 1)
    BY <1>2, <1>4
  <2>2. w \in Trails(n + 1) /\ w[n + 1] = arc
    BY <2>1
  <2> QED
    BY <2>1, <2>2, CameBefore
<1>5. Best(arc, n + 1) \in Nat
  BY <1>0, <1>1, <1>2
<1> QED
  BY <1>3, <1>4, <1>5

\* What comes to m in one hop more comes over one of its arcs.
LEMMA ComesOver ==
    ASSUME Weighted, NEW B, Started(B), NEW n \in Nat, NEW m, NEW e
    PROVE  e \in Comes(n + 1, m) <=>
               \E arc \in Arcs : arc.to = m /\ \E x \in Comes(n, arc.from) : e = Through(x, arc)
<1>1. Comes(n + 1, m) = {Arriving(w, n + 1) : w \in {v \in Trails(n + 1) : v[n + 1].to = m}}
  BY DEF Comes
<1>2. ASSUME e \in Comes(n + 1, m)
      PROVE  \E arc \in Arcs : arc.to = m /\ \E x \in Comes(n, arc.from) : e = Through(x, arc)
  <2>1. PICK w \in Trails(n + 1) : w[n + 1].to = m /\ e = Arriving(w, n + 1)
    BY <1>1, <1>2
  <2> QED
    BY <2>1, CameBefore
<1>3. ASSUME NEW arc \in Arcs, arc.to = m, NEW x \in Comes(n, arc.from), e = Through(x, arc)
      PROVE  e \in Comes(n + 1, m)
  <2>1. PICK w \in Trails(n + 1) : w[n + 1] = arc /\ Arriving(w, n + 1) = e
    BY <1>3, GoesOver
  <2> QED
    BY <1>1, <1>3, <2>1
<1> QED
  BY <1>2, <1>3

(***************************************************************************)
(* What a memory is due                                                    *)
(***************************************************************************)
LEMMA GraphWeighted == GraphInit => Weighted
BY ArcTypes DEF Weighted

LEMMA GainsNatural ==
    ASSUME GraphInit, NEW B, Started(B), NEW n \in Nat, NEW m
    PROVE  Gains(m, n + 1) \in Nat
<1>1. PICK S : S = {a \in Arcs : a.to = m}
  OBVIOUS
<1>2. IsFiniteSet(S)
  BY <1>1, FiniteArcs, FS_Subset
<1>3. [arc \in S |-> Best(arc, n + 1)] \in [S -> Nat]
  BY <1>1, GraphWeighted, BestIsOfBefore
<1>4. SumFunction([arc \in S |-> Best(arc, n + 1)]) \in Nat
  BY <1>2, <1>3, SumIsNatural, Zenon
<1> QED
  BY <1>1, <1>4 DEF Gains

LEMMA DueGrows ==
    ASSUME GraphInit, NEW B, Started(B), NEW n \in Nat, NEW m
    PROVE  Due(m, n) \in Nat /\ Due(m, n + 1) = Due(m, n) + Gains(m, n + 1)
<1> DEFINE c == [i \in 1..n + 1 |-> Gains(m, i)]
           d == [i \in 1..n |-> Gains(m, i)]
           own == IF m \in DOMAIN start THEN start[m] ELSE 0
<1>1. ASSUME NEW i \in 1..n + 1 PROVE Gains(m, i) \in Nat
  <2>1. i - 1 \in Nat /\ (i - 1) + 1 = i
    OBVIOUS
  <2> QED
    BY <2>1, GainsNatural
<1>2. c \in [1..n + 1 -> Nat] /\ d \in [1..n -> Nat]
  BY <1>1
<1>3. c[n + 1] = Gains(m, n + 1) /\ [i \in 1..n |-> c[i]] = d
  OBVIOUS
<1>4. own \in Nat
  BY DEF Started
<1>5. Due(m, n) = own + SumFunction(d) /\ Due(m, n + 1) = own + SumFunction(c)
  BY DEF Due
<1>6. Gains(m, n + 1) \in Nat
  BY GainsNatural
<1> HIDE DEF c, d, own
<1>7. SumFunction(c) = Gains(m, n + 1) + SumFunction(d)
  BY <1>2, <1>3, SumOfLast
<1>8. SumFunction(d) \in Nat
  BY <1>2, SumFromOneIsNatural
<1> QED
  BY <1>4, <1>5, <1>6, <1>7, <1>8

LEMMA DueAtFirst ==
    ASSUME NEW B, Started(B), NEW m
    PROVE  Due(m, 0) = IF m \in DOMAIN start THEN start[m] ELSE 0
<1>1. PICK S : S = 1..0
  OBVIOUS
<1>2. IsFiniteSet(S) /\ S = {}
  BY <1>1, FS_EmptySet
<1>3. SumFunction([i \in S |-> Gains(m, i)]) = 0
  <2>1. [i \in S |-> Gains(m, i)] \in [S -> Nat] /\ \A x \in S : [i \in S |-> Gains(m, i)][x] = 0
    BY <1>2
  <2> QED
    BY <1>2, <2>1, SumOfNothing, Zenon
<1> QED
  BY <1>1, <1>3 DEF Due, Started

\* Where a walk begins and what it walks over are settled when it begins.
LEMMA SameWalk ==
    ASSUME UNCHANGED <<graphVars, start>>
    PROVE  /\ Arcs' = Arcs
           /\ \A n, m : Comes(n, m)' = Comes(n, m) /\ Due(m, n)' = Due(m, n)
           /\ \A arc, n : Best(arc, n)' = Best(arc, n)
           /\ \A B : Started(B)' <=> Started(B)
<1>1. Arcs' = Arcs
  BY DEF graphVars, Arcs, Edges, LensEdges, TopicalLens, TemporalLens, EntityLens, DeclaredLens,
         Precedes, Nearness
<1>2. start' = start
  OBVIOUS
<1>3. \A n : Trails(n)' = Trails(n)
  BY <1>1, <1>2 DEF Trails
<1>4. \A w, n : Arriving(w, n)' = Arriving(w, n)
  BY <1>2 DEF Arriving
<1>5. \A arc, n : Best(arc, n)' = Best(arc, n)
  BY <1>3, <1>4 DEF Best
<1>6. \A n, m : Comes(n, m)' = Comes(n, m)
  BY <1>2, <1>3, <1>4 DEF Comes
<1>7. \A n, m : Gains(m, n)' = Gains(m, n)
  BY <1>1, <1>5 DEF Gains
<1>8. \A n, m : Due(m, n)' = Due(m, n)
  BY <1>2, <1>7 DEF Due
<1>9. \A B : Started(B)' <=> Started(B)
  BY <1>2 DEF Started
<1> QED
  BY <1>1, <1>5, <1>6, <1>8, <1>9

LEMMA UnitIsNatural == Unit \in Nat
<1>1. 2 * Hops \in Nat
  BY HopsAssumption
<1>2. PICK S : S = 1..2 * Hops
  OBVIOUS
<1>3. IsFiniteSet(S) /\ Cardinality(S) = 2 * Hops
  BY <1>1, <1>2, FS_Interval
<1>4. IsFiniteSet(SUBSET S) /\ Cardinality(SUBSET S) = 2^(2 * Hops)
  BY <1>3, FS_SUBSET
<1>5. Cardinality(SUBSET S) \in Nat
  BY <1>4, FS_CardinalityType
<1> QED
  BY <1>4, <1>5 DEF Unit

LEMMA WalkStarted ==
    ASSUME WalkInit
    PROVE  /\ \E B : Started(B)
           /\ DOMAIN start \subseteq Ids /\ \A m \in DOMAIN start : start[m] \in Nat
<1>1. PICK u \in Nat : u = Unit
  BY UnitIsNatural
<1>2. PICK S \in Seeds : start = [m \in DOMAIN S |-> S[m] * Unit]
  BY DEF WalkInit
<1>3. \A m \in DOMAIN start : start[m] = 1 * u \/ start[m] = 2 * u
  BY <1>1, <1>2, SeedsAssumption DEF Full
<1>4. Started(2 * u)
  BY <1>1, <1>3 DEF Started
<1>5. DOMAIN start \subseteq Ids
  BY <1>2, SeedsAssumption
<1> QED
  BY <1>1, <1>3, <1>4, <1>5

\* Energies that lead every walk of n arcs.
Leads(f, n) ==
    /\ \A m \in DOMAIN f : f[m] \in Nat /\ \E e \in Comes(n, m) : f[m] <= e
    /\ Thorough => \A m \in Ids : \A e \in Comes(n, m) : m \in DOMAIN f /\ e <= f[m]

LEMMA StartLeads ==
    ASSUME NEW B, Started(B)
    PROVE  Leads(start, 0)
BY DEF Started, Leads, Comes

\* What a frontier that leads passes on over an arc is the best walk over it.
LEMMA BestFromFrontier ==
    ASSUME GraphInit, NEW B, Started(B), NEW n \in Nat, Leads(frontier, n), NEW arc \in Arcs
    PROVE  /\ Best(arc, n + 1) \in Nat
           /\ arc.from \in DOMAIN frontier =>
                /\ Gained(arc) \in 0..B /\ Gained(arc) <= Best(arc, n + 1)
                /\ \E e \in Comes(n + 1, arc.to) : Gained(arc) <= e
                /\ Thorough => Best(arc, n + 1) = Gained(arc)
           /\ Thorough /\ arc.from \notin DOMAIN frontier => Best(arc, n + 1) = 0
<1>0. Weighted /\ B \in Nat /\ arc.edge.weight \in 0..2 /\ arc.from \in Ids
  BY GraphWeighted, ArcTypes DEF Started
<1>1. /\ Best(arc, n + 1) \in Nat
      /\ \A e \in Comes(n, arc.from) : Through(e, arc) <= Best(arc, n + 1)
      /\ Best(arc, n + 1) = 0
         \/ \E e \in Comes(n, arc.from) : Best(arc, n + 1) = Through(e, arc)
  BY <1>0, BestIsOfBefore
<1>2. Comes(n, arc.from) \subseteq 0..B
  BY <1>0, ComesBounded
<1>3. ASSUME arc.from \in DOMAIN frontier
      PROVE  /\ Gained(arc) \in 0..B /\ Gained(arc) <= Best(arc, n + 1)
             /\ \E e \in Comes(n + 1, arc.to) : Gained(arc) <= e
             /\ Thorough => Best(arc, n + 1) = Gained(arc)
  <2> DEFINE x == frontier[arc.from]
  <2>1. PICK e \in Comes(n, arc.from) : x \in Nat /\ x <= e
    BY <1>3 DEF Leads
  <2>2. Gained(arc) = Through(x, arc)
    BY DEF Gained, Through
  <2>3. x \in 0..B /\ e \in 0..B /\ x <= e
    BY <1>0, <1>2, <2>1
  <2> HIDE DEF x
  <2>4. Through(x, arc) <= Through(e, arc) /\ Through(x, arc) \in 0..B /\ Through(e, arc) \in 0..B
    BY <1>0, <2>3, ThroughGrows, ThroughBounded
  <2>5. Through(e, arc) \in Comes(n + 1, arc.to)
    BY <1>0, ComesOver
  <2>6. Through(x, arc) <= Best(arc, n + 1)
    BY <1>0, <1>1, <2>4
  <2>7. ASSUME Thorough PROVE Best(arc, n + 1) <= Through(x, arc)
    <3>1. CASE Best(arc, n + 1) = 0
      BY <1>0, <2>4, <3>1
    <3>2. CASE \E d \in Comes(n, arc.from) : Best(arc, n + 1) = Through(d, arc)
      <4>1. PICK d \in Comes(n, arc.from) : Best(arc, n + 1) = Through(d, arc)
        BY <3>2
      <4>2. d \in 0..B /\ d <= x
        BY <1>0, <1>2, <2>7 DEF Leads, x
      <4> QED
        BY <1>0, <2>3, <4>1, <4>2, ThroughGrows
    <3> QED
      BY <1>1, <3>1, <3>2
  <2> QED
    BY <1>0, <1>1, <2>2, <2>4, <2>5, <2>6, <2>7
<1>4. ASSUME Thorough, arc.from \notin DOMAIN frontier PROVE Best(arc, n + 1) = 0
  BY <1>0, <1>1, <1>4 DEF Leads
<1> QED
  BY <1>1, <1>3, <1>4

(***************************************************************************)
(* A hop of the walk over a snapshot                                       *)
(***************************************************************************)
LEMMA HopLeads ==
    ASSUME GraphInit, NEW B, Started(B), NEW n \in Nat, Leads(frontier, n), Thorough, Hop,
           Thorough', UNCHANGED graphVars
    PROVE  Leads(frontier, n + 1)'
<1>0. B \in Nat /\ Weighted
  BY GraphWeighted DEF Started
<1>1. /\ frontier' = [m \in Reached |-> Max({Gained(arc) : arc \in Into(m)})]
      /\ start' = start
  BY DEF Hop
<1>2. \A m : Comes(n + 1, m)' = Comes(n + 1, m)
  BY <1>1, SameWalk
<1>3. ASSUME NEW m \in Reached
      PROVE  /\ frontier'[m] \in Nat /\ \E arc \in Into(m) : frontier'[m] = Gained(arc)
             /\ \A arc \in Into(m) : Gained(arc) <= frontier'[m]
  <2> DEFINE S == {Gained(arc) : arc \in Into(m)}
  <2>1. Into(m) # {}
    BY DEF Reached, Into
  <2>2. S \in SUBSET (0..B) /\ S # {}
    BY <2>1, BestFromFrontier DEF Into, Conducting
  <2> HIDE DEF S
  <2>3. Max(S) \in S /\ \A x \in S : x <= Max(S)
    BY <1>0, <2>2, MaxIsGreatest
  <2>4. frontier'[m] = Max(S)
    BY <1>1 DEF S
  <2>5. \A x \in S : x \in Nat
    BY <1>0, <2>2
  <2> QED
    BY <2>3, <2>4, <2>5 DEF S
<1>4. ASSUME NEW m \in DOMAIN frontier'
      PROVE  frontier'[m] \in Nat /\ \E e \in Comes(n + 1, m) : frontier'[m] <= e
  <2>1. m \in Reached
    BY <1>1
  <2>2. PICK arc \in Into(m) : frontier'[m] = Gained(arc)
    BY <1>3, <2>1
  <2>3. arc \in Arcs /\ arc.from \in DOMAIN frontier /\ arc.to = m
    BY DEF Into, Conducting
  <2> QED
    BY <1>3, <2>1, <2>2, <2>3, BestFromFrontier
<1>5. ASSUME NEW m \in Ids, NEW e \in Comes(n + 1, m)
      PROVE  m \in DOMAIN frontier' /\ e <= frontier'[m]
  <2>1. PICK arc \in Arcs : arc.to = m /\ \E x \in Comes(n, arc.from) : e = Through(x, arc)
    BY <1>0, ComesOver
  <2>2. PICK x \in Comes(n, arc.from) : e = Through(x, arc)
    BY <2>1
  <2>3. arc.from \in DOMAIN frontier
    BY ArcTypes DEF Leads
  <2>4. arc \in Into(m) /\ m \in Reached
    BY <2>1, <2>3 DEF Into, Conducting, Reached
  <2>5. e <= Best(arc, n + 1) /\ Best(arc, n + 1) = Gained(arc)
    BY <1>0, <2>2, <2>3, BestIsOfBefore, BestFromFrontier
  <2>6. Gained(arc) <= frontier'[m]
    BY <1>3, <2>4
  <2>7. e \in Nat /\ Gained(arc) \in Nat /\ frontier'[m] \in Nat
    <3>1. e \in 0..B /\ Gained(arc) \in 0..B
      BY <1>0, <2>1, <2>3, ComesBounded, BestFromFrontier
    <3> QED
      BY <1>0, <1>3, <2>4, <3>1
  <2> QED
    BY <1>1, <2>4, <2>5, <2>6, <2>7
<1> QED
  BY <1>2, <1>4, <1>5 DEF Leads

LEMMA HopGains ==
    ASSUME GraphInit, NEW B, Started(B), NEW n \in Nat, Leads(frontier, n), Thorough, Hop, NEW k,
           EnergyOf(k) \in Nat
    PROVE  EnergyOf(k)' = EnergyOf(k) + Gains(k, n + 1)
<1> DEFINE S == {a \in Arcs : a.to = k}
           c == [arc \in S |-> Best(arc, n + 1)]
           T == Into(k)
<1>1. c \in [S -> Nat] /\ T \in SUBSET S /\ \A arc \in S \ T : c[arc] = 0
  BY BestFromFrontier DEF Into, Conducting
<1>2. IsFiniteSet(S)
  BY FiniteArcs, FS_Subset
<1>3. [arc \in T |-> c[arc]] = [arc \in T |-> Gained(arc)]
  BY BestFromFrontier DEF Into, Conducting
<1>4. Gains(k, n + 1) = SumFunction(c) /\ Arrived(k) = SumFunction([arc \in T |-> Gained(arc)])
  BY DEF Gains, Arrived
<1>5. k \notin Reached => T = {}
  BY DEF Reached, Into
<1> HIDE DEF c, S, T
<1>6. SumFunction(c) = SumFunction([arc \in T |-> c[arc]])
  BY <1>1, <1>2, SumSkipsZeros, Zenon
<1>7. Arrived(k) = Gains(k, n + 1)
  BY <1>3, <1>4, <1>6
<1>8. k \notin Reached => Gains(k, n + 1) = 0
  <2> SUFFICES ASSUME k \notin Reached PROVE SumFunction(c) = 0
    BY <1>4
  <2>1. \A arc \in S : c[arc] = 0
    BY <1>1, <1>5
  <2> QED
    BY <1>1, <1>2, <2>1, SumOfNothing, Zenon
<1>9. activation' = [m \in DOMAIN activation \cup Reached |-> EnergyOf(m) + Arrived(m)]
  BY DEF Hop
<1>10. CASE k \in DOMAIN activation \cup Reached
  <2>1. EnergyOf(k)' = EnergyOf(k) + Arrived(k)
    BY <1>9, <1>10 DEF EnergyOf
  <2> QED
    BY <1>7, <2>1
<1>11. CASE k \notin DOMAIN activation \cup Reached
  <2>1. EnergyOf(k)' = 0 /\ EnergyOf(k) = 0
    BY <1>9, <1>11 DEF EnergyOf
  <2> QED
    BY <1>8, <1>11, <2>1
<1> QED
  BY <1>10, <1>11

(***************************************************************************)
(* A walk by meaning                                                       *)
(***************************************************************************)
\* The arc from one memory to another that is close enough.
TheArc(a, b) ==
    [from |-> a, to |-> b,
     edge |-> Edge(IF a < b THEN a ELSE b, IF a < b THEN b ELSE a, "topical", "topical", Closeness(a, b), FALSE)]

Near(a, b) == a \in Stored /\ b \in Stored /\ a # b /\ Closeness(a, b) > 0

LEMMA ArcsAreNear ==
    ASSUME GraphInit, ByMeaning
    PROVE  /\ \A arc \in Arcs : Near(arc.from, arc.to) /\ arc = TheArc(arc.from, arc.to)
           /\ \A a, b : Near(a, b) => TheArc(a, b) \in Arcs
<1>1. Edges = TopicalLens
  BY DEF Edges, LensEdges, ByMeaning
<1>2. \A e \in Edges : \E p \in Pairs : score[p] > 0 /\ e = Edge(p[1], p[2], "topical", "topical", score[p], FALSE)
  BY <1>1 DEF TopicalLens
<1>3. ASSUME NEW arc \in Arcs
      PROVE  Near(arc.from, arc.to) /\ arc = TheArc(arc.from, arc.to)
  <2>1. PICK e \in Edges :
            \/ arc = [from |-> e.source, to |-> e.target, edge |-> e]
            \/ arc = [from |-> e.target, to |-> e.source, edge |-> e]
    BY DEF Arcs
  <2>2. PICK p \in Pairs : score[p] > 0 /\ e = Edge(p[1], p[2], "topical", "topical", score[p], FALSE)
    BY <1>2
  <2>3. /\ p[1] \in Stored /\ p[2] \in Stored /\ p[1] < p[2] /\ p[1] \in Int /\ p[2] \in Int
        /\ p = <<p[1], p[2]>>
    <3>1. p \in Stored \X Stored /\ p[1] < p[2]
      BY DEF Pairs
    <3>2. p[1] \in Stored /\ p[2] \in Stored /\ p = <<p[1], p[2]>>
      BY <3>1
    <3>3. \A i \in Stored : i \in Int
      BY IdsAssumption
    <3> QED
      BY <3>1, <3>2, <3>3
  <2>4. e.source = p[1] /\ e.target = p[2]
    BY <2>2 DEF Edge
  <2>5. p[1] # p[2] /\ ~(p[2] < p[1])
    BY <2>3
  <2>6. Closeness(p[1], p[2]) = score[p] /\ Closeness(p[2], p[1]) = score[p]
    BY <2>3, <2>5 DEF Closeness
  <2>7. CASE arc = [from |-> e.source, to |-> e.target, edge |-> e]
    BY <2>2, <2>3, <2>4, <2>5, <2>6, <2>7 DEF Near, TheArc
  <2>8. CASE arc = [from |-> e.target, to |-> e.source, edge |-> e]
    BY <2>2, <2>3, <2>4, <2>5, <2>6, <2>8 DEF Near, TheArc
  <2> QED
    BY <2>1, <2>7, <2>8
<1>4. ASSUME NEW a, NEW b, Near(a, b) PROVE TheArc(a, b) \in Arcs
  <2>1. a \in Stored /\ b \in Stored /\ a # b /\ Closeness(a, b) > 0 /\ a \in Int /\ b \in Int
    BY <1>4, IdsAssumption DEF Near
  <2> DEFINE lo == IF a < b THEN a ELSE b
             hi == IF a < b THEN b ELSE a
             e == Edge(lo, hi, "topical", "topical", Closeness(a, b), FALSE)
  <2>2. <<lo, hi>> \in Pairs
    BY <2>1 DEF Pairs
  <2>3. score[<<lo, hi>>] = Closeness(a, b)
    BY <2>1 DEF Closeness
  <2>4. e \in Edges
    BY <1>1, <2>1, <2>2, <2>3 DEF TopicalLens
  <2>5. ~e.directed /\ e.source = lo /\ e.target = hi
    BY DEF Edge
  <2>6. TheArc(a, b) = [from |-> a, to |-> b, edge |-> e]
    BY DEF TheArc
  <2>7. (lo = a /\ hi = b) \/ (lo = b /\ hi = a)
    OBVIOUS
  <2> HIDE DEF e, lo, hi
  <2> QED
    BY <2>4, <2>5, <2>6, <2>7 DEF Arcs
<1> QED
  BY <1>3, <1>4

LEMMA GainedOverArc ==
    ASSUME NEW a, NEW b
    PROVE  /\ GainedFrom(a, b) = Gained(TheArc(a, b))
           /\ TheArc(a, b).from = a /\ TheArc(a, b).to = b
BY DEF GainedFrom, Gained, TheArc, Edge

\* What a query finds is near, and it finds all that is if it sees the whole store.
LEMMA HitsAreNear ==
    ASSUME ByMeaning, NEW m \in Stored, NEW H \in Neighbors(m)
    PROVE  /\ \A h \in Hits(m, H) : Near(m, h)
           /\ Thorough => \A h : Near(m, h) => h \in Hits(m, H)
<1>1. H \in SUBSET (Stored \ left)
  BY DEF Neighbors, Closest
<1>2. \A h \in Hits(m, H) : Near(m, h)
  BY <1>1 DEF Hits, Near
<1>3. ASSUME Thorough, NEW h, Near(m, h) PROVE h \in Hits(m, H)
  <2>1. left = {} /\ Fanout + 1 >= Cardinality(Stored)
    BY <1>3 DEF Thorough
  <2>2. H \in SUBSET Stored /\ Cardinality(H) = Min({Fanout + 1, Cardinality(Stored)})
    <3>1. Stored \ left = Stored
      BY <2>1
    <3> QED
      BY <3>1 DEF Neighbors, Closest
  <2>3. IsFiniteSet(Stored) /\ Cardinality(Stored) \in Nat
    BY IdsAssumption, FS_Subset, FS_CardinalityType
  <2>4. Min({Fanout + 1, Cardinality(Stored)}) = Cardinality(Stored)
    <3> DEFINE a == Fanout + 1
               b == Cardinality(Stored)
               R(x) == x \in {a, b} /\ \A y \in {a, b} : x <= y
    <3>1. a \in Int /\ b \in Int /\ b <= a
      BY <2>1, <2>3, FanoutAssumption
    <3> HIDE DEF a, b
    <3>2. R(b)
      BY <3>1
    <3>3. \A x : R(x) => x = b
      BY <3>1
    <3>4. Min({a, b}) = b
      BY <3>2, <3>3 DEF Min
    <3> QED
      BY <3>4 DEF a, b
  <2>5. H = Stored
    BY <2>2, <2>3, <2>4, FS_Subset
  <2> QED
    BY <1>3, <2>5 DEF Hits, Near
<1> QED
  BY <1>2, <1>3

\* Memories of the frontier that were asked about in the round, and what of that
\* is due to k.
Asked == IF waiting = {} THEN {} ELSE DOMAIN frontier \ waiting
GivenBy(k, A, n) ==
    SumFunction([arc \in {a \in Arcs : a.to = k} |-> IF arc.from \in A THEN Best(arc, n + 1) ELSE 0])

\* The best that arrived from the memories asked about.
Tally(r, A, n) ==
    /\ \A k \in DOMAIN r : r[k] \in Nat /\ \E e \in Comes(n + 1, k) : r[k] <= e
    /\ Thorough =>
        \A arc \in Arcs : arc.from \in A => arc.to \in DOMAIN r /\ Gained(arc) <= r[arc.to]

ReachedBy(m, H) ==
    [n \in DOMAIN reaching \cup Hits(m, H) |->
        Max({GainedFrom(m, h) : h \in Hits(m, H) \cap {n}}
            \cup {reaching[r] : r \in DOMAIN reaching \cap {n}})]

LEMMA TallyGrows ==
    ASSUME GraphInit, ByMeaning, NEW B, Started(B), NEW n \in Nat, Leads(frontier, n),
           NEW m \in Stored \cap DOMAIN frontier, NEW H \in Neighbors(m),
           NEW A \in SUBSET DOMAIN frontier, Tally(reaching, A, n)
    PROVE  Tally(ReachedBy(m, H), A \cup {m}, n)
<1> DEFINE hits == Hits(m, H)
           D == DOMAIN reaching \cup hits
           S(k) == {GainedFrom(m, h) : h \in hits \cap {k}} \cup {reaching[r] : r \in DOMAIN reaching \cap {k}}
           r == ReachedBy(m, H)
<1>0. B \in Nat /\ Weighted
  BY GraphWeighted DEF Started
<1>1. r = [k \in D |-> Max(S(k))]
  BY DEF ReachedBy
<1>2. ASSUME NEW h \in hits
      PROVE  GainedFrom(m, h) \in 0..B /\ \E e \in Comes(n + 1, h) : GainedFrom(m, h) <= e
  <2>1. TheArc(m, h) \in Arcs
    BY ArcsAreNear, HitsAreNear
  <2>2. /\ GainedFrom(m, h) = Gained(TheArc(m, h))
        /\ TheArc(m, h).from = m /\ TheArc(m, h).to = h
    BY GainedOverArc
  <2> QED
    BY <2>1, <2>2, BestFromFrontier
<1>3. ASSUME NEW k \in DOMAIN reaching
      PROVE  reaching[k] \in 0..B /\ \E e \in Comes(n + 1, k) : reaching[k] <= e
  <2>1. PICK e \in Comes(n + 1, k) : reaching[k] \in Nat /\ reaching[k] <= e
    BY DEF Tally
  <2>2. e \in 0..B
    BY <1>0, ComesBounded
  <2> QED
    BY <1>0, <2>1, <2>2
<1>4. ASSUME NEW k \in D
      PROVE  r[k] \in S(k) /\ S(k) \in SUBSET (0..B) /\ \A x \in S(k) : x <= r[k]
  <2> DEFINE T == S(k)
  <2>1. T \in SUBSET (0..B) /\ T # {}
    BY <1>2, <1>3
  <2>2. r[k] = Max(T)
    BY <1>1
  <2> HIDE DEF T
  <2>3. Max(T) \in T /\ \A x \in T : x <= Max(T)
    BY <1>0, <2>1, MaxIsGreatest
  <2>4. r[k] \in T /\ T \in SUBSET (0..B) /\ \A x \in T : x <= r[k]
    BY <2>1, <2>2, <2>3
  <2> QED
    BY <2>4 DEF T
<1>5. ASSUME NEW k \in D
      PROVE  r[k] \in Nat /\ \E e \in Comes(n + 1, k) : r[k] <= e
  <2>1. r[k] \in S(k)
    BY <1>4
  <2>2. (k \in hits /\ r[k] = GainedFrom(m, k)) \/ (k \in DOMAIN reaching /\ r[k] = reaching[k])
    BY <2>1
  <2> QED
    BY <1>0, <1>2, <1>3, <2>2
<1>6. ASSUME Thorough, NEW arc \in Arcs, arc.from \in A \cup {m}
      PROVE  arc.to \in D /\ Gained(arc) <= r[arc.to]
  <2>1. CASE arc.from = m
    <3>1. Near(m, arc.to) /\ arc = TheArc(m, arc.to)
      BY <2>1, ArcsAreNear
    <3>2. arc.to \in hits /\ Gained(arc) = GainedFrom(m, arc.to)
      BY <1>6, <3>1, HitsAreNear, GainedOverArc
    <3>3. arc.to \in D /\ GainedFrom(m, arc.to) \in S(arc.to)
      BY <3>2
    <3> QED
      BY <1>4, <3>2, <3>3
  <2>2. CASE arc.from \in A
    <3>1. arc.to \in DOMAIN reaching /\ Gained(arc) <= reaching[arc.to]
      BY <1>6, <2>2 DEF Tally
    <3>2. arc.to \in D /\ reaching[arc.to] \in S(arc.to)
      BY <3>1
    <3>3. reaching[arc.to] <= r[arc.to] /\ reaching[arc.to] \in Nat /\ r[arc.to] \in Nat
      BY <1>0, <1>3, <1>4, <1>5, <3>1, <3>2
    <3>4. Gained(arc) \in Int
      <4>1. Gained(arc) \in 0..B
        BY <2>2, BestFromFrontier
      <4> QED
        BY <1>0, <4>1
    <3> QED
      BY <3>1, <3>2, <3>3, <3>4
  <2> QED
    BY <1>6, <2>1, <2>2
<1>7. DOMAIN r = D
  BY <1>1
<1> HIDE DEF r, D, hits
<1> QED
  BY <1>5, <1>6, <1>7 DEF Tally, r

\* The round is over: its tally leads the next.
LEMMA RoundLeads ==
    ASSUME GraphInit, NEW B, Started(B), NEW n \in Nat, Leads(frontier, n), NEW r,
           Tally(r, DOMAIN frontier, n)
    PROVE  Leads(r, n + 1)
<1>0. B \in Nat /\ Weighted
  BY GraphWeighted DEF Started
<1>1. ASSUME Thorough, NEW m \in Ids, NEW e \in Comes(n + 1, m)
      PROVE  m \in DOMAIN r /\ e <= r[m]
  <2>1. PICK arc \in Arcs : arc.to = m /\ \E x \in Comes(n, arc.from) : e = Through(x, arc)
    BY <1>0, ComesOver
  <2>2. PICK x \in Comes(n, arc.from) : e = Through(x, arc)
    BY <2>1
  <2>3. arc.from \in DOMAIN frontier
    BY <1>1, ArcTypes DEF Leads
  <2>4. m \in DOMAIN r /\ Gained(arc) <= r[m]
    BY <1>1, <2>1, <2>3 DEF Tally
  <2>5. e <= Best(arc, n + 1) /\ Best(arc, n + 1) = Gained(arc)
    BY <1>0, <1>1, <2>2, <2>3, BestIsOfBefore, BestFromFrontier
  <2>6. e \in 0..B /\ Gained(arc) \in 0..B /\ r[m] \in Nat
    BY <1>0, <2>3, <2>4, ComesBounded, BestFromFrontier DEF Tally
  <2> QED
    BY <1>0, <2>4, <2>5, <2>6
<1> QED
  BY <1>1 DEF Leads, Tally

\* What is due by one memory more.
LEMMA GivenGrows ==
    ASSUME GraphInit, ByMeaning, NEW B, Started(B), NEW n \in Nat, Leads(frontier, n),
           NEW m \in Stored \cap DOMAIN frontier, NEW H \in Neighbors(m),
           NEW A, m \notin A, NEW k
    PROVE  LET gain == IF k \in Hits(m, H) THEN GainedFrom(m, k) ELSE 0
           IN  /\ gain \in Nat
               /\ GivenBy(k, A, n) \in Nat /\ GivenBy(k, A \cup {m}, n) \in Nat
               /\ GivenBy(k, A, n) + gain <= GivenBy(k, A \cup {m}, n)
               /\ Thorough => GivenBy(k, A \cup {m}, n) = GivenBy(k, A, n) + gain
<1> DEFINE S == {a \in Arcs : a.to = k}
           c == [arc \in S |-> IF arc.from \in A THEN Best(arc, n + 1) ELSE 0]
           d == [arc \in S |-> IF arc.from \in A \cup {m} THEN Best(arc, n + 1) ELSE 0]
           x == TheArc(m, k)
           gain == IF k \in Hits(m, H) THEN GainedFrom(m, k) ELSE 0
<1>0. B \in Nat
  BY DEF Started
<1>1. IsFiniteSet(S)
  BY FiniteArcs, FS_Subset
<1>2. c \in [S -> Nat] /\ d \in [S -> Nat]
  BY BestFromFrontier
<1>3. GivenBy(k, A, n) = SumFunction(c) /\ GivenBy(k, A \cup {m}, n) = SumFunction(d)
  BY DEF GivenBy
<1>4. \A arc \in S : arc.from = m => Near(m, k) /\ arc = x
  BY ArcsAreNear
<1>5. /\ x.from = m /\ x.to = k
      /\ Near(m, k) => x \in S
  BY ArcsAreNear, GainedOverArc
<1>6. Near(m, k) => d[x] = Best(x, n + 1) /\ c[x] = 0
  BY <1>5
<1>7. \A arc \in S : arc.from # m => d[arc] = c[arc]
  OBVIOUS
<1>8. Near(m, k) => /\ GainedFrom(m, k) \in 0..B /\ GainedFrom(m, k) <= Best(x, n + 1)
                    /\ Best(x, n + 1) \in Nat
                    /\ Thorough => Best(x, n + 1) = GainedFrom(m, k)
  BY <1>5, BestFromFrontier, GainedOverArc
<1>9. (k \in Hits(m, H) => Near(m, k)) /\ (Thorough /\ Near(m, k) => k \in Hits(m, H))
  BY HitsAreNear
<1> HIDE DEF c, d, x, S
<1>10. SumFunction(c) \in Nat /\ SumFunction(d) \in Nat
  BY <1>1, <1>2, SumIsNatural
<1>11. CASE Near(m, k)
  <2>1. x \in S /\ d[x] = c[x] + Best(x, n + 1) /\ Alike(d, c, S \ {x})
    BY <1>4, <1>5, <1>6, <1>7, <1>8, <1>11 DEF Alike
  <2>2. PICK b \in Nat : b = Best(x, n + 1)
    BY <1>8, <1>11
  <2>3. SumFunction(d) = SumFunction(c) + b
    BY <1>1, <1>2, <2>1, <2>2, SumGrows
  <2>4. gain \in Nat /\ gain <= b /\ (Thorough => b = gain)
    BY <1>0, <1>8, <1>9, <1>11, <2>2
  <2> HIDE DEF gain
  <2>5. GivenBy(k, A, n) + gain <= GivenBy(k, A \cup {m}, n)
    BY <1>3, <1>10, <2>3, <2>4
  <2>6. Thorough => GivenBy(k, A \cup {m}, n) = GivenBy(k, A, n) + gain
    BY <1>3, <2>3, <2>4
  <2> QED
    BY <1>3, <1>10, <2>4, <2>5, <2>6 DEF gain
<1>12. CASE ~Near(m, k)
  <2>1. c = d
    <3>1. \A arc \in S : c[arc] = d[arc]
      BY <1>4, <1>7, <1>12
    <3> QED
      BY <1>2, <3>1
  <2>2. gain = 0
    BY <1>9, <1>12
  <2> HIDE DEF gain
  <2>3. gain \in Nat /\ GivenBy(k, A, n) + gain <= GivenBy(k, A \cup {m}, n)
        /\ GivenBy(k, A \cup {m}, n) = GivenBy(k, A, n) + gain
    BY <1>3, <1>10, <2>1, <2>2
  <2> QED
    BY <1>3, <1>10, <2>3 DEF gain
<1> QED
  BY <1>11, <1>12

LEMMA NothingGiven ==
    ASSUME GraphInit, NEW B, Started(B), NEW n \in Nat, NEW A, NEW k,
           \A arc \in Arcs : arc.to = k /\ arc.from \in A => Best(arc, n + 1) = 0
    PROVE  GivenBy(k, A, n) = 0
<1> DEFINE S == {a \in Arcs : a.to = k}
           c == [arc \in S |-> IF arc.from \in A THEN Best(arc, n + 1) ELSE 0]
<1>1. IsFiniteSet(S)
  BY FiniteArcs, FS_Subset
<1>2. c \in [S -> Nat] /\ \A arc \in S : c[arc] = 0
  OBVIOUS
<1>3. GivenBy(k, A, n) = SumFunction(c)
  BY DEF GivenBy
<1> HIDE DEF c, S
<1> QED
  BY <1>1, <1>2, <1>3, SumOfNothing

\* At the end of a round all has been given.
LEMMA AllGiven ==
    ASSUME GraphInit, NEW B, Started(B), NEW n \in Nat, Leads(frontier, n), NEW k
    PROVE  /\ GivenBy(k, DOMAIN frontier, n) \in Nat /\ Gains(k, n + 1) \in Nat
           /\ GivenBy(k, DOMAIN frontier, n) <= Gains(k, n + 1)
           /\ Thorough => GivenBy(k, DOMAIN frontier, n) = Gains(k, n + 1)
<1> DEFINE S == {a \in Arcs : a.to = k}
           c == [arc \in S |-> IF arc.from \in DOMAIN frontier THEN Best(arc, n + 1) ELSE 0]
           d == [arc \in S |-> Best(arc, n + 1)]
<1>1. IsFiniteSet(S)
  BY FiniteArcs, FS_Subset
<1>2. c \in [S -> Nat] /\ d \in [S -> Nat] /\ \A arc \in S : c[arc] <= d[arc]
  BY BestFromFrontier
<1>3. GivenBy(k, DOMAIN frontier, n) = SumFunction(c) /\ Gains(k, n + 1) = SumFunction(d)
  BY DEF GivenBy, Gains
<1>4. Thorough => c = d
  BY BestFromFrontier
<1> HIDE DEF c, d, S
<1>5. SumFunction(c) \in Nat /\ SumFunction(d) \in Nat /\ SumFunction(c) <= SumFunction(d)
  BY <1>1, <1>2, SumIsNatural, SumMonotone
<1> QED
  BY <1>3, <1>4, <1>5

\* What the memories hold and what they are due, from the hops made and from the
\* memories asked about in this one.
Balanced ==
    \A k \in Ids :
        /\ EnergyOf(k) <= Due(k, hop) + GivenBy(k, Asked, hop)
        /\ Thorough => EnergyOf(k) = Due(k, hop) + GivenBy(k, Asked, hop)

EnergyInv ==
    asked = "recall" =>
        /\ hop \in Nat /\ \E B : Started(B)
        /\ \A k \in Ids : EnergyOf(k) \in Nat
        /\ Leads(frontier, hop)
        /\ waiting \subseteq DOMAIN frontier
        /\ ~ByMeaning => waiting = {} /\ reaching = <<>> /\ ~refused
        /\ waiting = {} /\ ~refused => reaching = <<>>
        /\ refused => waiting = {} /\ ~Thorough
        /\ ~refused => Tally(reaching, Asked, hop) /\ Balanced
        /\ \A k \in Ids \ DOMAIN reaching : EnergyOf(k) <= Due(k, hop)

LEMMA NoneAsked ==
    ASSUME GraphInit, NEW B, Started(B), NEW n \in Nat, NEW k
    PROVE  GivenBy(k, {}, n) = 0
BY NothingGiven

LEMMA EnergyBegins == Init => EnergyInv
<1> SUFFICES ASSUME Init, asked = "recall" PROVE EnergyInv
  BY DEF EnergyInv
<1>1. GraphInit /\ WalkInit
  BY DEF Init, NearbyInit
<1>2. PICK B : Started(B)
  BY <1>1, WalkStarted
<1>3. frontier = start /\ activation = start /\ hop = 0
  BY <1>1 DEF WalkInit
<1>4. /\ reaching = <<>> /\ ~refused /\ waiting \in {{}, DOMAIN start}
      /\ ~ByMeaning => waiting = {}
  BY DEF Init, NotNearby, NearbyInit
<1>5. Asked = {}
  BY <1>3, <1>4 DEF Asked
<1>6. \A k : EnergyOf(k) \in Nat /\ EnergyOf(k) = Due(k, 0)
  <2>1. \A k : EnergyOf(k) = IF k \in DOMAIN start THEN start[k] ELSE 0
    BY <1>3 DEF EnergyOf
  <2>2. \A k \in DOMAIN start : start[k] \in Nat
    BY <1>2 DEF Started
  <2>3. \A k : Due(k, 0) = IF k \in DOMAIN start THEN start[k] ELSE 0
    BY <1>2, DueAtFirst
  <2> QED
    BY <2>1, <2>2, <2>3
<1>7. \A k : GivenBy(k, {}, 0) = 0
  BY <1>1, <1>2, NoneAsked
<1>8. Balanced
  BY <1>3, <1>5, <1>6, <1>7 DEF Balanced
<1>9. Leads(frontier, 0)
  BY <1>2, <1>3, StartLeads
<1>10. Tally(reaching, Asked, 0)
  BY <1>4, <1>5 DEF Tally
<1>11. \A k \in Ids \ DOMAIN reaching : EnergyOf(k) <= Due(k, hop)
  BY <1>3, <1>6
<1>12. waiting \subseteq DOMAIN frontier
  BY <1>3, <1>4
<1> QED
  BY <1>2, <1>3, <1>4, <1>6, <1>8, <1>9, <1>10, <1>11, <1>12 DEF EnergyInv

LEMMA SameGiven ==
    ASSUME UNCHANGED <<graphVars, start>>
    PROVE  \A k, A, n : GivenBy(k, A, n)' = GivenBy(k, A, n)
<1>1. Arcs' = Arcs /\ \A arc, n : Best(arc, n)' = Best(arc, n)
  BY SameWalk
<1> QED
  BY <1>1 DEF GivenBy

\* Between two rounds nothing is asked, and what is held is due.
LEMMA BetweenRounds ==
    ASSUME GraphInit, UNCHANGED <<graphVars, start>>, NEW B, Started(B), NEW n \in Nat, hop' = n,
           Asked' = {}, reaching' = <<>>,
           \A k \in Ids : EnergyOf(k)' \in Nat /\ EnergyOf(k)' <= Due(k, n)
                          /\ (Thorough' => EnergyOf(k)' = Due(k, n))
    PROVE  /\ Tally(reaching, Asked, hop)' /\ Balanced'
           /\ \A k \in Ids \ DOMAIN reaching' : EnergyOf(k)' <= Due(k, hop)'
<1>1. \A k : GivenBy(k, {}, n) = 0 /\ Due(k, n) \in Nat
  BY NoneAsked, DueGrows
<1>2. \A k : GivenBy(k, Asked, hop)' = 0
  BY <1>1, SameGiven
<1>3. \A k : Due(k, hop)' = Due(k, n)
  BY SameWalk
<1>4. Balanced'
  BY <1>1, <1>2, <1>3 DEF Balanced
<1>5. Tally(reaching, Asked, hop)'
  BY DEF Tally
<1> QED
  BY <1>3, <1>4, <1>5

LEMMA HopBalances ==
    ASSUME GraphInit, EnergyInv, asked = "recall", ~ByMeaning,
           UNCHANGED <<graphVars, asked, nearbyVars>>, Hop
    PROVE  EnergyInv'
<1>1. PICK B : Started(B)
  BY DEF EnergyInv
<1>2. PICK n \in Nat : n = hop
  BY DEF EnergyInv
<1>3. start' = start /\ hop' = n + 1
  BY <1>2 DEF Hop
<1>4. Thorough /\ Thorough' /\ ~ByMeaning' /\ Leads(frontier, n)
  BY <1>2 DEF Thorough, ByMeaning, graphVars, EnergyInv
<1>5. /\ waiting = {} /\ reaching = <<>> /\ ~refused
      /\ waiting' = {} /\ reaching' = <<>> /\ ~refused' /\ Asked = {} /\ Asked' = {}
  BY DEF EnergyInv, nearbyVars, Asked
<1>6. Leads(frontier, n + 1)'
  BY <1>1, <1>4, HopLeads
<1>7. ASSUME NEW k \in Ids
      PROVE  EnergyOf(k)' \in Nat /\ EnergyOf(k)' = Due(k, n + 1)
  <2>1. EnergyOf(k) \in Nat
    BY DEF EnergyInv
  <2>2. EnergyOf(k) = Due(k, n) + GivenBy(k, {}, n)
    BY <1>2, <1>4, <1>5 DEF EnergyInv, Balanced
  <2>3. GivenBy(k, {}, n) = 0
    BY <1>1, NoneAsked
  <2>4. EnergyOf(k)' = EnergyOf(k) + Gains(k, n + 1)
    BY <1>1, <1>4, <2>1, HopGains
  <2>5. Due(k, n) \in Nat /\ Due(k, n + 1) = Due(k, n) + Gains(k, n + 1) /\ Gains(k, n + 1) \in Nat
    BY <1>1, DueGrows, GainsNatural
  <2> QED
    BY <2>2, <2>3, <2>4, <2>5
<1>8. PICK l \in Nat : l = n + 1
  OBVIOUS
<1>9. /\ Tally(reaching, Asked, hop)' /\ Balanced'
      /\ \A k \in Ids \ DOMAIN reaching' : EnergyOf(k)' <= Due(k, hop)'
  BY <1>1, <1>3, <1>5, <1>7, <1>8, BetweenRounds
<1>10. Leads(frontier, hop)'
  BY <1>3, <1>6, <1>8 DEF Leads
<1>11. Started(B)'
  BY <1>1, <1>3, SameWalk
<1> QED
  BY <1>3, <1>4, <1>5, <1>7, <1>8, <1>9, <1>10, <1>11 DEF EnergyInv

\* A query, and the end of the round if it is the last.
LEMMA AskBalances ==
    ASSUME GraphInit, EnergyInv, asked = "recall", ByMeaning,
           UNCHANGED <<graphVars, asked>>, NEW m \in Stored, Ask(m)
    PROVE  EnergyInv'
<1>1. PICK B : Started(B)
  BY DEF EnergyInv
<1>2. PICK n \in Nat : n = hop
  BY DEF EnergyInv
<1>3. /\ start' = start /\ left' = left /\ refused' = refused
      /\ m \in waiting \ left
  BY DEF Ask
<1>4. PICK H \in Neighbors(m) :
          /\ activation' = [k \in DOMAIN activation \cup Hits(m, H) |->
                              EnergyOf(k) + IF k \in Hits(m, H) THEN GainedFrom(m, k) ELSE 0]
          /\ IF waiting # {m}
             THEN /\ waiting' = waiting \ {m}
                  /\ reaching' = ReachedBy(m, H)
                  /\ UNCHANGED <<frontier, hop>>
             ELSE /\ waiting' = IF hop + 1 < Hops THEN DOMAIN ReachedBy(m, H) ELSE {}
                  /\ reaching' = <<>>
                  /\ frontier' = ReachedBy(m, H)
                  /\ hop' = hop + 1
  BY DEF Ask, ReachedBy
<1> DEFINE gain(k) == IF k \in Hits(m, H) THEN GainedFrom(m, k) ELSE 0
<1>5. /\ ~refused /\ waiting # {} /\ waiting \subseteq DOMAIN frontier /\ Leads(frontier, n)
      /\ \A k \in Ids : EnergyOf(k) \in Nat
      /\ Tally(reaching, Asked, n) /\ Balanced
      /\ \A k \in Ids \ DOMAIN reaching : EnergyOf(k) <= Due(k, n)
  BY <1>2, <1>3 DEF EnergyInv
<1>6. /\ m \in Stored \cap DOMAIN frontier /\ Asked = DOMAIN frontier \ waiting
      /\ Asked \in SUBSET DOMAIN frontier /\ m \notin Asked
  BY <1>3, <1>5 DEF Asked
<1>7. Tally(ReachedBy(m, H), Asked \cup {m}, n)
  BY <1>1, <1>5, <1>6, TallyGrows
<1>8. \A k : /\ gain(k) \in Nat
             /\ GivenBy(k, Asked, n) \in Nat /\ GivenBy(k, Asked \cup {m}, n) \in Nat
             /\ GivenBy(k, Asked, n) + gain(k) <= GivenBy(k, Asked \cup {m}, n)
             /\ Thorough => GivenBy(k, Asked \cup {m}, n) = GivenBy(k, Asked, n) + gain(k)
  BY <1>1, <1>5, <1>6, GivenGrows
<1>9. \A k : Due(k, n) \in Nat
  BY <1>1, DueGrows
<1>10. (Thorough' <=> Thorough) /\ ByMeaning'
  BY <1>3 DEF Thorough, ByMeaning, graphVars
<1>11. ASSUME NEW k \in Ids
       PROVE  /\ EnergyOf(k)' = EnergyOf(k) + gain(k) /\ EnergyOf(k)' \in Nat
              /\ EnergyOf(k)' <= Due(k, n) + GivenBy(k, Asked \cup {m}, n)
              /\ Thorough => EnergyOf(k)' = Due(k, n) + GivenBy(k, Asked \cup {m}, n)
  <2>1. EnergyOf(k)' = EnergyOf(k) + gain(k)
    <3>1. CASE k \in DOMAIN activation \cup Hits(m, H)
      BY <1>4, <3>1 DEF EnergyOf
    <3>2. CASE k \notin DOMAIN activation \cup Hits(m, H)
      BY <1>4, <3>2 DEF EnergyOf
    <3> QED
      BY <3>1, <3>2
  <2>2. /\ EnergyOf(k) \in Nat /\ EnergyOf(k) <= Due(k, n) + GivenBy(k, Asked, n)
        /\ Thorough => EnergyOf(k) = Due(k, n) + GivenBy(k, Asked, n)
    BY <1>2, <1>5 DEF Balanced
  <2>3. /\ gain(k) \in Nat /\ Due(k, n) \in Nat
        /\ GivenBy(k, Asked, n) \in Nat /\ GivenBy(k, Asked \cup {m}, n) \in Nat
        /\ GivenBy(k, Asked, n) + gain(k) <= GivenBy(k, Asked \cup {m}, n)
        /\ Thorough => GivenBy(k, Asked \cup {m}, n) = GivenBy(k, Asked, n) + gain(k)
    BY <1>8, <1>9
  <2> HIDE DEF gain
  <2> QED
    BY <2>1, <2>2, <2>3
<1>12. Started(B)' /\ \A k, l : Comes(l, k)' = Comes(l, k) /\ Due(k, l)' = Due(k, l)
  BY <1>1, <1>3, SameWalk
<1>13. CASE waiting # {m}
  <2>1. /\ waiting' = waiting \ {m} /\ reaching' = ReachedBy(m, H)
        /\ frontier' = frontier /\ hop' = n
    BY <1>2, <1>4, <1>13
  <2>2. waiting' # {} /\ Asked' = Asked \cup {m}
    BY <1>3, <1>6, <1>13, <2>1 DEF Asked
  <2>3. Leads(frontier, hop)'
    BY <1>5, <1>10, <1>12, <2>1 DEF Leads
  <2>4. Tally(reaching, Asked, hop)'
    <3>1. Arcs' = Arcs
      BY <1>3, SameWalk
    <3>2. \A arc : Gained(arc)' = Gained(arc)
      BY <2>1 DEF Gained
    <3> QED
      BY <1>7, <1>10, <1>12, <2>1, <2>2, <3>1, <3>2 DEF Tally
  <2>5. Balanced'
    <3>1. \A k : GivenBy(k, Asked, hop)' = GivenBy(k, Asked \cup {m}, n)
      BY <1>3, <2>1, <2>2, SameGiven
    <3> QED
      BY <1>10, <1>11, <1>12, <2>1, <3>1 DEF Balanced
  <2>6. ASSUME NEW k \in Ids \ DOMAIN reaching' PROVE EnergyOf(k)' <= Due(k, n)
    <3>1. k \notin DOMAIN reaching /\ gain(k) = 0
      BY <2>1 DEF ReachedBy
    <3>2. EnergyOf(k)' = EnergyOf(k) + gain(k) /\ EnergyOf(k) \in Nat /\ EnergyOf(k) <= Due(k, n)
      BY <1>5, <1>11, <3>1
    <3> QED
      BY <3>1, <3>2
  <2> QED
    BY <1>3, <1>5, <1>10, <1>11, <1>12, <2>1, <2>2, <2>3, <2>4, <2>5, <2>6 DEF EnergyInv
<1>14. CASE waiting = {m}
  <2>1. PICK l \in Nat : l = n + 1
    OBVIOUS
  <2>2. /\ waiting' \in {{}, DOMAIN frontier'} /\ reaching' = <<>>
        /\ frontier' = ReachedBy(m, H) /\ hop' = l
    BY <1>2, <1>4, <1>14, <2>1
  <2>3. Asked' = {} /\ Asked \cup {m} = DOMAIN frontier
    BY <1>6, <1>14, <2>2 DEF Asked
  <2>4. Leads(frontier, hop)'
    <3>1. Leads(ReachedBy(m, H), l)
      BY <1>1, <1>5, <1>7, <2>1, <2>3, RoundLeads
    <3> QED
      BY <1>10, <1>12, <2>2, <3>1 DEF Leads
  <2>5. ASSUME NEW k \in Ids
        PROVE  /\ EnergyOf(k)' \in Nat /\ EnergyOf(k)' <= Due(k, l)
               /\ Thorough' => EnergyOf(k)' = Due(k, l)
    <3>1. Due(k, l) = Due(k, n) + Gains(k, n + 1)
      BY <1>1, <2>1, DueGrows
    <3>2. /\ GivenBy(k, Asked \cup {m}, n) \in Nat /\ Gains(k, n + 1) \in Nat
          /\ GivenBy(k, Asked \cup {m}, n) <= Gains(k, n + 1)
          /\ Thorough => GivenBy(k, Asked \cup {m}, n) = Gains(k, n + 1)
      BY <1>1, <1>5, <2>3, AllGiven
    <3> QED
      BY <1>9, <1>10, <1>11, <3>1, <3>2
  <2>6. /\ Tally(reaching, Asked, hop)' /\ Balanced'
        /\ \A k \in Ids \ DOMAIN reaching' : EnergyOf(k)' <= Due(k, hop)'
    BY <1>1, <1>3, <2>2, <2>3, <2>5, BetweenRounds
  <2> QED
    BY <1>3, <1>5, <1>10, <1>12, <2>1, <2>2, <2>4, <2>5, <2>6 DEF EnergyInv
<1> QED
  BY <1>13, <1>14

\* A query for a memory that is gone ends the walk as it is, and a deletion leaves it
\* as it is; neither sees the whole store.
LEMMA LossBalances ==
    ASSUME GraphInit, EnergyInv, asked = "recall", ByMeaning,
           UNCHANGED <<graphVars, asked>>, NEW m \in Stored, Refuse(m) \/ Vanish(m)
    PROVE  EnergyInv'
<1>1. PICK B : Started(B)
  BY DEF EnergyInv
<1>2. /\ UNCHANGED <<walkVars, reaching>> /\ left' # {} /\ waiting' \in {waiting, {}}
      /\ ~refused => waiting # {} \/ reaching = <<>>
      /\ waiting # {}
      /\ (refused' /\ waiting' = {}) \/ (refused' = refused /\ waiting' = waiting /\ ~refused)
  BY DEF Refuse, Vanish, EnergyInv
<1>3. ~Thorough' /\ ByMeaning' /\ ~refused
  BY <1>2 DEF Thorough, ByMeaning, graphVars, EnergyInv
<1>4. /\ start' = start /\ frontier' = frontier /\ activation' = activation /\ hop' = hop
      /\ reaching' = reaching
  BY <1>2 DEF walkVars
<1>5. /\ Started(B)' /\ Arcs' = Arcs
      /\ \A k, l : Comes(l, k)' = Comes(l, k) /\ Due(k, l)' = Due(k, l)
  BY <1>1, <1>4, SameWalk
<1>6. \A k : EnergyOf(k)' = EnergyOf(k)
  BY <1>4 DEF EnergyOf
<1>7. Leads(frontier, hop)'
  BY <1>3, <1>4, <1>5 DEF Leads, EnergyInv
<1>8. ~refused' => Asked' = Asked
  BY <1>2, <1>4 DEF Asked
<1>9. ~refused' => Tally(reaching, Asked, hop)'
  BY <1>3, <1>4, <1>5 DEF Tally, EnergyInv
<1>10. ~refused' => Balanced'
  <2>1. \A k, A, l : GivenBy(k, A, l)' = GivenBy(k, A, l)
    BY <1>4, SameGiven
  <2> QED
    BY <1>3, <1>4, <1>5, <1>6, <1>8, <2>1 DEF Balanced, EnergyInv
<1> QED
  BY <1>2, <1>3, <1>4, <1>5, <1>6, <1>7, <1>9, <1>10 DEF EnergyInv

LEMMA StutterBalances == GraphInit /\ EnergyInv /\ asked = "recall" /\ UNCHANGED vars => EnergyInv'
<1> SUFFICES ASSUME GraphInit, EnergyInv, asked = "recall", UNCHANGED vars PROVE EnergyInv'
  OBVIOUS
<1>1. PICK B : Started(B)
  BY DEF EnergyInv
<1>2. UNCHANGED <<graphVars, start, frontier, activation, hop, nearbyVars, asked>>
  BY DEF vars, walkVars
<1>3. /\ Started(B)' /\ Arcs' = Arcs
      /\ \A k, l : Comes(l, k)' = Comes(l, k) /\ Due(k, l)' = Due(k, l)
  BY <1>1, <1>2, SameWalk
<1>4. \A k, A, l : GivenBy(k, A, l)' = GivenBy(k, A, l)
  BY <1>2, SameGiven
<1>5. /\ Asked' = Asked /\ (Thorough' <=> Thorough) /\ (ByMeaning' <=> ByMeaning)
      /\ \A k : EnergyOf(k)' = EnergyOf(k)
      /\ \A arc : Gained(arc)' = Gained(arc)
  BY <1>2 DEF Asked, Thorough, ByMeaning, EnergyOf, Gained, graphVars, nearbyVars
<1>6. UNCHANGED <<waiting, reaching, left, refused, frontier, hop>>
  BY <1>2 DEF nearbyVars
<1>7. Leads(frontier, hop)'
  BY <1>3, <1>5, <1>6 DEF Leads, EnergyInv
<1>8. ~refused => Tally(reaching, Asked, hop)' /\ Balanced'
  BY <1>3, <1>4, <1>5, <1>6 DEF Tally, Balanced, EnergyInv
<1> QED
  BY <1>2, <1>3, <1>5, <1>6, <1>7, <1>8 DEF EnergyInv

LEMMA BalancedIsBestWalks == GraphInit /\ EnergyInv => ActivationIsBestWalks
<1> SUFFICES ASSUME GraphInit, EnergyInv, asked = "recall", reaching = <<>>, NEW k \in Ids
             PROVE  EnergyOf(k) <= Due(k, hop) /\ (Thorough => EnergyOf(k) = Due(k, hop))
  BY DEF ActivationIsBestWalks
<1>1. EnergyOf(k) <= Due(k, hop)
  BY DEF EnergyInv
<1>2. ASSUME Thorough PROVE EnergyOf(k) = Due(k, hop)
  <2>1. PICK B : Started(B)
    BY DEF EnergyInv
  <2>2. PICK n \in Nat : n = hop
    BY DEF EnergyInv
  <2>3. \A arc \in Arcs : arc.from \notin Asked
    BY <1>2 DEF EnergyInv, Tally
  <2>4. GivenBy(k, Asked, n) = 0
    BY <2>1, <2>3, NothingGiven
  <2>5. EnergyOf(k) = Due(k, n) + GivenBy(k, Asked, n) /\ Due(k, n) \in Nat
    BY <1>2, <2>1, <2>2, DueGrows DEF EnergyInv, Balanced
  <2> QED
    BY <2>2, <2>4, <2>5
<1> QED
  BY <1>1, <1>2

\* At the end of every hop a memory holds what it began with and, for every link to it
\* and every number of hops, what the best walk over that link brings, for every graph,
\* number of hops and order of queries; with neighbours left out or memories deleted
\* under way it never holds more (spreading_activation, _activate_ann, neighbors).
THEOREM ActivationIsOfBestWalks == Spec => []ActivationIsBestWalks
<1>1. Init => EnergyInv
  BY EnergyBegins
<1>2. GraphInit /\ EnergyInv /\ [Next]_vars => EnergyInv'
  <2> SUFFICES ASSUME GraphInit, EnergyInv, [Next]_vars, asked' = "recall" PROVE EnergyInv'
    BY DEF EnergyInv
  <2>1. CASE Next
    <3>1. UNCHANGED <<graphVars, asked>> /\ asked = "recall" /\ Recall
      BY <2>1 DEF Next
    <3>2. CASE ByMeaning
      <4>1. PICK m \in Stored : Ask(m) \/ Refuse(m) \/ Vanish(m)
        BY <3>1, <3>2 DEF Recall
      <4> QED
        BY <3>1, <3>2, <4>1, AskBalances, LossBalances
    <3>3. CASE ~ByMeaning
      BY <3>1, <3>3, HopBalances DEF Recall
    <3> QED
      BY <3>2, <3>3
  <2>2. CASE UNCHANGED vars
    BY <2>2, StutterBalances DEF vars
  <2> QED
    BY <2>1, <2>2
<1> QED
  BY <1>1, <1>2, BalancedIsBestWalks, SnapshotStands, PTL DEF Spec

=============================================================================
