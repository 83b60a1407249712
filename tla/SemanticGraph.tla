--------------------------- MODULE SemanticGraph ---------------------------
(***************************************************************************)
(* The reading half of services/vector_semantics.py: the lenses, and the   *)
(* multigraph they make of the points of one scroll.                       *)
(*                                                                         *)
(* A reading request computes on one snapshot of the store, so the         *)
(* snapshot is a value chosen once.  Weights count halves; the temporal    *)
(* lens' floor of 1e-6 is the weight 0 of an edge that still conducts.     *)
(***************************************************************************)
EXTENDS Integers, FiniteSets

CONSTANTS
    Ids,            \* memory ids, numbered in scroll order
    Stored,         \* those of the points read; the others are gone, or beyond the scroll
    Types,          \* types of declared relations
    Declared,       \* what a memory may declare: sets of relations
    Scores,         \* cosines that occur, 0 for one below min_score
    Entities, Times, NoTime,
    Window,         \* DEFAULT_TIME_WINDOW_S
    Requests        \* sets of lenses asked for together; topical alone is _activate_ann's

Full == 2       \* a weight of 1.0

ASSUME IdsAssumption == Ids \subseteq Nat \ {0} /\ Stored \subseteq Ids /\ IsFiniteSet(Ids)
ASSUME EntitiesAssumption == IsFiniteSet(Entities)
ASSUME RequestsAssumption == Requests \subseteq SUBSET {"topical", "temporal", "entity", "declared"}
ASSUME TimesAssumption == Times \subseteq Nat /\ NoTime \notin Nat /\ Window \in Nat \ {0}
ASSUME ScoresAssumption == Scores \subseteq 0..Full
ASSUME DeclaredAssumption ==
    /\ IsFiniteSet(Types)
    /\ Declared \subseteq SUBSET [target : Ids, type : Types, directed : BOOLEAN,
                                  weight : 1..Full, live : BOOLEAN]

VARIABLES
    lenses,     \* the lenses requested
    score,      \* per pair of points
    stored_at, entities, relations      \* per point: its _semantics
graphVars == <<lenses, score, stored_at, entities, relations>>

Pairs == {p \in Stored \X Stored : p[1] < p[2]}

\* What the requested lenses do not look at is left blank.
GraphInit ==
    /\ lenses \in Requests
    /\ score \in [Pairs -> IF "topical" \in lenses THEN Scores ELSE {0}]
    /\ stored_at \in [Stored -> IF "temporal" \in lenses THEN Times \cup {NoTime} ELSE {NoTime}]
    /\ entities \in [Stored -> IF "entity" \in lenses THEN SUBSET Entities ELSE {{}}]
    /\ relations \in [Stored -> IF "declared" \in lenses THEN Declared ELSE {{}}]
    /\ \A m \in Stored : \A r \in relations[m] : r.target # m

Edge(source, target, layer, type, weight, directed) ==
    [source |-> source, target |-> target, type |-> <<layer, type>>, weight |-> weight,
     directed |-> directed]

TopicalLens ==
    {Edge(p[1], p[2], "topical", "topical", score[p], FALSE) : p \in {q \in Pairs : score[q] > 0}}

\* Faulty: of two memories stored at once neither comes first.
PrecedesStrictly(i, j) ==
    {stored_at[i], stored_at[j]} \subseteq Nat /\ stored_at[i] < stored_at[j]

\* Pairs in the order they were stored, and of the scroll where stored at once.
Precedes(i, j) ==
    /\ {stored_at[i], stored_at[j]} \subseteq Nat
    /\ stored_at[i] < stored_at[j] \/ (stored_at[i] = stored_at[j] /\ i < j)

\* 1 - gap / window, in halves.
Nearness(gap) == (Full * (Window - gap)) \div Window

TemporalLens ==
    {Edge(p[1], p[2], "temporal", "precedes", Nearness(stored_at[p[2]] - stored_at[p[1]]), TRUE) :
        p \in {q \in Stored \X Stored :
                 Precedes(q[1], q[2]) /\ stored_at[q[2]] - stored_at[q[1]] <= Window}}

EntityLens ==
    UNION {{Edge(p[1], p[2], "entity", entity, Full, FALSE) :
              p \in {q \in Pairs : entity \in entities[q[1]] \cap entities[q[2]]}} :
           entity \in Entities}

\* weight * confidence; an expired relation is skipped.
DeclaredLens ==
    UNION {{Edge(m, r.target, "declared", r.type, r.weight, r.directed) :
              r \in {s \in relations[m] : s.live}} :
           m \in Stored}

LensEdges(lens) ==
    CASE lens = "topical"  -> TopicalLens
      [] lens = "temporal" -> TemporalLens
      [] lens = "entity"   -> EntityLens
      [] lens = "declared" -> DeclaredLens

Edges == UNION {LensEdges(lens) : lens \in lenses}

(***************************************************************************)
(* What the properties compare with                                        *)
(***************************************************************************)
\* Memories linked, directly or transitively, by some of the edges: no set closed
\* under them holds one and not the other.
Connected(some, a, b) ==
    \A S \in SUBSET Stored :
        (\A e \in some : {e.source, e.target} \subseteq Stored => (e.source \in S <=> e.target \in S))
            => (a \in S <=> b \in S)

Concept(a) == {b \in Stored : Connected(Edges, a, b)}
=============================================================================
