--------------------------- MODULE SemanticReads ---------------------------
(***************************************************************************)
(* A reading request of vector_semantics: an associative recall, over a    *)
(* snapshot of the store (ConnectedRecall) or, by meaning alone, over the  *)
(* live store (NeighbourWalk); or the concepts of a snapshot (Concepts).   *)
(***************************************************************************)
EXTENDS NeighbourWalk, Concepts

VARIABLE asked          \* what was asked for
vars == <<graphVars, walkVars, nearbyVars, conceptVars, asked>>

ByMeaning == lenses = {"topical"}

Init ==
    /\ GraphInit
    /\ \/ asked = "recall" /\ ~ByMeaning /\ WalkInit /\ NotNearby /\ NoClusters
       \/ asked = "recall" /\ ByMeaning /\ NearbyInit /\ NoClusters
       \/ asked = "concepts" /\ NoWalk /\ NotNearby /\ ConceptInit

Recall ==
    IF ByMeaning
    THEN \E m \in Stored : Ask(m) \/ Refuse(m) \/ Vanish(m)
    ELSE Hop /\ UNCHANGED nearbyVars

Next ==
    /\ \/ asked = "recall" /\ Recall /\ UNCHANGED conceptVars
       \/ /\ asked = "concepts" /\ UNCHANGED <<walkVars, nearbyVars>>
          /\ Take \/ Halve \/ FoundSource \/ Link \/ Group
    /\ UNCHANGED <<graphVars, asked>>

\* A request computes until it is done.
Spec == Init /\ [][Next]_vars /\ WF_vars(Next)

(***************************************************************************)
(* Properties                                                              *)
(***************************************************************************)
\* Walks of n links, and the energy that arrives along one.
Trails(n) ==
    {w \in [1..n -> Arcs] :
        /\ w[1].from \in DOMAIN start
        /\ \A i \in 1..n - 1 : w[i].to = w[i + 1].from}

Arriving(w, n) ==
    LET after[i \in 0..n] ==
            IF i = 0 THEN start[w[1].from] ELSE (after[i - 1] * w[i].edge.weight) \div 4
    IN  after[n]

\* The best of those over one arc, and what all that lead to m come to.
Best(arc, n) == Max({Arriving(w, n) : w \in {v \in Trails(n) : v[n] = arc}} \cup {0})
Gains(m, n) == SumFunction([arc \in {a \in Arcs : a.to = m} |-> Best(arc, n)])
Due(m, n) ==
    (IF m \in DOMAIN start THEN start[m] ELSE 0) + SumFunction([i \in 1..n |-> Gains(m, i)])

\* A walk that sees the whole store: over a snapshot, or asking for enough
\* neighbours while nothing is deleted.
Thorough == ~ByMeaning \/ (left = {} /\ Fanout + 1 >= Cardinality(Stored))

\* What a memory ends up with is what it began with and, for every link that leads
\* to it and every number of hops, the best walk over that link; if neighbours are
\* left out or memories deleted under way, no more than that (spreading_activation,
\* _activate_ann, neighbors).
ActivationIsBestWalks ==
    asked = "recall" /\ reaching = <<>> =>
        \A m \in Ids : EnergyOf(m) <= Due(m, hop) /\ (Thorough => EnergyOf(m) = Due(m, hop))

\* The relations in force that lead to none of the points read.
Dangling == {r \in UNION {relations[m] : m \in Stored} : r.live /\ r.target \notin Stored}

\* A walk lists, besides memories of the concepts it began in, only what the points read
\* do not have: hits of its text, and targets of relations in force.  It leaves those
\* concepts, or goes anywhere from such a hit, only if a relation of that kind conducts
\* back (declared_lens, spreading_activation, concept_clusters).
RecallStaysInConcept ==
    asked = "recall" =>
        /\ DOMAIN activation \subseteq Stored \cup {r.target : r \in Dangling} \cup DOMAIN start
        /\ (\A r \in Dangling : r.directed)
               => DOMAIN activation \cap Stored \subseteq UNION {Concept(m) : m \in DOMAIN start}

\* The concepts are the connected components of the graph, from min_size up, in
\* whatever order the edges come (concept_clusters).
ConceptsAreComponents ==
    asked = "concepts" /\ Clustered
        => Clusters = {C \in {Concept(m) : m \in Stored} : Cardinality(C) >= MinSize}

\* No memory was stored between the two for longer than the window.
Unbroken(a, b) ==
    \A cut \in stored_at[a]..stored_at[b] - 1 :
        \E c, d \in {stored_at[m] : m \in Stored} \ {NoTime} :
            c <= cut /\ cut < d /\ d - c <= Window

\* Memories stored in one session are one concept, one that was stored at a time
\* just at the window's end included, and nothing but their order of storing is
\* needed for it; where no other lens links anything, sessions are the concepts
\* (temporal_lens, concept_clusters).
SessionIsOneConcept ==
    asked = "concepts" /\ Clustered /\ "temporal" \in lenses
        => \A a, b \in {m \in Stored : stored_at[m] # NoTime} :
            /\ stored_at[a] <= stored_at[b] /\ Unbroken(a, b) => groups[a] = groups[b]
            /\ Edges = TemporalLens /\ groups[a] = groups[b] => Unbroken(a, b)

\* Every request ends: no find goes round in a circle (concept_clusters).
RequestEnds == <>(IF asked = "recall" THEN Walked \/ refused ELSE Clustered)
=============================================================================
