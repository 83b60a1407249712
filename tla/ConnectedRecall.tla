-------------------------- MODULE ConnectedRecall --------------------------
(***************************************************************************)
(* spreading_activation: the walk over the multigraph behind               *)
(* recall_connected.  Energies are integers, in units small enough for the *)
(* last hop; layer_weights and limit are left at their defaults.           *)
(***************************************************************************)
EXTENDS SemanticGraph, FiniteSetsExt

CONSTANTS
    Hops,
    Seeds           \* where a walk may start: one id, or the hits of a text and their scores

ASSUME HopsAssumption == Hops \in Nat
ASSUME SeedsAssumption ==
    \A S \in Seeds : DOMAIN S \subseteq Ids /\ \A m \in DOMAIN S : S[m] \in 1..Full

VARIABLES
    start,          \* the energy a walk begins with
    frontier,       \* energy of the memories the last hop reached
    activation,     \* energy accumulated, by memory reached
    hop             \* hops made
walkVars == <<start, frontier, activation, hop>>

\* Fine enough for a quarter of a quarter at every hop.
Unit == 2^(2 * Hops)

\* The hits of a text come from a search of their own: one may be a memory that the
\* scroll did not reach or that was stored since.
WalkInit ==
    /\ \E S \in Seeds : start = [m \in DOMAIN S |-> S[m] * Unit]
    /\ frontier = start /\ activation = start
    /\ hop = 0

NoWalk == start = <<>> /\ frontier = <<>> /\ activation = <<>> /\ hop = 0

\* Faulty: every edge conducts both ways.
ArcsBothWays ==
    UNION {{[from |-> e.source, to |-> e.target, edge |-> e],
            [from |-> e.target, to |-> e.source, edge |-> e]} : e \in Edges}

\* The adjacency lists: an edge conducts forward, and back unless it is directed.
Arcs ==
    {[from |-> e.source, to |-> e.target, edge |-> e] : e \in Edges}
    \cup {[from |-> e.target, to |-> e.source, edge |-> e] : e \in {f \in Edges : ~f.directed}}

\* energy * weight * decay, with weights in halves and a decay of one half.
Gained(arc) == (frontier[arc.from] * arc.edge.weight) \div 4

Conducting == {arc \in Arcs : arc.from \in DOMAIN frontier}
Reached == {arc.to : arc \in Conducting}
Into(m) == {arc \in Conducting : arc.to = m}

EnergyOf(m) == IF m \in DOMAIN activation THEN activation[m] ELSE 0
Arrived(m) == SumFunction([arc \in Into(m) |-> Gained(arc)])

\* Faulty: the next hop starts from all that arrived.
HopOfSums ==
    /\ hop < Hops /\ frontier # <<>>
    /\ frontier' = [m \in Reached |-> Arrived(m)]
    /\ activation' = [m \in DOMAIN activation \cup Reached |-> EnergyOf(m) + Arrived(m)]
    /\ hop' = hop + 1
    /\ UNCHANGED start

\* One round of the loop: every memory of the frontier passes its energy on; the best
\* of what arrives goes on from there, all of it counts.
Hop ==
    /\ hop < Hops /\ frontier # <<>>
    /\ frontier' = [m \in Reached |-> Max({Gained(arc) : arc \in Into(m)})]
    /\ activation' = [m \in DOMAIN activation \cup Reached |-> EnergyOf(m) + Arrived(m)]
    /\ hop' = hop + 1
    /\ UNCHANGED start

Walked == hop = Hops \/ frontier = <<>>
=============================================================================
