--------------------------- MODULE NeighbourWalk ---------------------------
(***************************************************************************)
(* _activate_ann: the walk of a recall by meaning alone.  It asks Qdrant   *)
(* for the neighbours of one memory after another and never scrolls, so it *)
(* sees no snapshot: a memory may be deleted between two of its queries.   *)
(* An action is one query and the Python up to the next.                   *)
(***************************************************************************)
EXTENDS ConnectedRecall

CONSTANT Fanout         \* fanout

ASSUME FanoutAssumption == Fanout \in Nat

VARIABLES
    waiting,    \* memories of the frontier whose neighbours have not been asked for
    reaching,   \* next_frontier
    left,       \* memories deleted since the walk began
    refused     \* a query named a memory that is gone, and raised
nearbyVars == <<waiting, reaching, left, refused>>

\* It begins with points of the live store: the one retrieved, or those of a search.
NearbyInit ==
    /\ WalkInit /\ DOMAIN start \subseteq Stored
    /\ waiting = IF Hops > 0 THEN DOMAIN start ELSE {}    \* range(0) asks for nothing
    /\ reaching = <<>> /\ left = {} /\ refused = FALSE

NotNearby == waiting = {} /\ reaching = <<>> /\ left = {} /\ refused = FALSE

\* The cosine of two points; of a point with itself it is 1.
Closeness(a, b) == IF a = b THEN Full ELSE score[IF a < b THEN <<a, b>> ELSE <<b, a>>]

\* The k points closest to m, of equally close ones any.
Closest(m, k) ==
    LET points == Stored \ left IN
    {H \in SUBSET points :
        /\ Cardinality(H) = Min({k, Cardinality(points)})
        /\ \A h \in H, p \in points \ H : Closeness(m, h) >= Closeness(m, p)}

\* Faulty: no room is left for the memory itself.
NeighborsCountingSelf(m) == Closest(m, Fanout)

\* neighbors asks for one more, as a point is its own first neighbour.
Neighbors(m) == Closest(m, Fanout + 1)

\* What is kept of the neighbours, and the energy each gains.
Hits(m, H) == {h \in H \ {m} : Closeness(m, h) > 0}
GainedFrom(m, h) == (frontier[m] * Closeness(m, h)) \div 4

Ask(m) ==
    /\ m \in waiting \ left
    /\ \E H \in Neighbors(m) :
        LET hits == Hits(m, H)
            reached == [n \in DOMAIN reaching \cup hits |->
                          Max({GainedFrom(m, h) : h \in hits \cap {n}}
                              \cup {reaching[r] : r \in DOMAIN reaching \cap {n}})]
        IN  /\ activation' = [n \in DOMAIN activation \cup hits |->
                                EnergyOf(n) + IF n \in hits THEN GainedFrom(m, n) ELSE 0]
            /\ IF waiting # {m}
               THEN /\ waiting' = waiting \ {m}
                    /\ reaching' = reached
                    /\ UNCHANGED <<frontier, hop>>
               ELSE \* the round is over, the next begins with what it reached
                    /\ waiting' = IF hop + 1 < Hops THEN DOMAIN reached ELSE {}
                    /\ reaching' = <<>>
                    /\ frontier' = reached
                    /\ hop' = hop + 1
    /\ UNCHANGED <<start, left, refused>>

\* Qdrant knows no such point: the error ends the request.
Refuse(m) ==
    /\ m \in waiting \cap left
    /\ refused' = TRUE
    /\ waiting' = {}
    /\ UNCHANGED <<walkVars, reaching, left>>

\* delete_memory by another call.
Vanish(m) ==
    /\ waiting # {}
    /\ m \in Stored \ left
    /\ left' = left \cup {m}
    /\ UNCHANGED <<walkVars, waiting, reaching, refused>>
=============================================================================
