----------------------------- MODULE Relations -----------------------------
(***************************************************************************)
(* Declared relations and annotations: the writing half of                 *)
(* services/vector_semantics.py, as the tools of mcp_server.py and         *)
(* memory.delete_memory call it, on the memories of one project.           *)
(*                                                                         *)
(* What a memory carries is one value in its Qdrant payload (_semantics),  *)
(* read whole, changed in Python and written back whole, by calls that run *)
(* in worker threads and share no lock.  An action is one call on Qdrant   *)
(* and the Python up to the next one; a request starts with its first.     *)
(* Meters and registry are MemoryStore's.                                  *)
(***************************************************************************)
EXTENDS Naturals, FiniteSets

CONSTANTS
    Threads,        \* calls in progress at once
    Ids, NoId,      \* point ids, each drawn once (uuid4); no point
    Types,          \* relation types
    MaxPoints,      \* DEFAULT_MAX_POINTS, the points a prune looks at
    Values, Stored, \* what an annotation may say; what a memory is stored with
    Batches,        \* what a client may ask to link or unlink: sets of items
    Annotations,    \* what a client may annotate a memory with: sets of notes
    MayFail         \* whether calls may fail or die half way

ASSUME IdsAssumption == NoId \notin Ids
ASSUME ValuesAssumption == Stored \in Values
ASSUME BoundsAssumption == MaxPoints \in Nat /\ MayFail \in BOOLEAN

VARIABLES
    points,     \* the ids in the collection
    fresh,      \* ids not drawn yet
    doc,        \* per point: the facts in its _semantics
    pc, job,    \* per call: the next call on Qdrant, and the locals
    disturbed   \* whether a call has failed, overlapped with another, or pruned in part

storeVars == <<points, fresh, doc>>
vars == <<storeVars, pc, job, disturbed>>

\* A fact is a relation or a note: what one key of _semantics says.  The anchors (owner,
\* stored_at) are the note a memory is stored with; entities stands for the other keys.
Edges == [target : Ids, type : Types]
Notes == [target : {NoId}, type : {"owner", "entities"}, value : Values]
Facts == Edges \cup Notes
Anchor == [target |-> NoId, type |-> "owner", value |-> Stored]

SameKey(f, g) == f.target = g.target /\ f.type = g.type
IsAnchor(f) == SameKey(f, Anchor)

Steps == {"idle", "read", "write", "drop", "scroll"}
Ops == {"none", "link", "unlink", "annotate", "delete"}

Items == [source : Ids, fact : Facts]

ASSUME BatchesAssumption == Batches \subseteq SUBSET [source : Ids, fact : Edges]

\* A dict has one value for each key; relations is no key of it, the anchors are.
ASSUME AnnotationsAssumption ==
    Annotations \subseteq {A \in SUBSET Notes : \A f, g \in A : SameKey(f, g) => f = g}

Docs == [source : Ids, facts : SUBSET Facts]

\* `batch' is what is still to be done, `seen' what has been read and is to be
\* written, `id' the memory a delete names.
NoJob == [op |-> "none", batch |-> {}, seen |-> {}, id |-> NoId]

TypeOK ==
    /\ points \subseteq Ids /\ fresh \subseteq Ids \ points
    /\ doc \in [Ids -> SUBSET Facts]
    /\ \A m \in Ids \ points : doc[m] = {}
    /\ pc \in [Threads -> Steps]
    /\ job \in [Threads -> [op : Ops, batch : SUBSET Items, seen : SUBSET Docs, id : Ids \cup {NoId}]]
    /\ disturbed \in BOOLEAN

Init ==
    /\ points = {} /\ fresh = Ids
    /\ doc = [m \in Ids |-> {}]
    /\ pc = [t \in Threads |-> "idle"]
    /\ job = [t \in Threads |-> NoJob]
    /\ disturbed = FALSE

Goto(t, step, j) ==
    /\ pc' = [pc EXCEPT ![t] = step]
    /\ job' = [job EXCEPT ![t] = j]

Finish(t) == Goto(t, "idle", NoJob)

\* On to the next write, the next source, or the answer.
Proceed(t, j) ==
    IF j.seen # {} THEN Goto(t, "write", j)
    ELSE IF j.batch # {} THEN Goto(t, "read", j) ELSE Finish(t)

Begins(t) ==
    /\ pc[t] = "idle"
    /\ disturbed' = (disturbed \/ \E u \in Threads \ {t} : pc[u] # "idle")
    /\ UNCHANGED storeVars

Goes(t, step) == pc[t] = step /\ UNCHANGED <<fresh, disturbed>>

(***************************************************************************)
(* upsert_relations, remove_relations, annotate_memory                     *)
(***************************************************************************)
\* Faulty: the existence check looks at the sources only.
ValidSource(item) ==
    /\ item.source # item.fact.target
    /\ item.source \in points

\* What passes validation, by one retrieve_points for all endpoints of the batch.
Valid(item) ==
    /\ item.source # item.fact.target
    /\ {item.source, item.fact.target} \subseteq points

\* link_memories: any relations, also of a memory to itself or to unknown ids.
Link(t) ==
    /\ Begins(t)
    /\ \E B \in Batches :
        Proceed(t, [NoJob EXCEPT !.op = "link", !.batch = {item \in B : Valid(item)}])

\* unlink_memories: any relations, there or not, of several memories and to several.  A
\* selector without a type names those of every type.
Unlink(t) ==
    /\ Begins(t)
    /\ \E B \in Batches : Proceed(t, [NoJob EXCEPT !.op = "unlink", !.batch = B])

\* annotate_memory reads the memory and refuses only the key relations.  Naming no key at
\* all, it still writes back what it read.
Annotate(t) ==
    /\ Begins(t)
    /\ \E m \in Ids, A \in Annotations :
        IF m \in points
        THEN Proceed(t, [NoJob EXCEPT !.op = "annotate",
                                      !.batch = {[source |-> m, fact |-> f] : f \in A},
                                      !.seen = {[source |-> m, facts |-> doc[m]]}])
        ELSE UNCHANGED <<pc, job>>

Asked(t, m) == {item.fact : item \in {i \in job[t].batch : i.source = m}}
Others(t, m) == {i \in job[t].batch : i.source # m}

\* What the call does not name.
Unnamed(t, m, old) == {f \in old : \A g \in Asked(t, m) : ~SameKey(f, g)}

\* Faulty: the relations written replace those the memory had.
RevisedReplacing(t, m, old) ==
    CASE job[t].op = "unlink" -> old \ Asked(t, m)
      [] job[t].op = "delete" -> {f \in old : f.target # job[t].id}
      [] OTHER                -> (Unnamed(t, m, old) \ Edges) \cup Asked(t, m)

\* Faulty: the value written holds what was asked for and the relations only.
RevisedAnew(t, m, old) ==
    CASE job[t].op = "unlink" -> old \ Asked(t, m)
      [] job[t].op = "delete" -> {f \in old : f.target # job[t].id}
      [] OTHER                -> (Unnamed(t, m, old) \cap Edges) \cup Asked(t, m)

\* The facts to write in place of those read.
Revised(t, m, old) ==
    CASE job[t].op = "unlink" -> old \ Asked(t, m)
      [] job[t].op = "delete" -> {f \in old : f.target # job[t].id}
      [] OTHER                -> Unnamed(t, m, old) \cup Asked(t, m)

\* _semantics_of one source.  Where the point is gone, upsert_relations goes on from an
\* empty document; remove_relations writes only a change.
Read(t) ==
    /\ Goes(t, "read")
    /\ \E item \in job[t].batch : LET m == item.source IN
        IF job[t].op = "unlink" => Revised(t, m, doc[m]) # doc[m]
        THEN Proceed(t, [job[t] EXCEPT !.seen = {[source |-> m, facts |-> doc[m]]}])
        ELSE Proceed(t, [job[t] EXCEPT !.batch = Others(t, m)])
    /\ UNCHANGED <<points, doc>>

\* Faulty: the value is written whether the point is there or not.
WriteBlindly(t) ==
    /\ Goes(t, "write")
    /\ \E d \in job[t].seen :
        /\ doc' = [doc EXCEPT ![d.source] = Revised(t, d.source, d.facts)]
        /\ Proceed(t, [job[t] EXCEPT !.batch = Others(t, d.source), !.seen = @ \ {d}])
    /\ UNCHANGED points

\* set_payload: nothing where the point is gone; an error if it goes between the
\* check inside and the write.
Write(t) ==
    /\ Goes(t, "write")
    /\ \E d \in job[t].seen :
        \/ /\ doc' = IF d.source \in points
                     THEN [doc EXCEPT ![d.source] = Revised(t, d.source, d.facts)] ELSE doc
           /\ Proceed(t, [job[t] EXCEPT !.batch = Others(t, d.source), !.seen = @ \ {d}])
        \/ d.source \notin points /\ Finish(t) /\ UNCHANGED doc
    /\ UNCHANGED points

(***************************************************************************)
(* delete_memory: the point, then the relations to it (prune_relations_to) *)
(***************************************************************************)
Delete(t) ==
    /\ Begins(t)
    /\ \E m \in points : Goto(t, "drop", [NoJob EXCEPT !.op = "delete", !.id = m])

Drop(t) ==
    /\ Goes(t, "drop")
    /\ points' = points \ {job[t].id}
    /\ doc' = [doc EXCEPT ![job[t].id] = {}]
    /\ Goto(t, "scroll", job[t])

\* The points of one bounded scroll, in the order of their random ids: any of them.
Windows ==
    {W \in SUBSET points :
        Cardinality(W) = IF Cardinality(points) < MaxPoints THEN Cardinality(points) ELSE MaxPoints}

HasRelationTo(m, target) == \E f \in doc[m] : f.target = target

\* scroll_points, and the points that hold a relation to the memory.
Scroll(t) ==
    /\ pc[t] = "scroll"
    /\ disturbed' = (disturbed \/ Cardinality(points) > MaxPoints)
    /\ \E W \in Windows :
        Proceed(t, [job[t] EXCEPT !.seen =
            {[source |-> m, facts |-> doc[m]] : m \in {w \in W : HasRelationTo(w, job[t].id)}}])
    /\ UNCHANGED storeVars

(***************************************************************************)
(* Everything else                                                         *)
(***************************************************************************)
\* store_memory: a new point, with its anchors (annotate_store_payload).
Remember(m) ==
    /\ m \in fresh
    /\ points' = points \cup {m}
    /\ fresh' = fresh \ {m}
    /\ doc' = [doc EXCEPT ![m] = {Anchor}]
    /\ UNCHANGED <<pc, job, disturbed>>

\* delete_collection.
DropCollection ==
    /\ points' = {}
    /\ doc' = [m \in Ids |-> {}]
    /\ UNCHANGED <<fresh, pc, job, disturbed>>

\* Qdrant refuses a call, or the process dies under it.
Fail(t) ==
    /\ MayFail /\ pc[t] # "idle"
    /\ Finish(t)
    /\ disturbed' = TRUE
    /\ UNCHANGED storeVars

Call(t) ==
    \/ Link(t) \/ Unlink(t) \/ Annotate(t) \/ Delete(t)
    \/ Read(t) \/ Write(t) \/ Drop(t) \/ Scroll(t)

Next ==
    \/ \E t \in Threads : Call(t) \/ Fail(t)
    \/ \E m \in Ids : Remember(m)
    \/ DropCollection

Spec == Init /\ [][Next]_vars

(***************************************************************************)
(* Properties                                                              *)
(***************************************************************************)
\* Relations as a reader that knows the points sees them.
Visible == [m \in Ids |-> {f \in doc[m] : f.target \in points \cup {NoId}}]

\* Memories that some call is about to write from a read that is no longer true.
Torn == {m \in Ids : \E t \in Threads : \E d \in job[t].seen : d.source = m /\ d.facts # doc[m]}

Graph == INSTANCE RelationGraph WITH memories <- points, facts <- Visible, torn <- Torn

\* Links, unlinks, annotations and deletes act as one step per memory, also where
\* they fail half way; only a write from a stale read loses or revives a fact
\* (upsert_relations, remove_relations, annotate_memory, prune_relations_to).
KeepsGraph == Graph!Spec

\* What the calls that are about to write m ask for or have read.
Brought(m) ==
    UNION {Asked(t, m) \cup UNION {d.facts : d \in {e \in job[t].seen : e.source = m}} :
              t \in {u \in Threads : pc[u] = "write"}}

\* Whatever rewrites a memory's value leaves it saying once who owns it and when it was
\* stored, in whatever order calls overlap or die; and that only becomes what an
\* annotation names, or, by a write from a stale read, what it once was
\* (annotate_store_payload; annotate_memory takes any key but relations).
AnchorIsKept ==
    [][\A m \in points' : doc'[m] # doc[m] =>
        \E f \in doc'[m] :
            /\ \A g \in doc'[m] : IsAnchor(g) <=> g = f
            /\ m \in points => f \in doc[m] \cup Brought(m)]_vars

Quiet == \A t \in Threads : pc[t] = "idle"
Ghosts == {m \in Ids : \E f \in doc[m] : f.target \notin points \cup {NoId}}

\* Between calls no relation leads to a memory that is gone, unless calls have
\* overlapped or failed, or a delete met more points than a prune looks at
\* (delete_memory, prune_relations_to).
GhostsNeedOverlap == Quiet /\ ~disturbed => Ghosts = {}
=============================================================================
