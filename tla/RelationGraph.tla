--------------------------- MODULE RelationGraph ---------------------------
(***************************************************************************)
(* What vector_semantics.py promises of a project's memories: each carries *)
(* facts, which are relations to other memories and notes, and every       *)
(* request acts on one memory at a time, as one step.  A memory that goes  *)
(* takes every relation to it along.  A request that writes from a stale   *)
(* read is the exception: it may lose facts or bring some back, of that    *)
(* one memory, but it never leaves it without anchors.                     *)
(***************************************************************************)
CONSTANTS Ids,
          Anchor        \* the note a memory is stored with: its target is no memory

VARIABLES
    memories,   \* the ids stored
    facts,      \* what each of them carries
    torn        \* those that some request is about to write from a stale read

SameKey(f, g) == f.target = g.target /\ f.type = g.type

Init == memories = {} /\ facts = [m \in Ids |-> {}]

Remember(m) ==
    /\ m \notin memories
    /\ memories' = memories \cup {m}
    /\ facts' = [facts EXCEPT ![m] = {Anchor}]

\* The memories go, with every relation from and to them.
Forget(gone) ==
    /\ memories' = memories \ gone
    /\ facts' = [m \in Ids |-> IF m \in gone THEN {} ELSE {f \in facts[m] : f.target \notin gone}]

\* What m carries may change, and nothing else.
Only(m) ==
    /\ m \in memories
    /\ UNCHANGED memories
    /\ facts' = [facts EXCEPT ![m] = facts'[m]]

\* Facts come, or say something else than before; none goes.
Declare(m) == Only(m) /\ \A f \in facts[m] : \E g \in facts'[m] : SameKey(f, g)

\* Relations go, to any memories; notes never do.
Retract(m) ==
    /\ Only(m)
    /\ facts'[m] \subseteq facts[m]
    /\ \A f \in facts[m] \ facts'[m] : f.target \in Ids

Tear(m) == m \in torn /\ Only(m) /\ \E f \in facts'[m] : SameKey(f, Anchor)

Next ==
    \/ \E m \in Ids : Remember(m) \/ Forget({m}) \/ Declare(m) \/ Retract(m) \/ Tear(m)
    \/ Forget(Ids)

Spec == Init /\ [][Next]_<<memories, facts>>
=============================================================================
