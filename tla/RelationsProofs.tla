-------------------------- MODULE RelationsProofs --------------------------
(***************************************************************************)
(* Relations for any memories, relation types, calls, failures and scan    *)
(* windows: the anchors survive any overlapping rewrites, the calls        *)
(* implement RelationGraph, and an undisturbed store has no ghosts.        *)
(*                                                                         *)
(* Anchors: a memory is born with its anchors, and what a call writes is   *)
(* made from what it has read: so every value read of a memory that still  *)
(* exists has them, those of its birth or those an annotation named.  A    *)
(* value read of a memory that is gone may be empty, but an id is drawn    *)
(* once, and nothing is written to a point that is not there.              *)
(* Graph: no document, read or batch mentions an id not drawn yet, and a   *)
(* write of a current read adds, restates or takes away facts of one       *)
(* memory, never a note.                                                   *)
(* Ghosts: while nothing has been disturbed one call at most is under way, *)
(* and what it has read is what is there.                                  *)
(***************************************************************************)
EXTENDS Relations, FiniteSetTheorems, TLAPS

USE IdsAssumption, BoundsAssumption

\* A document that says once, and no more, who owns the memory.
Anchored(F) == \E f \in F : \A g \in F : IsAnchor(g) <=> g = f

\* Nothing a call takes away is an anchor, what it asks for names at most one, and a
\* document read without one is of a memory that is gone for good.
JobInv(j, P, F) ==
    /\ j.op \in {"link", "unlink"} => j.batch \subseteq [source : Ids, fact : Edges]
    /\ j.op = "delete" => j.id \in Ids
    /\ j.op # "unlink" => \A item \in j.batch : item.source \notin F
    /\ \A i, k \in j.batch : IsAnchor(i.fact) /\ IsAnchor(k.fact) => i.fact = k.fact
    /\ \A d \in j.seen : Anchored(d.facts) \/ d.source \notin P \cup F

AnchorInv ==
    /\ \A m \in points : Anchored(doc[m])
    /\ \A t \in Threads : JobInv(job[t], points, fresh)

LEMMA AnchorKey == \A f : IsAnchor(f) <=> f.target = NoId /\ f.type = "owner"
  BY DEF IsAnchor, SameKey, Anchor

LEMMA AnchorIsFact == Anchor \in Facts /\ IsAnchor(Anchor) /\ Anchored({Anchor})
  BY ValuesAssumption DEF Anchor, Facts, Notes, IsAnchor, SameKey, Anchored

LEMMA AnchorIsNoEdge == \A f \in Edges : ~IsAnchor(f)
  BY AnchorKey DEF Edges

\* What a client asks to link or unlink, and what it annotates a memory with.
LEMMA BatchItems ==
    ASSUME NEW B \in Batches
    PROVE  B \subseteq [source : Ids, fact : Edges] /\ B \in SUBSET Items
  BY BatchesAssumption DEF Items, Facts

LEMMA AnnotationItems ==
    ASSUME NEW m \in Ids, NEW A \in Annotations, NEW B, B = {[source |-> m, fact |-> f] : f \in A}
    PROVE  /\ B \in SUBSET Items
           /\ \A item \in B : item.fact.target = NoId
           /\ \A i, k \in B : IsAnchor(i.fact) /\ IsAnchor(k.fact) => i.fact = k.fact
<1>1. A \in SUBSET Notes /\ \A f, g \in A : SameKey(f, g) => f = g
  BY AnnotationsAssumption
<1>2. \A item \in B : item \in [source : {m}, fact : A]
  OBVIOUS
<1>3. B \in SUBSET Items
  BY <1>1, <1>2 DEF Items, Facts
<1>4. \A item \in B : item.fact.target = NoId
  BY <1>1, <1>2 DEF Notes
<1>5. ASSUME NEW i \in B, NEW k \in B, IsAnchor(i.fact), IsAnchor(k.fact) PROVE i.fact = k.fact
  <2>1. SameKey(i.fact, k.fact) /\ i.fact \in A /\ k.fact \in A
    BY <1>2, <1>5, AnchorKey DEF SameKey
  <2> QED
    BY <1>1, <2>1
<1> QED
  BY <1>3, <1>4, <1>5

LEMMA AskedFacts == ASSUME TypeOK, NEW t \in Threads, NEW m PROVE Asked(t, m) \subseteq Facts
  BY DEF TypeOK, Asked, Items

\* What Revised makes of a document is a document.
LEMMA RevisedTypes ==
    ASSUME TypeOK, NEW t \in Threads, NEW m \in Ids, NEW old \in SUBSET Facts
    PROVE  Revised(t, m, old) \in SUBSET Facts
<1>1. CASE job[t].op \in {"unlink", "delete"}
  BY <1>1 DEF Revised
<1>2. CASE job[t].op \notin {"unlink", "delete"}
  BY <1>2, AskedFacts DEF Revised, Unnamed
<1> QED
  BY <1>1, <1>2

\* It keeps the anchors that were in it, or has those that were asked for.
LEMMA RevisedKeeps ==
    ASSUME NEW t \in Threads, NEW m \in Ids, NEW old, Anchored(old),
           JobInv(job[t], points, fresh)
    PROVE  \E f \in Revised(t, m, old) :
              /\ \A g \in Revised(t, m, old) : IsAnchor(g) <=> g = f
              /\ f \in old \cup Asked(t, m)
<1>1. PICK a \in old : \A g \in old : IsAnchor(g) <=> g = a
  BY DEF Anchored
<1>2. CASE job[t].op = "unlink"
  <2>1. Revised(t, m, old) = old \ Asked(t, m)
    BY <1>2 DEF Revised
  <2>2. a \notin Asked(t, m)
    BY <1>1, <1>2, AnchorIsNoEdge DEF JobInv, Asked
  <2> QED
    BY <1>1, <2>1, <2>2
<1>3. CASE job[t].op = "delete"
  <2>1. Revised(t, m, old) = {f \in old : f.target # job[t].id}
    BY <1>3 DEF Revised
  <2>2. a.target # job[t].id
    BY <1>1, <1>3, AnchorKey DEF JobInv
  <2> QED
    BY <1>1, <2>1, <2>2
<1>4. CASE job[t].op \notin {"unlink", "delete"}
  <2>1. Revised(t, m, old) = Unnamed(t, m, old) \cup Asked(t, m)
    BY <1>4 DEF Revised
  <2>2. \A f, g \in Asked(t, m) : IsAnchor(f) /\ IsAnchor(g) => f = g
    BY DEF Asked, JobInv
  <2>3. CASE \E f \in Asked(t, m) : IsAnchor(f)
    <3>1. PICK f \in Asked(t, m) : IsAnchor(f)
      BY <2>3
    <3>2. \A g \in Unnamed(t, m, old) : ~IsAnchor(g)
      BY <3>1, AnchorKey DEF Unnamed, SameKey
    <3> QED
      BY <2>1, <2>2, <3>1, <3>2
  <2>4. CASE \A f \in Asked(t, m) : ~IsAnchor(f)
    <3>1. a \in Unnamed(t, m, old)
      BY <1>1, <2>4, AnchorKey DEF Unnamed, SameKey
    <3>2. Unnamed(t, m, old) \subseteq old
      BY DEF Unnamed
    <3> QED
      BY <1>1, <2>1, <2>4, <3>1, <3>2
  <2> QED
    BY <2>3, <2>4
<1> QED
  BY <1>2, <1>3, <1>4

Jobs == [op : Ops, batch : SUBSET Items, seen : SUBSET Docs, id : Ids \cup {NoId}]

\* A call that goes on, or ends, with a well-formed job has one.
LEMMA GotoTypes ==
    ASSUME TypeOK, NEW t \in Threads, NEW step \in Steps, NEW j \in Jobs, Goto(t, step, j)
    PROVE  pc' \in [Threads -> Steps] /\ job' \in [Threads -> Jobs]
BY DEF TypeOK, Goto, Jobs

LEMMA NoJobIsJob == NoJob \in Jobs
  BY DEF NoJob, Jobs, Ops

LEMMA ProceedTypes ==
    ASSUME TypeOK, NEW t \in Threads, NEW j \in Jobs, Proceed(t, j)
    PROVE  pc' \in [Threads -> Steps] /\ job' \in [Threads -> Jobs]
BY GotoTypes, NoJobIsJob DEF Proceed, Finish, Steps

LEMMA FinishTypes ==
    ASSUME TypeOK, NEW t \in Threads, Finish(t)
    PROVE  pc' \in [Threads -> Steps] /\ job' \in [Threads -> Jobs]
BY GotoTypes, NoJobIsJob DEF Finish, Steps

\* Every step keeps the types.
LEMMA TypeStep == TypeOK /\ [Next]_vars => TypeOK'
<1> SUFFICES ASSUME TypeOK, [Next]_vars PROVE TypeOK'
  OBVIOUS
<1>0. TypeOK' <=> /\ points' \subseteq Ids /\ fresh' \subseteq Ids \ points'
                  /\ doc' \in [Ids -> SUBSET Facts]
                  /\ \A m \in Ids \ points' : doc'[m] = {}
                  /\ pc' \in [Threads -> Steps]
                  /\ job' \in [Threads -> Jobs]
                  /\ disturbed' \in BOOLEAN
  BY DEF TypeOK, Jobs
<1>1. ASSUME NEW t \in Threads, Begins(t), pc' \in [Threads -> Steps] /\ job' \in [Threads -> Jobs]
      PROVE  TypeOK'
  BY <1>0, <1>1 DEF TypeOK, Begins, storeVars
<1>2. ASSUME NEW t \in Threads, Link(t) PROVE TypeOK'
  <2>1. PICK B \in Batches :
          Proceed(t, [NoJob EXCEPT !.op = "link", !.batch = {item \in B : Valid(item)}])
    BY <1>2 DEF Link
  <2>2. B \in SUBSET Items
    BY BatchItems
  <2>3. [NoJob EXCEPT !.op = "link", !.batch = {item \in B : Valid(item)}] \in Jobs
    <3>1. {item \in B : Valid(item)} \in SUBSET Items
      BY <2>2
    <3> QED
      BY <3>1 DEF NoJob, Jobs, Ops
  <2> QED
    BY <1>1, <1>2, <2>1, <2>3, ProceedTypes DEF Link
<1>3. ASSUME NEW t \in Threads, Unlink(t) PROVE TypeOK'
  <2>1. PICK B \in Batches : Proceed(t, [NoJob EXCEPT !.op = "unlink", !.batch = B])
    BY <1>3 DEF Unlink
  <2>2. B \in SUBSET Items
    BY BatchItems
  <2>3. [NoJob EXCEPT !.op = "unlink", !.batch = B] \in Jobs
    BY <2>2 DEF NoJob, Jobs, Ops
  <2> QED
    BY <1>1, <1>3, <2>1, <2>3, ProceedTypes DEF Unlink
<1>4. ASSUME NEW t \in Threads, Annotate(t) PROVE TypeOK'
  <2>1. PICK m \in Ids, A \in Annotations :
          IF m \in points
          THEN Proceed(t, [NoJob EXCEPT !.op = "annotate",
                                        !.batch = {[source |-> m, fact |-> f] : f \in A},
                                        !.seen = {[source |-> m, facts |-> doc[m]]}])
          ELSE UNCHANGED <<pc, job>>
    BY <1>4 DEF Annotate
  <2>2. [NoJob EXCEPT !.op = "annotate",
                      !.batch = {[source |-> m, fact |-> f] : f \in A},
                      !.seen = {[source |-> m, facts |-> doc[m]]}] \in Jobs
    <3>1. {[source |-> m, fact |-> f] : f \in A} \in SUBSET Items
      BY AnnotationItems
    <3>2. {[source |-> m, facts |-> doc[m]]} \in SUBSET Docs
      BY DEF TypeOK, Docs
    <3> QED
      BY <3>1, <3>2 DEF NoJob, Jobs, Ops
  <2>3. pc' \in [Threads -> Steps] /\ job' \in [Threads -> Jobs]
    BY <2>1, <2>2, ProceedTypes DEF TypeOK, Jobs
  <2> QED
    BY <1>1, <1>4, <2>3 DEF Annotate
<1>5. ASSUME NEW t \in Threads, Delete(t) PROVE TypeOK'
  <2>1. PICK m \in points : Goto(t, "drop", [NoJob EXCEPT !.op = "delete", !.id = m])
    BY <1>5 DEF Delete
  <2>2. [NoJob EXCEPT !.op = "delete", !.id = m] \in Jobs
    BY DEF NoJob, Jobs, Ops, TypeOK
  <2> QED
    BY <1>1, <1>5, <2>1, <2>2, GotoTypes DEF Delete, Steps
<1>6. ASSUME NEW t \in Threads, Read(t) PROVE TypeOK'
  <2>1. PICK item \in job[t].batch :
          \/ Proceed(t, [job[t] EXCEPT !.seen = {[source |-> item.source, facts |-> doc[item.source]]}])
          \/ Proceed(t, [job[t] EXCEPT !.batch = Others(t, item.source)])
    BY <1>6 DEF Read
  <2>2. job[t] \in Jobs /\ item \in Items /\ Others(t, item.source) \subseteq Items
    BY DEF TypeOK, Jobs, Others
  <2>3. [source |-> item.source, facts |-> doc[item.source]] \in Docs
    BY <2>2 DEF TypeOK, Docs, Items
  <2>4. [job[t] EXCEPT !.seen = {[source |-> item.source, facts |-> doc[item.source]]}] \in Jobs
    BY <2>2, <2>3 DEF Jobs
  <2>5. [job[t] EXCEPT !.batch = Others(t, item.source)] \in Jobs
    BY <2>2 DEF Jobs
  <2>6. pc' \in [Threads -> Steps] /\ job' \in [Threads -> Jobs]
    BY <2>1, <2>4, <2>5, ProceedTypes
  <2> QED
    BY <1>0, <1>6, <2>6 DEF TypeOK, Read, Goes
<1>7. ASSUME NEW t \in Threads, Write(t) PROVE TypeOK'
  <2>1. PICK d \in job[t].seen :
          \/ /\ doc' = IF d.source \in points
                       THEN [doc EXCEPT ![d.source] = Revised(t, d.source, d.facts)] ELSE doc
             /\ Proceed(t, [job[t] EXCEPT !.batch = Others(t, d.source), !.seen = @ \ {d}])
          \/ Finish(t) /\ UNCHANGED doc
    BY <1>7 DEF Write
  <2>2. job[t] \in Jobs /\ d \in Docs /\ Others(t, d.source) \subseteq Items
    BY DEF TypeOK, Jobs, Others
  <2>3. [job[t] EXCEPT !.batch = Others(t, d.source), !.seen = @ \ {d}] \in Jobs
    BY <2>2 DEF Jobs
  <2>4. pc' \in [Threads -> Steps] /\ job' \in [Threads -> Jobs]
    BY <2>1, <2>3, ProceedTypes, FinishTypes
  <2>5. Revised(t, d.source, d.facts) \in SUBSET Facts
    BY <2>2, RevisedTypes DEF Docs
  <2>6. doc' \in [Ids -> SUBSET Facts] /\ \A m \in Ids \ points : doc'[m] = {}
    BY <2>1, <2>5 DEF TypeOK
  <2> QED
    BY <1>0, <1>7, <2>4, <2>6 DEF TypeOK, Write, Goes
<1>8. ASSUME NEW t \in Threads, Drop(t) PROVE TypeOK'
  <2>1. pc' \in [Threads -> Steps] /\ job' \in [Threads -> Jobs]
    BY <1>8, GotoTypes DEF Drop, TypeOK, Jobs, Steps
  <2> QED
    BY <1>0, <1>8, <2>1 DEF TypeOK, Drop, Goes
<1>9. ASSUME NEW t \in Threads, Scroll(t) PROVE TypeOK'
  <2>1. PICK W \in Windows :
          Proceed(t, [job[t] EXCEPT !.seen =
            {[source |-> m, facts |-> doc[m]] : m \in {w \in W : HasRelationTo(w, job[t].id)}}])
    BY <1>9 DEF Scroll
  <2>2. {[source |-> m, facts |-> doc[m]] : m \in {w \in W : HasRelationTo(w, job[t].id)}} \subseteq Docs
    BY DEF Windows, TypeOK, Docs
  <2>3. [job[t] EXCEPT !.seen =
            {[source |-> m, facts |-> doc[m]] : m \in {w \in W : HasRelationTo(w, job[t].id)}}] \in Jobs
    BY <2>2 DEF TypeOK, Jobs
  <2>4. pc' \in [Threads -> Steps] /\ job' \in [Threads -> Jobs]
    BY <2>1, <2>3, ProceedTypes
  <2> QED
    BY <1>0, <1>9, <2>4 DEF TypeOK, Scroll, storeVars
<1>10. ASSUME NEW t \in Threads, Fail(t) PROVE TypeOK'
  BY <1>0, <1>10, FinishTypes DEF TypeOK, Fail, storeVars
<1>11. ASSUME NEW m \in Ids, Remember(m) PROVE TypeOK'
  BY <1>11, AnchorIsFact DEF TypeOK, Remember
<1>12. CASE DropCollection
  BY <1>12 DEF TypeOK, DropCollection
<1>13. CASE UNCHANGED vars
  BY <1>13 DEF TypeOK, vars, storeVars
<1> QED
  BY <1>2, <1>3, <1>4, <1>5, <1>6, <1>7, <1>8, <1>9, <1>10, <1>11, <1>12, <1>13 DEF Next, Call

\* Points, documents and the jobs of the calls keep their types.
THEOREM TypeCorrect == Spec => []TypeOK
<1>1. Init => TypeOK
  BY NoJobIsJob DEF Init, TypeOK, Steps, Jobs
<1> QED
  BY <1>1, TypeStep, PTL DEF Spec

\* A job that a call goes on with, or the absence of one, is as good as it was.
LEMMA ProceedJobs ==
    ASSUME TypeOK, NEW t \in Threads, NEW j, NEW P, NEW F, JobInv(j, P, F), Proceed(t, j),
           \A u \in Threads \ {t} : JobInv(job[u], P, F)
    PROVE  \A u \in Threads : JobInv(job'[u], P, F)
<1>1. JobInv(NoJob, P, F)
  BY DEF JobInv, NoJob
<1>2. job' = [job EXCEPT ![t] = j] \/ job' = [job EXCEPT ![t] = NoJob]
  BY DEF Proceed, Goto, Finish
<1>3. job \in [Threads -> Jobs]
  BY DEF TypeOK, Jobs
<1> QED
  BY <1>1, <1>2, <1>3

LEMMA FinishJobs ==
    ASSUME TypeOK, NEW t \in Threads, NEW P, NEW F, Finish(t),
           \A u \in Threads \ {t} : JobInv(job[u], P, F)
    PROVE  \A u \in Threads : JobInv(job'[u], P, F)
<1>1. JobInv(NoJob, P, F)
  BY DEF JobInv, NoJob
<1>2. job \in [Threads -> Jobs]
  BY DEF TypeOK, Jobs
<1> QED
  BY <1>1, <1>2 DEF Finish, Goto

\* Every step keeps the anchors.
LEMMA AnchorStep == TypeOK /\ AnchorInv /\ [Next]_vars => AnchorInv'
<1> SUFFICES ASSUME TypeOK, AnchorInv, [Next]_vars PROVE AnchorInv'
  OBVIOUS
<1>0. /\ \A m \in points : Anchored(doc[m])
      /\ \A t \in Threads : JobInv(job[t], points, fresh)
  BY DEF AnchorInv
<1>1. AnchorInv' <=> /\ \A m \in points' : Anchored(doc'[m])
                     /\ \A t \in Threads : JobInv(job'[t], points', fresh')
  BY DEF AnchorInv, Anchored
<1>2. ASSUME NEW t \in Threads, NEW j, JobInv(j, points, fresh), Proceed(t, j),
             UNCHANGED <<points, fresh, doc>>
      PROVE  AnchorInv'
  <2>1. \A u \in Threads : JobInv(job'[u], points, fresh)
    BY <1>0, <1>2, ProceedJobs
  <2> QED
    BY <1>0, <1>1, <1>2, <2>1
<1>3. ASSUME NEW t \in Threads, Link(t) PROVE AnchorInv'
  <2>1. PICK B \in Batches :
          Proceed(t, [NoJob EXCEPT !.op = "link", !.batch = {item \in B : Valid(item)}])
    BY <1>3 DEF Link
  <2>2. JobInv([NoJob EXCEPT !.op = "link", !.batch = {item \in B : Valid(item)}], points, fresh)
    BY BatchItems, AnchorIsNoEdge DEF NoJob, JobInv, Valid, TypeOK
  <2> QED
    BY <1>2, <1>3, <2>1, <2>2 DEF Link, Begins, storeVars
<1>4. ASSUME NEW t \in Threads, Unlink(t) PROVE AnchorInv'
  <2>1. PICK B \in Batches : Proceed(t, [NoJob EXCEPT !.op = "unlink", !.batch = B])
    BY <1>4 DEF Unlink
  <2>3. JobInv([NoJob EXCEPT !.op = "unlink", !.batch = B], points, fresh)
    BY BatchItems, AnchorIsNoEdge DEF NoJob, JobInv
  <2> QED
    BY <1>2, <1>4, <2>1, <2>3 DEF Unlink, Begins, storeVars
<1>5. ASSUME NEW t \in Threads, Annotate(t) PROVE AnchorInv'
  <2>1. PICK m \in Ids, A \in Annotations :
          IF m \in points
          THEN Proceed(t, [NoJob EXCEPT !.op = "annotate",
                                        !.batch = {[source |-> m, fact |-> f] : f \in A},
                                        !.seen = {[source |-> m, facts |-> doc[m]]}])
          ELSE UNCHANGED <<pc, job>>
    BY <1>5 DEF Annotate
  <2>2. PICK B : B = {[source |-> m, fact |-> f] : f \in A}
    OBVIOUS
  <2>3. ASSUME m \in points
        PROVE  JobInv([NoJob EXCEPT !.op = "annotate", !.batch = B,
                                    !.seen = {[source |-> m, facts |-> doc[m]]}], points, fresh)
    <3>1. \A i, k \in B : IsAnchor(i.fact) /\ IsAnchor(k.fact) => i.fact = k.fact
      BY <2>2, AnnotationItems
    <3>2. \A item \in B : item.source \notin fresh
      BY <2>2, <2>3 DEF TypeOK
    <3>3. Anchored(doc[m])
      BY <1>0, <2>3
    <3> QED
      BY <3>1, <3>2, <3>3 DEF NoJob, JobInv
  <2>4. CASE m \in points
    BY <1>2, <1>5, <2>1, <2>2, <2>3, <2>4 DEF Annotate, Begins, storeVars
  <2>5. CASE m \notin points
    BY <1>0, <1>1, <1>5, <2>1, <2>5 DEF Annotate, Begins, storeVars
  <2> QED
    BY <2>4, <2>5
<1>6. ASSUME NEW t \in Threads, Delete(t) PROVE AnchorInv'
  <2>1. PICK m \in points : Goto(t, "drop", [NoJob EXCEPT !.op = "delete", !.id = m])
    BY <1>6 DEF Delete
  <2>2. JobInv([NoJob EXCEPT !.op = "delete", !.id = m], points, fresh)
    BY DEF NoJob, JobInv, TypeOK
  <2>3. \A u \in Threads : JobInv(job'[u], points, fresh)
    BY <1>0, <2>1, <2>2 DEF Goto, TypeOK
  <2> QED
    BY <1>0, <1>1, <1>6, <2>3 DEF Delete, Begins, storeVars
<1>7. ASSUME NEW t \in Threads, Read(t) PROVE AnchorInv'
  <2>1. PICK item \in job[t].batch :
          IF job[t].op = "unlink" => Revised(t, item.source, doc[item.source]) # doc[item.source]
          THEN Proceed(t, [job[t] EXCEPT !.seen = {[source |-> item.source, facts |-> doc[item.source]]}])
          ELSE Proceed(t, [job[t] EXCEPT !.batch = Others(t, item.source)])
    BY <1>7 DEF Read
  <2>2. job[t] \in Jobs /\ item.source \in Ids
    BY DEF TypeOK, Jobs, Items
  <2>3. JobInv([job[t] EXCEPT !.batch = Others(t, item.source)], points, fresh)
    BY <1>0, <2>2 DEF JobInv, Jobs, Others
  <2>4. ASSUME Proceed(t, [job[t] EXCEPT !.seen = {[source |-> item.source, facts |-> doc[item.source]]}]),
               job[t].op = "unlink" => Revised(t, item.source, doc[item.source]) # doc[item.source]
        PROVE  JobInv([job[t] EXCEPT !.seen = {[source |-> item.source, facts |-> doc[item.source]]}],
                      points, fresh)
    <3>1. Anchored(doc[item.source]) \/ item.source \notin points \cup fresh
      <4>1. CASE item.source \in points
        BY <4>1, <1>0
      <4>2. CASE item.source \notin points /\ job[t].op = "unlink"
        <5>1. doc[item.source] = {}
          BY <2>2, <4>2 DEF TypeOK
        <5>2. Revised(t, item.source, doc[item.source]) = {}
          BY <4>2, <5>1 DEF Revised
        <5> QED
          BY <2>4, <4>2, <5>1, <5>2
      <4>3. CASE item.source \notin points /\ job[t].op # "unlink"
        BY <1>0, <4>3 DEF JobInv
      <4> QED
        BY <2>4, <4>1, <4>2, <4>3
    <3> QED
      BY <1>0, <2>2, <3>1 DEF JobInv, Jobs
  <2> QED
    BY <1>2, <1>7, <2>1, <2>3, <2>4 DEF Read, Goes
<1>8. ASSUME NEW t \in Threads, Write(t) PROVE AnchorInv'
  <2>1. PICK d \in job[t].seen :
          \/ /\ doc' = IF d.source \in points
                       THEN [doc EXCEPT ![d.source] = Revised(t, d.source, d.facts)] ELSE doc
             /\ Proceed(t, [job[t] EXCEPT !.batch = Others(t, d.source), !.seen = @ \ {d}])
          \/ Finish(t) /\ UNCHANGED doc
    BY <1>8 DEF Write
  <2>2. job[t] \in Jobs /\ d \in Docs
    BY DEF TypeOK, Jobs
  <2>3. JobInv([job[t] EXCEPT !.batch = Others(t, d.source), !.seen = @ \ {d}], points, fresh)
    BY <1>0, <2>2 DEF JobInv, Jobs, Others
  <2>4. \A u \in Threads : JobInv(job'[u], points, fresh)
    BY <1>0, <2>1, <2>3, ProceedJobs, FinishJobs
  <2>5. d.source \in points => Anchored(Revised(t, d.source, d.facts))
    <3>1. d.source \in points => Anchored(d.facts)
      BY <1>0 DEF JobInv
    <3> QED
      BY <1>0, <2>2, <3>1, RevisedKeeps DEF Docs, Anchored
  <2>6. \A m \in points : Anchored(doc'[m])
    BY <1>0, <2>1, <2>5 DEF TypeOK
  <2> QED
    BY <1>1, <1>8, <2>4, <2>6 DEF Write, Goes
<1>9. ASSUME NEW t \in Threads, Drop(t) PROVE AnchorInv'
  <2>1. \A m \in points' : Anchored(doc'[m])
    BY <1>0, <1>9 DEF Drop, TypeOK
  <2>2. job' = job /\ points' \subseteq points /\ fresh' = fresh
    BY <1>9 DEF Drop, Goes, Goto, TypeOK
  <2> QED
    BY <1>0, <1>1, <2>1, <2>2 DEF JobInv
<1>10. ASSUME NEW t \in Threads, Scroll(t) PROVE AnchorInv'
  <2>1. PICK W \in Windows :
          Proceed(t, [job[t] EXCEPT !.seen =
            {[source |-> m, facts |-> doc[m]] : m \in {w \in W : HasRelationTo(w, job[t].id)}}])
    BY <1>10 DEF Scroll
  <2>2. JobInv([job[t] EXCEPT !.seen =
            {[source |-> m, facts |-> doc[m]] : m \in {w \in W : HasRelationTo(w, job[t].id)}}],
            points, fresh)
    BY <1>0 DEF JobInv, Windows, TypeOK
  <2> QED
    BY <1>2, <1>10, <2>1, <2>2 DEF Scroll, storeVars
<1>11. ASSUME NEW t \in Threads, Fail(t) PROVE AnchorInv'
  BY <1>0, <1>1, <1>11, FinishJobs DEF Fail, storeVars
<1>12. ASSUME NEW m \in Ids, Remember(m) PROVE AnchorInv'
  <2>1. \A n \in points' : Anchored(doc'[n])
    BY <1>0, <1>12, AnchorIsFact DEF Remember, TypeOK
  <2>2. job' = job /\ points' \cup fresh' = points \cup fresh /\ fresh' \subseteq fresh
    BY <1>12 DEF Remember
  <2> QED
    BY <1>0, <1>1, <2>1, <2>2 DEF JobInv
<1>13. CASE DropCollection
  BY <1>0, <1>1, <1>13 DEF DropCollection, JobInv
<1>14. CASE UNCHANGED vars
  BY <1>0, <1>1, <1>14 DEF vars, storeVars
<1> QED
  BY <1>3, <1>4, <1>5, <1>6, <1>7, <1>8, <1>9, <1>10, <1>11, <1>12, <1>13, <1>14 DEF Next, Call

\* What becomes of the anchors in a step.
AnchorsFollow ==
    \A m \in points' : doc'[m] # doc[m] =>
        \E f \in doc'[m] :
            /\ \A g \in doc'[m] : IsAnchor(g) <=> g = f
            /\ m \in points => f \in doc[m] \cup Brought(m)

LEMMA AnchorAction == TypeOK /\ AnchorInv /\ [Next]_vars => AnchorsFollow
<1> SUFFICES ASSUME TypeOK, AnchorInv, [Next]_vars PROVE AnchorsFollow
  OBVIOUS
<1>1. ASSUME doc' = doc PROVE AnchorsFollow
  BY <1>1 DEF AnchorsFollow
<1>2. ASSUME NEW t \in Threads,
             Link(t) \/ Unlink(t) \/ Annotate(t) \/ Delete(t) \/ Read(t) \/ Scroll(t) \/ Fail(t)
      PROVE  doc' = doc
  BY <1>2 DEF Link, Unlink, Annotate, Delete, Read, Scroll, Fail, Begins, storeVars
<1>3. ASSUME NEW t \in Threads, Write(t) PROVE AnchorsFollow
  <2>1. PICK d \in job[t].seen :
          doc' = (IF d.source \in points
                  THEN [doc EXCEPT ![d.source] = Revised(t, d.source, d.facts)] ELSE doc)
          \/ UNCHANGED doc
    BY <1>3 DEF Write
  <2>2. d \in Docs /\ d.source \in Ids /\ points' = points /\ pc[t] = "write"
    BY <1>3 DEF TypeOK, Docs, Write, Goes
  <2>3. ASSUME d.source \in points, doc' = [doc EXCEPT ![d.source] = Revised(t, d.source, d.facts)]
        PROVE  AnchorsFollow
    <3>1. JobInv(job[t], points, fresh) /\ Anchored(d.facts)
      BY <2>3 DEF AnchorInv, JobInv
    <3>2. PICK f \in Revised(t, d.source, d.facts) :
            /\ \A g \in Revised(t, d.source, d.facts) : IsAnchor(g) <=> g = f
            /\ f \in d.facts \cup Asked(t, d.source)
      BY <2>2, <3>1, RevisedKeeps
    <3>3. d.facts \cup Asked(t, d.source) \subseteq Brought(d.source)
      BY <2>2 DEF Brought
    <3>4. doc'[d.source] = Revised(t, d.source, d.facts) /\ \A m \in Ids \ {d.source} : doc'[m] = doc[m]
      BY <2>2, <2>3 DEF TypeOK
    <3> QED
      BY <2>2, <3>2, <3>3, <3>4 DEF AnchorsFollow, TypeOK
  <2> QED
    BY <1>1, <2>1, <2>3
<1>4. ASSUME NEW t \in Threads, Drop(t) PROVE AnchorsFollow
  BY <1>4 DEF Drop, TypeOK, AnchorsFollow
<1>5. ASSUME NEW n \in Ids, Remember(n) PROVE AnchorsFollow
  <2>1. /\ n \notin points /\ points' = points \cup {n}
        /\ doc'[n] = {Anchor} /\ \A m \in Ids \ {n} : doc'[m] = doc[m]
    BY <1>5 DEF Remember, TypeOK
  <2>2. IsAnchor(Anchor)
    BY AnchorIsFact
  <2> QED
    BY <2>1, <2>2 DEF AnchorsFollow, TypeOK
<1>6. CASE DropCollection
  BY <1>6 DEF DropCollection, AnchorsFollow
<1>7. CASE UNCHANGED vars
  BY <1>1, <1>7 DEF vars, storeVars
<1> QED
  BY <1>1, <1>2, <1>3, <1>4, <1>5, <1>6, <1>7 DEF Next, Call

\* No order of overlapping calls, failures and deletes takes the anchors from a memory or
\* makes them anything but what they were or what an annotation names
\* (annotate_store_payload, upsert_relations, remove_relations, annotate_memory,
\* prune_relations_to).
THEOREM AnchorsSurvive == Spec => AnchorIsKept
<1>1. Init => TypeOK /\ AnchorInv
  <2>1. Init => TypeOK
    BY NoJobIsJob DEF Init, TypeOK, Steps, Jobs
  <2>2. Init => AnchorInv
    BY DEF Init, AnchorInv, JobInv, NoJob
  <2> QED
    BY <2>1, <2>2
<1>2. AnchorsFollow => [\A m \in points' : doc'[m] # doc[m] =>
        \E f \in doc'[m] :
            /\ \A g \in doc'[m] : IsAnchor(g) <=> g = f
            /\ m \in points => f \in doc[m] \cup Brought(m)]_vars
  BY DEF AnchorsFollow
<1> QED
  BY <1>1, <1>2, TypeStep, AnchorStep, AnchorAction, PTL DEF Spec, AnchorIsKept

(***************************************************************************)
(* The refinement: what a reader sees of the documents follows             *)
(* RelationGraph.  A memory that is new is the target of no relation yet.  *)
(***************************************************************************)
Old(F, fresh_) == \A f \in F : f.target \notin fresh_

GraphJob(t) ==
    /\ \A item \in job[t].batch : job[t].op # "unlink" => item.fact.target \notin fresh
    /\ \A d \in job[t].seen : Old(d.facts, fresh)
    /\ pc[t] \in {"drop", "scroll"} => job[t].op = "delete"

GraphInv ==
    /\ \A m \in Ids : Old(doc[m], fresh)
    /\ \A t \in Threads : GraphJob(t)

\* A call that goes on keeps the parts of the invariant about its job.
LEMMA ProceedGraph ==
    ASSUME TypeOK, GraphInv, NEW t \in Threads, NEW j \in Jobs, Proceed(t, j), UNCHANGED fresh,
           \A item \in j.batch : j.op # "unlink" => item.fact.target \notin fresh,
           \A d \in j.seen : Old(d.facts, fresh)
    PROVE  \A u \in Threads : GraphJob(u)'
<1>1. /\ job' = [job EXCEPT ![t] = j] \/ job' = [job EXCEPT ![t] = NoJob]
      /\ \E step \in {"write", "read", "idle"} : pc' = [pc EXCEPT ![t] = step]
  BY DEF Proceed, Goto, Finish
<1>2. job \in [Threads -> Jobs] /\ pc \in [Threads -> Steps]
  BY DEF TypeOK, Jobs
<1>3. ASSUME NEW u \in Threads \ {t} PROVE GraphJob(u)'
  <2>1. job'[u] = job[u] /\ pc'[u] = pc[u]
    BY <1>1, <1>2
  <2>2. GraphJob(u)
    BY DEF GraphInv
  <2> QED
    BY <2>1, <2>2 DEF GraphJob, Old
<1>4. GraphJob(t)'
  <2>1. pc'[t] \notin {"drop", "scroll"} /\ (job'[t] = j \/ job'[t] = NoJob)
    BY <1>1, <1>2
  <2> QED
    BY <2>1 DEF GraphJob, Old, NoJob
<1> QED
  BY <1>3, <1>4

LEMMA FinishGraph ==
    ASSUME TypeOK, GraphInv, NEW t \in Threads, Finish(t), UNCHANGED fresh
    PROVE  \A u \in Threads : GraphJob(u)'
<1>1. job' = [job EXCEPT ![t] = NoJob] /\ pc' = [pc EXCEPT ![t] = "idle"]
  BY DEF Finish, Goto
<1>2. job \in [Threads -> Jobs] /\ pc \in [Threads -> Steps]
  BY DEF TypeOK, Jobs
<1>3. ASSUME NEW u \in Threads \ {t} PROVE GraphJob(u)'
  <2>1. job'[u] = job[u] /\ pc'[u] = pc[u]
    BY <1>1, <1>2
  <2>2. GraphJob(u)
    BY DEF GraphInv
  <2> QED
    BY <2>1, <2>2 DEF GraphJob, Old
<1>4. GraphJob(t)'
  BY <1>1, <1>2 DEF GraphJob, Old, NoJob
<1> QED
  BY <1>3, <1>4

\* What Revised adds is what was asked for.
LEMMA RevisedIsOld ==
    ASSUME GraphInv, NEW t \in Threads, NEW m, NEW old, Old(old, fresh)
    PROVE  Old(Revised(t, m, old), fresh)
<1>1. GraphJob(t)
  BY DEF GraphInv
<1>2. CASE job[t].op = "unlink"
  BY <1>2 DEF Revised, Old
<1>3. CASE job[t].op = "delete"
  BY <1>3 DEF Revised, Old
<1>4. CASE job[t].op \notin {"unlink", "delete"}
  <2>1. Revised(t, m, old) \subseteq old \cup Asked(t, m)
    BY <1>4 DEF Revised, Unnamed
  <2>2. Old(Asked(t, m), fresh)
    BY <1>1, <1>4 DEF GraphJob, Asked, Old
  <2> QED
    BY <2>1, <2>2 DEF Old
<1> QED
  BY <1>2, <1>3, <1>4

\* Every step keeps relations away from ids not drawn yet.
LEMMA GraphStep == TypeOK /\ GraphInv /\ [Next]_vars => GraphInv'
<1> SUFFICES ASSUME TypeOK, GraphInv, [Next]_vars PROVE GraphInv'
  OBVIOUS
<1>0. job \in [Threads -> Jobs] /\ doc \in [Ids -> SUBSET Facts] /\ pc \in [Threads -> Steps]
  BY DEF TypeOK, Jobs
<1>1. ASSUME UNCHANGED <<fresh, doc>>, \A u \in Threads : GraphJob(u)' PROVE GraphInv'
  BY <1>1 DEF GraphInv, Old
<1>2. ASSUME NEW t \in Threads, Link(t) PROVE GraphInv'
  <2>1. PICK B \in Batches :
          Proceed(t, [NoJob EXCEPT !.op = "link", !.batch = {item \in B : Valid(item)}])
    BY <1>2 DEF Link
  <2>2. {item \in B : Valid(item)} \in SUBSET Items
    BY BatchItems
  <2>3. [NoJob EXCEPT !.op = "link", !.batch = {item \in B : Valid(item)}] \in Jobs
    BY <2>2 DEF NoJob, Jobs, Ops
  <2>4. \A item \in B : Valid(item) => item.fact.target \notin fresh
    BY DEF Valid, TypeOK
  <2>5. \A u \in Threads : GraphJob(u)'
    BY <1>2, <2>1, <2>3, <2>4, ProceedGraph DEF Link, Begins, storeVars, NoJob
  <2> QED
    BY <1>1, <1>2, <2>5 DEF Link, Begins, storeVars
<1>3. ASSUME NEW t \in Threads, Unlink(t) PROVE GraphInv'
  <2>1. PICK B \in Batches : Proceed(t, [NoJob EXCEPT !.op = "unlink", !.batch = B])
    BY <1>3 DEF Unlink
  <2> DEFINE j == [NoJob EXCEPT !.op = "unlink", !.batch = B]
  <2>2. B \in SUBSET Items
    BY BatchItems
  <2>3. j \in Jobs
    BY <2>2 DEF NoJob, Jobs, Ops
  <2>5. j.op = "unlink" /\ j.batch = B /\ j.seen = {}
    BY DEF NoJob
  <2>6. Proceed(t, j)
    BY <2>1
  <2> HIDE DEF j
  <2>7. \A u \in Threads : GraphJob(u)'
    BY <1>3, <2>3, <2>5, <2>6, ProceedGraph DEF Unlink, Begins, storeVars
  <2> QED
    BY <1>1, <1>3, <2>7 DEF Unlink, Begins, storeVars
<1>4. ASSUME NEW t \in Threads, Annotate(t) PROVE GraphInv'
  <2>1. PICK m \in Ids, A \in Annotations :
          IF m \in points
          THEN Proceed(t, [NoJob EXCEPT !.op = "annotate",
                                        !.batch = {[source |-> m, fact |-> f] : f \in A},
                                        !.seen = {[source |-> m, facts |-> doc[m]]}])
          ELSE UNCHANGED <<pc, job>>
    BY <1>4 DEF Annotate
  <2>2. PICK B : B = {[source |-> m, fact |-> f] : f \in A}
    OBVIOUS
  <2>3. B \in SUBSET Items /\ \A item \in B : item.fact.target \notin fresh
    BY <2>2, AnnotationItems DEF TypeOK
  <2>4. [source |-> m, facts |-> doc[m]] \in Docs /\ Old(doc[m], fresh)
    BY <1>0 DEF Docs, GraphInv
  <2>5. ASSUME m \in points PROVE \A u \in Threads : GraphJob(u)'
    <3>1. PICK j : /\ j = [NoJob EXCEPT !.op = "annotate", !.batch = B,
                                        !.seen = {[source |-> m, facts |-> doc[m]]}]
                   /\ j.op = "annotate" /\ j.batch = B
                   /\ j.seen = {[source |-> m, facts |-> doc[m]]} /\ Proceed(t, j)
      BY <2>1, <2>2, <2>5 DEF NoJob
    <3>2. j \in Jobs
      BY <2>3, <2>4, <3>1 DEF NoJob, Jobs, Ops
    <3>3. \A item \in j.batch : item.fact.target \notin fresh
      BY <2>3, <3>1
    <3>4. \A d \in j.seen : Old(d.facts, fresh)
      BY <2>4, <3>1
    <3>5. UNCHANGED fresh
      BY <1>4 DEF Annotate, Begins, storeVars
    <3> QED
      BY <3>1, <3>2, <3>3, <3>4, <3>5, ProceedGraph
  <2>6. ASSUME m \notin points PROVE \A u \in Threads : GraphJob(u)'
    BY <1>4, <2>1, <2>6 DEF Annotate, Begins, storeVars, GraphInv, GraphJob, Old
  <2>7. \A u \in Threads : GraphJob(u)'
    BY <2>5, <2>6
  <2> QED
    BY <1>1, <1>4, <2>7 DEF Annotate, Begins, storeVars
<1>5. ASSUME NEW t \in Threads, Delete(t) PROVE GraphInv'
  <2>1. PICK m \in points : Goto(t, "drop", [NoJob EXCEPT !.op = "delete", !.id = m])
    BY <1>5 DEF Delete
  <2>2. ASSUME NEW u \in Threads PROVE GraphJob(u)'
    <3>1. u # t => job'[u] = job[u] /\ pc'[u] = pc[u]
      BY <1>0, <2>1 DEF Goto
    <3>2. u = t => job'[u].op = "delete" /\ job'[u].batch = {} /\ job'[u].seen = {}
      BY <1>0, <2>1 DEF Goto, NoJob
    <3>3. GraphJob(u) /\ fresh' = fresh
      BY <1>5 DEF GraphInv, Delete, Begins, storeVars
    <3>4. CASE u = t
      BY <3>2, <3>4 DEF GraphJob, Old
    <3>5. CASE u # t
      BY <3>1, <3>3, <3>5 DEF GraphJob, Old
    <3> QED
      BY <3>4, <3>5
  <2> QED
    BY <1>1, <1>5, <2>2 DEF Delete, Begins, storeVars
<1>6. ASSUME NEW t \in Threads, Read(t) PROVE GraphInv'
  <2>1. PICK item \in job[t].batch :
          \/ Proceed(t, [job[t] EXCEPT !.seen = {[source |-> item.source, facts |-> doc[item.source]]}])
          \/ Proceed(t, [job[t] EXCEPT !.batch = Others(t, item.source)])
    BY <1>6 DEF Read
  <2>2. job[t] \in Jobs /\ item \in Items /\ Others(t, item.source) \subseteq job[t].batch
    BY <1>0 DEF Jobs, Others
  <2>3. [source |-> item.source, facts |-> doc[item.source]] \in Docs
    BY <2>2, <1>0 DEF Docs, Items
  <2>4. GraphJob(t) /\ Old(doc[item.source], fresh)
    BY <2>2 DEF GraphInv, Items
  <2>5. ASSUME Proceed(t, [job[t] EXCEPT !.seen = {[source |-> item.source, facts |-> doc[item.source]]}])
        PROVE  \A u \in Threads : GraphJob(u)'
    <3>1. PICK j \in Jobs : /\ j.op = job[t].op /\ j.batch = job[t].batch
                            /\ j.seen = {[source |-> item.source, facts |-> doc[item.source]]}
                            /\ Proceed(t, j)
      BY <2>2, <2>3, <2>5 DEF Jobs
    <3> QED
      BY <1>6, <2>4, <3>1, ProceedGraph DEF Read, Goes, GraphJob
  <2>6. ASSUME Proceed(t, [job[t] EXCEPT !.batch = Others(t, item.source)])
        PROVE  \A u \in Threads : GraphJob(u)'
    <3>1. PICK j \in Jobs : /\ j.op = job[t].op /\ j.batch = Others(t, item.source)
                            /\ j.seen = job[t].seen
                            /\ Proceed(t, j)
      BY <2>2, <2>6 DEF Jobs
    <3> QED
      BY <1>6, <2>2, <2>4, <3>1, ProceedGraph DEF Read, Goes, GraphJob
  <2> QED
    BY <1>1, <1>6, <2>1, <2>5, <2>6 DEF Read, Goes
<1>7. ASSUME NEW t \in Threads, Write(t) PROVE GraphInv'
  <2>1. PICK d \in job[t].seen :
          \/ /\ doc' = IF d.source \in points
                       THEN [doc EXCEPT ![d.source] = Revised(t, d.source, d.facts)] ELSE doc
             /\ Proceed(t, [job[t] EXCEPT !.batch = Others(t, d.source), !.seen = @ \ {d}])
          \/ Finish(t) /\ UNCHANGED doc
    BY <1>7 DEF Write
  <2>2. job[t] \in Jobs /\ d \in Docs /\ Others(t, d.source) \subseteq job[t].batch
    BY <1>0 DEF Jobs, Others
  <2>3. GraphJob(t) /\ Old(d.facts, fresh)
    BY DEF GraphInv, GraphJob
  <2>4. ASSUME Proceed(t, [job[t] EXCEPT !.batch = Others(t, d.source), !.seen = @ \ {d}])
        PROVE  \A u \in Threads : GraphJob(u)'
    <3>1. PICK j \in Jobs : /\ j.op = job[t].op /\ j.batch = Others(t, d.source)
                            /\ j.seen = job[t].seen \ {d}
                            /\ Proceed(t, j)
      BY <2>2, <2>4 DEF Jobs
    <3> QED
      BY <1>7, <2>2, <2>3, <3>1, ProceedGraph DEF Write, Goes, GraphJob
  <2>5. \A u \in Threads : GraphJob(u)'
    BY <1>7, <2>1, <2>4, FinishGraph DEF Write, Goes
  <2>6. Old(Revised(t, d.source, d.facts), fresh)
    BY <2>3, RevisedIsOld
  <2>7. \A m \in Ids : Old(doc'[m], fresh)
    BY <1>0, <2>1, <2>6 DEF GraphInv
  <2> QED
    BY <1>7, <2>5, <2>7 DEF GraphInv, Write, Goes
<1>8. ASSUME NEW t \in Threads, Drop(t) PROVE GraphInv'
  <2>1. fresh' = fresh /\ job' = job /\ pc' = [pc EXCEPT ![t] = "scroll"]
        /\ doc' = [doc EXCEPT ![job[t].id] = {}] /\ pc[t] = "drop"
    BY <1>0, <1>8 DEF Drop, Goes, Goto
  <2>2. ASSUME NEW u \in Threads PROVE GraphJob(u)'
    <3>1. GraphJob(u)
      BY DEF GraphInv
    <3> QED
      BY <1>0, <2>1, <3>1 DEF GraphJob, Old
  <2>3. \A m \in Ids : Old(doc'[m], fresh)
    BY <1>0, <2>1 DEF GraphInv, Old
  <2> QED
    BY <2>1, <2>2, <2>3 DEF GraphInv
<1>9. ASSUME NEW t \in Threads, Scroll(t) PROVE GraphInv'
  <2>1. PICK W \in Windows :
          Proceed(t, [job[t] EXCEPT !.seen =
            {[source |-> m, facts |-> doc[m]] : m \in {w \in W : HasRelationTo(w, job[t].id)}}])
    BY <1>9 DEF Scroll
  <2> DEFINE S == {[source |-> m, facts |-> doc[m]] : m \in {w \in W : HasRelationTo(w, job[t].id)}}
  <2>2. S \in SUBSET Docs /\ \A d \in S : Old(d.facts, fresh)
    BY <1>0 DEF Windows, TypeOK, Docs, GraphInv
  <2> HIDE DEF S
  <2>3. PICK j \in Jobs : /\ j.op = job[t].op /\ j.batch = job[t].batch /\ j.seen = S
                          /\ Proceed(t, j)
    <3>1. Proceed(t, [job[t] EXCEPT !.seen = S])
      BY <2>1 DEF S
    <3> QED
      BY <1>0, <2>2, <3>1 DEF Jobs
  <2>4. GraphJob(t)
    BY DEF GraphInv
  <2>5. \A u \in Threads : GraphJob(u)'
    BY <1>9, <2>2, <2>3, <2>4, ProceedGraph DEF Scroll, storeVars, GraphJob
  <2> QED
    BY <1>1, <1>9, <2>5 DEF Scroll, storeVars
<1>10. ASSUME NEW t \in Threads, Fail(t) PROVE GraphInv'
  BY <1>1, <1>10, FinishGraph DEF Fail, storeVars
<1>11. ASSUME NEW n \in Ids, Remember(n) PROVE GraphInv'
  <2>1. fresh' \subseteq fresh /\ job' = job /\ pc' = pc /\ doc' = [doc EXCEPT ![n] = {Anchor}]
    BY <1>11 DEF Remember
  <2>2. Anchor.target \notin fresh
    BY DEF Anchor, TypeOK
  <2>3. \A m \in Ids : Old(doc'[m], fresh')
    BY <1>0, <2>1, <2>2 DEF GraphInv, Old
  <2>4. ASSUME NEW u \in Threads PROVE GraphJob(u)'
    <3>1. GraphJob(u)
      BY DEF GraphInv
    <3> QED
      BY <2>1, <3>1 DEF GraphJob, Old
  <2> QED
    BY <2>3, <2>4 DEF GraphInv
<1>12. ASSUME DropCollection PROVE GraphInv'
  <2>1. fresh' = fresh /\ job' = job /\ pc' = pc /\ doc' = [m \in Ids |-> {}]
    BY <1>12 DEF DropCollection
  <2> QED
    BY <2>1 DEF GraphInv, GraphJob, Old
<1>13. ASSUME UNCHANGED vars PROVE GraphInv'
  BY <1>13 DEF vars, storeVars, GraphInv, GraphJob, Old
<1> QED
  BY <1>2, <1>3, <1>4, <1>5, <1>6, <1>7, <1>8, <1>9, <1>10, <1>11, <1>12, <1>13 DEF Next, Call

\* A write that changes one document is seen as that change.
LEMMA OnlyOne ==
    ASSUME TypeOK, NEW m \in points, NEW new \in SUBSET Facts,
           doc' = [doc EXCEPT ![m] = new], points' = points
    PROVE  /\ Graph!Only(m)
           /\ Visible[m] = {f \in doc[m] : f.target \in points \cup {NoId}}
           /\ Visible'[m] = {f \in new : f.target \in points \cup {NoId}}
<1>1. m \in Ids /\ doc \in [Ids -> SUBSET Facts]
  BY DEF TypeOK
<1>2. Visible' = [Visible EXCEPT ![m] = {f \in new : f.target \in points \cup {NoId}}]
  BY <1>1 DEF Visible
<1>3. Visible'[m] = {f \in new : f.target \in points \cup {NoId}}
  BY <1>1, <1>2 DEF Visible
<1> QED
  BY <1>1, <1>2, <1>3 DEF Graph!Only, Visible

\* Every step is one of RelationGraph's, or changes nothing that it sees.
LEMMA GraphSimulation ==
    TypeOK /\ AnchorInv /\ GraphInv /\ [Next]_vars => [Graph!Next]_<<points, Visible>>
<1> SUFFICES ASSUME TypeOK, AnchorInv, GraphInv, [Next]_vars
             PROVE  Graph!Next \/ UNCHANGED <<points, Visible>>
  OBVIOUS
<1>0. /\ job \in [Threads -> Jobs] /\ doc \in [Ids -> SUBSET Facts]
      /\ points \subseteq Ids /\ fresh \subseteq Ids \ points
  BY DEF TypeOK, Jobs
<1>1. ASSUME UNCHANGED <<points, doc>> PROVE UNCHANGED <<points, Visible>>
  BY <1>1 DEF Visible
<1>2. ASSUME NEW t \in Threads,
             Link(t) \/ Unlink(t) \/ Annotate(t) \/ Delete(t) \/ Read(t) \/ Scroll(t) \/ Fail(t)
      PROVE  UNCHANGED <<points, Visible>>
  BY <1>1, <1>2 DEF Link, Unlink, Annotate, Delete, Read, Scroll, Fail, Begins, storeVars
<1>3. ASSUME NEW t \in Threads, Write(t) PROVE Graph!Next \/ UNCHANGED <<points, Visible>>
  <2>1. PICK d \in job[t].seen :
          doc' = (IF d.source \in points
                  THEN [doc EXCEPT ![d.source] = Revised(t, d.source, d.facts)] ELSE doc)
          \/ UNCHANGED doc
    BY <1>3 DEF Write
  <2>2. points' = points
    BY <1>3 DEF Write
  <2>3. CASE UNCHANGED doc
    BY <1>1, <2>2, <2>3
  <2>4. CASE d.source \in points /\ doc' = [doc EXCEPT ![d.source] = Revised(t, d.source, d.facts)]
    <3> DEFINE m == d.source
               new == Revised(t, m, d.facts)
               Seen(F) == {f \in F : f.target \in points \cup {NoId}}
    <3>1. m \in Ids /\ d.facts \in SUBSET Facts /\ JobInv(job[t], points, fresh) /\ GraphJob(t)
      BY <1>0 DEF Jobs, Docs, AnchorInv, GraphInv
    <3>2. new \in SUBSET Facts /\ \E f \in new : IsAnchor(f)
      <4>1. Anchored(d.facts)
        BY <2>4, <3>1 DEF JobInv
      <4> QED
        BY <3>1, <4>1, RevisedTypes, RevisedKeeps
    <3>3. Graph!Only(m) /\ Visible[m] = Seen(doc[m]) /\ Visible'[m] = Seen(new)
      BY <2>2, <2>4, <3>2, OnlyOne
    <3>4. CASE d.facts # doc[m]
      <4>1. m \in Torn
        BY <3>1, <3>4 DEF Torn
      <4>2. \E f \in Visible'[m] : Graph!SameKey(f, Anchor)
        BY <3>2, <3>3, AnchorKey DEF IsAnchor, SameKey, Graph!SameKey
      <4> QED
        BY <3>1, <3>3, <4>1, <4>2 DEF Graph!Next, Graph!Tear
    <3>5. CASE d.facts = doc[m] /\ job[t].op = "unlink"
      <4>1. new = doc[m] \ Asked(t, m)
        BY <3>5 DEF Revised
      <4>2. \A f \in Asked(t, m) : f.target \in Ids
        BY <3>1, <3>5 DEF Asked, JobInv, Edges
      <4>3. Graph!Retract(m)
        BY <3>3, <4>1, <4>2 DEF Graph!Retract
      <4> QED
        BY <3>1, <4>3 DEF Graph!Next
    <3>6. CASE d.facts = doc[m] /\ job[t].op = "delete"
      <4>1. new = {f \in doc[m] : f.target # job[t].id}
        BY <3>6 DEF Revised
      <4>2. job[t].id \in Ids
        BY <3>1, <3>6 DEF JobInv
      <4>3. Graph!Retract(m)
        BY <3>3, <4>1, <4>2 DEF Graph!Retract
      <4> QED
        BY <3>1, <4>3 DEF Graph!Next
    <3>7. CASE d.facts = doc[m] /\ job[t].op \notin {"unlink", "delete"}
      <4>1. new = Unnamed(t, m, doc[m]) \cup Asked(t, m)
        BY <3>7 DEF Revised
      <4>2. ASSUME NEW f \in Seen(doc[m]) PROVE \E g \in Seen(new) : SameKey(f, g)
        BY <4>1 DEF Unnamed, SameKey
      <4>3. Graph!Declare(m)
        BY <3>3, <4>2 DEF Graph!Declare, Graph!SameKey, SameKey
      <4> QED
        BY <3>1, <4>3 DEF Graph!Next
    <3> QED
      BY <3>4, <3>5, <3>6, <3>7
  <2> QED
    BY <2>1, <2>3, <2>4
<1>4. ASSUME NEW t \in Threads, Drop(t) PROVE Graph!Next
  <2>1. pc[t] = "drop" /\ points' = points \ {job[t].id} /\ doc' = [doc EXCEPT ![job[t].id] = {}]
    BY <1>4 DEF Drop, Goes
  <2>2. job[t].id \in Ids /\ job[t].id # NoId
    BY <2>1 DEF GraphInv, GraphJob, AnchorInv, JobInv
  <2>3. Graph!Forget({job[t].id})
    BY <1>0, <2>1, <2>2 DEF Graph!Forget, Visible
  <2> QED
    BY <2>2, <2>3 DEF Graph!Next
<1>5. ASSUME NEW n \in Ids, Remember(n) PROVE Graph!Next
  <2>1. n \in fresh /\ points' = points \cup {n} /\ doc' = [doc EXCEPT ![n] = {Anchor}]
    BY <1>5 DEF Remember
  <2>2. ASSUME NEW m \in Ids \ {n}
        PROVE  {f \in doc'[m] : f.target \in points' \cup {NoId}}
                 = {f \in doc[m] : f.target \in points \cup {NoId}}
    BY <1>0, <2>1 DEF GraphInv, Old
  <2>3. {f \in doc'[n] : f.target \in points' \cup {NoId}} = {Anchor}
    BY <1>0, <2>1 DEF Anchor
  <2>4. Visible' = [Visible EXCEPT ![n] = {Anchor}]
    BY <2>2, <2>3 DEF Visible
  <2>5. Graph!Remember(n)
    BY <1>0, <2>1, <2>4 DEF Graph!Remember
  <2> QED
    BY <2>5 DEF Graph!Next
<1>6. ASSUME DropCollection PROVE Graph!Next
  <2>1. points' = {} /\ doc' = [m \in Ids |-> {}]
    BY <1>6 DEF DropCollection
  <2>2. Graph!Forget(Ids)
    BY <1>0, <2>1 DEF Graph!Forget, Visible
  <2> QED
    BY <2>2 DEF Graph!Next
<1>7. ASSUME UNCHANGED vars PROVE UNCHANGED <<points, Visible>>
  BY <1>7, <1>1 DEF vars, storeVars
<1> QED
  BY <1>2, <1>3, <1>4, <1>5, <1>6, <1>7 DEF Next, Call

\* Links, unlinks, annotations and deletes, overlapping and failing as they may, act as
\* RelationGraph says (upsert_relations, remove_relations, annotate_memory,
\* prune_relations_to).
THEOREM GraphIsKept == Spec => KeepsGraph
<1>1. Init => TypeOK /\ AnchorInv /\ GraphInv /\ Graph!Init
  <2>1. Init => TypeOK
    BY NoJobIsJob DEF Init, TypeOK, Steps, Jobs
  <2>2. Init => AnchorInv
    BY DEF Init, AnchorInv, JobInv, NoJob
  <2>3. Init => GraphInv
    BY DEF Init, GraphInv, GraphJob, Old, NoJob
  <2>4. Init => Graph!Init
    BY DEF Init, Graph!Init, Visible
  <2> QED
    BY <2>1, <2>2, <2>3, <2>4
<1> QED
  BY <1>1, TypeStep, AnchorStep, GraphStep, GraphSimulation, PTL DEF Spec, KeepsGraph, Graph!Spec

(***************************************************************************)
(* Relations to memories that are gone.  While calls do not overlap, the   *)
(* only such relations lead to the memory that a delete has just dropped,  *)
(* and the delete is about to scroll, or holds every point that has one.   *)
(***************************************************************************)
NoGhosts == \A m \in Ids : \A f \in doc[m] : f.target \in points \cup {NoId}

\* What a write of the item adds leads to a memory that is there, now and later.
Grounded(item) ==
    \/ item.fact.target = NoId
    \/ /\ item.source \notin fresh
       /\ item.source \in points => item.fact.target \in points

\* The call's read is current, and what it will add leads to memories that are there.
CallInv(t) ==
    /\ pc[t] = "idle" => job[t] = NoJob
    /\ job[t].op = "delete" => job[t].batch = {}
    /\ pc[t] \in {"drop", "scroll"} => job[t].op = "delete" /\ job[t].seen = {}
    /\ job[t].op \notin {"delete", "unlink"} => \A item \in job[t].batch : Grounded(item)
    /\ \A d \in job[t].seen : /\ d.source \notin fresh
                              /\ d.source \in points => d.facts = doc[d.source]

\* The call is going to take this relation of m away.
Prunes(t, m, f) ==
    /\ job[t].op = "delete" /\ f.target = job[t].id
    /\ \/ pc[t] = "scroll"
       \/ pc[t] = "write" /\ [source |-> m, facts |-> doc[m]] \in job[t].seen

Alone(t) == \A u \in Threads \ {t} : pc[u] = "idle" /\ job[u] = NoJob

\* All that is needed of the one call in progress, t.
SoleInv(t) ==
    /\ Alone(t)
    /\ CallInv(t)
    /\ \A m \in Ids : \A f \in doc[m] : f.target \notin points \cup {NoId} => Prunes(t, m, f)
    /\ (\E d \in job[t].seen : d.source \notin points) => NoGhosts

GhostInv ==
    /\ IsFiniteSet(points)
    /\ ~disturbed =>
          \/ NoGhosts /\ \A t \in Threads : pc[t] = "idle" /\ job[t] = NoJob
          \/ \E t \in Threads : SoleInv(t)

\* How a call that goes on leaves the calls.
LEMMA ProceedSole ==
    ASSUME TypeOK, NEW t \in Threads, NEW j, Proceed(t, j), Alone(t)
    PROVE  /\ Alone(t)'
           /\ \/ j.seen # {} /\ pc'[t] = "write" /\ job'[t] = j
              \/ j.seen = {} /\ j.batch # {} /\ pc'[t] = "read" /\ job'[t] = j
              \/ j.seen = {} /\ j.batch = {} /\ pc'[t] = "idle" /\ job'[t] = NoJob
<1>1. pc \in [Threads -> Steps] /\ job \in [Threads -> Jobs]
  BY DEF TypeOK, Jobs
<1> QED
  BY <1>1 DEF Proceed, Goto, Finish, Alone

LEMMA NoJobCall == ASSUME NEW t \in Threads, pc'[t] = "idle", job'[t] = NoJob PROVE CallInv(t)'
  BY DEF CallInv, NoJob

\* A request that begins alone is the one call in progress, and there are no ghosts.
LEMMA BeginSole ==
    ASSUME TypeOK, GhostInv, NEW t \in Threads, Begins(t), ~disturbed'
    PROVE  Alone(t) /\ NoGhosts /\ IsFiniteSet(points) /\ pc[t] = "idle"
<1>1. ~disturbed /\ pc[t] = "idle" /\ \A u \in Threads \ {t} : pc[u] = "idle"
  BY DEF Begins
<1>2. CASE \E s \in Threads : SoleInv(s)
  <2>1. PICK s \in Threads : SoleInv(s)
    BY <1>2
  <2>2. NoGhosts
    BY <1>1, <2>1 DEF SoleInv, Prunes, NoGhosts
  <2>3. \A u \in Threads : job[u] = NoJob
    BY <1>1, <2>1 DEF SoleInv, Alone, CallInv
  <2> QED
    BY <1>1, <2>2, <2>3 DEF Alone, GhostInv
<1>3. CASE NoGhosts /\ (\A u \in Threads : pc[u] = "idle" /\ job[u] = NoJob)
  BY <1>1, <1>3 DEF Alone, GhostInv
<1> QED
  BY <1>1, <1>2, <1>3 DEF GhostInv

\* A call in progress, with nothing disturbed, is the one of the invariant.
LEMMA ActiveSole ==
    ASSUME GhostInv, NEW t \in Threads, pc[t] # "idle", ~disturbed
    PROVE  SoleInv(t)
  BY DEF GhostInv, SoleInv, Alone

\* Where there are no ghosts and the call reads what is there, the invariant holds.
LEMMA SoleFromNoGhosts ==
    ASSUME NEW t \in Threads, Alone(t)', CallInv(t)', NoGhosts', IsFiniteSet(points')
    PROVE  GhostInv'
<1>1. SoleInv(t)'
  BY DEF SoleInv, NoGhosts
<1> QED
  BY <1>1 DEF GhostInv

\* A new request, and what it has read if it has.
LEMMA RequestSole ==
    ASSUME TypeOK, GhostInv, NEW t \in Threads, Begins(t), ~disturbed', NEW j, Proceed(t, j),
           j.op # "delete", j.op # "unlink" => \A item \in j.batch : Grounded(item),
           \A d \in j.seen : d.source \in points \ fresh /\ d.facts = doc[d.source]
    PROVE  GhostInv'
<1>1. Alone(t) /\ NoGhosts /\ IsFiniteSet(points)
  BY BeginSole
<1>2. Alone(t)' /\ \/ pc'[t] \in {"read", "write"} /\ job'[t] = j
                   \/ pc'[t] = "idle" /\ job'[t] = NoJob
  BY <1>1, ProceedSole
<1>3. points' = points /\ doc' = doc /\ fresh' = fresh
  BY DEF Begins, storeVars
<1>4. CallInv(t)'
  <2>1. CASE pc'[t] \in {"read", "write"} /\ job'[t] = j
    BY <1>3, <2>1 DEF CallInv, Grounded
  <2> QED
    BY <1>2, <2>1, NoJobCall
<1>5. NoGhosts'
  BY <1>1, <1>3 DEF NoGhosts
<1> QED
  BY <1>1, <1>2, <1>3, <1>4, <1>5, SoleFromNoGhosts

\* A request that ends as it begins.
LEMMA IdleSole ==
    ASSUME TypeOK, GhostInv, NEW t \in Threads, Begins(t), UNCHANGED <<pc, job>>
    PROVE  GhostInv'
<1>1. CASE ~disturbed'
  <2>1. Alone(t) /\ NoGhosts /\ IsFiniteSet(points)
    BY <1>1, BeginSole
  <2>2. CallInv(t)
    <3>1. ~disturbed /\ pc[t] = "idle"
      BY <1>1 DEF Begins
    <3>2. job[t] = NoJob
      BY <3>1 DEF GhostInv, SoleInv, Alone, CallInv
    <3> QED
      BY <3>1, <3>2 DEF CallInv, NoJob
  <2>3. points' = points /\ doc' = doc /\ fresh' = fresh
    BY DEF Begins, storeVars
  <2>4. Alone(t)' /\ CallInv(t)' /\ NoGhosts'
    BY <2>1, <2>2, <2>3 DEF Alone, CallInv, Grounded, NoGhosts
  <2> QED
    BY <2>1, <2>3, <2>4, SoleFromNoGhosts
<1>2. CASE disturbed'
  BY <1>2 DEF GhostInv, Begins, storeVars
<1> QED
  BY <1>1, <1>2

\* What remains to be read, or has been read, after Read.
LEMMA ReadSole ==
    ASSUME TypeOK, AnchorInv, GhostInv, NEW t \in Threads, Read(t), ~disturbed'
    PROVE  GhostInv'
<1>1. /\ pc[t] = "read" /\ ~disturbed
      /\ points' = points /\ doc' = doc /\ fresh' = fresh
  BY DEF Read, Goes
<1>2. SoleInv(t) /\ IsFiniteSet(points)
  BY <1>1, ActiveSole DEF GhostInv
<1>3. PICK item \in job[t].batch :
        IF job[t].op = "unlink" => Revised(t, item.source, doc[item.source]) # doc[item.source]
        THEN Proceed(t, [job[t] EXCEPT !.seen = {[source |-> item.source, facts |-> doc[item.source]]}])
        ELSE Proceed(t, [job[t] EXCEPT !.batch = Others(t, item.source)])
  BY DEF Read
<1>4. job[t] \in Jobs /\ item \in Items /\ item.source \in Ids /\ Others(t, item.source) \subseteq job[t].batch
  BY DEF TypeOK, Jobs, Others, Items
<1>5. job[t].op # "delete" /\ CallInv(t) /\ Alone(t)
  BY <1>2, <1>3 DEF SoleInv, CallInv
<1>6. NoGhosts
  BY <1>2, <1>5 DEF SoleInv, Prunes, NoGhosts
<1>7. NoGhosts'
  BY <1>1, <1>6 DEF NoGhosts
<1>8. ASSUME Proceed(t, [job[t] EXCEPT !.seen = {[source |-> item.source, facts |-> doc[item.source]]}]),
             job[t].op = "unlink" => Revised(t, item.source, doc[item.source]) # doc[item.source]
      PROVE  Alone(t)' /\ CallInv(t)'
  <2>1. PICK j : /\ j.op = job[t].op /\ j.batch = job[t].batch
                 /\ j.seen = {[source |-> item.source, facts |-> doc[item.source]]}
                 /\ Proceed(t, j)
    BY <1>4, <1>8 DEF Jobs
  <2>2. Alone(t)' /\ pc'[t] = "write" /\ job'[t] = j
    BY <1>5, <2>1, ProceedSole
  <2>3. item.source \notin fresh
    <3>1. CASE job[t].op = "unlink"
      <4>1. item.source \notin points => Revised(t, item.source, doc[item.source]) = doc[item.source]
        BY <1>4, <3>1 DEF TypeOK, Revised
      <4> QED
        BY <1>8, <3>1, <4>1 DEF TypeOK
    <3>2. CASE job[t].op # "unlink"
      BY <1>3, <3>2 DEF AnchorInv, JobInv
    <3> QED
      BY <3>1, <3>2
  <2>4. CallInv(t)'
    BY <1>1, <1>5, <2>1, <2>2, <2>3 DEF CallInv, Grounded
  <2> QED
    BY <2>2, <2>4
<1>9. ASSUME Proceed(t, [job[t] EXCEPT !.batch = Others(t, item.source)])
      PROVE  Alone(t)' /\ CallInv(t)'
  <2>1. PICK j : /\ j.op = job[t].op /\ j.batch = Others(t, item.source)
                 /\ j.seen = job[t].seen
                 /\ Proceed(t, j)
    BY <1>4, <1>9 DEF Jobs
  <2>2. /\ Alone(t)'
        /\ \/ pc'[t] \in {"read", "write"} /\ job'[t] = j
           \/ pc'[t] = "idle" /\ job'[t] = NoJob
    BY <1>5, <2>1, ProceedSole
  <2>3. CASE pc'[t] \in {"read", "write"} /\ job'[t] = j
    BY <1>1, <1>4, <1>5, <2>1, <2>2, <2>3 DEF CallInv, Grounded
  <2> QED
    BY <2>2, <2>3, NoJobCall
<1> QED
  BY <1>1, <1>2, <1>3, <1>7, <1>8, <1>9, SoleFromNoGhosts

\* A write of a link, an unlink or an annotation adds no ghost; one of a delete takes
\* some away, and the others are of points that it holds.
LEMMA WriteSole ==
    ASSUME TypeOK, GhostInv, NEW t \in Threads, Write(t), ~disturbed'
    PROVE  GhostInv'
<1>1. pc[t] = "write" /\ ~disturbed /\ points' = points /\ fresh' = fresh
  BY DEF Write, Goes
<1>2. SoleInv(t) /\ IsFiniteSet(points) /\ Alone(t) /\ CallInv(t)
  BY <1>1, ActiveSole DEF GhostInv, SoleInv
<1>3. PICK d \in job[t].seen :
        \/ /\ doc' = IF d.source \in points
                     THEN [doc EXCEPT ![d.source] = Revised(t, d.source, d.facts)] ELSE doc
           /\ Proceed(t, [job[t] EXCEPT !.batch = Others(t, d.source), !.seen = @ \ {d}])
        \/ d.source \notin points /\ Finish(t) /\ UNCHANGED doc
  BY DEF Write
<1>4. job[t] \in Jobs /\ d \in Docs /\ Others(t, d.source) \subseteq job[t].batch
  BY DEF TypeOK, Jobs, Others
<1>5. job \in [Threads -> Jobs] /\ pc \in [Threads -> Steps] /\ doc \in [Ids -> SUBSET Facts]
  BY DEF TypeOK, Jobs
<1>6. ASSUME d.source \notin points, Finish(t), UNCHANGED doc PROVE GhostInv'
  <2>1. pc'[t] = "idle" /\ job'[t] = NoJob /\ Alone(t)'
    BY <1>2, <1>5, <1>6 DEF Finish, Goto, Alone
  <2>2. NoGhosts'
    BY <1>1, <1>2, <1>6 DEF SoleInv, NoGhosts
  <2> QED
    BY <1>1, <1>2, <2>1, <2>2, NoJobCall, SoleFromNoGhosts
<1>7. ASSUME doc' = (IF d.source \in points
                     THEN [doc EXCEPT ![d.source] = Revised(t, d.source, d.facts)] ELSE doc),
             Proceed(t, [job[t] EXCEPT !.batch = Others(t, d.source), !.seen = @ \ {d}])
      PROVE  GhostInv'
  <2>1. PICK j : /\ j.op = job[t].op /\ j.id = job[t].id /\ j.batch = Others(t, d.source)
                 /\ j.seen = job[t].seen \ {d}
                 /\ Proceed(t, j)
    BY <1>4, <1>7 DEF Jobs
  <2>2. /\ Alone(t)'
        /\ \/ j.seen # {} /\ pc'[t] = "write" /\ job'[t] = j
           \/ j.seen = {} /\ j.batch # {} /\ pc'[t] = "read" /\ job'[t] = j
           \/ j.seen = {} /\ j.batch = {} /\ pc'[t] = "idle" /\ job'[t] = NoJob
    BY <1>2, <2>1, ProceedSole
  <2>3. \A e \in j.seen : e.source \notin fresh /\ (e.source \in points => e.facts = doc'[e.source])
    <3> SUFFICES ASSUME NEW e \in j.seen, e.source \in points
                 PROVE  e.facts = doc'[e.source]
      BY <1>2, <2>1 DEF CallInv
    <3>1. e \in job[t].seen /\ e # d /\ e \in Docs
      BY <1>4, <2>1 DEF Jobs
    <3>2. e.facts = doc[e.source] /\ (d.source \in points => d.facts = doc[d.source])
      BY <1>2, <3>1 DEF CallInv
    <3>3. e.source = d.source => e = d
      BY <1>4, <3>1, <3>2 DEF Docs
    <3> QED
      BY <1>4, <1>5, <1>7, <3>1, <3>2, <3>3 DEF Docs
  <2>4. CallInv(t)'
    <3>1. CASE pc'[t] \in {"read", "write"} /\ job'[t] = j
      <4>1. j.op = "delete" => j.batch = {}
        BY <1>2, <1>4, <2>1 DEF CallInv
      <4>2. j.op \notin {"delete", "unlink"} =>
              \A item \in j.batch : Grounded(item)
        BY <1>2, <1>4, <2>1 DEF CallInv
      <4> QED
        BY <1>1, <2>3, <3>1, <4>1, <4>2 DEF CallInv, Grounded
    <3> QED
      BY <2>2, <3>1, NoJobCall
  <2>5. CASE job[t].op # "delete"
    <3>1. NoGhosts
      BY <1>2, <2>5 DEF SoleInv, Prunes, NoGhosts
    <3>2. ASSUME d.source \in points, NEW f \in Revised(t, d.source, d.facts)
          PROVE  f.target \in points \cup {NoId}
      <4>1. d.facts = doc[d.source] /\ d.source \in Ids
        BY <1>2, <1>4, <3>2 DEF CallInv, Docs
      <4>2. CASE job[t].op = "unlink"
        BY <3>1, <3>2, <4>1, <4>2 DEF Revised, NoGhosts
      <4>3. CASE job[t].op # "unlink"
        <5>1. Revised(t, d.source, d.facts) \subseteq d.facts \cup Asked(t, d.source)
          BY <2>5, <4>3 DEF Revised, Unnamed
        <5>2. \A g \in Asked(t, d.source) : g.target \in points \cup {NoId}
          BY <1>2, <2>5, <3>2, <4>3 DEF Asked, CallInv, Grounded
        <5> QED
          BY <3>1, <3>2, <4>1, <5>1, <5>2 DEF NoGhosts
      <4> QED
        BY <4>2, <4>3
    <3>3. NoGhosts'
      BY <1>1, <1>5, <1>7, <3>1, <3>2 DEF NoGhosts
    <3> QED
      BY <1>1, <1>2, <2>2, <2>4, <3>3, SoleFromNoGhosts
  <2>6. CASE job[t].op = "delete"
    <3>1. Revised(t, d.source, d.facts) = {f \in d.facts : f.target # job[t].id}
      BY <2>6 DEF Revised
    <3>2. \A m \in Ids : doc'[m] \subseteq doc[m]
      BY <1>2, <1>4, <1>5, <1>7, <3>1 DEF CallInv
    <3>3. ASSUME NEW m \in Ids, NEW f \in doc'[m], f.target \notin points \cup {NoId}
          PROVE  [source |-> m, facts |-> doc[m]] \in job[t].seen \ {d}
                 /\ f.target = job[t].id /\ doc'[m] = doc[m]
      <4>1. Prunes(t, m, f)
        BY <1>2, <3>2, <3>3 DEF SoleInv
      <4>2. [source |-> m, facts |-> doc[m]] \in job[t].seen /\ f.target = job[t].id
        BY <1>1, <4>1 DEF Prunes
      <4>3. CASE d.source \notin points
        BY <1>2, <3>2, <3>3, <4>3 DEF SoleInv, NoGhosts
      <4>4. CASE d.source \in points
        <5>1. m # d.source
          BY <1>4, <1>5, <1>7, <3>1, <3>3, <4>2, <4>4 DEF Docs
        <5> QED
          BY <1>5, <1>7, <4>2, <4>4, <5>1
      <4> QED
        BY <4>3, <4>4
    <3>4. CASE NoGhosts'
      BY <1>1, <1>2, <2>2, <2>4, <3>4, SoleFromNoGhosts
    <3>5. CASE ~NoGhosts'
      <4>1. ~NoGhosts
        BY <1>1, <3>2, <3>5 DEF NoGhosts
      <4>2. j.seen # {}
        BY <1>1, <2>1, <3>3, <3>5 DEF NoGhosts
      <4>3. pc'[t] = "write" /\ job'[t] = j
        BY <2>2, <4>2
      <4>4. SoleInv(t)'
        <5>1. ASSUME NEW m \in Ids, NEW f \in doc'[m], f.target \notin points \cup {NoId}
              PROVE  Prunes(t, m, f)'
          BY <2>1, <2>6, <3>3, <4>3, <5>1 DEF Prunes
        <5>2. \A e \in j.seen : e.source \in points
          BY <1>2, <2>1, <4>1 DEF SoleInv
        <5> QED
          BY <1>1, <2>2, <2>4, <4>3, <5>1, <5>2 DEF SoleInv
      <4> QED
        BY <1>1, <1>2, <4>4 DEF GhostInv
    <3> QED
      BY <3>4, <3>5
  <2> QED
    BY <2>5, <2>6
<1> QED
  BY <1>3, <1>6, <1>7

\* A delete drops its memory, and may make ghosts that lead to it.
LEMMA DropSole ==
    ASSUME TypeOK, GhostInv, NEW t \in Threads, Drop(t), ~disturbed'
    PROVE  GhostInv'
<1>1. /\ pc[t] = "drop" /\ ~disturbed /\ fresh' = fresh
      /\ points' = points \ {job[t].id} /\ doc' = [doc EXCEPT ![job[t].id] = {}]
      /\ pc' = [pc EXCEPT ![t] = "scroll"] /\ job' = [job EXCEPT ![t] = job[t]]
  BY DEF Drop, Goes, Goto
<1>2. /\ pc \in [Threads -> Steps] /\ job \in [Threads -> Jobs] /\ doc \in [Ids -> SUBSET Facts]
  BY DEF TypeOK, Jobs
<1>3. SoleInv(t) /\ IsFiniteSet(points)
  BY <1>1, ActiveSole DEF GhostInv
<1>4. job[t].op = "delete" /\ job[t].seen = {} /\ job[t].batch = {}
  BY <1>1, <1>3 DEF SoleInv, CallInv
<1>5. pc'[t] = "scroll" /\ job' = job
  BY <1>1, <1>2
<1>6. NoGhosts
  BY <1>1, <1>3 DEF SoleInv, Prunes, NoGhosts
<1>7. IsFiniteSet(points')
  BY <1>1, <1>3, FS_Subset
<1>8. Alone(t)' /\ CallInv(t)'
  BY <1>1, <1>2, <1>3, <1>4, <1>5 DEF SoleInv, Alone, CallInv
<1>9. ASSUME NEW m \in Ids, NEW f \in doc'[m], f.target \notin points' \cup {NoId}
      PROVE  Prunes(t, m, f)'
  <2>1. f \in doc[m]
    BY <1>1, <1>2, <1>9
  <2>2. f.target = job[t].id
    BY <1>1, <1>6, <1>9, <2>1 DEF NoGhosts
  <2> QED
    BY <1>4, <1>5, <2>2 DEF Prunes
<1>10. SoleInv(t)'
  BY <1>4, <1>5, <1>8, <1>9 DEF SoleInv
<1> QED
  BY <1>7, <1>10 DEF GhostInv

\* A scroll that sees every point finds every ghost.
LEMMA ScrollSole ==
    ASSUME TypeOK, GhostInv, NEW t \in Threads, Scroll(t), ~disturbed'
    PROVE  GhostInv'
<1>1. /\ pc[t] = "scroll" /\ ~disturbed /\ ~(Cardinality(points) > MaxPoints)
      /\ fresh' = fresh /\ points' = points /\ doc' = doc
  BY DEF Scroll, storeVars
<1>2. SoleInv(t) /\ IsFiniteSet(points)
  BY <1>1, ActiveSole DEF GhostInv
<1>3. job[t].op = "delete" /\ job[t].seen = {} /\ job[t].batch = {} /\ Alone(t)
  BY <1>1, <1>2 DEF SoleInv, CallInv
<1>4. PICK W \in Windows :
          Proceed(t, [job[t] EXCEPT !.seen =
            {[source |-> m, facts |-> doc[m]] : m \in {w \in W : HasRelationTo(w, job[t].id)}}])
  BY DEF Scroll
<1>5. W = points
  <2>1. Cardinality(points) \in Nat
    BY <1>2, FS_CardinalityType
  <2>2. Cardinality(W) = Cardinality(points) /\ W \in SUBSET points
    BY <1>1, <1>4, <2>1, BoundsAssumption DEF Windows
  <2> QED
    BY <1>2, <2>2, FS_Subset
<1> DEFINE S == {[source |-> m, facts |-> doc[m]] : m \in {w \in points : HasRelationTo(w, job[t].id)}}
<1>6. \A d \in S : d.source \in points /\ d.facts = doc[d.source]
  OBVIOUS
<1>7. \A m \in points : HasRelationTo(m, job[t].id) => [source |-> m, facts |-> doc[m]] \in S
  OBVIOUS
<1>8. Proceed(t, [job[t] EXCEPT !.seen = S])
  BY <1>4, <1>5
<1> HIDE DEF S
<1>9. job[t] \in Jobs
  BY DEF TypeOK, Jobs
<1>10. PICK j : /\ j.op = "delete" /\ j.id = job[t].id /\ j.batch = {} /\ j.seen = S
                /\ Proceed(t, j)
  BY <1>3, <1>8, <1>9 DEF Jobs
<1>11. /\ Alone(t)'
       /\ \/ S # {} /\ pc'[t] = "write" /\ job'[t] = j
          \/ S = {} /\ pc'[t] = "idle" /\ job'[t] = NoJob
  BY <1>3, <1>10, ProceedSole
<1>12. ASSUME NEW m \in Ids, NEW f \in doc[m], f.target \notin points \cup {NoId}
       PROVE  f.target = job[t].id /\ [source |-> m, facts |-> doc[m]] \in S
  <2>1. Prunes(t, m, f)
    BY <1>2, <1>12 DEF SoleInv
  <2>2. m \in points
    BY <1>12 DEF TypeOK
  <2> QED
    BY <1>7, <1>12, <2>1, <2>2 DEF Prunes, HasRelationTo
<1>13. CASE S # {} /\ pc'[t] = "write" /\ job'[t] = j
  <2>1. CallInv(t)'
    BY <1>1, <1>6, <1>10, <1>13 DEF CallInv, TypeOK
  <2>2. ASSUME NEW m \in Ids, NEW f \in doc'[m], f.target \notin points' \cup {NoId}
        PROVE  Prunes(t, m, f)'
    BY <1>1, <1>10, <1>12, <1>13, <2>2 DEF Prunes
  <2>3. SoleInv(t)'
    BY <1>1, <1>6, <1>10, <1>11, <1>13, <2>1, <2>2 DEF SoleInv
  <2> QED
    BY <1>1, <1>2, <2>3 DEF GhostInv
<1>14. CASE S = {} /\ pc'[t] = "idle" /\ job'[t] = NoJob
  <2>1. NoGhosts'
    BY <1>1, <1>12, <1>14 DEF NoGhosts
  <2> QED
    BY <1>1, <1>2, <1>11, <1>14, <2>1, NoJobCall, SoleFromNoGhosts
<1> QED
  BY <1>11, <1>13, <1>14

\* A new memory has no relations, and no call knows it.
LEMMA RememberSole ==
    ASSUME TypeOK, GhostInv, NEW n \in Ids, Remember(n), ~disturbed'
    PROVE  GhostInv'
<1>1. /\ n \in fresh /\ points' = points \cup {n} /\ fresh' = fresh \ {n}
      /\ doc' = [doc EXCEPT ![n] = {Anchor}] /\ pc' = pc /\ job' = job /\ ~disturbed
  BY DEF Remember
<1>2. doc \in [Ids -> SUBSET Facts] /\ job \in [Threads -> Jobs]
  BY DEF TypeOK, Jobs
<1>3. IsFiniteSet(points')
  BY <1>1, FS_AddElement DEF GhostInv
<1>4. \A m \in Ids : \A f \in doc'[m] : f.target \notin points' \cup {NoId} =>
          m # n /\ f \in doc[m] /\ doc'[m] = doc[m] /\ f.target \notin points \cup {NoId}
  BY <1>1, <1>2 DEF Anchor
<1>5. NoGhosts => NoGhosts'
  BY <1>4 DEF NoGhosts
<1>6. ASSUME NEW t \in Threads, SoleInv(t) PROVE SoleInv(t)'
  <2>1. Alone(t)'
    BY <1>1, <1>6 DEF SoleInv, Alone
  <2>2. \A item \in job[t].batch : Grounded(item) => Grounded(item)'
    BY <1>1 DEF Grounded
  <2>3. \A d \in job[t].seen : /\ d.source \notin fresh'
                               /\ d.source \in points' => d.facts = doc'[d.source]
    BY <1>1, <1>2, <1>6 DEF SoleInv, CallInv
  <2>4. CallInv(t)'
    BY <1>1, <1>6, <2>2, <2>3 DEF SoleInv, CallInv
  <2>5. ASSUME NEW m \in Ids, NEW f \in doc'[m], f.target \notin points' \cup {NoId}
        PROVE  Prunes(t, m, f)'
    BY <1>1, <1>4, <1>6, <2>5 DEF SoleInv, Prunes
  <2>6. (\E d \in job'[t].seen : d.source \notin points') => NoGhosts'
    BY <1>1, <1>5, <1>6 DEF SoleInv
  <2> QED
    BY <2>1, <2>4, <2>5, <2>6 DEF SoleInv
<1> QED
  BY <1>1, <1>3, <1>5, <1>6 DEF GhostInv

LEMMA GhostStep == TypeOK /\ AnchorInv /\ GhostInv /\ [Next]_vars => GhostInv'
<1> SUFFICES ASSUME TypeOK, AnchorInv, GhostInv, [Next]_vars PROVE GhostInv'
  OBVIOUS
<1>1. ASSUME points' = points, disturbed' PROVE GhostInv'
  BY <1>1 DEF GhostInv
<1>2. ASSUME NEW t \in Threads, Link(t) PROVE GhostInv'
  <2>1. PICK B \in Batches :
          Proceed(t, [NoJob EXCEPT !.op = "link", !.batch = {item \in B : Valid(item)}])
    BY <1>2 DEF Link
  <2> DEFINE S == {item \in B : Valid(item)}
  <2>2. \A item \in S : Grounded(item)
    BY DEF Valid, Grounded, TypeOK
  <2> HIDE DEF S
  <2>3. PICK j : j.op = "link" /\ j.seen = {} /\ j.batch = S /\ Proceed(t, j)
    BY <2>1 DEF NoJob, S
  <2>4. Begins(t) /\ points' = points /\ disturbed' \in BOOLEAN
    BY <1>2 DEF Link, Begins, storeVars, TypeOK
  <2> QED
    BY <1>1, <2>2, <2>3, <2>4, RequestSole
<1>3. ASSUME NEW t \in Threads, Unlink(t) PROVE GhostInv'
  <2>1. PICK B \in Batches : Proceed(t, [NoJob EXCEPT !.op = "unlink", !.batch = B])
    BY <1>3 DEF Unlink
  <2>2. PICK j : j.op = "unlink" /\ j.seen = {} /\ Proceed(t, j)
    BY <2>1 DEF NoJob
  <2>3. Begins(t) /\ points' = points
    BY <1>3 DEF Unlink, Begins, storeVars
  <2> QED
    BY <1>1, <2>2, <2>3, RequestSole
<1>4. ASSUME NEW t \in Threads, Annotate(t) PROVE GhostInv'
  <2>1. PICK m \in Ids, A \in Annotations :
          IF m \in points
          THEN Proceed(t, [NoJob EXCEPT !.op = "annotate",
                                        !.batch = {[source |-> m, fact |-> f] : f \in A},
                                        !.seen = {[source |-> m, facts |-> doc[m]]}])
          ELSE UNCHANGED <<pc, job>>
    BY <1>4 DEF Annotate
  <2>2. PICK B : B = {[source |-> m, fact |-> f] : f \in A}
    OBVIOUS
  <2>3. Begins(t) /\ points' = points
    BY <1>4 DEF Annotate, Begins, storeVars
  <2>4. \A item \in B : Grounded(item)
    BY <2>2, AnnotationItems DEF Grounded
  <2>5. CASE m \in points
    <3>1. PICK j : /\ j.op = "annotate" /\ j.batch = B
                   /\ j.seen = {[source |-> m, facts |-> doc[m]]} /\ Proceed(t, j)
      BY <2>1, <2>2, <2>5 DEF NoJob
    <3>2. m \notin fresh
      BY <2>5 DEF TypeOK
    <3> QED
      BY <1>1, <2>3, <2>4, <2>5, <3>1, <3>2, RequestSole
  <2>6. CASE m \notin points
    BY <1>4, <2>1, <2>6, IdleSole DEF Annotate
  <2> QED
    BY <2>5, <2>6
<1>5. ASSUME NEW t \in Threads, Delete(t) PROVE GhostInv'
  <2>1. PICK m \in points : Goto(t, "drop", [NoJob EXCEPT !.op = "delete", !.id = m])
    BY <1>5 DEF Delete
  <2>2. Begins(t) /\ points' = points /\ doc' = doc /\ fresh' = fresh
    BY <1>5 DEF Delete, Begins, storeVars
  <2>3. CASE ~disturbed'
    <3>1. Alone(t) /\ NoGhosts /\ IsFiniteSet(points)
      BY <2>2, <2>3, BeginSole
    <3>2. PICK j : j.op = "delete" /\ j.seen = {} /\ j.batch = {} /\ Goto(t, "drop", j)
      BY <2>1 DEF NoJob
    <3>3. pc \in [Threads -> Steps] /\ job \in [Threads -> Jobs]
      BY DEF TypeOK, Jobs
    <3>4. pc'[t] = "drop" /\ job'[t] = j /\ Alone(t)'
      BY <3>1, <3>2, <3>3 DEF Goto, Alone
    <3>5. CallInv(t)'
      BY <3>2, <3>4 DEF CallInv
    <3>6. NoGhosts'
      BY <2>2, <3>1 DEF NoGhosts
    <3> QED
      BY <2>2, <3>1, <3>4, <3>5, <3>6, SoleFromNoGhosts
  <2> QED
    BY <1>1, <2>2, <2>3
<1>6. ASSUME NEW t \in Threads, Read(t) PROVE GhostInv'
  BY <1>1, <1>6, ReadSole DEF Read
<1>7. ASSUME NEW t \in Threads, Write(t) PROVE GhostInv'
  BY <1>1, <1>7, WriteSole DEF Write
<1>8. ASSUME NEW t \in Threads, Drop(t) PROVE GhostInv'
  <2>1. IsFiniteSet(points')
    BY <1>8, FS_Subset DEF Drop, GhostInv
  <2> QED
    BY <1>8, <2>1, DropSole DEF GhostInv
<1>9. ASSUME NEW t \in Threads, Scroll(t) PROVE GhostInv'
  BY <1>1, <1>9, ScrollSole DEF Scroll, storeVars
<1>10. ASSUME NEW t \in Threads, Fail(t) PROVE GhostInv'
  BY <1>1, <1>10 DEF Fail, storeVars
<1>11. ASSUME NEW n \in Ids, Remember(n) PROVE GhostInv'
  <2>1. IsFiniteSet(points')
    BY <1>11, FS_AddElement DEF Remember, GhostInv
  <2> QED
    BY <1>11, <2>1, RememberSole DEF GhostInv
<1>12. ASSUME DropCollection PROVE GhostInv'
  <2>1. /\ points' = {} /\ doc' = [m \in Ids |-> {}] /\ fresh' = fresh
        /\ pc' = pc /\ job' = job /\ disturbed' = disturbed
    BY <1>12 DEF DropCollection
  <2>2. IsFiniteSet(points')
    BY <2>1, FS_EmptySet
  <2>3. NoGhosts'
    BY <2>1 DEF NoGhosts
  <2>4. ASSUME NEW t \in Threads, SoleInv(t) PROVE SoleInv(t)'
    <3>1. Alone(t)'
      BY <2>1, <2>4 DEF SoleInv, Alone
    <3>2. \A item \in job[t].batch : Grounded(item) => Grounded(item)'
      BY <2>1 DEF Grounded
    <3>3. CallInv(t)'
      BY <2>1, <2>4, <3>2 DEF SoleInv, CallInv
    <3> QED
      BY <2>3, <3>1, <3>3 DEF SoleInv, NoGhosts
  <2> QED
    BY <2>1, <2>2, <2>3, <2>4 DEF GhostInv
<1>13. ASSUME UNCHANGED vars PROVE GhostInv'
  <2>1. /\ points' = points /\ doc' = doc /\ fresh' = fresh
        /\ pc' = pc /\ job' = job /\ disturbed' = disturbed
    BY <1>13 DEF vars, storeVars
  <2>2. NoGhosts' <=> NoGhosts
    BY <2>1 DEF NoGhosts
  <2>3. \A t \in Threads : SoleInv(t) => SoleInv(t)'
    BY <2>1, <2>2 DEF SoleInv, Alone, CallInv, Grounded, Prunes
  <2> QED
    BY <2>1, <2>2, <2>3 DEF GhostInv
<1> QED
  BY <1>2, <1>3, <1>4, <1>5, <1>6, <1>7, <1>8, <1>9, <1>10, <1>11, <1>12, <1>13 DEF Next, Call

\* Whatever the window of a prune: where calls follow one another, none fails and no
\* delete meets more points than its scroll looks at, no relation is left to a memory
\* that is gone (delete_memory, prune_relations_to).
THEOREM NoGhostsUndisturbed == Spec => []GhostsNeedOverlap
<1>1. Init => TypeOK /\ AnchorInv /\ GhostInv
  <2>1. Init => TypeOK
    BY NoJobIsJob DEF Init, TypeOK, Steps, Jobs
  <2>2. Init => AnchorInv
    BY DEF Init, AnchorInv, JobInv, NoJob
  <2>3. Init => GhostInv
    BY FS_EmptySet DEF Init, GhostInv, NoGhosts
  <2> QED
    BY <2>1, <2>2, <2>3
<1>2. GhostInv => GhostsNeedOverlap
  <2> SUFFICES ASSUME GhostInv, Quiet, ~disturbed PROVE NoGhosts
    BY DEF GhostsNeedOverlap, Ghosts, NoGhosts
  <2> QED
    BY DEF GhostInv, SoleInv, Prunes, Quiet, NoGhosts
<1> QED
  BY <1>1, <1>2, TypeStep, AnchorStep, GhostStep, PTL DEF Spec

=============================================================================
