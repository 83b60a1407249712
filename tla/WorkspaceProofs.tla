-------------------------- MODULE WorkspaceProofs --------------------------
(***************************************************************************)
(* What overlapping requests can do to one user's workspace, for any       *)
(* number of requests, projects, keys and failures.                        *)
(*                                                                         *)
(* A request that has seen no default project will add one, and a request  *)
(* that has dropped the link keys will issue one, whatever others do in    *)
(* between.  Both bounds count these requests in; a new one joins them     *)
(* only in a state where what they bound is empty, so at most all requests *)
(* at once are counted.                                                    *)
(***************************************************************************)
EXTENDS Workspace, FiniteSetTheorems, TLAPS

USE ThreadsAssumption, NoneAssumption

\* Link keys keep their label until they go, and only drawn tokens are link keys.
KeysInv ==
    /\ minted \subseteq used
    /\ \A k \in minted : label[k] # "other"
    /\ \A k \in Keys : label[k] # "absent" => k \in used
    /\ \A t \in Threads : pc[t] \in {"flag", "find_row", "insert_row"} => at[t] \in Projects

Finite == IsFiniteSet(flagged) /\ IsFiniteSet(minted)

IInv == TypeOK /\ KeysInv /\ Finite /\ DefaultsBounded /\ LinksBounded

\* Every step keeps the types.
LEMMA TypeStep == TypeOK /\ KeysInv /\ [Next]_vars => TypeOK' /\ KeysInv'
<1> SUFFICES ASSUME TypeOK, KeysInv, [Next]_vars PROVE TypeOK' /\ KeysInv'
  OBVIOUS
<1> USE DEF TypeOK, KeysInv, Steps, Labels, dbVars, ghostVars, Goto, Finish, Resolved, Registered
<1>1. ASSUME NEW t \in Threads, Begin(t) PROVE TypeOK' /\ KeysInv'
  BY <1>1 DEF Begin
<1>2. ASSUME NEW t \in Threads, FindKey(t) PROVE TypeOK' /\ KeysInv'
  BY <1>2 DEF FindKey
<1>3. ASSUME NEW t \in Threads, FindDefault(t) PROVE TypeOK' /\ KeysInv'
  BY <1>3 DEF FindDefault
<1>4. ASSUME NEW t \in Threads, AddProject(t) PROVE TypeOK' /\ KeysInv'
  BY <1>4 DEF AddProject
<1>5. ASSUME NEW t \in Threads, Flag(t) PROVE TypeOK' /\ KeysInv'
  BY <1>5 DEF Flag
<1>6. ASSUME NEW t \in Threads, FindRow(t) PROVE TypeOK' /\ KeysInv'
  BY <1>6 DEF FindRow
<1>7. ASSUME NEW t \in Threads, InsertRow(t) PROVE TypeOK' /\ KeysInv'
  BY <1>7 DEF InsertRow
<1>8. ASSUME NEW t \in Threads, DropKeys(t) PROVE TypeOK' /\ KeysInv'
  BY <1>8 DEF DropKeys
<1>9. ASSUME NEW t \in Threads, InsertKey(t) PROVE TypeOK' /\ KeysInv'
  BY <1>9 DEF InsertKey
<1>10. ASSUME NEW t \in Threads, Fail(t) PROVE TypeOK' /\ KeysInv'
  BY <1>10 DEF Fail
<1>11. ASSUME NEW k \in Keys, DeleteKey(k) PROVE TypeOK' /\ KeysInv'
  BY <1>11 DEF DeleteKey
<1>12. ASSUME NEW k \in Keys, NEW name \in Labels \ {"absent"}, CreateKey(k, name) PROVE TypeOK' /\ KeysInv'
  BY <1>12 DEF CreateKey
<1>13. ASSUME NEW p \in Projects, DeleteProject(p) PROVE TypeOK' /\ KeysInv'
  BY <1>13 DEF DeleteProject
<1>14. ASSUME NEW t \in Threads, NEW p \in Projects, BeginOn(t, p) PROVE TypeOK' /\ KeysInv'
  BY <1>14 DEF BeginOn
<1>15. ASSUME NEW p \in Projects, CreateProject(p) PROVE TypeOK' /\ KeysInv'
  BY <1>15 DEF CreateProject
<1>16. ASSUME NEW p \in Projects, DeleteRow(p) PROVE TypeOK' /\ KeysInv'
  BY <1>16 DEF DeleteRow
<1>17. CASE UNCHANGED vars
  BY <1>17 DEF vars
<1> QED
  BY <1>1, <1>2, <1>3, <1>4, <1>5, <1>6, <1>7, <1>8, <1>9, <1>10, <1>11, <1>12, <1>13, <1>14, <1>15,
     <1>16, <1>17 DEF Next, Request

\* Projects, rows, keys and requests keep their types.
THEOREM TypeCorrect == Spec => []TypeOK
<1>1. Init => TypeOK /\ KeysInv
  BY DEF Init, TypeOK, KeysInv, Steps, Labels
<1> QED
  BY <1>1, TypeStep, PTL DEF Spec

\* Two finite sets that do not grow stay within a bound on the sum of their sizes.
LEMMA ShrinkingPair ==
    ASSUME NEW A, NEW B, NEW C, NEW D, NEW n \in Nat, IsFiniteSet(A), IsFiniteSet(B),
           Cardinality(A) + Cardinality(B) <= n, C \subseteq A, D \subseteq B
    PROVE  IsFiniteSet(C) /\ Cardinality(C) + Cardinality(D) <= n
<1>1. Cardinality(A) \in Nat /\ Cardinality(B) \in Nat
  BY FS_CardinalityType
<1>2. IsFiniteSet(C) /\ Cardinality(C) \in Nat /\ Cardinality(C) <= Cardinality(A)
  BY FS_Subset, FS_CardinalityType
<1>3. Cardinality(D) \in Nat /\ Cardinality(D) <= Cardinality(B)
  BY FS_Subset, FS_CardinalityType
<1> QED
  BY <1>1, <1>2, <1>3

\* An element that moves from the second set into one new element of the first one
\* leaves the sum of their sizes within its bound.
LEMMA MovingOne ==
    ASSUME NEW A, NEW B, NEW C, NEW D, NEW x, NEW y, NEW n \in Nat, IsFiniteSet(A), IsFiniteSet(B),
           Cardinality(A) + Cardinality(B) <= n, C \subseteq A \cup {x}, y \in B, D \subseteq B \ {y}
    PROVE  IsFiniteSet(C) /\ Cardinality(C) + Cardinality(D) <= n
<1>1. Cardinality(A) \in Nat /\ Cardinality(B) \in Nat
  BY FS_CardinalityType
<1>2. /\ IsFiniteSet(A \cup {x})
      /\ Cardinality(A \cup {x}) \in Nat
      /\ Cardinality(A \cup {x}) <= Cardinality(A) + 1
  <2>1. /\ IsFiniteSet(A \cup {x})
        /\ Cardinality(A \cup {x}) = IF x \in A THEN Cardinality(A) ELSE Cardinality(A) + 1
    BY FS_AddElement
  <2> QED
    BY <1>1, <2>1
<1>3. /\ IsFiniteSet(B \ {y})
      /\ Cardinality(B \ {y}) = Cardinality(B) - 1
  BY FS_RemoveElement
<1>4. Cardinality(A \cup {x}) + Cardinality(B \ {y}) <= n
  BY <1>1, <1>2, <1>3
<1> QED
  BY <1>2, <1>3, <1>4, ShrinkingPair

\* Where the first set is empty the second one may be any set of requests.
LEMMA OnlyThreads ==
    ASSUME NEW A, NEW B, A = {}, B \subseteq Threads
    PROVE  /\ IsFiniteSet(A) /\ IsFiniteSet(B)
           /\ Cardinality(Threads) \in Nat
           /\ Cardinality(A) + Cardinality(B) <= Cardinality(Threads)
<1>1. IsFiniteSet(A) /\ Cardinality(A) = 0
  BY FS_EmptySet
<1>2. Cardinality(Threads) \in Nat /\ Cardinality(B) \in Nat /\ Cardinality(B) <= Cardinality(Threads)
  BY FS_Subset, FS_CardinalityType
<1> QED
  BY <1>1, <1>2, FS_Subset

\* How the counted sets move: at every step the default projects and the requests
\* that will add one shrink, or trade one for one, or start from no default project.
DefaultsMoves ==
    \/ flagged' \subseteq flagged /\ Adding' \subseteq Adding
    \/ \E t \in Adding, p \in Projects \cup {NoProject} :
         flagged' \subseteq flagged \cup {p} /\ Adding' \subseteq Adding \ {t}
    \/ flagged' = {}

\* Every step moves them so.
LEMMA DefaultsMove == ASSUME TypeOK, [Next]_vars PROVE DefaultsMoves
<1> USE DEF TypeOK, dbVars, ghostVars, Goto, Finish, Resolved, Registered, Adding, DefaultsMoves
<1>1. ASSUME NEW t \in Threads, Begin(t) PROVE DefaultsMoves
  BY <1>1 DEF Begin
<1>2. ASSUME NEW t \in Threads, FindKey(t) PROVE DefaultsMoves
  BY <1>2 DEF FindKey
<1>3. ASSUME NEW t \in Threads, FindDefault(t) PROVE DefaultsMoves
  BY <1>3 DEF FindDefault
<1>4. ASSUME NEW t \in Threads, AddProject(t) PROVE DefaultsMoves
  BY <1>4 DEF AddProject
<1>5. ASSUME NEW t \in Threads, Flag(t) PROVE DefaultsMoves
  <2>1. t \in Adding /\ at[t] \in Projects \cup {NoProject}
    BY <1>5 DEF Flag
  <2>2. flagged' \subseteq flagged \cup {at[t]}
    BY <1>5 DEF Flag
  <2>3. Adding' \subseteq Adding \ {t}
    BY <1>5 DEF Flag
  <2> QED
    BY <2>1, <2>2, <2>3
<1>6. ASSUME NEW t \in Threads, FindRow(t) PROVE DefaultsMoves
  BY <1>6 DEF FindRow
<1>7. ASSUME NEW t \in Threads, InsertRow(t) PROVE DefaultsMoves
  BY <1>7 DEF InsertRow
<1>8. ASSUME NEW t \in Threads, DropKeys(t) PROVE DefaultsMoves
  BY <1>8 DEF DropKeys
<1>9. ASSUME NEW t \in Threads, InsertKey(t) PROVE DefaultsMoves
  BY <1>9 DEF InsertKey
<1>10. ASSUME NEW t \in Threads, Fail(t) PROVE DefaultsMoves
  BY <1>10 DEF Fail
<1>11. ASSUME NEW k \in Keys, DeleteKey(k) PROVE DefaultsMoves
  BY <1>11 DEF DeleteKey
<1>12. ASSUME NEW k \in Keys, NEW name \in Labels \ {"absent"}, CreateKey(k, name) PROVE DefaultsMoves
  BY <1>12 DEF CreateKey
<1>13. ASSUME NEW p \in Projects, DeleteProject(p) PROVE DefaultsMoves
  BY <1>13 DEF DeleteProject
<1>14. ASSUME NEW t \in Threads, NEW p \in Projects, BeginOn(t, p) PROVE DefaultsMoves
  BY <1>14 DEF BeginOn
<1>15. ASSUME NEW p \in Projects, CreateProject(p) PROVE DefaultsMoves
  BY <1>15 DEF CreateProject
<1>16. ASSUME NEW p \in Projects, DeleteRow(p) PROVE DefaultsMoves
  BY <1>16 DEF DeleteRow
<1>17. CASE UNCHANGED vars
  BY <1>17 DEF vars
<1> HIDE DEF TypeOK, dbVars, ghostVars, Goto, Finish, Resolved, Registered, Adding, DefaultsMoves
<1> QED
  BY <1>1, <1>2, <1>3, <1>4, <1>5, <1>6, <1>7, <1>8, <1>9, <1>10, <1>11, <1>12, <1>13, <1>14, <1>15,
     <1>16, <1>17 DEF Next, Request

\* The same for the live link keys and the requests that will issue one.
LinksMoves ==
    \/ LiveLinks' \subseteq LiveLinks /\ Issuing' \subseteq Issuing
    \/ \E t \in Issuing, k \in Keys :
         LiveLinks' \subseteq LiveLinks \cup {k} /\ Issuing' \subseteq Issuing \ {t}
    \/ LiveLinks' = {}

\* Every step moves them so.
LEMMA LinksMove == ASSUME TypeOK, KeysInv, [Next]_vars PROVE LinksMoves
<1> USE DEF TypeOK, KeysInv, dbVars, ghostVars, Goto, Finish, Resolved, Registered, LiveLinks, Issuing, LinksMoves
<1>1. ASSUME NEW t \in Threads, Begin(t) PROVE LinksMoves
  BY <1>1 DEF Begin
<1>2. ASSUME NEW t \in Threads, FindKey(t) PROVE LinksMoves
  BY <1>2 DEF FindKey
<1>3. ASSUME NEW t \in Threads, FindDefault(t) PROVE LinksMoves
  BY <1>3 DEF FindDefault
<1>4. ASSUME NEW t \in Threads, AddProject(t) PROVE LinksMoves
  BY <1>4 DEF AddProject
<1>5. ASSUME NEW t \in Threads, Flag(t) PROVE LinksMoves
  BY <1>5 DEF Flag
<1>6. ASSUME NEW t \in Threads, FindRow(t) PROVE LinksMoves
  BY <1>6 DEF FindRow
<1>7. ASSUME NEW t \in Threads, InsertRow(t) PROVE LinksMoves
  BY <1>7 DEF InsertRow
<1>8. ASSUME NEW t \in Threads, DropKeys(t) PROVE LinksMoves
  <2>1. LiveLinks' = {}
    BY <1>8 DEF DropKeys, Labels
  <2> QED
    BY <2>1
<1>9. ASSUME NEW t \in Threads, InsertKey(t) PROVE LinksMoves
  <2>1. PICK k \in Keys : label' = [label EXCEPT ![k] = "default"] /\ minted' = minted \cup {k}
    BY <1>9 DEF InsertKey
  <2>2. t \in Issuing /\ Issuing' \subseteq Issuing \ {t}
    BY <1>9 DEF InsertKey
  <2>3. LiveLinks' \subseteq LiveLinks \cup {k}
    BY <2>1
  <2> QED
    BY <2>2, <2>3
<1>10. ASSUME NEW t \in Threads, Fail(t) PROVE LinksMoves
  BY <1>10 DEF Fail
<1>11. ASSUME NEW k \in Keys, DeleteKey(k) PROVE LinksMoves
  BY <1>11 DEF DeleteKey
<1>12. ASSUME NEW k \in Keys, NEW name \in Labels \ {"absent"}, CreateKey(k, name) PROVE LinksMoves
  <2>1. k \notin minted /\ minted' = minted /\ pc' = pc
    BY <1>12 DEF CreateKey
  <2>2. label' = [label EXCEPT ![k] = name]
    BY <1>12 DEF CreateKey
  <2> QED
    BY <2>1, <2>2
<1>13. ASSUME NEW p \in Projects, DeleteProject(p) PROVE LinksMoves
  BY <1>13 DEF DeleteProject
<1>14. ASSUME NEW t \in Threads, NEW p \in Projects, BeginOn(t, p) PROVE LinksMoves
  BY <1>14 DEF BeginOn
<1>15. ASSUME NEW p \in Projects, CreateProject(p) PROVE LinksMoves
  BY <1>15 DEF CreateProject
<1>16. ASSUME NEW p \in Projects, DeleteRow(p) PROVE LinksMoves
  BY <1>16 DEF DeleteRow
<1>17. CASE UNCHANGED vars
  BY <1>17 DEF vars
<1> HIDE DEF TypeOK, KeysInv, dbVars, ghostVars, Goto, Finish, Resolved, Registered, LiveLinks, Issuing, LinksMoves
<1> QED
  BY <1>1, <1>2, <1>3, <1>4, <1>5, <1>6, <1>7, <1>8, <1>9, <1>10, <1>11, <1>12, <1>13, <1>14, <1>15,
     <1>16, <1>17 DEF Next, Request

\* Both bounds survive every step.
LEMMA BoundsStep == IInv /\ [Next]_vars => IInv'
<1> SUFFICES ASSUME IInv, [Next]_vars PROVE IInv'
  OBVIOUS
<1>1. TypeOK' /\ KeysInv'
  BY TypeStep DEF IInv
<1>2. /\ Cardinality(Threads) \in Nat
      /\ Adding \subseteq Threads /\ Issuing \subseteq Threads
      /\ Adding' \subseteq Threads /\ Issuing' \subseteq Threads
      /\ IsFiniteSet(Adding) /\ IsFiniteSet(Issuing)
  BY FS_Subset, FS_CardinalityType DEF Adding, Issuing
<1>3. IsFiniteSet(flagged') /\ DefaultsBounded'
  <2>1. IsFiniteSet(flagged) /\ Cardinality(flagged) + Cardinality(Adding) <= Cardinality(Threads)
    BY DEF IInv, Finite, DefaultsBounded
  <2>2. CASE flagged' \subseteq flagged /\ Adding' \subseteq Adding
    BY <2>1, <2>2, <1>2, ShrinkingPair DEF DefaultsBounded
  <2>3. ASSUME NEW t \in Adding, NEW p \in Projects \cup {NoProject},
               flagged' \subseteq flagged \cup {p}, Adding' \subseteq Adding \ {t}
        PROVE  IsFiniteSet(flagged') /\ DefaultsBounded'
    <3>1. IsFiniteSet(flagged') /\ Cardinality(flagged') + Cardinality(Adding') <= Cardinality(Threads)
      <4>1. \A A, B, C, D, n : /\ n \in Nat /\ IsFiniteSet(A) /\ IsFiniteSet(B)
                              /\ Cardinality(A) + Cardinality(B) <= n
                              /\ C \subseteq A \cup {p} /\ t \in B /\ D \subseteq B \ {t}
                              => IsFiniteSet(C) /\ Cardinality(C) + Cardinality(D) <= n
        BY MovingOne
      <4> QED
        BY <4>1, <2>1, <2>3, <1>2
    <3> QED
      BY <3>1 DEF DefaultsBounded
  <2>4. CASE flagged' = {}
    BY <2>4, <1>2, OnlyThreads DEF DefaultsBounded
  <2> QED
    BY <2>2, <2>3, <2>4, DefaultsMove DEF IInv, DefaultsMoves
<1>4. IsFiniteSet(minted')
  <2>1. \/ minted' = minted
        \/ \E k \in Keys : minted' = minted \cup {k}
    BY DEF Next, Request, vars, dbVars, ghostVars, Begin, BeginOn, FindKey, FindDefault, AddProject, Flag, FindRow,
           InsertRow, DropKeys, InsertKey, DeleteKey, CreateKey, CreateProject, DeleteRow, DeleteProject, Fail
  <2> QED
    BY <2>1, FS_AddElement DEF IInv, Finite
<1>5. LinksBounded'
  <2>1. IsFiniteSet(LiveLinks) /\ Cardinality(LiveLinks) + Cardinality(Issuing) <= Cardinality(Threads)
    BY FS_Subset DEF IInv, Finite, LinksBounded, LiveLinks
  <2>2. CASE LiveLinks' \subseteq LiveLinks /\ Issuing' \subseteq Issuing
    BY <2>1, <2>2, <1>2, ShrinkingPair DEF LinksBounded
  <2>3. ASSUME NEW t \in Issuing, NEW k \in Keys,
               LiveLinks' \subseteq LiveLinks \cup {k}, Issuing' \subseteq Issuing \ {t}
        PROVE  LinksBounded'
    <3>1. Cardinality(LiveLinks') + Cardinality(Issuing') <= Cardinality(Threads)
      BY <2>1, <2>3, <1>2, MovingOne
    <3> QED
      BY <3>1 DEF LinksBounded
  <2>4. CASE LiveLinks' = {}
    BY <2>4, <1>2, OnlyThreads DEF LinksBounded
  <2> QED
    BY <2>2, <2>3, <2>4, LinksMove DEF IInv, LinksMoves
<1> QED
  BY <1>1, <1>3, <1>4, <1>5 DEF IInv, Finite

\* Before the first request there is nothing to count.
LEMMA InitIInv == Init => IInv
<1> SUFFICES ASSUME Init PROVE IInv
  OBVIOUS
<1>1. TypeOK /\ KeysInv
  BY DEF Init, TypeOK, KeysInv, Steps, Labels
<1>2. flagged = {} /\ minted = {} /\ LiveLinks = {}
  BY DEF Init, LiveLinks
<1>3. Adding \subseteq Threads /\ Issuing \subseteq Threads
  BY DEF Adding, Issuing
<1>4. Finite
  BY <1>2, FS_EmptySet DEF Finite
<1> QED
  BY <1>1, <1>2, <1>3, <1>4, OnlyThreads DEF IInv, DefaultsBounded, LinksBounded

\* For any number of requests at once, a user never has more default projects than
\* requests that overlapped; one where they never do.
THEOREM DefaultsAreBounded == Spec => []DefaultsBounded
<1>1. IInv => DefaultsBounded
  BY DEF IInv
<1> QED
  BY <1>1, InitIInv, BoundsStep, PTL DEF Spec

\* The same for the link keys that still open the memory.
THEOREM LinksAreBounded == Spec => []LinksBounded
<1>1. IInv => LinksBounded
  BY DEF IInv
<1> QED
  BY <1>1, InitIInv, BoundsStep, PTL DEF Spec

\* The link issued last is one of those issued, and works unless something will
\* replace it or has failed.
LatestInv == (latest # NoKey => latest \in minted) /\ LatestLinkWorks

\* Only a rotation takes the latest link away, and it then has a key to issue.
LEMMA LatestStep == TypeOK /\ KeysInv /\ LatestInv /\ [Next]_vars => LatestInv'
<1> SUFFICES ASSUME TypeOK, KeysInv, LatestInv, [Next]_vars PROVE LatestInv'
  OBVIOUS
<1> USE DEF TypeOK, KeysInv, LatestInv, LatestLinkWorks, Issuing, dbVars, ghostVars,
            Goto, Finish, Resolved, Registered
<1>1. ASSUME NEW t \in Threads, Begin(t) PROVE LatestInv'
  BY <1>1 DEF Begin
<1>2. ASSUME NEW t \in Threads, FindKey(t) PROVE LatestInv'
  BY <1>2 DEF FindKey
<1>3. ASSUME NEW t \in Threads, FindDefault(t) PROVE LatestInv'
  BY <1>3 DEF FindDefault
<1>4. ASSUME NEW t \in Threads, AddProject(t) PROVE LatestInv'
  BY <1>4 DEF AddProject
<1>5. ASSUME NEW t \in Threads, Flag(t) PROVE LatestInv'
  BY <1>5 DEF Flag
<1>6. ASSUME NEW t \in Threads, FindRow(t) PROVE LatestInv'
  BY <1>6 DEF FindRow
<1>7. ASSUME NEW t \in Threads, InsertRow(t) PROVE LatestInv'
  BY <1>7 DEF InsertRow
<1>8. ASSUME NEW t \in Threads, DropKeys(t) PROVE LatestInv'
  BY <1>8 DEF DropKeys, Steps
<1>9. ASSUME NEW t \in Threads, InsertKey(t) PROVE LatestInv'
  BY <1>9 DEF InsertKey
<1>10. ASSUME NEW t \in Threads, Fail(t) PROVE LatestInv'
  BY <1>10 DEF Fail
<1>11. ASSUME NEW k \in Keys, DeleteKey(k) PROVE LatestInv'
  BY <1>11 DEF DeleteKey
<1>12. ASSUME NEW k \in Keys, NEW name \in Labels \ {"absent"}, CreateKey(k, name) PROVE LatestInv'
  BY <1>12 DEF CreateKey
<1>13. ASSUME NEW p \in Projects, DeleteProject(p) PROVE LatestInv'
  BY <1>13 DEF DeleteProject
<1>14. ASSUME NEW t \in Threads, NEW p \in Projects, BeginOn(t, p) PROVE LatestInv'
  BY <1>14 DEF BeginOn
<1>15. ASSUME NEW p \in Projects, CreateProject(p) PROVE LatestInv'
  BY <1>15 DEF CreateProject
<1>16. ASSUME NEW p \in Projects, DeleteRow(p) PROVE LatestInv'
  BY <1>16 DEF DeleteRow
<1>17. CASE UNCHANGED vars
  BY <1>17 DEF vars
<1> QED
  BY <1>1, <1>2, <1>3, <1>4, <1>5, <1>6, <1>7, <1>8, <1>9, <1>10, <1>11, <1>12, <1>13, <1>14, <1>15,
     <1>16, <1>17 DEF Next, Request

\* Where nothing fails, a user always has a link that works or one on its way,
\* from the first one issued until it is revoked by hand.
THEOREM LatestLinkStands == Spec => []LatestLinkWorks
<1>1. Init => TypeOK /\ KeysInv /\ LatestInv
  BY DEF Init, TypeOK, KeysInv, LatestInv, LatestLinkWorks, Steps, Labels
<1>2. LatestInv => LatestLinkWorks
  BY DEF LatestInv
<1> QED
  BY <1>1, <1>2, TypeStep, LatestStep, PTL DEF Spec
=============================================================================
