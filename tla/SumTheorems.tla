---------------------------- MODULE SumTheorems ----------------------------
(***************************************************************************)
(* What SumFunction of the community modules adds up, for every finite     *)
(* domain: the sum does not depend on the order in which CHOOSE takes the  *)
(* members, one member can be taken out, and members that add nothing can  *)
(* be left out.  It is defined by recursion over the subsets of the        *)
(* domain, so everything rests on one induction over those subsets; the    *)
(* induction speaks of a family of sets, not of a formula.                 *)
(***************************************************************************)
EXTENDS FiniteSetsExt, FiniteSetTheorems, WellFoundedInduction, TLAPS

\* The member a fold takes first.
First(s) == CHOOSE m \in s : TRUE

\* What is added to what when s is summed up, g being the sums of the smaller sets.
Step(g, c, s) == IF s = {} THEN 0 ELSE c[First(s)] + g[s \ {First(s)}]

\* The sums of c over the sets of a family.
Solves(g, c, family) == \A s \in family : g[s] = Step(g, c, s)
Alike(c, d, S) == \A x \in S : c[x] = d[x]
Sums(g, c, family) == g \in [family -> Nat] /\ Solves(g, c, family)

LEMMA FirstIsMember == ASSUME NEW s, s # {} PROVE First(s) \in s
BY DEF First

\* A family that holds a set if it holds all smaller ones holds all.
LEMMA SubsetsBySmaller ==
    ASSUME NEW S, IsFiniteSet(S), NEW family,
           \A s \in SUBSET S : (\A r \in SUBSET s : r # s => r \in family) => s \in family
    PROVE  SUBSET S \subseteq family
<1> DEFINE Bad == (SUBSET S) \ family
<1> SUFFICES ASSUME Bad # {} PROVE FALSE
  OBVIOUS
<1>1. IsWellFoundedOn(StrictSubsetOrdering(S), SUBSET S)
  <2>1. FiniteSubsetsOf(S) = SUBSET S
    BY FS_FiniteSubsetsOfFinite
  <2>2. IsWellFoundedOn(StrictSubsetOrdering(S), FiniteSubsetsOf(S))
    BY FS_StrictSubsetOrderingWellFounded
  <2> QED
    BY <2>1, <2>2, Zenon
<1>2. PICK s \in Bad : \A r \in Bad : ~(<<r, s>> \in StrictSubsetOrdering(S))
  <2>1. Bad \subseteq SUBSET S
    OBVIOUS
  <2> HIDE DEF Bad
  <2> QED
    BY <1>1, <2>1, WFMin
<1>3. ASSUME NEW r \in SUBSET s, r # s PROVE r \in family
  <2>1. <<r, s>> \in StrictSubsetOrdering(S)
    BY <1>3 DEF StrictSubsetOrdering
  <2> QED
    BY <1>2, <2>1
<1> QED
  BY <1>3

\* The least of a set of numbers that is not empty.
LEMMA Least ==
    ASSUME NEW N \in SUBSET Nat, N # {}
    PROVE  \E n \in N : \A k \in N : n <= k
<1>1. PICK n \in N : \A k \in N : ~(<<k, n>> \in OpToRel(<, Nat))
  BY WFMin, NatLessThanWellFounded
<1>2. ASSUME NEW k \in N PROVE n <= k
  <2>1. k \in Nat /\ n \in Nat
    OBVIOUS
  <2>2. k < n => <<k, n>> \in OpToRel(<, Nat)
    BY <2>1 DEF OpToRel
  <2>3. ~(k < n)
    BY <1>1, <2>2, Zenon
  <2> QED
    BY <2>1, <2>3
<1> QED
  BY <1>2

\* The greatest of a finite one.
LEMMA Greatest ==
    ASSUME NEW N \in SUBSET Int, IsFiniteSet(N), N # {}
    PROVE  \E n \in N : \A k \in N : k <= n
<1> DEFINE Topped(s) == s = {} \/ \E n \in s : \A k \in s : k <= n
           family == {s \in SUBSET N : Topped(s)}
<1>1. ASSUME NEW s \in SUBSET N, \A r \in SUBSET s : r # s => r \in family
      PROVE  s \in family
  <2> SUFFICES ASSUME s # {} PROVE Topped(s)
    OBVIOUS
  <2>1. PICK x \in s : TRUE
    OBVIOUS
  <2>2. Topped(s \ {x})
    <3>1. s \ {x} \in SUBSET s /\ s \ {x} # s
      BY <2>1
    <3>2. s \ {x} \in family
      BY <1>1, <3>1
    <3> QED
      BY <3>2
  <2>3. CASE s \ {x} = {}
    BY <2>3
  <2>4. CASE s \ {x} # {}
    <3>1. PICK n \in s \ {x} : \A k \in s \ {x} : k <= n
      BY <2>2, <2>4
    <3> QED
      BY <3>1
  <2> QED
    BY <2>3, <2>4
<1> HIDE DEF family
<1>2. SUBSET N \subseteq family
  BY <1>1, SubsetsBySmaller
<1>3. N \in family
  BY <1>2
<1> QED
  BY <1>3 DEF family

(***************************************************************************)
(* The recursion has a solution, and it is what SumFunction computes       *)
(***************************************************************************)
SmallOf(S, n) == {s \in SUBSET S : Cardinality(s) <= n}

LEMMA SmallSumsExist ==
    ASSUME NEW S, IsFiniteSet(S), NEW c \in [S -> Nat], NEW n \in Nat
    PROVE  \E g : Sums(g, c, SmallOf(S, n))
<1> DEFINE Bad == {k \in Nat : ~ \E g : Sums(g, c, SmallOf(S, k))}
<1> SUFFICES ASSUME Bad # {} PROVE FALSE
  OBVIOUS
<1>1. PICK k \in Bad : \A j \in Bad : k <= j
  BY Least
<1>f. \A s \in SUBSET S : IsFiniteSet(s) /\ Cardinality(s) \in Nat /\ (Cardinality(s) = 0 <=> s = {})
  BY FS_Subset, FS_CardinalityType, FS_EmptySet
<1>c. \A s \in SUBSET S : s # {} => First(s) \in s /\ c[First(s)] \in Nat
  BY DEF First
<1>2. CASE k = 0
  <2>1. SmallOf(S, 0) = {{}}
    BY <1>f DEF SmallOf
  <2>2. Sums([s \in {{}} |-> 0], c, {{}})
    BY DEF Sums, Solves, Step
  <2> QED
    BY <1>1, <1>2, <2>1, <2>2
<1>3. CASE k # 0
  <2> DEFINE small == SmallOf(S, k)
             below == SmallOf(S, k - 1)
  <2>1. PICK g : Sums(g, c, below)
    BY <1>1, <1>3
  <2> DEFINE h == [s \in small |-> Step(g, c, s)]
  <2>2. ASSUME NEW s \in small, s # {} PROVE s \ {First(s)} \in below
    <3>1. Cardinality(s \ {First(s)}) = Cardinality(s) - 1
      BY <1>f, <1>c, <2>2, FS_RemoveElement DEF SmallOf
    <3> QED
      BY <1>1, <1>f, <3>1 DEF SmallOf
  <2>3. below \subseteq small
    BY <1>1, <1>f DEF SmallOf
  <2>4. \A s \in small : Step(g, c, s) \in Nat
    BY <1>c, <2>1, <2>2 DEF Sums, Solves, Step, SmallOf
  <2>5. \A s \in below : h[s] = g[s]
    BY <2>1, <2>3 DEF Sums, Solves
  <2>6. \A s \in small : h[s] = Step(h, c, s)
    BY <2>2, <2>5 DEF Step
  <2>7. Sums(h, c, small)
    BY <2>4, <2>6 DEF Sums, Solves
  <2> QED
    BY <1>1, <2>7
<1> QED
  BY <1>2, <1>3

\* Solutions agree where their summands do.
LEMMA SumsAgree ==
    ASSUME NEW S, IsFiniteSet(S), NEW T \in SUBSET S, NEW c, NEW d, NEW g, NEW h,
           Solves(g, c, SUBSET S), Solves(h, d, SUBSET T),
           Alike(c, d, T)
    PROVE  \A s \in SUBSET T : g[s] = h[s]
<1> USE DEF Solves, Alike
<1> DEFINE family == {s \in SUBSET T : g[s] = h[s]}
<1>1. ASSUME NEW s \in SUBSET T, \A r \in SUBSET s : r # s => r \in family
      PROVE  s \in family
  <2>1. CASE s = {}
    BY <2>1 DEF Step
  <2>2. CASE s # {}
    <3>1. First(s) \in s
      BY <2>2, FirstIsMember
    <3>2. g[s \ {First(s)}] = h[s \ {First(s)}] /\ c[First(s)] = d[First(s)]
      BY <1>1, <3>1
    <3>3. s \in SUBSET S
      OBVIOUS
    <3> QED
      BY <2>2, <3>2, <3>3 DEF Step
  <2> QED
    BY <2>1, <2>2
<1> HIDE DEF family
<1>2. SUBSET T \subseteq family
  <2>1. IsFiniteSet(T)
    BY FS_Subset
  <2> QED
    BY <1>1, <2>1, SubsetsBySmaller
<1> QED
  BY <1>2 DEF family

\* SumFunction is the last of the sums.
LEMMA SumUnfolds ==
    ASSUME NEW S, IsFiniteSet(S), NEW c \in [S -> Nat]
    PROVE  \E g : Sums(g, c, SUBSET S) /\ SumFunction(c) = g[S]
<1> DEFINE Rule(g) ==
        g = [s \in SUBSET S |-> IF s = {} THEN 0 ELSE c[First(s)] + g[s \ {First(s)}]]
           h == CHOOSE f : Rule(f)
<1>1. PICK g : Sums(g, c, SmallOf(S, Cardinality(S)))
  BY SmallSumsExist, FS_CardinalityType
<1>2. SmallOf(S, Cardinality(S)) = SUBSET S
  BY FS_Subset DEF SmallOf
<1>3. g \in [SUBSET S -> Nat] /\ \A s \in SUBSET S : g[s] = Step(g, c, s)
  BY <1>1, <1>2 DEF Sums, Solves
<1>4. Rule(g)
  BY <1>3 DEF Step
<1>5. DOMAIN c = S
  OBVIOUS
<1>6. SumFunction(c) = h[S]
  BY <1>5 DEF SumFunction, SumFunctionOnSet, FoldFunctionOnSet, MapThenFoldSet, First
<1>7. Rule(h)
  BY <1>4
<1>8. h = [s \in SUBSET S |-> h[s]] /\ \A s \in SUBSET S : h[s] = Step(h, c, s)
  BY <1>7 DEF Step
<1> HIDE DEF h
<1>9. \A s \in SUBSET S : h[s] = g[s]
  <2>1. /\ S \in SUBSET S /\ Alike(c, c, S)
        /\ Solves(h, c, SUBSET S) /\ Solves(g, c, SUBSET S)
    BY <1>3, <1>8 DEF Solves, Alike
  <2> QED
    BY <2>1, SumsAgree
<1>10. Sums(h, c, SUBSET S)
  BY <1>3, <1>8, <1>9 DEF Sums, Solves
<1> QED
  BY <1>6, <1>10 DEF h

(***************************************************************************)
(* Facts about sums                                                        *)
(***************************************************************************)
LEMMA SumIsNatural ==
    ASSUME NEW S, IsFiniteSet(S), NEW c \in [S -> Nat]
    PROVE  SumFunction(c) \in Nat
<1>1. PICK g : Sums(g, c, SUBSET S) /\ SumFunction(c) = g[S]
  BY SumUnfolds
<1> QED
  BY <1>1 DEF Sums, Solves

\* The order does not matter: any member can come first.
LEMMA AnyMemberFirst ==
    ASSUME NEW S, IsFiniteSet(S), NEW c \in [S -> Nat], NEW g, Sums(g, c, SUBSET S),
           NEW t \in SUBSET S, NEW m \in t
    PROVE  g[t] = c[m] + g[t \ {m}]
<1> DEFINE family == {s \in SUBSET S : \A x \in s : g[s] = c[x] + g[s \ {x}]}
<1>1. ASSUME NEW s \in SUBSET S, \A r \in SUBSET s : r # s => r \in family
      PROVE  s \in family
  <2> SUFFICES ASSUME NEW x \in s PROVE g[s] = c[x] + g[s \ {x}]
    OBVIOUS
  <2> DEFINE f == First(s)
  <2>1. f \in s /\ g[s] = c[f] + g[s \ {f}]
    BY FirstIsMember DEF Sums, Solves, Step
  <2> HIDE DEF f
  <2>2. CASE x = f
    BY <2>1, <2>2
  <2>3. CASE x # f
    <3>1. s \ {f} \in family /\ s \ {x} \in family
      BY <1>1, <2>1
    <3>2. g[s \ {f}] = c[x] + g[(s \ {f}) \ {x}] /\ g[s \ {x}] = c[f] + g[(s \ {x}) \ {f}]
      BY <2>1, <2>3, <3>1
    <3>3. PICK r \in SUBSET S : r = (s \ {x}) \ {f}
      OBVIOUS
    <3>4. (s \ {f}) \ {x} = r
      BY <3>3
    <3>5. g[s \ {f}] = c[x] + g[r] /\ g[s \ {x}] = c[f] + g[r]
      BY <3>2, <3>3, <3>4
    <3>6. c[x] \in Nat /\ c[f] \in Nat /\ g[r] \in Nat
      BY <2>1 DEF Sums, Solves
    <3> QED
      BY <2>1, <3>5, <3>6
  <2> QED
    BY <2>2, <2>3
<1> HIDE DEF family
<1>2. SUBSET S \subseteq family
  BY <1>1, SubsetsBySmaller
<1>3. t \in family
  BY <1>2
<1> QED
  BY <1>3 DEF family

\* Members that add nothing can be left out.
LEMMA SumSkipsZeros ==
    ASSUME NEW S, IsFiniteSet(S), NEW c \in [S -> Nat], NEW T \in SUBSET S,
           \A x \in S \ T : c[x] = 0
    PROVE  SumFunction(c) = SumFunction([x \in T |-> c[x]])
<1> DEFINE d == [x \in T |-> c[x]]
<1>1. PICK g : Sums(g, c, SUBSET S) /\ SumFunction(c) = g[S]
  BY SumUnfolds
<1>2. PICK h : Sums(h, d, SUBSET T) /\ SumFunction(d) = h[T]
  <2>1. d \in [T -> Nat] /\ IsFiniteSet(T)
    BY FS_Subset
  <2> HIDE DEF d
  <2> QED
    BY <2>1, SumUnfolds
<1>3. g[T] = h[T]
  <2>1. Alike(c, d, T)
    BY DEF Alike
  <2> HIDE DEF d
  <2>2. Solves(g, c, SUBSET S) /\ Solves(h, d, SUBSET T)
    BY <1>1, <1>2 DEF Sums
  <2>3. \A s \in SUBSET T : g[s] = h[s]
    BY <2>1, <2>2, SumsAgree
  <2> QED
    BY <2>3
<1> HIDE DEF d
<1> DEFINE family == {s \in SUBSET S : g[s] = g[s \cap T]}
<1>4. ASSUME NEW s \in SUBSET S, \A r \in SUBSET s : r # s => r \in family
      PROVE  s \in family
  <2>1. CASE s \ T = {}
    <3>1. s \cap T = s
      BY <2>1
    <3> QED
      BY <3>1
  <2>2. CASE s \ T # {}
    <3>1. PICK x \in s \ T : TRUE
      BY <2>2
    <3>2. g[s] = c[x] + g[s \ {x}]
      BY <1>1, AnyMemberFirst
    <3>c. c[x] = 0 /\ g[s \ {x}] \in Nat
      BY <1>1 DEF Sums, Solves
    <3>3. g[s \ {x}] = g[(s \ {x}) \cap T]
      BY <1>4, <3>1
    <3>4. (s \ {x}) \cap T = s \cap T
      BY <3>1
    <3>5. g[s \ {x}] = g[s \cap T]
      BY <3>3, <3>4
    <3> QED
      BY <3>2, <3>5, <3>c
  <2> QED
    BY <2>1, <2>2
<1> HIDE DEF family
<1>5. SUBSET S \subseteq family
  BY <1>4, SubsetsBySmaller
<1>6. g[S] = g[S \cap T] /\ S \cap T = T
  BY <1>5 DEF family
<1> QED
  BY <1>1, <1>2, <1>3, <1>6 DEF d

LEMMA SumOfNothing ==
    ASSUME NEW S, IsFiniteSet(S), NEW c \in [S -> Nat], \A x \in S : c[x] = 0
    PROVE  SumFunction(c) = 0
<1> DEFINE d == [x \in {} |-> c[x]]
<1>1. SumFunction(c) = SumFunction(d)
  <2>1. {} \in SUBSET S /\ \A x \in S \ {} : c[x] = 0
    OBVIOUS
  <2> QED
    BY <2>1, SumSkipsZeros
<1>2. d \in [{} -> Nat] /\ IsFiniteSet({})
  BY FS_EmptySet
<1> HIDE DEF d
<1>3. PICK g : Sums(g, d, SUBSET {}) /\ SumFunction(d) = g[{}]
  BY <1>2, SumUnfolds
<1>4. {} \in SUBSET {}
  OBVIOUS
<1> QED
  BY <1>1, <1>3, <1>4 DEF Sums, Solves, Step

\* One member can be taken out.
LEMMA SumTakesOne ==
    ASSUME NEW S, IsFiniteSet(S), NEW c \in [S -> Nat], NEW x \in S
    PROVE  SumFunction(c) = c[x] + SumFunction([y \in S \ {x} |-> c[y]])
<1>1. PICK g : Sums(g, c, SUBSET S) /\ SumFunction(c) = g[S]
  BY SumUnfolds
<1>2. g[S] = c[x] + g[S \ {x}]
  <2>1. ASSUME NEW t \in SUBSET S, NEW y \in t PROVE g[t] = c[y] + g[t \ {y}]
    BY <1>1, AnyMemberFirst
  <2> QED
    BY <2>1
<1> DEFINE T == S \ {x}
           d == [y \in T |-> c[y]]
<1>3. T \in SUBSET S /\ IsFiniteSet(T) /\ d \in [T -> Nat] /\ Alike(c, d, T)
  BY FS_Subset DEF Alike
<1> HIDE DEF d, T
<1>4. PICK h : Sums(h, d, SUBSET T) /\ SumFunction(d) = h[T]
  BY <1>3, SumUnfolds
<1>5. g[T] = h[T]
  <2>1. Solves(g, c, SUBSET S) /\ Solves(h, d, SUBSET T)
    BY <1>1, <1>4 DEF Sums
  <2>2. \A s \in SUBSET T : g[s] = h[s]
    BY <1>3, <2>1, SumsAgree
  <2> QED
    BY <2>2
<1> QED
  BY <1>1, <1>2, <1>4, <1>5 DEF d, T

\* The others under a name of their own.
LEMMA SumOfOthers ==
    ASSUME NEW S, IsFiniteSet(S), NEW c \in [S -> Nat], NEW x \in S, NEW T, T = S \ {x}
    PROVE  SumFunction(c) = c[x] + SumFunction([y \in T |-> c[y]])
BY SumTakesOne

\* Sums over the first numbers.
LEMMA SumOfLast ==
    ASSUME NEW n \in Nat, NEW c \in [1..n + 1 -> Nat]
    PROVE  SumFunction(c) = c[n + 1] + SumFunction([i \in 1..n |-> c[i]])
<1>1. PICK S, last, T : S = 1..n + 1 /\ last = n + 1 /\ T = 1..n
  OBVIOUS
<1>2. IsFiniteSet(S)
  <2>1. \A j \in Int : IsFiniteSet(1..j)
    BY FS_Interval
  <2> QED
    BY <1>1, <2>1
<1>3. c \in [S -> Nat] /\ last \in S /\ T = S \ {last}
  BY <1>1
<1>4. SumFunction(c) = c[last] + SumFunction([i \in T |-> c[i]])
  BY <1>2, <1>3, SumOfOthers
<1> QED
  BY <1>1, <1>4

LEMMA SumFromOneIsNatural ==
    ASSUME NEW n \in Nat, NEW c \in [1..n -> Nat]
    PROVE  SumFunction(c) \in Nat
<1>1. PICK S : S = 1..n
  OBVIOUS
<1>2. IsFiniteSet(S) /\ c \in [S -> Nat]
  <2>1. \A j \in Int : IsFiniteSet(1..j)
    BY FS_Interval
  <2> QED
    BY <1>1, <2>1
<1> QED
  BY <1>2, SumIsNatural, Zenon

\* So much more in one place is so much more in all.
LEMMA SumGrows ==
    ASSUME NEW S, IsFiniteSet(S), NEW c \in [S -> Nat], NEW e \in [S -> Nat], NEW x \in S,
           NEW n \in Nat, e[x] = c[x] + n, Alike(e, c, S \ {x})
    PROVE  SumFunction(e) = SumFunction(c) + n
<1> DEFINE d == [y \in S \ {x} |-> c[y]]
<1>1. d = [y \in S \ {x} |-> e[y]]
  BY DEF Alike
<1>2. d \in [S \ {x} -> Nat] /\ IsFiniteSet(S \ {x})
  BY FS_Subset
<1>3. SumFunction(c) = c[x] + SumFunction(d)
  BY SumTakesOne
<1> HIDE DEF d
<1>4. SumFunction(e) = e[x] + SumFunction(d)
  BY <1>1, SumTakesOne
<1>5. SumFunction(d) \in Nat /\ c[x] \in Nat
  BY <1>2, SumIsNatural
<1> QED
  BY <1>3, <1>4, <1>5

\* Smaller members, smaller sum.
LEMMA SumMonotone ==
    ASSUME NEW S, IsFiniteSet(S), NEW c \in [S -> Nat], NEW d \in [S -> Nat],
           \A x \in S : c[x] <= d[x]
    PROVE  SumFunction(c) <= SumFunction(d)
<1>1. PICK g : Sums(g, c, SUBSET S) /\ SumFunction(c) = g[S]
  BY SumUnfolds
<1>2. PICK h : Sums(h, d, SUBSET S) /\ SumFunction(d) = h[S]
  BY SumUnfolds
<1> DEFINE family == {s \in SUBSET S : g[s] <= h[s]}
<1>3. ASSUME NEW s \in SUBSET S, \A r \in SUBSET s : r # s => r \in family
      PROVE  s \in family
  <2>1. CASE s = {}
    <3>1. g[s] = 0 /\ h[s] = 0
      BY <1>1, <1>2, <2>1 DEF Sums, Solves, Step
    <3> QED
      BY <3>1
  <2>2. CASE s # {}
    <3>1. PICK x \in s : x = First(s)
      BY <2>2, FirstIsMember
    <3>2. g[s] = c[x] + g[s \ {x}] /\ h[s] = d[x] + h[s \ {x}]
      BY <1>1, <1>2, <2>2, <3>1 DEF Sums, Solves, Step
    <3>3. g[s \ {x}] <= h[s \ {x}] /\ c[x] <= d[x]
      BY <1>3
    <3>4. g[s \ {x}] \in Nat /\ h[s \ {x}] \in Nat /\ c[x] \in Nat /\ d[x] \in Nat
      BY <1>1, <1>2 DEF Sums, Solves
    <3> QED
      BY <3>2, <3>3, <3>4
  <2> QED
    BY <2>1, <2>2
<1> HIDE DEF family
<1>4. SUBSET S \subseteq family
  BY <1>3, SubsetsBySmaller
<1> QED
  BY <1>1, <1>2, <1>4 DEF family
=============================================================================
