---------------------------- MODULE QuotaProofs ----------------------------
(***************************************************************************)
(* Facts about the quota check of Quota that hold for every finite log and *)
(* every quota, and the facts about finite sets of numbers they rest on.   *)
(***************************************************************************)
EXTENDS Quota, Integers, Sequences, FiniteSets, FiniteSetsExt, FiniteSetTheorems,
        WellFoundedInduction, TLAPS

-----------------------------------------------------------------------------
(* Every non-empty finite set of integers has a least and a greatest      *)
(* element, so FiniteSetsExt's Min and Max denote them.                    *)

\* The greatest element of a finite set of integers exists: a smallest
\* counterexample would lose an element and keep being one.
LEMMA GreatestExists ==
  ASSUME NEW S, IsFiniteSet(S), S \subseteq Int, S # {}
  PROVE  \E x \in S : \A y \in S : y <= x
<1> DEFINE Bad == {U \in FiniteSubsetsOf(S) : U # {} /\ \A x \in U : \E y \in U : ~(y <= x)}
<1>1. SUFFICES ASSUME Bad # {} PROVE FALSE
  BY DEF FiniteSubsetsOf
<1>2. PICK U \in Bad : \A V \in Bad : ~(<<V, U>> \in StrictSubsetOrdering(S))
  <2> HIDE DEF Bad
  <2>1. Bad \subseteq FiniteSubsetsOf(S)  BY DEF Bad
  <2> QED  BY <1>1, <2>1, FS_StrictSubsetOrderingWellFounded, WFMin
<1>3. PICK z \in U : TRUE  OBVIOUS
<1> DEFINE V == U \ {z}
<1>4. V \in FiniteSubsetsOf(S) /\ <<V, U>> \in StrictSubsetOrdering(S)
  BY FS_RemoveElement DEF FiniteSubsetsOf, StrictSubsetOrdering
<1>5. V # {}
  BY DEF FiniteSubsetsOf
<1>6. PICK m \in V : \A y \in V : y <= m
  BY <1>2, <1>4, <1>5
<1>7. m \in Int /\ z \in Int /\ \A y \in U : y \in Int  BY DEF FiniteSubsetsOf
<1>8. CASE z <= m  BY <1>6, <1>7, <1>8
<1>9. CASE m <= z  BY <1>6, <1>7, <1>9
<1> QED  BY <1>7, <1>8, <1>9

\* So does the least, by negation.
LEMMA LeastExists ==
  ASSUME NEW S, IsFiniteSet(S), S \subseteq Int, S # {}
  PROVE  \E x \in S : \A y \in S : x <= y
<1> DEFINE N == {0 - x : x \in S}
<1>1. IsFiniteSet(N)
  <2>1. [x \in S |-> 0 - x] \in Surjection(S, N)  BY DEF Surjection
  <2> QED  BY <2>1, FS_Surjection
<1>2. N \subseteq Int /\ N # {}
  <2>1. \A x \in S : 0 - x \in Int  OBVIOUS
  <2>2. PICK x \in S : TRUE  OBVIOUS
  <2>3. 0 - x \in N  BY <2>2
  <2> QED  BY <2>1, <2>3
<1>3. PICK n \in N : \A y \in N : y <= n
  <2> HIDE DEF N
  <2> QED  BY <1>1, <1>2, GreatestExists
<1>4. PICK x \in S : n = 0 - x  OBVIOUS
<1>5. \A y \in S : 0 - y <= n  BY <1>3
<1> QED  BY <1>4, <1>5

\* What FiniteSetsExt!Max returns.
LEMMA MaxProperties ==
  ASSUME NEW S, IsFiniteSet(S), S \subseteq Int, S # {}
  PROVE  Max(S) \in S /\ \A y \in S : y <= Max(S)
<1>1. \E x \in S : \A y \in S : x >= y  BY GreatestExists
<1> QED  BY <1>1 DEF Max

\* What FiniteSetsExt!Min returns.
LEMMA MinProperties ==
  ASSUME NEW S, IsFiniteSet(S), S \subseteq Int, S # {}
  PROVE  Min(S) \in S /\ \A y \in S : Min(S) <= y
<1>1. \E x \in S : \A y \in S : x =< y  BY LeastExists
<1> QED  BY <1>1 DEF Min

\* Induction over the naturals, for a property given as the set G of those that
\* have it.
LEMMA NaturalInduction ==
  ASSUME NEW G, 0 \in G, \A n \in Nat : n \in G => n + 1 \in G
  PROVE  Nat \subseteq G
<1> SUFFICES ASSUME NEW m \in Nat, m \notin G PROVE FALSE
  OBVIOUS
<1> DEFINE B == {k \in 0 .. m : k \notin G}
<1>1. IsFiniteSet(B)
  <2>1. IsFiniteSet(0 .. m)
    <3>1. 0 \in Int /\ m \in Int  OBVIOUS
    <3> QED  BY <3>1, FS_Interval, Zenon
  <2> QED  BY <2>1, FS_Subset, Zenon
<1>2. B \subseteq Int /\ m \in B  OBVIOUS
<1>3. PICK k \in B : \A j \in B : k <= j
  <2> HIDE DEF B
  <2> QED  BY <1>1, <1>2, LeastExists
<1>4. k # 0 /\ k \in Nat  BY <1>3
<1>5. k - 1 \in Nat /\ k - 1 \in G /\ k = (k - 1) + 1  BY <1>3, <1>4
<1> QED  BY <1>3, <1>5

-----------------------------------------------------------------------------
(* Sums over finite sets, as MapThenSumSet computes them.  The library's    *)
(* induction theorems take an operator; a set of what has the property     *)
(* does as well.                                                           *)

\* Induction over the subsets of a finite set, for a property given as the set G of
\* those that have it.
LEMMA SubsetInduction ==
  ASSUME NEW S, IsFiniteSet(S), NEW G,
         \A U \in SUBSET S : (\A V \in SUBSET U : V # U => V \in G) => U \in G
  PROVE  \A U \in SUBSET S : U \in G
<1> DEFINE Bad == {U \in FiniteSubsetsOf(S) : U \notin G}
<1>1. SUFFICES ASSUME Bad # {} PROVE FALSE
  BY FS_Subset DEF FiniteSubsetsOf
<1>2. PICK U \in Bad : \A V \in Bad : ~(<<V, U>> \in StrictSubsetOrdering(S))
  <2> HIDE DEF Bad
  <2>1. Bad \subseteq FiniteSubsetsOf(S)  BY DEF Bad
  <2> QED  BY <1>1, <2>1, FS_StrictSubsetOrderingWellFounded, WFMin
<1>3. ASSUME NEW V \in SUBSET U, V # U PROVE V \in G
  <2>1. V \in FiniteSubsetsOf(S) /\ <<V, U>> \in StrictSubsetOrdering(S)
    BY <1>3, FS_Subset DEF FiniteSubsetsOf, StrictSubsetOrdering
  <2> QED  BY <1>2, <2>1
<1> QED  BY <1>3 DEF FiniteSubsetsOf

\* So every set of places of a sequence has a last one.
LEMMA PlacesAreFinite ==
  ASSUME NEW S, NEW s \in Seq(S), NEW d \in SUBSET DOMAIN s
  PROVE  IsFiniteSet(d) /\ d \subseteq Int /\ (d # {} => Max(d) \in d)
<1>1. DOMAIN s = 1 .. Len(s) /\ Len(s) \in Nat  OBVIOUS
<1>2. IsFiniteSet(1 .. Len(s))
  <2>1. 1 \in Int /\ Len(s) \in Int  BY <1>1
  <2> QED  BY <2>1, FS_Interval, Zenon
<1>3. IsFiniteSet(d) /\ d \subseteq Int
  BY <1>1, <1>2, FS_Subset
<1> QED  BY <1>3, MaxProperties

\* The recursion of FoldLeft, with the step of each place taken as a function: some
\* function on the sets of places it recurs through obeys it, when no step leaves V.
Recurring(D, V, b, step, h) ==
  /\ h \in [SUBSET D -> V]
  /\ \A d \in SUBSET D : h[d] = IF d = {} THEN b ELSE step[Max(d)][h[d \ {Max(d)}]]

LEMMA PlacesRecursion ==
  ASSUME NEW D, IsFiniteSet(D), D \subseteq Int, NEW V, NEW b \in V,
         NEW step \in [D -> [V -> V]]
  PROVE  \E h : Recurring(D, V, b, step, h)
<1> DEFINE Recurs(U, h) == \A d \in SUBSET U :
             h[d] = IF d = {} THEN b ELSE step[Max(d)][h[d \ {Max(d)}]]
           G == {U \in SUBSET D : \E h \in [SUBSET U -> V] : Recurs(U, h)}
<1>1. \A d \in SUBSET D : d # {} => Max(d) \in d /\ \A y \in d : y <= Max(d)
  BY MaxProperties, FS_Subset
<1>2. ASSUME NEW U \in SUBSET D, \A W \in SUBSET U : W # U => W \in G
      PROVE  U \in G
  <2>1. CASE U = {}
    <3>1. [d \in SUBSET U |-> b] \in [SUBSET U -> V]  OBVIOUS
    <3>2. Recurs(U, [d \in SUBSET U |-> b])  BY <2>1
    <3> QED  BY <3>1, <3>2
  <2>2. CASE U # {}
    <3> DEFINE m == Max(U)
               W == U \ {m}
    <3>1. m \in U /\ W \in SUBSET U /\ W # U  BY <1>1, <2>2
    <3>2. PICK g \in [SUBSET W -> V] : Recurs(W, g)  BY <1>2, <3>1
    <3> DEFINE h == [d \in SUBSET U |-> IF m \in d THEN step[m][g[d \ {m}]] ELSE g[d]]
    <3>3. \A d \in SUBSET U : d \ {m} \in SUBSET W /\ (m \notin d => d \in SUBSET W)
      OBVIOUS
    <3>4. h \in [SUBSET U -> V]
      <4>1. ASSUME NEW d \in SUBSET U
            PROVE  (IF m \in d THEN step[m][g[d \ {m}]] ELSE g[d]) \in V
        <5>1. m \in D /\ (m \in d => g[d \ {m}] \in V) /\ (m \notin d => g[d] \in V)
          BY <3>1, <3>3
        <5> HIDE DEF m
        <5> QED  BY <5>1
      <4> HIDE DEF m
      <4> QED  BY <4>1
    <3>5. ASSUME NEW d \in SUBSET U, m \in d  PROVE Max(d) = m
      <4>1. d \in SUBSET D /\ d # {}  BY <3>5
      <4>2. Max(d) \in d /\ m <= Max(d)  BY <1>1, <3>5, <4>1
      <4>3. Max(d) <= m  BY <1>1, <2>2, <4>2
      <4>4. m \in Int /\ Max(d) \in Int  BY <3>1, <4>2
      <4> HIDE DEF m
      <4> QED  BY <4>2, <4>3, <4>4
    <3>6. ASSUME NEW d \in SUBSET U
          PROVE  h[d] = IF d = {} THEN b ELSE step[Max(d)][h[d \ {Max(d)}]]
      <4>1. CASE m \in d
        <5>1. h[d] = step[m][g[d \ {m}]] /\ h[d \ {m}] = g[d \ {m}]
          BY <3>3, <4>1
        <5> HIDE DEF h, m
        <5> QED  BY <3>5, <4>1, <5>1
      <4>2. CASE m \notin d
        <5>1. h[d] = g[d] /\ h[d \ {Max(d)}] = g[d \ {Max(d)}]
          BY <3>3, <4>2
        <5>2. d \in SUBSET W  BY <4>2
        <5> HIDE DEF h, m
        <5> QED  BY <3>2, <5>1, <5>2
      <4> QED  BY <4>1, <4>2
    <3> HIDE DEF h
    <3>7. Recurs(U, h)  BY <3>6
    <3> QED  BY <3>4, <3>7
  <2> QED  BY <2>1, <2>2
<1> HIDE DEF G
<1>3. D \in G  BY <1>2, SubsetInduction
<1> QED  BY <1>3 DEF G, Recurring

\* The recursion of the folds of the community modules, as a property of the function
\* on the subsets of S that it defines.
First(s) == CHOOSE x \in s : TRUE
Folds(g, S, h) ==
  h = [s \in SUBSET S |-> IF s = {} THEN 0 ELSE g[First(s)] + h[s \ {First(s)}]]

LEMMA FirstIn == ASSUME NEW s, s # {} PROVE First(s) \in s
BY DEF First

\* What two such functions say of a set both are defined on is the same.
LEMMA FoldsAgree ==
  ASSUME NEW g, NEW A, NEW B, NEW U, U \subseteq A, U \subseteq B, IsFiniteSet(U),
         NEW h, Folds(g, A, h), NEW k, Folds(g, B, k)
  PROVE  h[U] = k[U]
<1> DEFINE G == {V \in SUBSET U : h[V] = k[V]}
<1>1. ASSUME NEW V \in SUBSET U, \A W \in SUBSET V : W # V => W \in G
      PROVE  V \in G
  <2>1. CASE V = {}  BY <2>1 DEF Folds
  <2>2. CASE V # {}
    <3> DEFINE x == First(V)
               W == V \ {x}
    <3>1. x \in V /\ W \in SUBSET V /\ W # V  BY <2>2, FirstIn
    <3>2. h[W] = k[W]  BY <1>1, <3>1
    <3>3. h[V] = g[x] + h[W] /\ k[V] = g[x] + k[W]  BY <2>2 DEF Folds
    <3> QED  BY <3>2, <3>3
  <2> QED  BY <2>1, <2>2
<1> HIDE DEF G
<1>2. U \in G  BY <1>1, SubsetInduction
<1> QED  BY <1>2 DEF G

\* There is one for every finite set.
LEMMA FoldsExist ==
  ASSUME NEW g, NEW S, IsFiniteSet(S)
  PROVE  \E h : Folds(g, S, h)
<1> DEFINE G == {U \in SUBSET S : \E h : Folds(g, U, h)}
<1>1. ASSUME NEW U \in SUBSET S, \A V \in SUBSET U : V # U => V \in G
      PROVE  U \in G
  <2> DEFINE of(V) == CHOOSE h : Folds(g, V, h)
             x == First(U)
             W == U \ {x}
             h == [V \in SUBSET U |->
                     IF V # U THEN of(V)[V] ELSE IF U = {} THEN 0 ELSE g[x] + of(W)[W]]
  <2>1. \A V \in SUBSET U : V # U => Folds(g, V, of(V))
    BY <1>1
  <2> HIDE DEF of
  <2>2. ASSUME NEW V \in SUBSET U
        PROVE  h[V] = IF V = {} THEN 0 ELSE g[First(V)] + h[V \ {First(V)}]
    <3>1. CASE V = U
      <4>1. CASE U = {}  BY <3>1, <4>1
      <4>2. CASE U # {}
        <5>1. W \in SUBSET U /\ W # U  BY <4>2, FirstIn
        <5>2. h[W] = of(W)[W]  BY <5>1
        <5> QED  BY <3>1, <4>2, <5>2
      <4> QED  BY <4>1, <4>2
    <3>2. CASE V # U
      <4>1. Folds(g, V, of(V)) /\ h[V] = of(V)[V]  BY <2>1, <3>2
      <4>2. CASE V = {}  BY <4>1, <4>2 DEF Folds
      <4>3. CASE V # {}
        <5> DEFINE X == V \ {First(V)}
        <5>1. X \in SUBSET V /\ X \in SUBSET U /\ X # U  BY <4>3, FirstIn
        <5>2. of(V)[V] = g[First(V)] + of(V)[X]  BY <4>1, <4>3 DEF Folds
        <5>3. IsFiniteSet(X)  BY FS_Subset
        <5>4. Folds(g, X, of(X))  BY <2>1, <5>1
        <5>5. of(V)[X] = of(X)[X]
          <6> HIDE DEF X
          <6> QED  BY <4>1, <5>1, <5>3, <5>4, FoldsAgree
        <5>6. h[X] = of(X)[X]  BY <5>1
        <5> QED  BY <4>1, <4>3, <5>2, <5>5, <5>6
      <4> QED  BY <4>2, <4>3
    <3> QED  BY <3>1, <3>2
  <2>3. h = [V \in SUBSET U |-> h[V]]  OBVIOUS
  <2> HIDE DEF h
  <2>4. Folds(g, U, h)  BY <2>2, <2>3 DEF Folds
  <2> QED  BY <2>4
<1> HIDE DEF G
<1>2. S \in G  BY <1>1, SubsetInduction
<1> QED  BY <1>2 DEF G

\* The sum of g over S, as the modules write it.
SumOver(g, S) == MapThenSumSet(LAMBDA x : g[x], S)

LEMMA SumIsFold ==
  ASSUME NEW g, NEW S, IsFiniteSet(S)
  PROVE  \E h : Folds(g, S, h) /\ SumOver(g, S) = h[S]
<1> DEFINE h == CHOOSE k : Folds(g, S, k)
<1>1. Folds(g, S, h)  BY FoldsExist
<1>2. SumOver(g, S) = h[S]
  BY DEF SumOver, MapThenSumSet, MapThenFoldSet, First, Folds
<1> HIDE DEF h
<1> QED  BY <1>1, <1>2

\* One element is taken at a time, in an order of the fold's own.
LEMMA SumStep ==
  ASSUME NEW g, NEW S, IsFiniteSet(S)
  PROVE  SumOver(g, S) = IF S = {} THEN 0 ELSE g[First(S)] + SumOver(g, S \ {First(S)})
<1>1. PICK h : Folds(g, S, h) /\ SumOver(g, S) = h[S]  BY SumIsFold
<1>2. CASE S = {}  BY <1>1, <1>2 DEF Folds
<1>3. CASE S # {}
  <2> DEFINE W == S \ {First(S)}
  <2>1. W \in SUBSET S /\ IsFiniteSet(W)  BY FS_Subset
  <2>2. h[S] = g[First(S)] + h[W]  BY <1>1, <1>3 DEF Folds
  <2> HIDE DEF W
  <2>3. PICK k : Folds(g, W, k) /\ SumOver(g, W) = k[W]
    BY <2>1, SumIsFold
  <2>4. h[W] = k[W]  BY <1>1, <2>1, <2>3, FoldsAgree
  <2> QED  BY <1>1, <1>3, <2>2, <2>3, <2>4 DEF W
<1> QED  BY <1>2, <1>3

\* Nothing adds up to nothing.
LEMMA SumEmpty == ASSUME NEW g PROVE SumOver(g, {}) = 0
BY FS_EmptySet, SumStep

\* A sum of integers is one.
LEMMA SumInt ==
  ASSUME NEW g, NEW S, IsFiniteSet(S), \A x \in S : g[x] \in Int
  PROVE  SumOver(g, S) \in Int
<1> DEFINE G == {U \in SUBSET S : SumOver(g, U) \in Int}
<1>1. ASSUME NEW U \in SUBSET S, \A V \in SUBSET U : V # U => V \in G
      PROVE  U \in G
  <2>1. IsFiniteSet(U)  BY FS_Subset
  <2>2. CASE U = {}  BY <2>2, SumEmpty
  <2>3. CASE U # {}
    <3>1. First(U) \in U  BY <2>3, FirstIn
    <3>2. U \ {First(U)} \in G  BY <1>1, <3>1
    <3>3. g[First(U)] \in Int /\ SumOver(g, U \ {First(U)}) \in Int  BY <3>1, <3>2
    <3>4. SumOver(g, U) = g[First(U)] + SumOver(g, U \ {First(U)})
      BY <2>1, <2>3, SumStep
    <3>5. SumOver(g, U) \in Int  BY <3>3, <3>4
    <3> QED  BY <3>5
  <2> QED  BY <2>2, <2>3
<1> HIDE DEF G
<1>2. S \in G  BY <1>1, SubsetInduction
<1> QED  BY <1>2 DEF G

\* ... and whichever element is taken away, the rest is left.
LEMMA SumRemove ==
  ASSUME NEW g, NEW S, IsFiniteSet(S), \A x \in S : g[x] \in Int, NEW k \in S
  PROVE  SumOver(g, S) = g[k] + SumOver(g, S \ {k})
<1> DEFINE G == {U \in SUBSET S : \A j \in U : SumOver(g, U) = g[j] + SumOver(g, U \ {j})}
<1>1. ASSUME NEW U \in SUBSET S, \A V \in SUBSET U : V # U => V \in G
      PROVE  U \in G
  <2> SUFFICES ASSUME NEW j \in U PROVE SumOver(g, U) = g[j] + SumOver(g, U \ {j})
    OBVIOUS
  <2> DEFINE x == First(U)
             X == U \ {x}
             J == U \ {j}
             B == X \ {j}
  <2>1. IsFiniteSet(U) /\ IsFiniteSet(B)  BY FS_Subset
  <2>2. x \in U  BY FirstIn
  <2>3. SumOver(g, U) = g[x] + SumOver(g, X)  BY <2>1, SumStep
  <2>4. CASE x = j  BY <2>3, <2>4
  <2>5. CASE x # j
    <3>1. X \in G /\ j \in X /\ J \in G /\ x \in J  BY <1>1, <2>2, <2>5
    <3>2. SumOver(g, X) = g[j] + SumOver(g, B)  BY <3>1
    <3>3. B = J \ {x}  OBVIOUS
    <3>4. SumOver(g, J) = g[x] + SumOver(g, B)  BY <3>1, <3>3
    <3>5. g[x] \in Int /\ g[j] \in Int  BY <2>2
    <3>6. SumOver(g, B) \in Int  BY <2>1, SumInt
    <3> HIDE DEF x, X, J, B
    <3>7. SumOver(g, U) = g[j] + SumOver(g, J)  BY <2>3, <3>2, <3>4, <3>5, <3>6
    <3> QED  BY <3>7 DEF J
  <2> QED  BY <2>4, <2>5
<1> HIDE DEF G
<1>2. S \in G  BY <1>1, SubsetInduction
<1> QED  BY <1>2 DEF G

\* Two functions that agree on S have one sum over it.
LEMMA SumSame ==
  ASSUME NEW S, IsFiniteSet(S), NEW g, NEW h, \A x \in S : g[x] = h[x]
  PROVE  SumOver(g, S) = SumOver(h, S)
<1> DEFINE G == {U \in SUBSET S : SumOver(g, U) = SumOver(h, U)}
<1>1. ASSUME NEW U \in SUBSET S, \A V \in SUBSET U : V # U => V \in G
      PROVE  U \in G
  <2>1. IsFiniteSet(U)  BY FS_Subset
  <2>2. CASE U = {}  BY <2>2, SumEmpty
  <2>3. CASE U # {}
    <3>1. First(U) \in U  BY <2>3, FirstIn
    <3>2. U \ {First(U)} \in G  BY <1>1, <3>1
    <3> QED  BY <2>1, <2>3, <3>1, <3>2, SumStep
  <2> QED  BY <2>2, <2>3
<1> HIDE DEF G
<1>2. S \in G  BY <1>1, SubsetInduction
<1> QED  BY <1>2 DEF G

\* A function that differs in one place differs by as much in its sum.
LEMMA SumAdd ==
  ASSUME NEW S, IsFiniteSet(S), NEW g, NEW h, NEW k \in S, NEW n \in Int,
         \A x \in S : g[x] \in Int, \A x \in S \ {k} : h[x] = g[x], h[k] = g[k] + n
  PROVE  SumOver(h, S) = SumOver(g, S) + n
<1> DEFINE W == S \ {k}
<1>1. IsFiniteSet(W)  BY FS_Subset
<1>2. \A x \in S : h[x] \in Int  OBVIOUS
<1>3. SumOver(g, S) = g[k] + SumOver(g, W) /\ SumOver(h, S) = h[k] + SumOver(h, W)
  BY <1>2, SumRemove
<1>4. SumOver(h, W) = SumOver(g, W)  BY <1>1, SumSame
<1>5. SumOver(g, W) \in Int  BY <1>1, SumInt
<1>6. g[k] \in Int  OBVIOUS
<1> HIDE DEF W
<1> QED  BY <1>3, <1>4, <1>5, <1>6

\* What is counted only adds.
LEMMA SumMonotone ==
  ASSUME NEW T, IsFiniteSet(T), NEW S \in SUBSET T, NEW g, \A x \in T : g[x] \in Nat
  PROVE  SumOver(g, S) \in Nat /\ SumOver(g, S) <= SumOver(g, T)
<1> DEFINE G == {U \in SUBSET T : /\ SumOver(g, U) \in Nat
                                  /\ \A V \in SUBSET U : SumOver(g, V) <= SumOver(g, U)}
<1>1. ASSUME NEW U \in SUBSET T, \A V \in SUBSET U : V # U => V \in G
      PROVE  U \in G
  <2>1. IsFiniteSet(U)  BY FS_Subset
  <2>2. CASE U = {}
    <3>1. SumOver(g, U) = 0  BY <2>2, SumEmpty
    <3>2. \A V \in SUBSET U : V = U  BY <2>2
    <3> QED  BY <3>1, <3>2
  <2>3. CASE U # {}
    <3>1. ASSUME NEW k \in U
          PROVE  /\ SumOver(g, U \ {k}) \in Nat
                 /\ SumOver(g, U) = g[k] + SumOver(g, U \ {k})
                 /\ g[k] \in Nat
                 /\ \A V \in SUBSET (U \ {k}) : SumOver(g, V) <= SumOver(g, U \ {k})
                 /\ \A V \in SUBSET U : V # U => SumOver(g, V) \in Nat
      BY <1>1, <2>1, SumRemove
    <3>2. SumOver(g, U) \in Nat
      <4>1. PICK k \in U : TRUE  BY <2>3
      <4>2. SumOver(g, U \ {k}) \in Nat /\ g[k] \in Nat
        BY <3>1
      <4>3. SumOver(g, U) = g[k] + SumOver(g, U \ {k})  BY <3>1
      <4> QED  BY <4>2, <4>3
    <3>3. ASSUME NEW V \in SUBSET U PROVE SumOver(g, V) <= SumOver(g, U)
      <4>1. CASE V = U  BY <3>2, <4>1
      <4>2. CASE V # U
        <5>1. PICK k \in U : k \notin V  BY <4>2
        <5>2. SumOver(g, V) <= SumOver(g, U \ {k}) /\ SumOver(g, V) \in Nat
          BY <3>1, <4>2, <5>1
        <5>3. SumOver(g, U \ {k}) \in Nat /\ g[k] \in Nat  BY <3>1
        <5>4. SumOver(g, U) = g[k] + SumOver(g, U \ {k})  BY <3>1
        <5> QED  BY <5>2, <5>3, <5>4
      <4> QED  BY <4>1, <4>2
    <3> QED  BY <3>2, <3>3
  <2> QED  BY <2>2, <2>3
<1>2. \A U \in SUBSET T : U \in G
  <2> HIDE DEF G
  <2> QED  BY <1>1, SubsetInduction
<1> QED  BY <1>2

-----------------------------------------------------------------------------
(* The quota check.                                                        *)

\* A window of a finite log is finite and holds no event twice.
LEMMA WindowIsFinite ==
  ASSUME NEW S, IsFiniteSet(S), NEW at, NEW now, NEW width
  PROVE  /\ IsFiniteSet(Window(S, at, now, width))
         /\ Window(S, at, now, width) \subseteq S
BY FS_Subset DEF Window

\* What events are worth to a limit.
Worth(E, tokens, unit) == IF unit = "requests" THEN Cardinality(E) ELSE SumOver(tokens, E)

LEMMA TotalsAreWorth ==
  ASSUME NEW S, NEW at, NEW tokens, NEW now, NEW lim
  PROVE  totals(S, at, tokens, now, lim) = Worth(Window(S, at, now, lim.window), tokens, lim.unit)
<1>1. CASE lim.unit = "requests"  BY <1>1 DEF totals, Worth
<1>2. CASE lim.unit # "requests"
  BY <1>2 DEF totals, Worth, SumOver, MapThenSumSet, MapThenFoldSet
<1> QED  BY <1>1, <1>2

\* More events are worth no less, whatever the limit counts.
LEMMA WorthMonotone ==
  ASSUME NEW T, IsFiniteSet(T), NEW S \in SUBSET T, NEW tokens, \A e \in T : tokens[e] \in Nat,
         NEW unit
  PROVE  Worth(S, tokens, unit) \in Nat /\ Worth(S, tokens, unit) <= Worth(T, tokens, unit)
<1>1. CASE unit = "requests"
  BY <1>1, FS_Subset, FS_CardinalityType DEF Worth
<1>2. CASE unit # "requests"  BY <1>2, SumMonotone DEF Worth
<1> QED  BY <1>1, <1>2

\* The events of a log keep their worth while others are recorded.
LEMMA WorthSame ==
  ASSUME NEW E, IsFiniteSet(E), NEW g, NEW h, \A e \in E : g[e] = h[e], NEW unit
  PROVE  Worth(E, g, unit) = Worth(E, h, unit)
BY SumSame DEF Worth

\* The timestamps unblockAt takes the least of, and where it lies: later than
\* now, and no later than width after any event of the window.
LEMMA UnblockAtProperties ==
  ASSUME NEW S, IsFiniteSet(S), NEW at, \A e \in S : at[e] \in Nat,
         NEW now \in Nat, NEW lim \in Limit
  PROVE  /\ unblockAt(S, at, now, lim) \in Nat
         /\ unblockAt(S, at, now, lim) > now
         /\ \A e \in Window(S, at, now, lim.window) :
               unblockAt(S, at, now, lim) <= at[e] + lim.window
<1> DEFINE W == Window(S, at, now, lim.window)
           A == {at[e] : e \in W}
           B == A \cup {now}
<1>1. IsFiniteSet(W) /\ W \subseteq S  BY WindowIsFinite
<1>2. lim.window \in Nat /\ lim.window > 0  BY DEF Limit
<1>3. IsFiniteSet(B)
  <2>1. [e \in W |-> at[e]] \in Surjection(W, A)  BY DEF Surjection
  <2>2. IsFiniteSet(A)  BY <1>1, <2>1, FS_Surjection
  <2> QED  BY <2>2, FS_AddElement
<1>4. B \subseteq Nat /\ B # {}  BY <1>1
<1>5. \A v \in B : v > now - lim.window  BY <1>1, <1>2 DEF Window
<1>6. Min(B) \in B /\ \A v \in B : Min(B) <= v
  <2> HIDE DEF B
  <2>1. B \subseteq Int  BY <1>4
  <2> QED  BY <1>3, <1>4, <2>1, MinProperties
<1>7. unblockAt(S, at, now, lim) = Min(B) + lim.window  BY DEF unblockAt
<1>8. \A e \in W : at[e] \in B  OBVIOUS
<1> HIDE DEF B
<1>9. Min(B) \in Nat /\ Min(B) > now - lim.window  BY <1>4, <1>5, <1>6
<1>10. \A e \in W : Min(B) <= at[e] /\ at[e] \in Nat  BY <1>1, <1>6, <1>8
<1> HIDE DEF W
<1>11. \A e \in W : Min(B) + lim.window <= at[e] + lim.window  BY <1>2, <1>9, <1>10
<1>12. Min(B) + lim.window \in Nat /\ Min(B) + lim.window > now  BY <1>2, <1>9
<1> QED  BY <1>7, <1>11, <1>12 DEF W

\* When some limit is breached, check returns a later instant: the one at which a
\* breached limit reopens.
LEMMA CheckProperties ==
  ASSUME NEW S, IsFiniteSet(S), NEW at, \A e \in S : at[e] \in Nat, NEW tokens,
         NEW now \in Nat, NEW q, q \subseteq Limit, IsFiniteSet(q),
         \E lim \in q : Breached(S, at, tokens, now, lim)
  PROVE  /\ check(S, at, tokens, now, q) \in Nat
         /\ check(S, at, tokens, now, q) > now
         /\ \E lim \in q : /\ Breached(S, at, tokens, now, lim)
                           /\ check(S, at, tokens, now, q) = unblockAt(S, at, now, lim)
<1> DEFINE hit == {lim \in q : Breached(S, at, tokens, now, lim)}
           U == {unblockAt(S, at, now, lim) : lim \in hit}
<1>1. hit # {} /\ IsFiniteSet(hit) /\ hit \subseteq Limit  BY FS_Subset
<1>2. IsFiniteSet(U)
  <2>1. [lim \in hit |-> unblockAt(S, at, now, lim)] \in Surjection(hit, U)
    BY DEF Surjection
  <2> HIDE DEF hit, U
  <2> QED  BY <1>1, <2>1, FS_Surjection
<1>3. U # {} /\ U \subseteq Nat /\ \A u \in U : u > now
  BY <1>1, UnblockAtProperties
<1>4. check(S, at, tokens, now, q) = Max(U)  BY <1>1 DEF check
<1>5. Max(U) \in U
  <2> HIDE DEF U
  <2>1. U \subseteq Int  BY <1>3
  <2> QED  BY <1>2, <1>3, <2>1, MaxProperties
<1> QED  BY <1>3, <1>4, <1>5

\* Until the instant unblockAt names, the window keeps every event it has.
LEMMA WindowKept ==
  ASSUME NEW S, IsFiniteSet(S), NEW at, \A e \in S : at[e] \in Nat,
         NEW now \in Nat, NEW lim \in Limit,
         NEW t \in Nat, t < unblockAt(S, at, now, lim)
  PROVE  Window(S, at, now, lim.window) \subseteq Window(S, at, t, lim.window)
<1>1. lim.window \in Nat  BY DEF Limit
<1>2. \A e \in Window(S, at, now, lim.window) :
         at[e] \in Nat /\ unblockAt(S, at, now, lim) <= at[e] + lim.window
  BY UnblockAtProperties DEF Window
<1>3. unblockAt(S, at, now, lim) \in Nat  BY UnblockAtProperties
<1> QED  BY <1>1, <1>2, <1>3 DEF Window

\* The instant check returns is earned: at every instant before it, some limit of
\* the quota is still breached by the events the log has now, whatever the quota
\* and the log.  A cooldown that ends there idles no provider with room to spare
\* (ratelimit.go:99-119).
THEOREM CheckIsEarned ==
  ASSUME NEW S, IsFiniteSet(S), NEW at, \A e \in S : at[e] \in Nat, NEW tokens,
         NEW now \in Nat, NEW q, q \subseteq Limit, IsFiniteSet(q),
         \E lim \in q : Breached(S, at, tokens, now, lim)
  PROVE  \A t \in now .. check(S, at, tokens, now, q) - 1 :
            \E lim \in q : Breached(S, at, tokens, t, lim)
<1>1. PICK lim \in q : /\ Breached(S, at, tokens, now, lim)
                       /\ check(S, at, tokens, now, q) = unblockAt(S, at, now, lim)
  BY CheckProperties
<1>2. lim \in Limit /\ lim.window \in Nat  BY <1>1 DEF Limit
<1>3. unblockAt(S, at, now, lim) \in Nat  BY <1>2, UnblockAtProperties
<1> SUFFICES ASSUME NEW t \in now .. unblockAt(S, at, now, lim) - 1
             PROVE  Breached(S, at, tokens, t, lim)
  BY <1>1
<1>4. t \in Nat /\ t >= now /\ t < unblockAt(S, at, now, lim)  BY <1>3
<1>5. Window(S, at, t, lim.window) = Window(S, at, now, lim.window)
  <2>1. Window(S, at, now, lim.window) \subseteq Window(S, at, t, lim.window)
    BY <1>2, <1>4, WindowKept
  <2>2. Window(S, at, t, lim.window) \subseteq Window(S, at, now, lim.window)
    BY <1>2, <1>4 DEF Window
  <2> QED  BY <2>1, <2>2
<1>6. totals(S, at, tokens, t, lim) = totals(S, at, tokens, now, lim)
  BY <1>5 DEF totals
<1> QED  BY <1>1, <1>6 DEF Breached

=============================================================================
