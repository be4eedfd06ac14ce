------------------------ MODULE AggregatorSums_proofs -------------------------
(***************************************************************************)
(* What the sums and the sorted sequences of Aggregator are, for every     *)
(* finite set.  The induction theorems of the library take a predicate as  *)
(* a parameter; here induction goes through the set of what is left to     *)
(* prove, which has a least element unless it is empty.                    *)
(***************************************************************************)
EXTENDS Aggregator, FiniteSetTheorems, WellFoundedInduction, TLAPS

-----------------------------------------------------------------------------
(* Induction.                                                              *)

LEMMA NumbersByInduction ==
    ASSUME NEW G, 0 \in G, \A n \in Nat : n \in G => n + 1 \in G
    PROVE  Nat \subseteq G
<1> DEFINE T == Nat \ G
           R == OpToRel(<, Nat)
<1> SUFFICES ASSUME T # {} PROVE FALSE
  OBVIOUS
<1>1. PICK n \in T : \A m \in T : <<m, n>> \notin R
  <2>1. IsWellFoundedOn(R, Nat) /\ T \subseteq Nat
    BY NatLessThanWellFounded
  <2> HIDE DEF R, T
  <2> QED
    BY <2>1, WFMin
<1>2. n \in Nat /\ n # 0 /\ n \notin G
  BY <1>1
<1>3. n - 1 \in Nat /\ n - 1 \in T
  BY <1>2
<1>4. <<n - 1, n>> \in R
  BY <1>2, <1>3 DEF OpToRel
<1> QED
  BY <1>1, <1>3, <1>4

\* The empty set is in G, and a subset of S is when all its proper subsets are.
LEMMA SubsetsByInduction ==
    ASSUME NEW S, IsFiniteSet(S), NEW G,
           \A T \in SUBSET S : (\A U \in SUBSET T : U # T => U \in G) => T \in G
    PROVE  SUBSET S \subseteq G
<1> DEFINE B == {T \in SUBSET S : T \notin G}
<1> SUFFICES ASSUME B # {} PROVE FALSE
  OBVIOUS
<1>1. PICK T \in B : \A U \in B : <<U, T>> \notin StrictSubsetOrdering(S)
  <2>1. /\ IsWellFoundedOn(StrictSubsetOrdering(S), FiniteSubsetsOf(S))
        /\ B \subseteq FiniteSubsetsOf(S)
    BY FS_StrictSubsetOrderingWellFounded, FS_FiniteSubsetsOfFinite
  <2> HIDE DEF B
  <2> QED
    BY <2>1, WFMin
<1>2. \A U \in SUBSET T : U # T => U \in G
  BY <1>1 DEF StrictSubsetOrdering
<1> QED
  BY <1>1, <1>2

-----------------------------------------------------------------------------
(* Folds over a finite set.                                                *)

\* The element a fold takes next.
Pick(T) == CHOOSE x \in T : TRUE

LEMMA PickIs ==
    ASSUME NEW T, T # {}
    PROVE  Pick(T) \in T /\ T \ {Pick(T)} # T
BY DEF Pick

\* The subsets of S of at most n elements.
Small(S, n) == {T \in SUBSET S : Cardinality(T) <= n}

\* g takes the elements of every subset of S one after the other.
FoldsOver(g, S, V, base, take) ==
    /\ g \in [SUBSET S -> V]
    /\ \A T \in SUBSET S :
          g[T] = IF T = {} THEN base ELSE take[<<Pick(T), g[T \ {Pick(T)}]>>]

\* A function on subsets may be defined by what it is on one element less.
LEMMA FoldExists ==
    ASSUME NEW S, IsFiniteSet(S), NEW V, NEW base \in V, NEW take \in [S \X V -> V]
    PROVE  \E g : FoldsOver(g, S, V, base, take)
<1> DEFINE Folds(g, D) ==
              /\ g \in [D -> V]
              /\ \A T \in D :
                    g[T] = IF T = {} THEN base ELSE take[<<Pick(T), g[T \ {Pick(T)}]>>]
           G == {n \in Nat : \E g : Folds(g, Small(S, n))}
<1>0. \A T \in SUBSET S : IsFiniteSet(T) /\ Cardinality(T) \in Nat
  BY FS_Subset, FS_CardinalityType
<1>1. 0 \in G
  <2>1. Small(S, 0) = {{}}
    BY <1>0, FS_EmptySet DEF Small
  <2>2. Folds([T \in Small(S, 0) |-> base], Small(S, 0))
    BY <2>1
  <2> QED
    BY <2>2
<1>2. ASSUME NEW n \in Nat, n \in G PROVE n + 1 \in G
  <2>1. PICK g : Folds(g, Small(S, n))
    BY <1>2
  <2> DEFINE next(T) == IF T = {} THEN base ELSE take[<<Pick(T), g[T \ {Pick(T)}]>>]
             h == [T \in Small(S, n + 1) |-> next(T)]
  <2>2. ASSUME NEW T \in Small(S, n + 1), T # {}
        PROVE  /\ Pick(T) \in S
               /\ T \ {Pick(T)} \in Small(S, n)
               /\ T \ {Pick(T)} \in Small(S, n + 1)
    <3>1. Pick(T) \in T
      BY <2>2, PickIs
    <3>2. Cardinality(T \ {Pick(T)}) = Cardinality(T) - 1
      BY <1>0, <3>1, FS_RemoveElement DEF Small
    <3> QED
      BY <1>0, <3>1, <3>2 DEF Small
  <2>3. ASSUME NEW T \in Small(S, n) PROVE T \in Small(S, n + 1) /\ h[T] = g[T]
    <3>1. T \in Small(S, n + 1)
      BY <1>0 DEF Small
    <3> QED
      BY <2>1, <3>1
  <2>4. ASSUME NEW T \in Small(S, n + 1)
        PROVE  /\ h[T] \in V
               /\ h[T] = IF T = {} THEN base ELSE take[<<Pick(T), h[T \ {Pick(T)}]>>]
    BY <2>1, <2>2, <2>3
  <2>5. Folds(h, Small(S, n + 1))
    BY <2>4
  <2>6. \E f : Folds(f, Small(S, n + 1))
    <3> HIDE DEF h, Folds
    <3> QED
      BY <2>5
  <2> QED
    BY <2>6
<1>3. Cardinality(S) \in G
  <2> HIDE DEF G
  <2> QED
    BY <1>0, <1>1, <1>2, NumbersByInduction
<1>4. Small(S, Cardinality(S)) = SUBSET S
  BY <1>0, FS_Subset DEF Small
<1> QED
  BY <1>3, <1>4 DEF FoldsOver

-----------------------------------------------------------------------------
(* Sums of fractions and of weights.                                       *)

LEMMA PlusType ==
    ASSUME NEW a \in Fractions, NEW b \in Fractions
    PROVE  Plus(a, b) \in Fractions
BY DEF Plus, Fractions

\* h is the sum of f over every subset of S.
SumsUp(h, f, S) ==
    /\ h \in [SUBSET S -> Fractions]
    /\ h[{}] = Zero
    /\ \A T \in SUBSET S : T # {} => h[T] = Plus(f[Pick(T)], h[T \ {Pick(T)}])

LEMMA TotalIs ==
    ASSUME NEW S, IsFiniteSet(S), NEW f \in [S -> Fractions]
    PROVE  \E h : SumsUp(h, f, S) /\ Total(f, S) = h[S]
<1> DEFINE V == Fractions
           base == Zero
           take == [p \in S \X V |-> Plus(f[p[1]], p[2])]
           Defines(g) == g = [T \in SUBSET S |->
                                IF T = {} THEN Zero
                                ELSE Plus(f[Pick(T)], g[T \ {Pick(T)}])]
           h == CHOOSE g : Defines(g)
<1>1. base \in V /\ take \in [S \X V -> V]
  <2>1. ASSUME NEW p \in S \X V PROVE Plus(f[p[1]], p[2]) \in V
    BY PlusType
  <2>2. base \in V
    BY DEF Zero, Fractions
  <2> HIDE DEF V, base
  <2> QED
    BY <2>1, <2>2
<1>2. \E g : FoldsOver(g, S, V, base, take)
  <2> HIDE DEF take, V, base
  <2> QED
    BY <1>1, FoldExists
<1>3. \E g : Defines(g)
  <2>1. PICK g : FoldsOver(g, S, V, base, take)
    BY <1>2
  <2> DEFINE value(T) == IF T = {} THEN Zero
                         ELSE Plus(f[Pick(T)], g[T \ {Pick(T)}])
  <2>2. ASSUME NEW T \in SUBSET S, T # {}
        PROVE  take[<<Pick(T), g[T \ {Pick(T)}]>>] = Plus(f[Pick(T)], g[T \ {Pick(T)}])
    BY <2>1, <2>2, PickIs DEF FoldsOver
  <2>3. \A T \in SUBSET S : g[T] = value(T)
    BY <2>1, <2>2 DEF FoldsOver
  <2>4. g = [T \in SUBSET S |-> g[T]]
    BY <2>1 DEF FoldsOver
  <2>5. g = [T \in SUBSET S |-> value(T)]
    <3> HIDE DEF value
    <3> QED
      BY <2>3, <2>4
  <2> QED
    BY <2>5
<1>4. Defines(h)
  <2> HIDE DEF Defines
  <2> QED
    BY <1>3
<1>5. Total(f, S) = h[S]
  BY DEF Total, MapThenFoldSet, Pick
<1>6. \A T \in SUBSET S :
         h[T] = IF T = {} THEN Zero ELSE Plus(f[Pick(T)], h[T \ {Pick(T)}])
  <2> HIDE DEF h
  <2> QED
    BY <1>4
<1>7. h = [T \in SUBSET S |-> h[T]]
  <2> HIDE DEF h
  <2> QED
    BY <1>4
<1> HIDE DEF h, take, Defines
<1>8. \A T \in SUBSET S : h[T] \in Fractions
  <2> DEFINE G == {T \in SUBSET S : h[T] \in Fractions}
  <2>1. ASSUME NEW T \in SUBSET S, \A U \in SUBSET T : U # T => U \in G
        PROVE  T \in G
    <3>1. CASE T = {}
      BY <1>1, <1>6, <3>1
    <3>2. CASE T # {}
      <4>1. /\ Pick(T) \in S
            /\ h[T \ {Pick(T)}] \in Fractions
        BY <2>1, <3>2, PickIs
      <4>2. Plus(f[Pick(T)], h[T \ {Pick(T)}]) \in Fractions
        BY <4>1, PlusType
      <4> QED
        BY <1>6, <3>2, <4>2
    <3> QED
      BY <3>1, <3>2
  <2> HIDE DEF G
  <2>2. SUBSET S \subseteq G
    BY <2>1, SubsetsByInduction
  <2> QED
    BY <2>2 DEF G
<1>9. SumsUp(h, f, S)
  <2>1. h \in [SUBSET S -> Fractions]
    BY <1>7, <1>8
  <2> QED
    BY <1>6, <2>1 DEF SumsUp
<1> QED
  BY <1>5, <1>9

\* h is the weight of every subset of S.
WeighsUp(h, S) ==
    /\ h \in [SUBSET S -> Nat]
    /\ h[{}] = 0
    /\ \A T \in SUBSET S : T # {} => h[T] = weights[Pick(T)] + h[T \ {Pick(T)}]

LEMMA WeightIs ==
    ASSUME NEW S, IsFiniteSet(S), \A s \in S : weights[s] \in Nat
    PROVE  \E h : WeighsUp(h, S) /\ WeightOf(S) = h[S]
<1> DEFINE V == Nat
           base == 0
           take == [p \in S \X V |-> weights[p[1]] + p[2]]
           Defines(g) == g = [T \in SUBSET S |->
                                IF T = {} THEN 0
                                ELSE weights[Pick(T)] + g[T \ {Pick(T)}]]
           h == CHOOSE g : Defines(g)
<1>1. base \in V /\ take \in [S \X V -> V]
  <2>1. ASSUME NEW p \in S \X V PROVE weights[p[1]] + p[2] \in V
    OBVIOUS
  <2>2. base \in V
    OBVIOUS
  <2> HIDE DEF V, base
  <2> QED
    BY <2>1, <2>2
<1>2. \E g : FoldsOver(g, S, V, base, take)
  <2> HIDE DEF take, V, base
  <2> QED
    BY <1>1, FoldExists
<1>3. \E g : Defines(g)
  <2>1. PICK g : FoldsOver(g, S, V, base, take)
    BY <1>2
  <2> DEFINE value(T) == IF T = {} THEN 0
                         ELSE weights[Pick(T)] + g[T \ {Pick(T)}]
  <2>2. ASSUME NEW T \in SUBSET S, T # {}
        PROVE  take[<<Pick(T), g[T \ {Pick(T)}]>>] = weights[Pick(T)] + g[T \ {Pick(T)}]
    BY <2>1, <2>2, PickIs DEF FoldsOver
  <2>3. \A T \in SUBSET S : g[T] = value(T)
    BY <2>1, <2>2 DEF FoldsOver
  <2>4. g = [T \in SUBSET S |-> g[T]]
    BY <2>1 DEF FoldsOver
  <2>5. g = [T \in SUBSET S |-> value(T)]
    <3> HIDE DEF value
    <3> QED
      BY <2>3, <2>4
  <2> QED
    BY <2>5
<1>4. Defines(h)
  <2> HIDE DEF Defines
  <2> QED
    BY <1>3
<1>5. WeightOf(S) = h[S]
  BY DEF WeightOf, MapThenSumSet, MapThenFoldSet, Pick
<1>6. \A T \in SUBSET S :
         h[T] = IF T = {} THEN 0 ELSE weights[Pick(T)] + h[T \ {Pick(T)}]
  <2> HIDE DEF h
  <2> QED
    BY <1>4
<1>7. h = [T \in SUBSET S |-> h[T]]
  <2> HIDE DEF h
  <2> QED
    BY <1>4
<1> HIDE DEF h, take, Defines
<1>8. \A T \in SUBSET S : h[T] \in Nat
  <2> DEFINE G == {T \in SUBSET S : h[T] \in Nat}
  <2>1. ASSUME NEW T \in SUBSET S, \A U \in SUBSET T : U # T => U \in G
        PROVE  T \in G
    <3>1. ASSUME T # {} PROVE h[T] \in Nat
      <4>1. /\ Pick(T) \in S
            /\ h[T \ {Pick(T)}] \in Nat
        BY <2>1, <3>1, PickIs
      <4>2. h[T] = weights[Pick(T)] + h[T \ {Pick(T)}]
        BY <1>6, <3>1
      <4> QED
        BY <4>1, <4>2
    <3>2. T = {} => h[T] \in Nat
      <4>1. h[{}] = 0
        BY <1>6
      <4> QED
        BY <4>1
    <3> QED
      BY <3>1, <3>2
  <2> HIDE DEF G
  <2>2. SUBSET S \subseteq G
    BY <2>1, SubsetsByInduction
  <2> QED
    BY <2>2 DEF G
<1>9. WeighsUp(h, S)
  <2>1. h \in [SUBSET S -> Nat]
    BY <1>7, <1>8
  <2> QED
    BY <1>6, <2>1 DEF WeighsUp
<1> QED
  BY <1>5, <1>9

\* A set of strategies of positive weights has a positive weight.
LEMMA WeightIsPositive ==
    ASSUME NEW S, IsFiniteSet(S), S # {}, \A s \in S : weights[s] \in Nat \ {0}
    PROVE  WeightOf(S) \in Nat \ {0}
<1>1. PICK h : WeighsUp(h, S) /\ WeightOf(S) = h[S]
  BY WeightIs
<1>2. Pick(S) \in S /\ S \ {Pick(S)} \in SUBSET S
  BY PickIs
<1>3. h[S] = weights[Pick(S)] + h[S \ {Pick(S)}] /\ h[S \ {Pick(S)}] \in Nat
  BY <1>1, <1>2 DEF WeighsUp
<1> QED
  BY <1>1, <1>2, <1>3

LEMMA WeightType ==
    ASSUME NEW S, IsFiniteSet(S), \A s \in S : weights[s] \in Nat
    PROVE  WeightOf(S) \in Nat
<1>1. PICK h : WeighsUp(h, S) /\ WeightOf(S) = h[S]
  BY WeightIs
<1> QED
  BY <1>1 DEF WeighsUp

LEMMA TotalType ==
    ASSUME NEW S, IsFiniteSet(S), NEW f \in [S -> Fractions]
    PROVE  Total(f, S) \in Fractions
<1>1. PICK h : SumsUp(h, f, S) /\ Total(f, S) = h[S]
  BY TotalIs
<1> QED
  BY <1>1 DEF SumsUp

-----------------------------------------------------------------------------
(* Sums compared.                                                          *)

LEMMA ScaleAtMost ==
    ASSUME NEW x \in Int, NEW y \in Int, x <= y, NEW k \in Nat
    PROVE  x * k <= y * k
OBVIOUS

LEMMA PlusMonotone ==
    ASSUME NEW a \in Fractions, NEW b \in Fractions, AtMost(a, b),
           NEW c \in Fractions, NEW d \in Fractions, AtMost(c, d)
    PROVE  AtMost(Plus(a, c), Plus(b, d))
<1> DEFINE an == a.num  ad == a.den  bn == b.num  bd == b.den
           cn == c.num  cd == c.den  dn == d.num  dd == d.den
<1>1. /\ an \in Int /\ bn \in Int /\ cn \in Int /\ dn \in Int
      /\ ad \in Nat /\ bd \in Nat /\ cd \in Nat /\ dd \in Nat
      /\ an * bd <= bn * ad
      /\ cn * dd <= dn * cd
  BY DEF Fractions, AtMost
<1> SUFFICES (an * cd + cn * ad) * (bd * dd) <= (bn * dd + dn * bd) * (ad * cd)
  BY DEF AtMost, Plus
<1> HIDE DEF an, ad, bn, bd, cn, cd, dn, dd
<1>2. /\ cd * dd \in Nat /\ ad * bd \in Nat
      /\ an * bd \in Int /\ bn * ad \in Int /\ cn * dd \in Int /\ dn * cd \in Int
  BY <1>1
<1>3. (an * bd) * (cd * dd) <= (bn * ad) * (cd * dd)
  BY <1>1, <1>2, ScaleAtMost
<1>4. (cn * dd) * (ad * bd) <= (dn * cd) * (ad * bd)
  BY <1>1, <1>2, ScaleAtMost
<1>5. (an * cd + cn * ad) * (bd * dd) = (an * bd) * (cd * dd) + (cn * dd) * (ad * bd)
  BY <1>1
<1>6. (bn * dd + dn * bd) * (ad * cd) = (bn * ad) * (cd * dd) + (dn * cd) * (ad * bd)
  BY <1>1
<1> QED
  BY <1>1, <1>2, <1>3, <1>4, <1>5, <1>6

\* Larger terms have a larger sum.
LEMMA TotalMonotone ==
    ASSUME NEW S, IsFiniteSet(S),
           NEW f \in [S -> Fractions], NEW g \in [S -> Fractions],
           \A s \in S : AtMost(f[s], g[s])
    PROVE  AtMost(Total(f, S), Total(g, S))
<1>1. PICK h : SumsUp(h, f, S) /\ Total(f, S) = h[S]
  BY TotalIs
<1>2. PICK k : SumsUp(k, g, S) /\ Total(g, S) = k[S]
  BY TotalIs
<1> DEFINE G == {T \in SUBSET S : AtMost(h[T], k[T])}
<1>3. ASSUME NEW T \in SUBSET S, \A U \in SUBSET T : U # T => U \in G
      PROVE  T \in G
  <2>1. ASSUME T # {} PROVE AtMost(h[T], k[T])
    <3> DEFINE x == Pick(T)
               U == T \ {x}
    <3>1. x \in S /\ U \in SUBSET S /\ AtMost(h[U], k[U])
      BY <1>3, <2>1, PickIs
    <3>2. h[U] \in Fractions /\ k[U] \in Fractions
      BY <1>1, <1>2, <3>1 DEF SumsUp
    <3>3. h[T] = Plus(f[x], h[U]) /\ k[T] = Plus(g[x], k[U])
      BY <1>1, <1>2, <2>1 DEF SumsUp
    <3>4. f[x] \in Fractions /\ g[x] \in Fractions /\ AtMost(f[x], g[x])
      BY <3>1
    <3> HIDE DEF x, U
    <3>5. AtMost(Plus(f[x], h[U]), Plus(g[x], k[U]))
      BY <3>1, <3>2, <3>4, PlusMonotone
    <3> QED
      BY <3>3, <3>5
  <2>2. T = {} => AtMost(h[T], k[T])
    BY <1>1, <1>2 DEF SumsUp, AtMost, Zero
  <2> QED
    BY <2>1, <2>2
<1> HIDE DEF G
<1>4. SUBSET S \subseteq G
  BY <1>3, SubsetsByInduction
<1> QED
  BY <1>1, <1>2, <1>4 DEF G

\* What is in proportion to the weights sums up to the weight of the whole.
LEMMA TotalOfWeights ==
    ASSUME NEW S, IsFiniteSet(S), \A s \in S : weights[s] \in Nat,
           NEW c \in Nat, NEW f \in [S -> Fractions],
           \A s \in S : f[s].num = (weights[s] * c) * f[s].den
    PROVE  Total(f, S).num = (WeightOf(S) * c) * Total(f, S).den
<1>1. PICK h : SumsUp(h, f, S) /\ Total(f, S) = h[S]
  BY TotalIs
<1>2. PICK k : WeighsUp(k, S) /\ WeightOf(S) = k[S]
  BY WeightIs
<1> DEFINE G == {T \in SUBSET S : h[T].num = (k[T] * c) * h[T].den}
<1>3. ASSUME NEW T \in SUBSET S, \A U \in SUBSET T : U # T => U \in G
      PROVE  T \in G
  <2>1. ASSUME T # {} PROVE h[T].num = (k[T] * c) * h[T].den
    <3> DEFINE x == Pick(T)
               U == T \ {x}
               w == weights[x]  m == k[U]
               a == f[x].num  b == f[x].den  p == h[U].num  q == h[U].den
    <3>1. x \in S /\ U \in SUBSET S /\ p = (m * c) * q
      BY <1>3, <2>1, PickIs
    <3>2. h[U] \in Fractions /\ f[x] \in Fractions /\ w \in Nat /\ m \in Nat
      BY <1>1, <1>2, <3>1 DEF SumsUp, WeighsUp
    <3>3. h[T] = Plus(f[x], h[U]) /\ k[T] = w + m
      BY <1>1, <1>2, <2>1 DEF SumsUp, WeighsUp
    <3>4. a \in Int /\ b \in Nat /\ p \in Int /\ q \in Nat /\ a = (w * c) * b
      BY <3>1, <3>2 DEF Fractions
    <3>5. h[T].num = a * q + p * b /\ h[T].den = b * q
      BY <3>3 DEF Plus
    <3> HIDE DEF a, b, p, q, w, m
    <3>6. a * q = (w * c) * (b * q)
      BY <3>2, <3>4
    <3>7. p * b = (m * c) * (b * q)
      BY <3>1, <3>2, <3>4
    <3>8. ((w + m) * c) * (b * q) = (w * c) * (b * q) + (m * c) * (b * q)
      BY <3>2, <3>4
    <3> QED
      BY <3>3, <3>5, <3>6, <3>7, <3>8
  <2>2. T = {} => h[T].num = (k[T] * c) * h[T].den
    BY <1>1, <1>2 DEF SumsUp, WeighsUp, Zero
  <2> QED
    BY <2>1, <2>2
<1> HIDE DEF G
<1>4. SUBSET S \subseteq G
  BY <1>3, SubsetsByInduction
<1> QED
  BY <1>1, <1>2, <1>4 DEF G

-----------------------------------------------------------------------------
(* Sorted sequences.                                                       *)

LEMMA ImageFinite ==
    ASSUME NEW S, IsFiniteSet(S), NEW f, DOMAIN f = S
    PROVE  IsFiniteSet({f[x] : x \in S})
<1> DEFINE T == {f[x] : x \in S}
           g == [x \in S |-> f[x]]
<1>1. g \in Surjection(S, T)
  BY DEF Surjection
<1> HIDE DEF g, T
<1>2. IsFiniteSet(T)
  BY <1>1, FS_Surjection
<1> QED
  BY <1>2 DEF T

\* R orders the elements of S strictly and totally.
Orders(R, S) ==
    /\ \A x \in S : <<x, x>> \notin R
    /\ \A x, y \in S : x # y => <<x, y>> \in R \/ <<y, x>> \in R
    /\ \A x, y, z \in S : <<x, y>> \in R /\ <<y, z>> \in R => <<x, z>> \in R

\* f lists the elements of S in the order R.
Lists(f, S, R) ==
    /\ f \in [1..Cardinality(S) -> S]
    /\ Range(f) = S
    /\ \A i, j \in DOMAIN f : i < j => <<f[i], f[j]>> \in R

\* An element of T comes after all others.
HasLast(T, R) == \E m \in T : \A x \in T : x # m => <<x, m>> \in R

LEMMA LastExists ==
    ASSUME NEW S, IsFiniteSet(S), NEW R, Orders(R, S)
    PROVE  \A T \in SUBSET S : T # {} => HasLast(T, R)
<1> DEFINE G == {T \in SUBSET S : T # {} => HasLast(T, R)}
<1>1. ASSUME NEW T \in SUBSET S, \A U \in SUBSET T : U # T => U \in G
      PROVE  T \in G
  <2> SUFFICES ASSUME T # {} PROVE HasLast(T, R)
    OBVIOUS
  <2>1. PICK y \in T : TRUE
    OBVIOUS
  <2> DEFINE U == T \ {y}
  <2>2. CASE U = {}
    BY <2>1, <2>2 DEF HasLast
  <2>3. CASE U # {}
    <3>1. HasLast(U, R)
      <4>1. U \in G
        <5> HIDE DEF G
        <5> QED
          BY <1>1, <2>1
      <4> HIDE DEF U
      <4> QED
        BY <2>3, <4>1
    <3>2. PICK m \in U : \A x \in U : x # m => <<x, m>> \in R
      BY <3>1 DEF HasLast
    <3>3. CASE <<y, m>> \in R
      BY <2>1, <3>2, <3>3 DEF HasLast
    <3>4. CASE <<m, y>> \in R
      <4>1. \A x \in T : x # y => <<x, y>> \in R
        BY <2>1, <3>2, <3>4 DEF Orders
      <4> QED
        BY <2>1, <4>1 DEF HasLast
    <3> QED
      BY <2>1, <3>2, <3>3, <3>4 DEF Orders
  <2> QED
    BY <2>2, <2>3
<1> HIDE DEF G
<1>2. SUBSET S \subseteq G
  BY <1>1, SubsetsByInduction
<1> QED
  BY <1>2 DEF G

LEMMA ListExists ==
    ASSUME NEW S, IsFiniteSet(S), NEW R, Orders(R, S)
    PROVE  \A T \in SUBSET S : \E f : Lists(f, T, R)
<1> DEFINE G == {T \in SUBSET S : \E f : Lists(f, T, R)}
<1>0. \A T \in SUBSET S : IsFiniteSet(T) /\ Cardinality(T) \in Nat
  BY FS_Subset, FS_CardinalityType
<1>1. ASSUME NEW T \in SUBSET S, \A U \in SUBSET T : U # T => U \in G
      PROVE  \E f : Lists(f, T, R)
  <2>1. CASE T = {}
    <3> DEFINE f == [i \in 1..0 |-> i]
    <3>1. Cardinality(T) = 0
      BY <2>1, FS_EmptySet
    <3>2. Lists(f, T, R)
      BY <2>1, <3>1 DEF Lists, Range
    <3> HIDE DEF f
    <3> QED
      BY <3>2
  <2>2. CASE T # {}
    <3>1. PICK m \in T : \A x \in T : x # m => <<x, m>> \in R
      BY <2>2, LastExists DEF HasLast
    <3> DEFINE U == T \ {m}
               n == Cardinality(U)
    <3>2. U \in G /\ U \in SUBSET T
      BY <1>1, <3>1
    <3>3. n \in Nat /\ Cardinality(T) = n + 1
      BY <1>0, <3>1, FS_RemoveElement
    <3>4. PICK g : Lists(g, U, R)
      BY <3>2
    <3> DEFINE f == [i \in 1..(n + 1) |-> IF i = n + 1 THEN m ELSE g[i]]
    <3>5. g \in [1..n -> U] /\ Range(g) = U
      BY <3>4 DEF Lists
    <3> HIDE DEF n
    <3>6. f \in [1..(n + 1) -> T]
      BY <3>1, <3>3, <3>5
    <3>7. Range(f) = T
      <4>1. ASSUME NEW x \in T PROVE \E i \in 1..(n + 1) : f[i] = x
        <5>1. CASE x = m
          BY <3>3, <5>1
        <5>2. CASE x # m
          <6>1. PICK i \in 1..n : g[i] = x
            BY <3>5, <5>2 DEF Range
          <6> QED
            BY <3>3, <6>1
        <5> QED
          BY <5>1, <5>2
      <4> QED
        BY <3>6, <4>1 DEF Range
    <3>8. ASSUME NEW i \in 1..(n + 1), NEW j \in 1..(n + 1), i < j
          PROVE  <<f[i], f[j]>> \in R
      <4>1. i \in 1..n /\ f[i] = g[i] /\ g[i] \in U
        BY <3>3, <3>5, <3>8
      <4>2. CASE j = n + 1
        BY <3>1, <4>1, <4>2
      <4>3. CASE j # n + 1
        <5>1. j \in 1..n /\ f[j] = g[j]
          BY <3>3, <4>3
        <5> QED
          BY <3>4, <3>5, <3>8, <4>1, <5>1 DEF Lists
      <4> QED
        BY <4>2, <4>3
    <3>9. Lists(f, T, R)
      <4> HIDE DEF f, U
      <4> QED
        BY <3>3, <3>6, <3>7, <3>8 DEF Lists
    <3> HIDE DEF f
    <3> QED
      BY <3>9
  <2> QED
    BY <2>1, <2>2
<1>2. SUBSET S \subseteq G
  <2> SUFFICES ASSUME NEW T \in SUBSET S, \A U \in SUBSET T : U # T => U \in G
               PROVE  T \in G
    <3> HIDE DEF G
    <3> QED
      BY SubsetsByInduction
  <2> QED
    BY <1>1
<1> QED
  BY <1>2

\* InOrder lists a finite set, whatever strict total order it is given.
LEMMA InOrderLists ==
    ASSUME NEW S, IsFiniteSet(S), NEW R, Orders(R, S)
    PROVE  Lists(InOrder(S, R), S, R)
<1>1. \E f : Lists(f, S, R)
  BY ListExists
<1> QED
  BY <1>1 DEF Lists, InOrder

\* Numbers are ordered.
LEMMA NumbersOrdered ==
    ASSUME NEW D \in SUBSET Nat
    PROVE  Orders(Earlier(D), D)
<1>1. \A i, j \in D : <<i, j>> \in Earlier(D) <=> i < j
  BY DEF Earlier
<1>2. \A i \in D : <<i, i>> \notin Earlier(D)
  BY <1>1
<1>3. \A i, j \in D : i # j => <<i, j>> \in Earlier(D) \/ <<j, i>> \in Earlier(D)
  BY <1>1
<1>4. \A i, j, k \in D : <<i, j>> \in Earlier(D) /\ <<j, k>> \in Earlier(D)
                            => <<i, k>> \in Earlier(D)
  BY <1>1
<1> QED
  BY <1>2, <1>3, <1>4 DEF Orders

LEMMA LastOfNumbers ==
    ASSUME NEW D \in SUBSET Nat, IsFiniteSet(D), D # {}
    PROVE  \E m \in D : \A x \in D : m >= x
<1>1. Orders(Earlier(D), D)
  BY NumbersOrdered
<1>2. HasLast(D, Earlier(D))
  BY <1>1, LastExists
<1>3. PICK m \in D : \A x \in D : x # m => <<x, m>> \in Earlier(D)
  BY <1>2 DEF HasLast
<1>4. ASSUME NEW x \in D PROVE m >= x
  <2>1. x \in Nat /\ m \in Nat
    OBVIOUS
  <2>2. x # m => x < m
    BY <1>3 DEF Earlier
  <2> QED
    BY <2>1, <2>2
<1> QED
  BY <1>4

LEMMA MaxIs ==
    ASSUME NEW k \in Nat, NEW T \in SUBSET (1..k), T # {}
    PROVE  Max(T) \in T /\ \A j \in T : j <= Max(T)
<1>1. IsFiniteSet(T) /\ T \in SUBSET Nat
  <2> DEFINE D == 1..k
  <2>1. IsFiniteSet(D) /\ T \in SUBSET D
    BY FS_Interval
  <2>2. D \in SUBSET Nat
    OBVIOUS
  <2> HIDE DEF D
  <2> QED
    BY <2>1, <2>2, FS_Subset
<1>2. \E m \in T : \A x \in T : m >= x
  BY <1>1, LastOfNumbers
<1>3. Max(T) \in T /\ \A x \in T : Max(T) >= x
  BY <1>2 DEF Max
<1> QED
  BY <1>1, <1>3
=============================================================================
