-------------------------- MODULE Aggregator_proofs ---------------------------
(***************************************************************************)
(* Proofs about Aggregator, for any strategies, weights and curves: the    *)
(* shape of the state, the merged curve against its definition from the    *)
(* posted curves, the drawdown against the worst of all pairs, and the two *)
(* daily returns compared.                                                 *)
(***************************************************************************)
EXTENDS AggregatorSums_proofs

-----------------------------------------------------------------------------
(* The inputs never change.                                                *)

InputsOK ==
    /\ rows \in [Strategies -> Payloads]
    /\ weights \in [Strategies -> Weights]
    /\ normalize \in BOOLEAN

LEMMA InputsStep == InputsOK /\ [AggNext]_aggVars => InputsOK'
BY DEF InputsOK, AggNext, Filter, NothingToJoin, JoinRaises, Join, ScanPoint,
       ScanEnds, aggVars, inputs

\* What the inputs are made of.
LEMMA InputTypes ==
    ASSUME InputsOK
    PROVE  /\ IsFiniteSet(Strategies)
           /\ \A s \in Strategies :
                 /\ weights[s] \in Nat
                 /\ rows[s].curve \in Seq(Points)
                 /\ rows[s].pnl \in Int
                 /\ rows[s].total \in Nat
<1>1. IsFiniteSet(Strategies)
  BY AggregatorAssumption
<1>2. ASSUME NEW s \in Strategies
      PROVE  /\ weights[s] \in Nat
             /\ rows[s].curve \in Seq(Points)
             /\ rows[s].pnl \in Int
             /\ rows[s].total \in Nat
  <2>1. rows[s] \in [curve : Seq(Points), pnl : Int, total : Nat]
    BY AggregatorAssumption DEF InputsOK
  <2> QED
    BY <2>1, AggregatorAssumption DEF InputsOK
<1> QED
  BY <1>1, <1>2

-----------------------------------------------------------------------------
(* The two daily returns.                                                  *)

LEMMA ZeroAtMost == Zero \in Fractions /\ AtMost(Zero, Zero)
BY DEF Zero, Fractions, AtMost

\* A profit on the value it led to is no more than on the value it came from.
LEMMA ReturnsCompared ==
    ASSUME NEW pnl \in Int, NEW w \in Nat, NEW prior \in Nat \ {0},
           NEW total \in Nat \ {0}, total = prior + pnl
    PROVE  (pnl * w) * prior <= (pnl * w) * total
<1>1. pnl * pnl \in Nat
  OBVIOUS
<1>2. (pnl * pnl) * w \in Nat
  BY <1>1
<1>3. (pnl * w) * total = (pnl * w) * prior + (pnl * pnl) * w
  OBVIOUS
<1>4. (pnl * w) * prior \in Int
  OBVIOUS
<1> QED
  BY <1>2, <1>3, <1>4

\* A sum of fractions over a weight compares as the sums do.
LEMMA OverWeight ==
    ASSUME NEW a \in Fractions, NEW b \in Fractions, AtMost(a, b), NEW w \in Nat
    PROVE  AtMost([a EXCEPT !.den = @ * w], [b EXCEPT !.den = @ * w])
<1> DEFINE an == a.num  ad == a.den  bn == b.num  bd == b.den
<1>1. /\ an \in Int /\ bn \in Int /\ ad \in Nat /\ bd \in Nat
      /\ an * bd <= bn * ad
  BY DEF Fractions, AtMost
<1> SUFFICES an * (bd * w) <= bn * (ad * w)
  BY DEF AtMost, Fractions
<1> HIDE DEF an, ad, bn, bd
<1>2. (an * bd) * w <= (bn * ad) * w
  BY <1>1, ScaleAtMost
<1> QED
  BY <1>1, <1>2

LEMMA WeightedMonotone ==
    ASSUME InputsOK,
           NEW f \in [Strategies -> Fractions], NEW g \in [Strategies -> Fractions],
           \A s \in Strategies :
              (f[s].num * weights[s]) * g[s].den <= (g[s].num * weights[s]) * f[s].den
    PROVE  AtMost(Weighted(f), Weighted(g))
<1> DEFINE parts(r) == [s \in Strategies |-> [r[s] EXCEPT !.num = @ * weights[s]]]
<1>0. ASSUME NEW a \in Fractions, NEW w \in Nat
      PROVE  [a EXCEPT !.num = @ * w] \in Fractions
  BY DEF Fractions
<1>1. parts(f) \in [Strategies -> Fractions] /\ parts(g) \in [Strategies -> Fractions]
  BY <1>0, InputTypes
<1>2. \A s \in Strategies : AtMost(parts(f)[s], parts(g)[s])
  BY DEF AtMost, Fractions
<1>3. AtMost(Total(parts(f), Strategies), Total(parts(g), Strategies))
  <2> HIDE DEF parts
  <2> QED
    BY <1>1, <1>2, InputTypes, TotalMonotone
<1>4. /\ Total(parts(f), Strategies) \in Fractions
      /\ Total(parts(g), Strategies) \in Fractions
  <2> HIDE DEF parts
  <2> QED
    BY <1>1, InputTypes, TotalType
<1>5. WeightOf(Strategies) \in Nat
  BY InputTypes, WeightType
<1> DEFINE F == Total(parts(f), Strategies)
           G == Total(parts(g), Strategies)
           W == WeightOf(Strategies)
<1>6. AtMost([F EXCEPT !.den = @ * W], [G EXCEPT !.den = @ * W])
  <2> HIDE DEF F, G, W
  <2> QED
    BY <1>3, <1>4, <1>5, OverWeight DEF F, G, W
<1> QED
  BY <1>6, ZeroAtMost DEF Weighted

LEMMA OverallAtMostSnapshot == InputsOK => OverallIsPessimistic
<1> SUFFICES ASSUME InputsOK, NoFlows PROVE AtMost(OverallReturn, SnapshotReturn)
  BY DEF OverallIsPessimistic
<1> DEFINE onTotal == [s \in Strategies |->
              IF rows[s].total > 0 THEN [num |-> rows[s].pnl, den |-> rows[s].total]
                                   ELSE Zero]
           onPrior == [s \in Strategies |-> DailyReturn(rows[s])]
<1>1. ASSUME NEW s \in Strategies
      PROVE  /\ onTotal[s] \in Fractions /\ onPrior[s] \in Fractions
             /\ (onTotal[s].num * weights[s]) * onPrior[s].den
                   <= (onPrior[s].num * weights[s]) * onTotal[s].den
  <2> DEFINE p == rows[s]
             n == Len(p.curve)
             prior == p.curve[n - 1].value
  <2>1. /\ n >= 2 /\ prior > 0 /\ p.total > 0 /\ p.total = prior + p.pnl
    BY DEF NoFlows
  <2>2. /\ p.pnl \in Int /\ p.total \in Nat /\ weights[s] \in Nat
        /\ p.curve \in Seq(Points) /\ n \in Nat
    BY InputTypes
  <2>3. prior \in Nat \ {0} /\ p.total \in Nat \ {0}
    <3>1. p.curve[n - 1] \in Points
      BY <2>1, <2>2
    <3>2. prior \in Int
      BY <3>1 DEF Points
    <3> HIDE DEF prior
    <3> QED
      BY <2>1, <2>2, <3>2
  <2>4. onTotal[s] = [num |-> p.pnl, den |-> p.total]
    BY <2>1
  <2>5. onPrior[s] = [num |-> p.pnl, den |-> prior]
    BY <2>1 DEF DailyReturn
  <2> DEFINE d == p.pnl  w == weights[s]  t == p.total
  <2>6. (d * w) * prior <= (d * w) * t
    <3> HIDE DEF d, w, t, prior
    <3> QED
      BY <2>1, <2>2, <2>3, ReturnsCompared DEF d, w, t
  <2> QED
    BY <2>2, <2>3, <2>4, <2>5, <2>6 DEF Fractions
<1>2. onTotal \in [Strategies -> Fractions] /\ onPrior \in [Strategies -> Fractions]
  BY <1>1
<1>3. AtMost(Weighted(onTotal), Weighted(onPrior))
  <2> HIDE DEF onTotal, onPrior
  <2> QED
    BY <1>1, <1>2, WeightedMonotone
<1> QED
  BY <1>3 DEF OverallReturn, SnapshotReturn

\* calculate_weighted_return never reports more than the weighted return the
\* snapshot stores, on a round without deposits.
THEOREM Pessimistic == AggSpec => []OverallIsPessimistic
<1>1. AggInit => InputsOK
  BY DEF AggInit, InputsOK
<1> QED
  BY <1>1, InputsStep, OverallAtMostSnapshot, PTL DEF AggSpec

-----------------------------------------------------------------------------
(* Sorted curves.                                                          *)

LEMMA CurvePoints ==
    ASSUME NEW curve \in Seq(Points)
    PROVE  /\ Len(curve) \in Nat /\ DOMAIN curve = 1..Len(curve)
           /\ \A i \in 1..Len(curve) : /\ curve[i] \in Points
                                       /\ curve[i].date \in Nat
                                       /\ curve[i].value \in Int
<1>1. \A p \in Points : p.date \in Nat /\ p.value \in Int
  BY DEF Points
<1> QED
  BY <1>1

\* The order Sorted takes the points of a curve in.
OrderOf(curve) == InOrder(DOMAIN curve, ByDate(curve))

LEMMA OrderOfCurve ==
    ASSUME NEW curve \in Seq(Points)
    PROVE  /\ OrderOf(curve) \in [1..Len(curve) -> 1..Len(curve)]
           /\ \A k \in 1..Len(curve) : \E i \in 1..Len(curve) : OrderOf(curve)[i] = k
           /\ \A i, j \in 1..Len(curve) :
                 i < j => <<OrderOf(curve)[i], OrderOf(curve)[j]>> \in ByDate(curve)
<1> DEFINE D == 1..Len(curve)
           R == ByDate(curve)
<1>1. Len(curve) \in Nat /\ DOMAIN curve = D /\ \A i \in D : curve[i].date \in Nat
  BY CurvePoints
<1>2. IsFiniteSet(D) /\ Cardinality(D) = Len(curve)
  BY <1>1, FS_Interval
<1>3. Orders(R, D)
  <2>1. \A i, j \in D : <<i, j>> \in R <=> \/ curve[i].date < curve[j].date
                                           \/ curve[i].date = curve[j].date /\ i < j
    BY <1>1 DEF ByDate
  <2> HIDE DEF R
  <2>2. \A i, j \in D : i # j => <<i, j>> \in R \/ <<j, i>> \in R
    BY <1>1, <2>1
  <2>3. \A i, j, k \in D : <<i, j>> \in R /\ <<j, k>> \in R => <<i, k>> \in R
    BY <1>1, <2>1
  <2> QED
    BY <1>1, <2>1, <2>2, <2>3 DEF Orders
<1>4. Lists(OrderOf(curve), D, R)
  <2> HIDE DEF D, R
  <2> QED
    BY <1>1, <1>2, <1>3, InOrderLists DEF OrderOf, R
<1> HIDE DEF R
<1> QED
  BY <1>1, <1>2, <1>4 DEF Lists, Range, R

\* Sorted keeps the points and puts their dates in order.
LEMMA SortedCurve ==
    ASSUME NEW curve \in Seq(Points)
    PROVE  /\ Sorted(curve) \in Seq(Points)
           /\ Len(Sorted(curve)) = Len(curve)
           /\ Range(Sorted(curve)) = Range(curve)
           /\ \A i, j \in 1..Len(curve) :
                 i <= j => Sorted(curve)[i].date <= Sorted(curve)[j].date
<1> DEFINE n == Len(curve)
           order == OrderOf(curve)
           sorted == Sorted(curve)
<1>1. /\ n \in Nat /\ DOMAIN curve = 1..n
      /\ \A i \in 1..n : curve[i] \in Points /\ curve[i].date \in Nat
  BY CurvePoints
<1>2. /\ order \in [1..n -> 1..n]
      /\ \A k \in 1..n : \E i \in 1..n : order[i] = k
      /\ \A i, j \in 1..n : i < j => <<order[i], order[j]>> \in ByDate(curve)
  BY OrderOfCurve
<1>3. sorted = [k \in 1..n |-> curve[order[k]]]
  BY <1>1 DEF Sorted, OrderOf
<1> HIDE DEF order, sorted, n
<1>4. sorted \in [1..n -> Points]
  BY <1>1, <1>2, <1>3
<1>5. sorted \in Seq(Points) /\ Len(sorted) = n
  BY <1>1, <1>4
<1>6. Range(sorted) = Range(curve)
  <2>1. \A k \in 1..n : \E i \in 1..n : sorted[i] = curve[k]
    BY <1>2, <1>3
  <2>2. \A k \in 1..n : \E i \in 1..n : curve[i] = sorted[k]
    BY <1>2, <1>3
  <2>3. Range(sorted) = {sorted[i] : i \in 1..n} /\ Range(curve) = {curve[i] : i \in 1..n}
    BY <1>1, <1>3 DEF Range
  <2>4. ASSUME NEW x \in Range(curve) PROVE x \in Range(sorted)
    <3>1. PICK k \in 1..n : x = curve[k]
      BY <2>3
    <3>2. PICK i \in 1..n : sorted[i] = curve[k]
      BY <2>1
    <3> QED
      BY <2>3, <3>1, <3>2
  <2>5. ASSUME NEW x \in Range(sorted) PROVE x \in Range(curve)
    <3>1. PICK k \in 1..n : x = sorted[k]
      BY <2>3
    <3>2. PICK i \in 1..n : curve[i] = sorted[k]
      BY <2>2
    <3> QED
      BY <2>3, <3>1, <3>2
  <2> QED
    BY <2>4, <2>5
<1>7. ASSUME NEW i \in 1..n, NEW j \in 1..n, i <= j
      PROVE  sorted[i].date <= sorted[j].date
  <2>1. CASE i = j
    <3>1. sorted[i].date \in Nat
      BY <1>1, <1>2, <1>3
    <3> QED
      BY <2>1, <3>1
  <2>2. CASE i < j
    <3>1. /\ order[i] \in 1..n /\ order[j] \in 1..n
          /\ <<order[i], order[j]>> \in ByDate(curve)
      BY <1>2, <2>2
    <3>2. curve[order[i]].date <= curve[order[j]].date
      BY <1>1, <3>1 DEF ByDate
    <3> QED
      BY <1>3, <3>2
  <2> QED
    BY <1>1, <1>7, <2>1, <2>2
<1> QED
  BY <1>5, <1>6, <1>7 DEF sorted, n

\* Its first point is the one listed first of the earliest date.
LEMMA SortedFirst ==
    ASSUME NEW curve \in Seq(Points), curve # <<>>
    PROVE  \E i \in 1..Len(curve) :
              /\ Sorted(curve)[1] = curve[i]
              /\ \A j \in 1..Len(curve) :
                    \/ curve[i].date < curve[j].date
                    \/ curve[i].date = curve[j].date /\ i <= j
<1> DEFINE n == Len(curve)
           order == OrderOf(curve)
<1>1. /\ n \in Nat \ {0} /\ DOMAIN curve = 1..n
      /\ \A i \in 1..n : curve[i].date \in Nat
  <2>1. n # 0
    OBVIOUS
  <2> QED
    BY <2>1, CurvePoints
<1>2. /\ order \in [1..n -> 1..n]
      /\ \A k \in 1..n : \E i \in 1..n : order[i] = k
      /\ \A i, j \in 1..n : i < j => <<order[i], order[j]>> \in ByDate(curve)
  BY OrderOfCurve
<1>3. Sorted(curve)[1] = curve[order[1]]
  BY <1>1 DEF Sorted, OrderOf
<1> HIDE DEF n, order
<1>4. order[1] \in 1..n
  BY <1>1, <1>2
<1>5. ASSUME NEW j \in 1..n
      PROVE  \/ curve[order[1]].date < curve[j].date
             \/ curve[order[1]].date = curve[j].date /\ order[1] <= j
  <2>1. PICK i \in 1..n : order[i] = j
    BY <1>2
  <2>2. CASE i = 1
    BY <1>1, <1>2, <2>1, <2>2
  <2>3. CASE i # 1
    <3>1. <<order[1], order[i]>> \in ByDate(curve)
      BY <1>1, <1>2, <2>3
    <3>2. order[1] \in 1..n /\ order[i] \in 1..n
      BY <1>2, <1>4
    <3>3. \/ curve[order[1]].date < curve[order[i]].date
          \/ curve[order[1]].date = curve[order[i]].date /\ order[1] < order[i]
      BY <1>1, <3>1, <3>2 DEF ByDate
    <3> QED
      BY <2>1, <3>2, <3>3
  <2> QED
    BY <2>2, <2>3
<1> QED
  BY <1>3, <1>4, <1>5 DEF n

\* Sorting repeats no date.
LEMMA SortedDistinct ==
    ASSUME NEW curve \in Seq(Points), ~RepeatsDate(curve)
    PROVE  ~RepeatsDate(Sorted(curve))
<1> DEFINE n == Len(curve)
           order == OrderOf(curve)
           sorted == Sorted(curve)
<1>1. n \in Nat /\ DOMAIN curve = 1..n
  OBVIOUS
<1>2. /\ order \in [1..n -> 1..n]
      /\ \A i, j \in 1..n : i < j => <<order[i], order[j]>> \in ByDate(curve)
  BY OrderOfCurve
<1>3. sorted = [k \in 1..n |-> curve[order[k]]]
  BY <1>1 DEF Sorted, OrderOf
<1>4. \A i, j \in 1..n : curve[i].date = curve[j].date => i = j
  BY <1>1 DEF RepeatsDate, IsInjective, DatesOf
<1>5. \A i, j \in 1..n : order[i] = order[j] => i = j
  <2>1. \A i \in 1..n : <<order[i], order[i]>> \notin ByDate(curve)
    <3>1. \A i \in 1..n : curve[i].date \in Nat
      BY CurvePoints
    <3> QED
      BY <1>1, <1>2, <3>1 DEF ByDate
  <2> HIDE DEF order, n
  <2> SUFFICES ASSUME NEW i \in 1..n, NEW j \in 1..n, order[i] = order[j], i # j
               PROVE  FALSE
    OBVIOUS
  <2>2. i < j \/ j < i
    BY <1>1
  <2> QED
    BY <1>2, <2>1, <2>2
<1> HIDE DEF order, sorted
<1>6. \A i, j \in 1..n : sorted[i].date = sorted[j].date => i = j
  BY <1>2, <1>3, <1>4, <1>5
<1> QED
  BY <1>3, <1>6 DEF RepeatsDate, IsInjective, DatesOf, sorted

-----------------------------------------------------------------------------
(* The curves that contribute.                                             *)

SeriesInv ==
    series = IF phase = "filter"
             THEN [s \in {} |-> <<>>]
             ELSE [s \in {u \in Strategies : Contributes(u)} |-> Sorted(rows[s].curve)]

LEMMA SeriesStep == InputsOK /\ SeriesInv /\ [AggNext]_aggVars => SeriesInv'
<1> SUFFICES ASSUME InputsOK, SeriesInv, [AggNext]_aggVars PROVE SeriesInv'
  OBVIOUS
<1>1. /\ rows' = rows /\ weights' = weights
  BY DEF AggNext, Filter, NothingToJoin, JoinRaises, Join, ScanPoint, ScanEnds,
         aggVars, inputs
<1>2. CASE Filter
  BY <1>1, <1>2 DEF Filter, SeriesInv, Contributes
<1>3. CASE series' = series /\ (phase' # "filter" <=> phase # "filter")
  BY <1>1, <1>3 DEF SeriesInv, Contributes
<1>4. Filter \/ (series' = series /\ (phase' # "filter" <=> phase # "filter"))
  BY DEF AggNext, NothingToJoin, JoinRaises, Join, ScanPoint, ScanEnds, aggVars
<1> QED
  BY <1>2, <1>3, <1>4

\* What the frame is built from.
SeriesOK ==
    /\ Contributors \subseteq Strategies
    /\ \A s \in Contributors :
          /\ weights[s] \in Nat \ {0}
          /\ series[s] \in Seq(Points)
          /\ series[s] # <<>>
          /\ series[s][1].value > 0
          /\ \A i, j \in 1..Len(series[s]) : i <= j => series[s][i].date <= series[s][j].date
          /\ Range(series[s]) = Range(rows[s].curve)

LEMMA SeriesAre == InputsOK /\ SeriesInv => SeriesOK
<1> SUFFICES ASSUME InputsOK, SeriesInv PROVE SeriesOK
  OBVIOUS
<1>1. /\ Contributors \subseteq {u \in Strategies : Contributes(u)}
      /\ \A s \in Contributors : series[s] = Sorted(rows[s].curve)
  BY DEF SeriesInv, Contributors
<1>2. ASSUME NEW s \in Contributors
      PROVE  /\ weights[s] \in Nat \ {0}
             /\ series[s] \in Seq(Points)
             /\ series[s] # <<>>
             /\ series[s][1].value > 0
             /\ \A i, j \in 1..Len(series[s]) :
                   i <= j => series[s][i].date <= series[s][j].date
             /\ Range(series[s]) = Range(rows[s].curve)
  <2>1. /\ s \in Strategies /\ Contributes(s) /\ series[s] = Sorted(rows[s].curve)
        /\ rows[s].curve \in Seq(Points) /\ weights[s] \in Nat
    BY <1>1, InputTypes
  <2>2. /\ series[s] \in Seq(Points)
        /\ Len(series[s]) = Len(rows[s].curve)
        /\ Range(series[s]) = Range(rows[s].curve)
        /\ \A i, j \in 1..Len(series[s]) :
              i <= j => series[s][i].date <= series[s][j].date
    BY <2>1, SortedCurve
  <2>3. series[s] # <<>>
    <3>1. Len(rows[s].curve) # 0
      BY <2>1 DEF Contributes
    <3> QED
      BY <2>2, <3>1
  <2>4. weights[s] > 0 /\ series[s][1].value > 0
    BY <2>1 DEF Contributes
  <2> QED
    BY <2>1, <2>2, <2>3, <2>4
<1> QED
  BY <1>1, <1>2 DEF SeriesOK

-----------------------------------------------------------------------------
(* The frame.                                                              *)

LEMMA DatesOfSeries ==
    ASSUME SeriesOK, NEW s \in Contributors
    PROVE  /\ Len(series[s]) \in Nat \ {0}
           /\ DatesOf(series[s]) \in Seq(Nat)
           /\ Len(DatesOf(series[s])) = Len(series[s])
           /\ DatesOf(series[s]) = [k \in 1..Len(series[s]) |-> series[s][k].date]
           /\ Range(DatesOf(series[s])) = {p.date : p \in Range(series[s])}
           /\ Range(series[s]) \subseteq Points
           /\ Range(DatesOf(series[s])) \in SUBSET Nat
           /\ Range(DatesOf(series[s])) # {}
           /\ IsFiniteSet(Range(DatesOf(series[s])))
<1> DEFINE c == series[s]
           n == Len(c)
<1>1. c \in Seq(Points) /\ c # <<>>
  BY DEF SeriesOK
<1>2. n \in Nat \ {0} /\ DOMAIN c = 1..n /\ \A i \in 1..n : c[i] \in Points /\ c[i].date \in Nat
  <2> HIDE DEF c
  <2>1. n # 0
    BY <1>1
  <2> QED
    BY <1>1, <2>1, CurvePoints
<1> HIDE DEF c
<1>3. DatesOf(c) = [k \in 1..n |-> c[k].date]
  BY <1>2 DEF DatesOf
<1>4. DatesOf(c) \in [1..n -> Nat]
  BY <1>2, <1>3
<1>5. DatesOf(c) \in Seq(Nat) /\ Len(DatesOf(c)) = n
  BY <1>2, <1>4
<1>6. /\ Range(c) = {c[i] : i \in 1..n}
      /\ Range(DatesOf(c)) = {c[i].date : i \in 1..n}
  BY <1>2, <1>3 DEF Range
<1>7. Range(DatesOf(c)) = {p.date : p \in Range(c)} /\ Range(c) \subseteq Points
  BY <1>2, <1>6
<1>8. Range(DatesOf(c)) \in SUBSET Nat /\ Range(DatesOf(c)) # {}
  BY <1>2, <1>6
<1>9. IsFiniteSet(Range(DatesOf(c)))
  <2> DEFINE D == 1..n
             f == [i \in D |-> c[i].date]
  <2>1. Range(DatesOf(c)) = {f[i] : i \in D}
    BY <1>6
  <2>2. DOMAIN f = D /\ IsFiniteSet(D)
    BY <1>2, FS_Interval
  <2> HIDE DEF f, D
  <2>3. IsFiniteSet({f[i] : i \in D})
    BY <2>2, ImageFinite
  <2> QED
    BY <2>1, <2>3
<1> QED
  BY <1>2, <1>3, <1>5, <1>7, <1>8, <1>9 DEF c

\* The index of the frame lists the dates of the curves in order.
LEMMA RowDatesAre ==
    ASSUME InputsOK, SeriesOK, Contributors # {}
    PROVE  /\ RowDates \in Seq(Nat)
           /\ Len(RowDates) \in Nat \ {0}
           /\ Range(RowDates) = AllDates
           /\ \A i, j \in 1..Len(RowDates) : i <= j => RowDates[i] <= RowDates[j]
<1>1. CASE SameIndex
  <2> DEFINE u == CHOOSE s \in Contributors : TRUE
  <2>1. u \in Contributors
    OBVIOUS
  <2>2. RowDates = DatesOf(series[u])
    BY <1>1 DEF RowDates
  <2> HIDE DEF u
  <2>3. AllDates = Range(RowDates)
    <3>1. \A s \in Contributors : Range(DatesOf(series[s])) = Range(RowDates)
      BY <1>1, <2>1, <2>2 DEF SameIndex
    <3> QED
      BY <2>1, <3>1 DEF AllDates
  <2>4. \A i, j \in 1..Len(RowDates) : i <= j => RowDates[i] <= RowDates[j]
    <3>1. /\ Len(RowDates) = Len(series[u])
          /\ RowDates = [k \in 1..Len(series[u]) |-> series[u][k].date]
      BY <2>1, <2>2, DatesOfSeries
    <3>2. \A i, j \in 1..Len(series[u]) :
             i <= j => series[u][i].date <= series[u][j].date
      BY <2>1 DEF SeriesOK
    <3> QED
      BY <3>1, <3>2
  <2> QED
    BY <2>1, <2>2, <2>3, <2>4, DatesOfSeries
<1>2. CASE ~SameIndex
  <2> DEFINE n == Cardinality(AllDates)
  <2>1. AllDates \in SUBSET Nat
    <3>1. \A s \in Contributors : Range(DatesOf(series[s])) \in SUBSET Nat
      BY DatesOfSeries
    <3> QED
      BY <3>1 DEF AllDates
  <2>2. IsFiniteSet(AllDates)
    <3> DEFINE f == [s \in Contributors |-> Range(DatesOf(series[s]))]
               F == {f[s] : s \in Contributors}
    <3>1. IsFiniteSet(Contributors)
      BY InputTypes, FS_Subset DEF SeriesOK
    <3>2. \A T \in F : IsFiniteSet(T)
      BY DatesOfSeries
    <3>3. AllDates = UNION F
      BY DEF AllDates
    <3>4. IsFiniteSet(F)
      <4>1. DOMAIN f = Contributors
        OBVIOUS
      <4> HIDE DEF f
      <4> QED
        BY <3>1, <4>1, ImageFinite
    <3> HIDE DEF F
    <3> QED
      BY <3>2, <3>3, <3>4, FS_UNION
  <2>3. AllDates # {}
    <3>1. \A s \in Contributors : Range(DatesOf(series[s])) # {}
      BY DatesOfSeries
    <3> QED
      BY <3>1 DEF AllDates
  <2>4. Lists(RowDates, AllDates, Earlier(AllDates))
    BY <1>2, <2>1, <2>2, NumbersOrdered, InOrderLists DEF RowDates
  <2>5. n \in Nat \ {0}
    BY <2>2, <2>3, FS_CardinalityType, FS_EmptySet
  <2>6. RowDates \in [1..n -> Nat] /\ Range(RowDates) = AllDates
    BY <2>1, <2>4 DEF Lists
  <2>7. \A i, j \in 1..n : i < j => RowDates[i] < RowDates[j]
    BY <2>4, <2>6 DEF Lists, Earlier
  <2> HIDE DEF n
  <2>8. RowDates \in Seq(Nat) /\ Len(RowDates) = n
    BY <2>5, <2>6
  <2>9. \A i, j \in 1..n : i <= j => RowDates[i] <= RowDates[j]
    BY <2>5, <2>6, <2>7
  <2> QED
    BY <2>5, <2>6, <2>8, <2>9
<1> QED
  BY <1>1, <1>2

\* A cell holds the value of a point of its date, if the series has one.
LEMMA CellIs ==
    ASSUME SeriesOK, NEW s \in Contributors, NEW dates \in Seq(Nat),
           NEW k \in 1..Len(dates)
    PROVE  /\ Cell(s, dates, k) # NaN =>
                 \E p \in Range(series[s]) : p.date = dates[k] /\ p.value = Cell(s, dates, k)
           /\ \A p \in Range(series[s]) : p.date = dates[k] => Cell(s, dates, k) # NaN
           /\ Cell(s, dates, k) # NaN => Cell(s, dates, k) \in Int
<1> DEFINE c == series[s]
           here == {p \in Range(c) : p.date = dates[k]}
<1>1. \A p \in Range(c) : p.value \in Int /\ p.value # NaN
  BY DatesOfSeries, AggregatorAssumption DEF Points
<1>2. /\ Len(c) \in Nat \ {0}
      /\ DatesOf(c) = [i \in 1..Len(c) |-> c[i].date]
      /\ Len(DatesOf(c)) = Len(c)
      /\ c \in Seq(Points)
  BY DatesOfSeries DEF SeriesOK
<1>3. CASE DatesOf(c) = dates
  <2>1. k \in 1..Len(c) /\ c[k].date = dates[k] /\ c[k] \in Range(c)
    BY <1>2, <1>3 DEF Range
  <2>2. Cell(s, dates, k) = c[k].value
    BY <1>3 DEF Cell
  <2> HIDE DEF c
  <2> QED
    BY <1>1, <2>1, <2>2 DEF c
<1>4. CASE DatesOf(c) # dates
  <2> DEFINE q == CHOOSE p \in here : TRUE
  <2>1. Cell(s, dates, k) = IF here = {} THEN NaN ELSE q.value
    BY <1>4 DEF Cell
  <2>2. here # {} => q \in here
    OBVIOUS
  <2> HIDE DEF q
  <2> QED
    BY <1>1, <2>1, <2>2
<1> QED
  BY <1>3, <1>4

\* A gap takes the last value above it.
LEMMA FilledIs ==
    ASSUME SeriesOK, NEW s \in Contributors, NEW dates \in Seq(Nat),
           NEW k \in 1..Len(dates)
    PROVE  /\ Filled(s, dates)[k] # NaN =>
                 \E m \in 1..k :
                    /\ Cell(s, dates, m) # NaN
                    /\ Filled(s, dates)[k] = Cell(s, dates, m)
                    /\ \A j \in 1..k : Cell(s, dates, j) # NaN => j <= m
           /\ \A j \in 1..k : Cell(s, dates, j) # NaN => Filled(s, dates)[k] # NaN
<1> DEFINE above == {j \in 1..k : Cell(s, dates, j) # NaN}
<1>1. DOMAIN dates = 1..Len(dates) /\ k \in Nat
  OBVIOUS
<1>2. Filled(s, dates)[k] = IF above = {} THEN NaN ELSE Cell(s, dates, Max(above))
  BY <1>1 DEF Filled
<1>3. CASE above = {}
  <2>1. Filled(s, dates)[k] = NaN
    BY <1>2, <1>3
  <2>2. \A j \in 1..k : Cell(s, dates, j) = NaN
    BY <1>3
  <2> QED
    BY <2>1, <2>2
<1>4. CASE above # {}
  <2>1. above \in SUBSET (1..k)
    OBVIOUS
  <2>2. Max(above) \in above /\ \A j \in above : j <= Max(above)
    <3> HIDE DEF above
    <3> QED
      BY <1>1, <1>4, <2>1, MaxIs
  <2>3. Filled(s, dates)[k] = Cell(s, dates, Max(above))
    BY <1>2, <1>4
  <2> QED
    BY <2>2, <2>3
<1> QED
  BY <1>3, <1>4

\* What the row of a date holds for a strategy: the value it had at the last
\* of the dates up to there on which it had one.
LEMMA RowHolds ==
    ASSUME InputsOK, SeriesOK, NEW s \in Contributors, NEW k \in 1..Len(RowDates)
    PROVE  /\ Filled(s, RowDates)[k] # NaN =>
                 \E m \in 1..k, p \in Range(series[s]) :
                    /\ p.date = RowDates[m]
                    /\ Filled(s, RowDates)[k] = p.value
                    /\ Filled(s, RowDates)[k] = Cell(s, RowDates, m)
                    /\ \A q \in Range(series[s]), j \in 1..k : q.date = RowDates[j] => j <= m
           /\ \A q \in Range(series[s]), j \in 1..k :
                 q.date = RowDates[j] => Filled(s, RowDates)[k] # NaN
<1> DEFINE dates == RowDates
<1>1. dates \in Seq(Nat) /\ Len(dates) \in Nat
  BY RowDatesAre
<1> HIDE DEF dates
<1> SUFFICES ASSUME k \in 1..Len(dates)
             PROVE  /\ Filled(s, dates)[k] # NaN =>
                       \E m \in 1..k, p \in Range(series[s]) :
                          /\ p.date = dates[m]
                          /\ Filled(s, dates)[k] = p.value
                          /\ Filled(s, dates)[k] = Cell(s, dates, m)
                          /\ \A q \in Range(series[s]), j \in 1..k : q.date = dates[j] => j <= m
                    /\ \A q \in Range(series[s]), j \in 1..k :
                          q.date = dates[j] => Filled(s, dates)[k] # NaN
  BY DEF dates
<1>2. \A j \in 1..k : j \in 1..Len(dates)
  BY <1>1
<1>3. ASSUME NEW q \in Range(series[s]), NEW j \in 1..k, q.date = dates[j]
      PROVE  Cell(s, dates, j) # NaN
  BY <1>1, <1>2, <1>3, CellIs
<1>4. \A q \in Range(series[s]), j \in 1..k :
         q.date = dates[j] => Filled(s, dates)[k] # NaN
  BY <1>1, <1>3, FilledIs
<1>5. ASSUME Filled(s, dates)[k] # NaN
      PROVE  \E m \in 1..k, p \in Range(series[s]) :
                /\ p.date = dates[m]
                /\ Filled(s, dates)[k] = p.value
                /\ Filled(s, dates)[k] = Cell(s, dates, m)
                /\ \A q \in Range(series[s]), j \in 1..k : q.date = dates[j] => j <= m
  <2>1. PICK m \in 1..k : /\ Cell(s, dates, m) # NaN
                          /\ Filled(s, dates)[k] = Cell(s, dates, m)
                          /\ \A j \in 1..k : Cell(s, dates, j) # NaN => j <= m
    BY <1>1, <1>5, FilledIs
  <2>2. PICK p \in Range(series[s]) : p.date = dates[m] /\ p.value = Cell(s, dates, m)
    BY <1>1, <1>2, <2>1, CellIs
  <2> QED
    BY <1>3, <2>1, <2>2
<1> QED
  BY <1>4, <1>5

-----------------------------------------------------------------------------
(* The rows of the merged curve.                                           *)

\* The strategies with data on row k, and their shares of it.
Started(k) == {s \in Contributors : Filled(s, RowDates)[k] # NaN}
Shares(k) == [s \in Started(k) |-> Share(s, Filled(s, RowDates)[k])]

LEMMA MergedCurveIs ==
    ASSUME InputsOK, SeriesOK, Contributors # {}
    PROVE  MergedCurve = [k \in 1..Len(RowDates) |->
              [date |-> RowDates[k], value |-> Mean(Shares(k), Started(k))]]
<1> DEFINE dates == RowDates
           frame == [s \in Contributors |-> Filled(s, dates)]
           live(k) == {s \in Contributors : frame[s][k] # NaN}
           value(k) == Mean([s \in live(k) |-> Share(s, frame[s][k])], live(k))
<1>1. MergedCurve = [k \in DOMAIN dates |-> [date |-> dates[k], value |-> value(k)]]
  BY DEF MergedCurve
<1>2. DOMAIN dates = 1..Len(dates)
  BY RowDatesAre
<1>3. ASSUME NEW k PROVE value(k) = Mean(Shares(k), Started(k))
  <2>1. live(k) = Started(k)
    BY DEF Started
  <2>2. [s \in live(k) |-> Share(s, frame[s][k])] = Shares(k)
    BY <2>1 DEF Shares, Started
  <2> QED
    BY <2>1, <2>2
<1> HIDE DEF value, dates
<1>4. MergedCurve = [k \in 1..Len(dates) |->
                       [date |-> dates[k], value |-> Mean(Shares(k), Started(k))]]
  BY <1>1, <1>2, <1>3
<1> QED
  BY <1>4 DEF dates

LEMMA ShareType ==
    ASSUME InputsOK, SeriesOK, NEW s \in Contributors, NEW v \in Int
    PROVE  Share(s, v) \in Fractions
<1>1. weights[s] \in Nat /\ Base \in Nat
  BY AggregatorAssumption DEF SeriesOK
<1>2. series[s][1].value \in Nat \ {0}
  <2>1. series[s][1] \in Points
    BY DEF SeriesOK
  <2>2. series[s][1].value \in Int
    BY <2>1 DEF Points
  <2> QED
    BY <2>2 DEF SeriesOK
<1>3. v * weights[s] * Base \in Int /\ v * weights[s] \in Int
  BY <1>1
<1> QED
  BY <1>2, <1>3 DEF Share, Fractions

\* A row divides by a positive weight.
LEMMA RowIsDefined ==
    ASSUME InputsOK, SeriesOK, Contributors # {}, NEW k \in 1..Len(RowDates)
    PROVE  /\ IsFiniteSet(Started(k)) /\ Started(k) # {}
           /\ Started(k) \subseteq Contributors
           /\ Shares(k) \in [Started(k) -> Fractions]
           /\ \A s \in Started(k) : weights[s] \in Nat \ {0}
           /\ WeightOf(Started(k)) \in Nat \ {0}
<1>1. Started(k) \subseteq Contributors /\ Contributors \subseteq Strategies
  BY DEF Started, SeriesOK
<1>2. IsFiniteSet(Started(k))
  BY <1>1, InputTypes, FS_Subset
<1>3. Started(k) # {}
  <2>1. RowDates[k] \in AllDates
    BY RowDatesAre DEF Range
  <2>2. PICK s \in Contributors : RowDates[k] \in Range(DatesOf(series[s]))
    BY <2>1 DEF AllDates
  <2>3. PICK q \in Range(series[s]) : q.date = RowDates[k]
    <3>1. RowDates[k] \in {p.date : p \in Range(series[s])}
      BY <2>2, DatesOfSeries
    <3> QED
      BY <3>1
  <2>4. k \in 1..k
    BY RowDatesAre
  <2>5. Filled(s, RowDates)[k] # NaN
    BY <2>3, <2>4, RowHolds
  <2> QED
    BY <2>5 DEF Started
<1>4. ASSUME NEW s \in Started(k)
      PROVE  Share(s, Filled(s, RowDates)[k]) \in Fractions
  <2>1. s \in Contributors /\ Filled(s, RowDates)[k] # NaN
    BY DEF Started
  <2>2. PICK p \in Range(series[s]) : Filled(s, RowDates)[k] = p.value
    BY <2>1, RowHolds
  <2>3. Filled(s, RowDates)[k] \in Int
    BY <2>1, <2>2, DatesOfSeries DEF Points
  <2> QED
    BY <2>1, <2>3, ShareType
<1>5. \A s \in Started(k) : weights[s] \in Nat \ {0}
  BY <1>1 DEF SeriesOK
<1>6. WeightOf(Started(k)) \in Nat \ {0}
  BY <1>2, <1>3, <1>5, WeightIsPositive
<1> QED
  BY <1>1, <1>2, <1>3, <1>4, <1>5, <1>6 DEF Shares

LEMMA RoundedType ==
    ASSUME NEW f \in Fractions
    PROVE  Rounded(f) \in Int
<1>1. f.num \in Int /\ f.den \in Nat \ {0}
  BY DEF Fractions
<1> QED
  BY <1>1 DEF Rounded

LEMMA MeanType ==
    ASSUME InputsOK, SeriesOK, Contributors # {}, NEW k \in 1..Len(RowDates)
    PROVE  Mean(Shares(k), Started(k)) \in Int
<1> DEFINE sum == Total(Shares(k), Started(k))
           W == WeightOf(Started(k))
<1>1. sum \in Fractions /\ W \in Nat \ {0}
  BY RowIsDefined, TotalType
<1>2. Mean(Shares(k), Started(k)) = Rounded([sum EXCEPT !.den = @ * W])
  BY DEF Mean
<1> HIDE DEF sum, W
<1>3. [sum EXCEPT !.den = @ * W] \in Fractions
  BY <1>1 DEF Fractions
<1> QED
  BY <1>2, <1>3, RoundedType

LEMMA MergedCurveType ==
    ASSUME InputsOK, SeriesOK, Contributors # {}
    PROVE  /\ MergedCurve \in Seq(Points)
           /\ Len(MergedCurve) = Len(RowDates)
           /\ Len(MergedCurve) \in Nat \ {0}
           /\ \A k \in 1..Len(MergedCurve) :
                 /\ MergedCurve[k].date = RowDates[k]
                 /\ MergedCurve[k].value = Mean(Shares(k), Started(k))
<1> DEFINE n == Len(RowDates)
<1>1. n \in Nat \ {0} /\ \A k \in 1..n : RowDates[k] \in Nat
  BY RowDatesAre
<1>2. MergedCurve = [k \in 1..n |->
         [date |-> RowDates[k], value |-> Mean(Shares(k), Started(k))]]
  BY MergedCurveIs
<1>3. \A k \in 1..n : [date |-> RowDates[k], value |-> Mean(Shares(k), Started(k))] \in Points
  BY <1>1, MeanType DEF Points
<1> HIDE DEF n
<1>4. MergedCurve \in [1..n -> Points]
  BY <1>2, <1>3
<1>5. MergedCurve \in Seq(Points) /\ Len(MergedCurve) = n
  BY <1>1, <1>4
<1>6. \A k \in 1..n : /\ MergedCurve[k].date = RowDates[k]
                      /\ MergedCurve[k].value = Mean(Shares(k), Started(k))
  BY <1>2
<1> QED
  BY <1>1, <1>5, <1>6 DEF n

-----------------------------------------------------------------------------
(* The merged curve is computed once.                                      *)

\* Nothing of the curve changes while the series and the inputs stay.
LEMMA CurveStays ==
    ASSUME series' = series, UNCHANGED inputs
    PROVE  /\ Contributors' = Contributors
           /\ Alignable' = Alignable
           /\ MergedCurve' = MergedCurve
<1>1. weights' = weights /\ normalize' = normalize
  BY DEF inputs
<1>2. Contributors' = Contributors
  BY DEF Contributors
<1>3. SameIndex' = SameIndex
  BY <1>2 DEF SameIndex
<1>4. AllDates' = AllDates
  BY <1>2 DEF AllDates
<1>5. RowDates' = RowDates
  BY <1>2, <1>3, <1>4 DEF RowDates
<1>6. \A s, dates, k : Cell(s, dates, k)' = Cell(s, dates, k)
  BY DEF Cell
<1>7. \A s, dates : Filled(s, dates)' = Filled(s, dates)
  BY <1>6 DEF Filled
<1>8. \A s, v : Share(s, v)' = Share(s, v)
  BY <1>1 DEF Share
<1>9. \A S : WeightOf(S)' = WeightOf(S)
  BY <1>1, SMT DEF WeightOf, MapThenSumSet, MapThenFoldSet
<1>10. \A f, S : Mean(f, S)' = Mean(f, S)
  BY <1>9 DEF Mean
<1>11. MergedCurve' = MergedCurve
  BY <1>2, <1>5, <1>7, <1>8, <1>10 DEF MergedCurve
<1>12. Alignable' = Alignable
  BY <1>2, <1>3 DEF Alignable
<1> QED
  BY <1>2, <1>11, <1>12

MergedInv ==
    /\ phase \in {"filter", "join", "raised"} => merged = <<>>
    /\ phase \in {"filter", "join"} \/ ~normalize => worst = Zero
    /\ phase = "scan" => normalize
    /\ phase \in {"scan", "done"} =>
          \/ Contributors = {} /\ phase = "done" /\ merged = <<>> /\ worst = Zero
          \/ Contributors # {} /\ Alignable /\ merged = MergedCurve

LEMMA MergedStep == MergedInv /\ [AggNext]_aggVars => MergedInv'
<1> SUFFICES ASSUME MergedInv, [AggNext]_aggVars PROVE MergedInv'
  OBVIOUS
<1>1. UNCHANGED inputs
  BY DEF AggNext, Filter, NothingToJoin, JoinRaises, Join, ScanPoint, ScanEnds,
         aggVars, inputs
<1>2. normalize' = normalize
  BY <1>1 DEF inputs
<1>3. CASE Filter
  BY <1>2, <1>3 DEF Filter, MergedInv
<1>4. ASSUME series' = series
      PROVE  /\ Contributors' = Contributors
             /\ Alignable' = Alignable
             /\ MergedCurve' = MergedCurve
  BY <1>1, <1>4, CurveStays
<1>5. CASE NothingToJoin
  BY <1>2, <1>4, <1>5 DEF NothingToJoin, MergedInv
<1>6. CASE JoinRaises
  BY <1>2, <1>4, <1>6 DEF JoinRaises, MergedInv
<1>7. CASE Join
  BY <1>2, <1>4, <1>7 DEF Join, MergedInv
<1>8. CASE ScanPoint
  BY <1>2, <1>4, <1>8 DEF ScanPoint, MergedInv
<1>9. CASE ScanEnds
  BY <1>2, <1>4, <1>9 DEF ScanEnds, MergedInv
<1>10. CASE UNCHANGED aggVars
  BY <1>2, <1>4, <1>10 DEF aggVars, MergedInv
<1> QED
  BY <1>3, <1>5, <1>6, <1>7, <1>8, <1>9, <1>10 DEF AggNext

-----------------------------------------------------------------------------
(* The shape of the state.                                                 *)

TypeInv ==
    /\ AggTypeOK
    /\ phase \in {"filter", "join"} => at = 1

LEMMA DeclineType ==
    ASSUME NEW v \in Int, NEW top \in Int, top > 0
    PROVE  Decline(v, top) \in Fractions
BY DEF Decline, Fractions

LEMMA TypeStep ==
    InputsOK /\ SeriesInv /\ MergedInv /\ TypeInv /\ [AggNext]_aggVars => TypeInv'
<1> SUFFICES ASSUME InputsOK, SeriesInv, MergedInv, TypeInv, [AggNext]_aggVars
             PROVE  TypeInv'
  OBVIOUS
<1> USE DEF TypeInv, AggTypeOK
<1>1. InputsOK'
  BY InputsStep
<1>2. /\ rows' \in [Strategies -> Payloads]
      /\ weights' \in [Strategies -> Weights]
      /\ normalize' \in BOOLEAN
  BY <1>1 DEF InputsOK
<1>3. CASE Filter
  <2>1. \A s \in DOMAIN series' : s \in Strategies /\ series'[s] \in Seq(Points)
    BY <1>3, InputTypes, SortedCurve DEF Filter
  <2> QED
    BY <1>2, <1>3, <2>1 DEF Filter
<1>4. CASE NothingToJoin
  BY <1>2, <1>4 DEF NothingToJoin
<1>5. CASE JoinRaises
  BY <1>2, <1>5 DEF JoinRaises
<1>6. CASE Join
  <2>1. Contributors # {} /\ merged' = MergedCurve /\ at = 1 /\ at' = at
    BY <1>6 DEF Join
  <2>2. merged' \in Seq(Points) /\ Len(merged') \in Nat \ {0}
    BY <2>1, SeriesAre, MergedCurveType
  <2>3. merged'[1].value \in Int
    BY <2>2, CurvePoints
  <2>4. at' \in 1..(Len(merged') + 1)
    BY <2>1, <2>2
  <2> QED
    BY <1>2, <1>6, <2>2, <2>3, <2>4 DEF Join
<1>7. CASE ScanPoint
  <2> DEFINE value == merged[at].value
             top == IF value > peak THEN value ELSE peak
  <2>1. /\ at <= Len(merged) /\ at' = at + 1 /\ phase = "scan" /\ phase' = "scan"
        /\ peak' = top
        /\ worst' = IF top > 0 /\ Less(Decline(value, top), worst)
                    THEN Decline(value, top) ELSE worst
        /\ series' = series /\ merged' = merged
    BY <1>7 DEF ScanPoint
  <2>2. merged \in Seq(Points) /\ at \in 1..Len(merged)
    BY <2>1, CurvePoints
  <2>3. value \in Int
    BY <2>2, CurvePoints
  <2>4. top \in Int
    BY <2>3
  <2>5. worst' \in Fractions
    <3> HIDE DEF value, top
    <3> QED
      BY <2>1, <2>3, <2>4, DeclineType
  <2>6. at' \in 1..(Len(merged') + 1)
    BY <2>1, <2>2
  <2> HIDE DEF value, top
  <2> QED
    BY <1>2, <2>1, <2>4, <2>5, <2>6
<1>8. CASE ScanEnds
  BY <1>2, <1>8 DEF ScanEnds
<1>9. CASE UNCHANGED aggVars
  BY <1>2, <1>9 DEF aggVars
<1> QED
  BY <1>3, <1>4, <1>5, <1>6, <1>7, <1>8, <1>9 DEF AggNext

\* What the theorems below are proved from.
AggInv == InputsOK /\ SeriesInv /\ MergedInv /\ TypeInv

LEMMA InvStarts == AggInit => AggInv
<1> SUFFICES ASSUME AggInit PROVE AggInv
  OBVIOUS
<1>1. InputsOK /\ SeriesInv /\ MergedInv
  BY DEF AggInit, InputsOK, SeriesInv, MergedInv
<1>2. TypeInv
  <2>1. Zero \in Fractions
    BY ZeroAtMost
  <2> QED
    BY <2>1 DEF AggInit, TypeInv, AggTypeOK
<1> QED
  BY <1>1, <1>2 DEF AggInv

LEMMA InvStep == AggInv /\ [AggNext]_aggVars => AggInv'
BY InputsStep, SeriesStep, MergedStep, TypeStep DEF AggInv

\* Every value has its type through the aggregation: no row of the merged curve
\* is divided by a weight of nothing, and no decline by a peak of nothing.
THEOREM AggTypeCorrect == AggSpec => []AggTypeOK
<1>1. AggInv => AggTypeOK
  BY DEF AggInv, TypeInv
<1> QED
  BY <1>1, InvStarts, InvStep, PTL DEF AggSpec

-----------------------------------------------------------------------------
(* Fractions in order.                                                     *)

LEMMA CancelAtMost ==
    ASSUME NEW x \in Int, NEW y \in Int, NEW k \in Nat \ {0}, x * k <= y * k
    PROVE  x <= y
<1> SUFFICES ASSUME y + 1 <= x PROVE FALSE
  OBVIOUS
<1>1. (y + 1) * k <= x * k
  BY ScaleAtMost
<1>2. (y + 1) * k = y * k + k /\ y * k \in Int /\ x * k \in Int
  OBVIOUS
<1> QED
  BY <1>1, <1>2

LEMMA AtMostTransitive ==
    ASSUME NEW a \in Fractions, NEW b \in Fractions, NEW c \in Fractions,
           AtMost(a, b), AtMost(b, c)
    PROVE  AtMost(a, c)
<1> DEFINE an == a.num  ad == a.den  bn == b.num  bd == b.den  cn == c.num  cd == c.den
<1>1. /\ an \in Int /\ bn \in Int /\ cn \in Int
      /\ ad \in Nat \ {0} /\ bd \in Nat \ {0} /\ cd \in Nat \ {0}
      /\ an * bd <= bn * ad
      /\ bn * cd <= cn * bd
  BY DEF Fractions, AtMost
<1> SUFFICES an * cd <= cn * ad
  BY DEF AtMost
<1> HIDE DEF an, ad, bn, bd, cn, cd
<1>2. /\ an * bd \in Int /\ bn * ad \in Int /\ bn * cd \in Int /\ cn * bd \in Int
      /\ an * cd \in Int /\ cn * ad \in Int
  BY <1>1
<1>3. (an * bd) * cd <= (bn * ad) * cd
  BY <1>1, <1>2, ScaleAtMost
<1>4. (bn * cd) * ad <= (cn * bd) * ad
  BY <1>1, <1>2, ScaleAtMost
<1>5. (an * cd) * bd <= (cn * ad) * bd
  <2>1. /\ (an * bd) * cd = (an * cd) * bd
        /\ (bn * ad) * cd = (bn * cd) * ad
        /\ (cn * bd) * ad = (cn * ad) * bd
    BY <1>1
  <2>2. /\ (an * cd) * bd \in Int /\ (bn * cd) * ad \in Int /\ (cn * ad) * bd \in Int
    BY <1>1, <1>2
  <2> QED
    BY <1>3, <1>4, <2>1, <2>2
<1> QED
  BY <1>1, <1>2, <1>5, CancelAtMost

LEMMA AtMostTotal ==
    ASSUME NEW a \in Fractions, NEW b \in Fractions
    PROVE  /\ AtMost(a, a)
           /\ Less(a, b) => AtMost(a, b)
           /\ ~Less(a, b) => AtMost(b, a)
<1>1. a.num * b.den \in Int /\ b.num * a.den \in Int /\ a.num * a.den \in Int
  BY DEF Fractions
<1> QED
  BY <1>1 DEF AtMost, Less

\* A value that is not below zero lies further below a higher peak.
LEMMA DeclineFromHigher ==
    ASSUME NEW v \in Nat, NEW u \in Int, NEW top \in Int, u > 0, u <= top
    PROVE  AtMost(Decline(v, top), Decline(v, u))
<1>1. u * v <= top * v
  BY ScaleAtMost
<1>2. (v - top) * u = u * v - top * u /\ (v - u) * top = top * v - top * u
  OBVIOUS
<1>3. u * v \in Int /\ top * v \in Int /\ top * u \in Int
  OBVIOUS
<1> QED
  BY <1>1, <1>2, <1>3 DEF AtMost, Decline

-----------------------------------------------------------------------------
(* The scan.                                                               *)

\* The pairs of points the drawdown is a drawdown of.
Counts(i, j) ==
    /\ i <= j /\ merged[i].value > 0
    /\ \/ merged[j].value >= 0
       \/ \A h \in 1..j : merged[h].value <= merged[i].value

\* The peak is the highest value so far.
PeakInv ==
    phase = "scan" =>
        /\ \E h \in 1..at : merged[h].value = peak /\ (h < at \/ at = 1)
        /\ \A i \in 1..(at - 1) : merged[i].value <= peak

\* worst is the worst decline among the points before at.
WorstInv ==
    phase \in {"scan", "done"} /\ normalize /\ merged # <<>> =>
        /\ worst.num <= 0
        /\ phase = "done" => at = Len(merged) + 1
        /\ \A i, j \in 1..(at - 1) :
              Counts(i, j) => AtMost(worst, Decline(merged[j].value, merged[i].value))
        /\ worst # Zero => \E i, j \in 1..(at - 1) :
              /\ i < j /\ merged[j].value < merged[i].value
              /\ worst = Decline(merged[j].value, merged[i].value)

\* One point of the scan.
LEMMA PointScanned ==
    ASSUME AggInv, PeakInv, WorstInv, ScanPoint
    PROVE  PeakInv' /\ WorstInv'
<1> DEFINE v == merged[at].value
           top == IF v > peak THEN v ELSE peak
           D == Decline(v, top)
<1>1. /\ phase = "scan" /\ phase' = "scan" /\ at <= Len(merged) /\ at' = at + 1
      /\ peak' = top
      /\ worst' = IF top > 0 /\ Less(D, worst) THEN D ELSE worst
      /\ merged' = merged /\ normalize' = normalize
  BY DEF ScanPoint, inputs
<1>2. /\ merged \in Seq(Points) /\ at \in 1..Len(merged) /\ peak \in Int
      /\ Len(merged) \in Nat /\ worst \in Fractions /\ merged # <<>>
  BY <1>1, CurvePoints DEF AggInv, TypeInv, AggTypeOK
<1>3. /\ normalize
      /\ worst.num <= 0
      /\ \A i, j \in 1..(at - 1) :
              Counts(i, j) => AtMost(worst, Decline(merged[j].value, merged[i].value))
      /\ worst # Zero => \E i, j \in 1..(at - 1) :
              /\ i < j /\ merged[j].value < merged[i].value
              /\ worst = Decline(merged[j].value, merged[i].value)
  BY <1>1, <1>2 DEF AggInv, MergedInv, WorstInv
<1>4. /\ \E h \in 1..at : merged[h].value = peak /\ (h < at \/ at = 1)
      /\ \A i \in 1..(at - 1) : merged[i].value <= peak
  BY <1>1 DEF PeakInv
<1>5. \A i \in 1..at : merged[i].value \in Int
  BY <1>2, CurvePoints
<1>6. v \in Int /\ top \in Int /\ v <= top /\ peak <= top
  BY <1>2, <1>5
<1>7. \A i \in 1..at : merged[i].value <= top
  <2>1. \A i \in 1..at : i \in 1..(at - 1) \/ i = at
    BY <1>2
  <2> HIDE DEF top
  <2> QED
    BY <1>2, <1>4, <1>5, <1>6, <2>1
<1>8. \E h \in 1..at : merged[h].value = top
  <2>1. at \in 1..at
    BY <1>2
  <2> QED
    BY <1>4, <2>1
<1>9. top > v => \E h \in 1..(at - 1) : merged[h].value = top
  <2>1. ASSUME top > v PROVE top = peak /\ at # 1
    <3>1. top = peak
      BY <1>6, <2>1
    <3>2. at = 1 => peak = v
      BY <1>4
    <3> QED
      BY <1>6, <2>1, <3>1, <3>2
  <2> QED
    BY <1>2, <1>4, <2>1
<1>10. at' - 1 = at /\ at' \in Nat /\ at' # 1
  BY <1>1, <1>2
<1>11. PeakInv'
  <2>1. \E h \in 1..at' : merged'[h].value = peak' /\ (h < at' \/ at' = 1)
    <3>1. PICK h \in 1..at : merged[h].value = top
      BY <1>8
    <3> HIDE DEF top
    <3> QED
      BY <1>1, <1>2, <3>1
  <2>2. \A i \in 1..(at' - 1) : merged'[i].value <= peak'
    <3> HIDE DEF top
    <3> QED
      BY <1>1, <1>7, <1>10
  <2> QED
    BY <2>1, <2>2 DEF PeakInv
<1>12. top > 0 => D \in Fractions
  <2> HIDE DEF top, v
  <2> QED
    BY <1>6, DeclineType
<1>13. /\ worst' \in Fractions /\ AtMost(worst', worst)
       /\ top > 0 => AtMost(worst', D)
  <2> HIDE DEF top, v, D
  <2> QED
    BY <1>1, <1>2, <1>12, AtMostTotal
<1>14. ASSUME NEW i \in 1..at, NEW j \in 1..at, Counts(i, j)
       PROVE  AtMost(worst', Decline(merged[j].value, merged[i].value))
  <2> DEFINE u == merged[i].value
             E == Decline(merged[j].value, u)
  <2>1. u \in Int /\ u > 0 /\ u <= top /\ merged[j].value \in Int
    BY <1>5, <1>7, <1>14 DEF Counts
  <2>2. E \in Fractions /\ top > 0
    <3> HIDE DEF u, top
    <3> QED
      BY <1>6, <2>1, DeclineType
  <2>3. CASE j # at
    <3>1. j \in 1..(at - 1) /\ i \in 1..(at - 1)
      BY <1>2, <1>14, <2>3 DEF Counts
    <3>2. AtMost(worst, E)
      BY <1>3, <1>14, <3>1
    <3> HIDE DEF E
    <3> QED
      BY <1>2, <1>13, <2>2, <3>2, AtMostTransitive DEF E
  <2>4. CASE j = at
    <3>1. AtMost(D, E)
      <4>1. CASE v >= 0
        <5> HIDE DEF top, v, u
        <5>1. AtMost(Decline(v, top), Decline(v, u))
          BY <1>6, <2>1, <4>1, DeclineFromHigher
        <5> QED
          BY <2>4, <5>1 DEF v
      <4>2. CASE \A h \in 1..j : merged[h].value <= u
        <5>1. u = top
          <6> HIDE DEF top
          <6>1. PICK h \in 1..at : merged[h].value = top
            BY <1>8
          <6>2. top <= u
            BY <2>4, <4>2, <6>1
          <6> QED
            BY <1>6, <2>1, <6>2
        <5>2. E = D
          <6> HIDE DEF top
          <6> QED
            BY <2>4, <5>1
        <5> HIDE DEF D, E
        <5> QED
          BY <2>2, <5>2, AtMostTotal
      <4> QED
        BY <1>14, <2>4, <4>1, <4>2 DEF Counts
    <3>2. AtMost(worst', D) /\ D \in Fractions
      BY <1>12, <1>13, <2>2
    <3> HIDE DEF D, E
    <3> QED
      BY <1>13, <2>2, <3>1, <3>2, AtMostTransitive DEF E
  <2> QED
    BY <2>3, <2>4
<1>15. worst'.num <= 0 /\ (worst' # worst => v < top)
  <2>1. CASE top > 0 /\ Less(D, worst)
    <3>1. (v - top) * worst.den < worst.num * top
      BY <2>1 DEF Less, Decline
    <3> HIDE DEF v, top
    <3>2. /\ worst.den \in Nat \ {0} /\ worst.num \in Int
      BY <1>2 DEF Fractions
    <3>3. v - top < 0
      <4>1. worst.num * top <= 0 * top
        BY <1>3, <1>6, <2>1, <3>2, ScaleAtMost
      <4> SUFFICES ASSUME 0 <= v - top PROVE FALSE
        BY <1>6
      <4>2. 0 * worst.den <= (v - top) * worst.den
        BY <1>6, <3>2, ScaleAtMost
      <4>3. (v - top) * worst.den \in Int /\ worst.num * top \in Int
        BY <1>6, <3>2
      <4> QED
        BY <1>6, <3>1, <3>2, <4>1, <4>2, <4>3
    <3>4. worst'.num = v - top
      BY <1>1, <2>1 DEF Decline, v, top
    <3> QED
      BY <1>6, <3>3, <3>4
  <2>2. CASE ~(top > 0 /\ Less(D, worst))
    <3>1. worst' = worst
      BY <1>1, <2>2
    <3> QED
      BY <1>3, <3>1
  <2> QED
    BY <2>1, <2>2
<1>16. worst' # Zero => \E i, j \in 1..at :
          /\ i < j /\ merged[j].value < merged[i].value
          /\ worst' = Decline(merged[j].value, merged[i].value)
  <2>1. CASE worst' = worst
    <3> SUFFICES ASSUME worst # Zero
                 PROVE  \E i, j \in 1..at :
                           /\ i < j /\ merged[j].value < merged[i].value
                           /\ worst = Decline(merged[j].value, merged[i].value)
      BY <2>1
    <3>1. PICK i, j \in 1..(at - 1) :
             /\ i < j /\ merged[j].value < merged[i].value
             /\ worst = Decline(merged[j].value, merged[i].value)
      BY <1>3
    <3> QED
      BY <1>2, <3>1
  <2>2. CASE worst' # worst
    <3>1. worst' = D
      BY <1>1, <2>2
    <3>2. PICK h \in 1..(at - 1) : merged[h].value = top
      BY <1>6, <1>9, <1>15, <2>2
    <3>3. h < at /\ h \in 1..at /\ at \in 1..at
      BY <1>2, <3>2
    <3>4. merged[at].value < merged[h].value
      BY <1>15, <2>2, <3>2
    <3> HIDE DEF top
    <3>5. worst' = Decline(merged[at].value, merged[h].value)
      BY <3>1, <3>2
    <3> QED
      BY <3>3, <3>4, <3>5
  <2> QED
    BY <2>1, <2>2
<1>17. WorstInv'
  <2>1. \A i, j \in 1..(at' - 1) :
           Counts(i, j)' => AtMost(worst', Decline(merged'[j].value, merged'[i].value))
    BY <1>1, <1>10, <1>14 DEF Counts
  <2>2. worst' # Zero => \E i, j \in 1..(at' - 1) :
           /\ i < j /\ merged'[j].value < merged'[i].value
           /\ worst' = Decline(merged'[j].value, merged'[i].value)
    BY <1>1, <1>10, <1>16
  <2> QED
    BY <1>1, <1>15, <2>1, <2>2 DEF WorstInv
<1> QED
  BY <1>11, <1>17

ScanInv == PeakInv /\ WorstInv

LEMMA ScanStep == AggInv /\ ScanInv /\ [AggNext]_aggVars => ScanInv'
<1> SUFFICES ASSUME AggInv, ScanInv, [AggNext]_aggVars PROVE ScanInv'
  OBVIOUS
<1> USE DEF ScanInv
<1>1. CASE phase' \notin {"scan", "done"}
  BY <1>1 DEF PeakInv, WorstInv
<1>2. CASE Filter
  BY <1>1, <1>2 DEF Filter
<1>3. CASE JoinRaises
  BY <1>1, <1>3 DEF JoinRaises
<1>4. CASE NothingToJoin
  <2>1. merged' = <<>> /\ phase' = "done"
    BY <1>4 DEF NothingToJoin, AggInv, MergedInv
  <2> QED
    BY <2>1 DEF PeakInv, WorstInv
<1>5. CASE Join
  <2>1. /\ at = 1 /\ at' = 1 /\ worst = Zero /\ worst' = Zero
        /\ normalize' = normalize
        /\ phase' = IF normalize THEN "scan" ELSE "done"
        /\ peak' = IF normalize THEN merged'[1].value ELSE 0
    BY <1>5 DEF Join, inputs, AggInv, MergedInv, TypeInv
  <2>2. PeakInv'
    BY <2>1 DEF PeakInv
  <2>3. WorstInv'
    BY <2>1 DEF WorstInv, Zero
  <2> QED
    BY <2>2, <2>3
<1>6. CASE ScanPoint
  BY <1>6, PointScanned
<1>7. CASE ScanEnds
  <2>1. /\ phase = "scan" /\ phase' = "done" /\ at > Len(merged)
        /\ at' = at /\ worst' = worst /\ merged' = merged /\ normalize' = normalize
    BY <1>7 DEF ScanEnds, inputs
  <2>2. at = Len(merged) + 1
    BY <2>1, CurvePoints DEF AggInv, TypeInv, AggTypeOK
  <2>3. PeakInv'
    BY <2>1 DEF PeakInv
  <2>4. WorstInv'
    BY <2>1, <2>2 DEF WorstInv, Counts
  <2> QED
    BY <2>3, <2>4
<1>8. CASE UNCHANGED aggVars
  BY <1>8 DEF aggVars, inputs, PeakInv, WorstInv, Counts
<1> QED
  BY <1>2, <1>3, <1>4, <1>5, <1>6, <1>7, <1>8 DEF AggNext

LEMMA ScanStarts == AggInit => ScanInv
BY DEF AggInit, ScanInv, PeakInv, WorstInv

LEMMA WorstAtEnd == AggInv /\ ScanInv => DrawdownIsWorst
<1> SUFFICES ASSUME AggInv, ScanInv, phase = "done", normalize
             PROVE  /\ \A i, j \in DOMAIN merged :
                          Counts(i, j) => AtMost(worst, Decline(merged[j].value, merged[i].value))
                    /\ worst # Zero => \E i, j \in DOMAIN merged :
                          i < j /\ worst = Decline(merged[j].value, merged[i].value)
  BY DEF DrawdownIsWorst, Counts
<1>1. CASE merged = <<>>
  <2>1. Len(merged) = 0
    BY <1>1
  <2>2. worst = Zero /\ DOMAIN merged = {}
    <3>1. Contributors # {} /\ merged = MergedCurve => Len(merged) # 0
      BY SeriesAre, MergedCurveType DEF AggInv
    <3> QED
      BY <1>1, <2>1, <3>1 DEF AggInv, MergedInv
  <2> QED
    BY <2>2
<1>2. CASE merged # <<>>
  <2>1. at - 1 = Len(merged) /\ DOMAIN merged = 1..Len(merged)
    BY <1>2, CurvePoints DEF AggInv, TypeInv, AggTypeOK, ScanInv, WorstInv
  <2>2. /\ \A i, j \in 1..(at - 1) :
              Counts(i, j) => AtMost(worst, Decline(merged[j].value, merged[i].value))
        /\ worst # Zero => \E i, j \in 1..(at - 1) :
              /\ i < j /\ merged[j].value < merged[i].value
              /\ worst = Decline(merged[j].value, merged[i].value)
    BY <1>2 DEF ScanInv, WorstInv
  <2> QED
    BY <2>1, <2>2
<1> QED
  BY <1>1, <1>2

\* calculate_combined_drawdown finds the worst decline from any point of the
\* merged curve to a later one, in one pass.
THEOREM WorstFound == AggSpec => []DrawdownIsWorst
<1>1. AggInit => AggInv /\ ScanInv
  BY InvStarts, ScanStarts
<1>2. (AggInv /\ ScanInv) /\ [AggNext]_aggVars => (AggInv /\ ScanInv)'
  BY InvStep, ScanStep
<1> QED
  BY <1>1, <1>2, WorstAtEnd, PTL DEF AggSpec

-----------------------------------------------------------------------------
(* The first row.                                                          *)

LEMMA Quotient ==
    ASSUME NEW x \in Int, NEW y \in Nat \ {0}, NEW q \in Int,
           q * y <= x, x < q * y + y
    PROVE  x \div y = q
<1> DEFINE d == x \div y
<1>1. d \in Int /\ d * y <= x /\ x < d * y + y
  OBVIOUS
<1> HIDE DEF d
<1>2. q < d + 1
  <2> SUFFICES ASSUME d + 1 <= q PROVE FALSE
    BY <1>1
  <2>1. (d + 1) * y <= q * y
    BY <1>1, ScaleAtMost
  <2>2. (d + 1) * y = d * y + y /\ d * y \in Int /\ q * y \in Int
    BY <1>1
  <2> QED
    BY <1>1, <2>1, <2>2
<1>3. d < q + 1
  <2> SUFFICES ASSUME q + 1 <= d PROVE FALSE
    BY <1>1
  <2>1. (q + 1) * y <= d * y
    BY <1>1, ScaleAtMost
  <2>2. (q + 1) * y = q * y + y /\ d * y \in Int /\ q * y \in Int
    BY <1>1
  <2> QED
    BY <1>1, <2>1, <2>2
<1>4. d = q
  BY <1>1, <1>2, <1>3
<1> QED
  BY <1>4 DEF d

LEMMA RoundedExact ==
    ASSUME NEW f \in Fractions, NEW c \in Nat, f.num = c * f.den
    PROVE  Rounded(f) = c
<1> DEFINE n == f.num  d == f.den
<1>1. n \in Int /\ d \in Nat \ {0} /\ n = c * d
  BY DEF Fractions
<1> HIDE DEF n, d
<1>2. c * (2 * d) = 2 * n /\ 2 * n \in Int
  BY <1>1
<1>3. (2 * n + d) \div (2 * d) = c
  <2>1. 2 * n + d \in Int /\ 2 * d \in Nat \ {0}
    BY <1>1
  <2>2. c * (2 * d) <= 2 * n + d /\ 2 * n + d < c * (2 * d) + 2 * d
    BY <1>1, <1>2
  <2> QED
    BY <2>1, <2>2, Quotient
<1> QED
  BY <1>3 DEF Rounded, n, d

\* On the first row a strategy has its own first value.
LEMMA FirstValue ==
    ASSUME InputsOK, SeriesOK, Alignable, NEW s \in Started(1)
    PROVE  Filled(s, RowDates)[1] = series[s][1].value
<1>1. s \in Contributors /\ Filled(s, RowDates)[1] # NaN
  BY DEF Started
<1>2. /\ RowDates \in Seq(Nat) /\ Len(RowDates) \in Nat \ {0}
      /\ Range(RowDates) = AllDates
      /\ \A i, j \in 1..Len(RowDates) : i <= j => RowDates[i] <= RowDates[j]
  BY <1>1, RowDatesAre
<1>3. 1 \in 1..Len(RowDates)
  BY <1>2
<1>4. PICK m \in 1..1, p \in Range(series[s]) :
         /\ p.date = RowDates[m]
         /\ Filled(s, RowDates)[1] = p.value
         /\ Filled(s, RowDates)[1] = Cell(s, RowDates, m)
  BY <1>1, <1>3, RowHolds
<1>5. m = 1
  OBVIOUS
<1>6. CASE SameIndex
  <2>1. RowDates = DatesOf(series[s])
    BY <1>1, <1>6 DEF RowDates, SameIndex
  <2>2. Cell(s, RowDates, 1) = series[s][1].value
    BY <2>1 DEF Cell
  <2> QED
    BY <1>4, <1>5, <2>2
<1>7. CASE ~SameIndex
  <2> DEFINE c == series[s]
             n == Len(c)
  <2>1. /\ c \in Seq(Points) /\ n \in Nat \ {0} /\ DOMAIN c = 1..n
        /\ \A i \in 1..n : c[i].date \in Nat
        /\ \A i, j \in 1..n : i <= j => c[i].date <= c[j].date
    BY <1>1, DatesOfSeries, CurvePoints DEF SeriesOK
  <2>2. \A i, j \in 1..n : c[i].date = c[j].date => i = j
    <3>1. ~RepeatsDate(c)
      BY <1>1, <1>7 DEF Alignable
    <3> QED
      BY <2>1, <3>1 DEF RepeatsDate, IsInjective, DatesOf
  <2>3. PICK i \in 1..n : c[i] = p
    BY <1>4, <2>1 DEF Range
  <2>4. c[1].date \in AllDates
    <3>1. c[1].date \in Range(DatesOf(c))
      BY <2>1 DEF DatesOf, Range
    <3> QED
      BY <1>1, <3>1 DEF AllDates
  <2>5. PICK j \in 1..Len(RowDates) : RowDates[j] = c[1].date
    BY <1>2, <2>4 DEF Range
  <2>6. RowDates[1] <= c[1].date
    BY <1>2, <1>3, <2>5
  <2> HIDE DEF c, n
  <2>7. c[1].date <= c[i].date /\ 1 \in 1..n
    BY <2>1
  <2>8. c[1].date = c[i].date
    <3>1. c[i].date = RowDates[1]
      BY <1>4, <1>5, <2>3
    <3>2. c[1].date \in Nat /\ c[i].date \in Nat
      BY <2>1, <2>7
    <3> QED
      BY <2>6, <2>7, <3>1, <3>2
  <2>9. i = 1
    BY <2>2, <2>7, <2>8
  <2> QED
    BY <1>4, <2>3, <2>9 DEF c
<1> QED
  BY <1>6, <1>7

\* Every strategy that is there enters at base 100, so their mean is 100.
LEMMA StartsAtBase ==
    ASSUME InputsOK, SeriesOK, Contributors # {}, Alignable, normalize
    PROVE  MergedCurve[1].value = Base
<1> DEFINE S == Started(1)
           f == Shares(1)
           W == WeightOf(S)
           sum == Total(f, S)
<1>1. 1 \in 1..Len(RowDates) /\ 1 \in 1..Len(MergedCurve)
  BY MergedCurveType
<1>2. /\ IsFiniteSet(S) /\ f \in [S -> Fractions] /\ S \subseteq Contributors
      /\ \A s \in S : weights[s] \in Nat
      /\ W \in Nat \ {0}
  BY <1>1, RowIsDefined
<1>3. Base \in Nat
  BY AggregatorAssumption
<1>4. ASSUME NEW s \in S
      PROVE  f[s].num = (weights[s] * Base) * f[s].den
  <2> DEFINE v == series[s][1].value
  <2>1. f[s] = Share(s, v)
    BY <1>4, FirstValue DEF Shares
  <2>2. f[s].num = v * weights[s] * Base /\ f[s].den = v
    BY <2>1 DEF Share
  <2>3. v \in Int /\ weights[s] \in Nat
    <3>1. f[s] \in Fractions
      BY <1>2
    <3> QED
      BY <1>2, <2>2, <3>1 DEF Fractions
  <2> HIDE DEF v
  <2> QED
    BY <1>3, <2>2, <2>3
<1>5. sum \in Fractions /\ sum.num = (W * Base) * sum.den
  <2> HIDE DEF S, f
  <2> QED
    BY <1>2, <1>3, <1>4, TotalOfWeights, TotalType
<1> DEFINE mean == [sum EXCEPT !.den = @ * W]
<1>6. mean \in Fractions /\ mean.num = Base * mean.den
  <2> HIDE DEF sum, W
  <2>1. sum.num \in Int /\ sum.den \in Nat \ {0}
    BY <1>5 DEF Fractions
  <2>2. mean.num = sum.num /\ mean.den = sum.den * W /\ mean \in Fractions
    BY <1>2, <1>5, <2>1 DEF Fractions
  <2>3. (W * Base) * sum.den = Base * (sum.den * W)
    BY <1>2, <1>3, <2>1
  <2> QED
    BY <1>5, <2>2, <2>3
<1>7. Rounded(mean) = Base
  <2> HIDE DEF mean
  <2> QED
    BY <1>3, <1>6, RoundedExact
<1>8. MergedCurve[1].value = Mean(f, S)
  BY <1>1, MergedCurveType
<1> QED
  BY <1>7, <1>8 DEF Mean

\* The peak starts at the first value of the curve and only rises.
THEOREM PeakAboveBase == AggSpec => []PeakAtLeastBase
<1>1. AggInit => AggInv /\ PeakAtLeastBase
  BY InvStarts DEF AggInit, PeakAtLeastBase
<1>2. (AggInv /\ PeakAtLeastBase) /\ [AggNext]_aggVars => (AggInv /\ PeakAtLeastBase)'
  <2> SUFFICES ASSUME AggInv, PeakAtLeastBase, [AggNext]_aggVars
               PROVE  AggInv' /\ PeakAtLeastBase'
    OBVIOUS
  <2>1. AggInv'
    BY InvStep
  <2>2. CASE Join
    <3> SUFFICES ASSUME normalize PROVE peak' >= Base
      BY <2>1, <2>2 DEF Join, PeakAtLeastBase, inputs
    <3>1. peak' = MergedCurve[1].value /\ Contributors # {} /\ Alignable
      BY <2>2 DEF Join
    <3>2. peak' = Base
      BY <3>1, SeriesAre, StartsAtBase DEF AggInv
    <3> QED
      BY <3>2, AggregatorAssumption
  <2>3. CASE ScanPoint
    <3>1. /\ phase = "scan" /\ at <= Len(merged)
          /\ peak' = IF merged[at].value > peak THEN merged[at].value ELSE peak
      BY <2>3 DEF ScanPoint
    <3>2. peak \in Int /\ merged[at].value \in Int
      BY <3>1, CurvePoints DEF AggInv, TypeInv, AggTypeOK
    <3> QED
      BY <2>1, <3>1, <3>2, AggregatorAssumption DEF PeakAtLeastBase
  <2>4. CASE ~Join /\ ~ScanPoint
    <3>1. phase' = "scan" => phase = "scan" /\ peak' = peak
      BY <2>4 DEF AggNext, Filter, NothingToJoin, JoinRaises, ScanEnds, aggVars
    <3> QED
      BY <2>1, <3>1 DEF PeakAtLeastBase
  <2> QED
    BY <2>1, <2>2, <2>3, <2>4
<1> QED
  BY <1>1, <1>2, PTL DEF AggSpec

-----------------------------------------------------------------------------
(* Curves that only rise.                                                  *)

LEMMA RoundedMonotone ==
    ASSUME NEW a \in Fractions, NEW b \in Fractions, AtMost(a, b)
    PROVE  Rounded(a) <= Rounded(b)
<1> DEFINE an == a.num  ad == a.den  bn == b.num  bd == b.den
           q == Rounded(a)  r == Rounded(b)
<1>1. /\ an \in Int /\ bn \in Int /\ ad \in Nat \ {0} /\ bd \in Nat \ {0}
      /\ an * bd <= bn * ad
  BY DEF Fractions, AtMost
<1>2. /\ q = (2 * an + ad) \div (2 * ad)
      /\ r = (2 * bn + bd) \div (2 * bd)
  BY DEF Rounded
<1> HIDE DEF an, ad, bn, bd, q, r
<1>3. /\ q \in Int /\ q * (2 * ad) <= 2 * an + ad
      /\ r \in Int /\ 2 * bn + bd < r * (2 * bd) + 2 * bd
  <2>1. ASSUME NEW x \in Int, NEW y \in Nat \ {0}
        PROVE  /\ x \div y \in Int
               /\ (x \div y) * y <= x
               /\ x < (x \div y) * y + y
    OBVIOUS
  <2>2. 2 * an + ad \in Int /\ 2 * ad \in Nat \ {0} /\ 2 * bn + bd \in Int /\ 2 * bd \in Nat \ {0}
    BY <1>1
  <2> QED
    BY <1>2, <2>1, <2>2
<1> SUFFICES ASSUME r + 1 <= q PROVE FALSE
  BY <1>3 DEF q, r
<1>4. (r + 1) * (2 * ad) <= q * (2 * ad)
  BY <1>1, <1>3, ScaleAtMost
<1>5. (r + 1) * (2 * ad) <= 2 * an + ad
  BY <1>1, <1>3, <1>4
<1>6. ((r + 1) * (2 * ad)) * bd <= (2 * an + ad) * bd
  BY <1>1, <1>3, <1>5, ScaleAtMost
<1>7. 2 * bn + bd + 1 <= (r + 1) * (2 * bd)
  BY <1>1, <1>3
<1>8. (2 * bn + bd + 1) * ad <= ((r + 1) * (2 * bd)) * ad
  BY <1>1, <1>3, <1>7, ScaleAtMost
<1>9. ((r + 1) * (2 * bd)) * ad = ((r + 1) * (2 * ad)) * bd
  BY <1>1, <1>3
<1>10. /\ (2 * an + ad) * bd = 2 * (an * bd) + ad * bd
       /\ (2 * bn + bd + 1) * ad = 2 * (bn * ad) + ad * bd + ad
  BY <1>1
<1>11. an * bd \in Int /\ bn * ad \in Int /\ ad * bd \in Int
  BY <1>1
<1>12. ((r + 1) * (2 * ad)) * bd \in Int
  BY <1>1, <1>3
<1> QED
  BY <1>1, <1>6, <1>8, <1>9, <1>10, <1>11, <1>12

LEMMA ShareMonotone ==
    ASSUME InputsOK, SeriesOK, NEW s \in Contributors,
           NEW u \in Int, NEW v \in Int, u <= v
    PROVE  AtMost(Share(s, u), Share(s, v))
<1> DEFINE w == weights[s]
           d == series[s][1].value
<1>1. w \in Nat /\ Base \in Nat
  BY AggregatorAssumption DEF SeriesOK
<1>2. u * w <= v * w /\ u * w \in Int /\ v * w \in Int
  <2> HIDE DEF w
  <2> QED
    BY <1>1, ScaleAtMost
<1>3. CASE normalize
  <2>1. d \in Nat
    BY <1>3, ShareType DEF Share, Fractions
  <2> HIDE DEF w, d
  <2>2. (u * w) * Base <= (v * w) * Base
    BY <1>1, <1>2, ScaleAtMost
  <2>3. (u * w) * Base \in Int /\ (v * w) * Base \in Int
    BY <1>1, <1>2
  <2>4. ((u * w) * Base) * d <= ((v * w) * Base) * d
    BY <2>1, <2>2, <2>3, ScaleAtMost
  <2> QED
    BY <1>3, <2>4 DEF AtMost, Share, w, d
<1>4. CASE ~normalize
  <2> HIDE DEF w
  <2> QED
    BY <1>2, <1>4 DEF AtMost, Share, w
<1> QED
  BY <1>3, <1>4

\* A strategy that never loses holds no less on a later row.
LEMMA RowsRise ==
    ASSUME InputsOK, SeriesOK, NEW s \in Contributors, Rising(rows[s].curve),
           NEW k \in 1..Len(RowDates), NEW l \in 1..Len(RowDates), k <= l,
           s \in Started(k), s \in Started(l)
    PROVE  /\ Filled(s, RowDates)[k] \in Int /\ Filled(s, RowDates)[l] \in Int
           /\ Filled(s, RowDates)[k] <= Filled(s, RowDates)[l]
<1>1. /\ Len(RowDates) \in Nat
      /\ \A i, j \in 1..Len(RowDates) : i <= j => RowDates[i] <= RowDates[j]
  BY RowDatesAre
<1>2. PICK m \in 1..k, p \in Range(series[s]) :
         /\ p.date = RowDates[m]
         /\ Filled(s, RowDates)[k] = p.value
  BY RowHolds DEF Started
<1>3. PICK n \in 1..l, q \in Range(series[s]) :
         /\ q.date = RowDates[n]
         /\ Filled(s, RowDates)[l] = q.value
         /\ \A x \in Range(series[s]), j \in 1..l : x.date = RowDates[j] => j <= n
  BY RowHolds DEF Started
<1>4. m \in 1..l
  BY <1>1
<1>5. m <= n /\ m \in 1..Len(RowDates) /\ n \in 1..Len(RowDates)
  BY <1>1, <1>2, <1>3, <1>4
<1>6. p.date <= q.date
  BY <1>1, <1>2, <1>3, <1>5
<1>7. \A x, y \in Range(rows[s].curve) : x.date <= y.date => x.value <= y.value
  BY DEF Rising, Range
<1>8. p \in Range(rows[s].curve) /\ q \in Range(rows[s].curve) /\ p \in Points /\ q \in Points
  BY DatesOfSeries DEF SeriesOK
<1> QED
  BY <1>2, <1>3, <1>6, <1>7, <1>8 DEF Points

LEMMA MergedRises ==
    ASSUME InputsOK, SeriesOK, Contributors # {},
           \A s \in Contributors : Rising(rows[s].curve),
           \A s \in Contributors : series[s][1].date = RowDates[1],
           NEW k \in 1..Len(RowDates), NEW l \in 1..Len(RowDates), k <= l
    PROVE  MergedCurve[k].value <= MergedCurve[l].value
<1>1. ASSUME NEW i \in 1..Len(RowDates) PROVE Started(i) = Contributors
  <2>1. ASSUME NEW s \in Contributors PROVE Filled(s, RowDates)[i] # NaN
    <3>1. series[s][1] \in Range(series[s])
      <4>1. 1 \in DOMAIN series[s]
        BY CurvePoints DEF SeriesOK
      <4> QED
        BY <4>1 DEF Range
    <3>2. 1 \in 1..i
      BY RowDatesAre
    <3> QED
      BY <3>1, <3>2, RowHolds
  <2> QED
    BY <2>1 DEF Started
<1> DEFINE S == Contributors
           f == Shares(k)
           g == Shares(l)
           W == WeightOf(S)
           F == Total(f, S)
           G == Total(g, S)
<1>2. /\ IsFiniteSet(S) /\ W \in Nat \ {0}
      /\ f \in [S -> Fractions] /\ g \in [S -> Fractions]
  BY <1>1, RowIsDefined
<1>3. ASSUME NEW s \in S PROVE AtMost(f[s], g[s])
  <2>1. s \in Started(k) /\ s \in Started(l)
    BY <1>1
  <2>2. f[s] = Share(s, Filled(s, RowDates)[k]) /\ g[s] = Share(s, Filled(s, RowDates)[l])
    BY <2>1 DEF Shares
  <2> QED
    BY <2>1, <2>2, RowsRise, ShareMonotone
<1>4. F \in Fractions /\ G \in Fractions /\ AtMost(F, G)
  <2> HIDE DEF f, g, S
  <2> QED
    BY <1>2, <1>3, TotalMonotone, TotalType
<1> DEFINE mf == [F EXCEPT !.den = @ * W]
           mg == [G EXCEPT !.den = @ * W]
<1>5. mf \in Fractions /\ mg \in Fractions /\ AtMost(mf, mg)
  <2> HIDE DEF F, G, W
  <2>1. AtMost(mf, mg)
    BY <1>2, <1>4, OverWeight
  <2>2. ASSUME NEW a \in Fractions PROVE [a EXCEPT !.den = @ * W] \in Fractions
    <3>1. a.num \in Int /\ a.den \in Nat \ {0} /\ W \in Nat \ {0}
      BY <1>2 DEF Fractions
    <3>2. a.den * W \in Nat \ {0}
      <4>1. \A x, y \in Nat \ {0} : x * y \in Nat \ {0}
        OBVIOUS
      <4> QED
        BY <3>1, <4>1
    <3>3. [a EXCEPT !.den = @ * W] = [num |-> a.num, den |-> a.den * W]
      BY DEF Fractions
    <3> QED
      BY <3>1, <3>2, <3>3 DEF Fractions
  <2> QED
    BY <1>4, <2>1, <2>2
<1>6. Rounded(mf) <= Rounded(mg)
  <2> HIDE DEF mf, mg
  <2> QED
    BY <1>5, RoundedMonotone
<1>7. Mean(f, S) = Rounded(mf) /\ Mean(g, S) = Rounded(mg)
  BY DEF Mean
<1>8. MergedCurve[k].value = Mean(f, S) /\ MergedCurve[l].value = Mean(g, S)
  BY <1>1, MergedCurveType
<1> QED
  BY <1>6, <1>7, <1>8

LEMMA NoLossAtEnd == AggInv /\ ScanInv => NoLossNoDrawdown
<1> SUFFICES ASSUME AggInv, ScanInv, phase = "done", worst # Zero,
                    \A s \in Contributors : Rising(rows[s].curve),
                    \A s \in Contributors : series[s][1].date = merged[1].date
             PROVE  FALSE
  BY DEF NoLossNoDrawdown
<1>1. normalize /\ Contributors # {} /\ merged = MergedCurve
  BY DEF AggInv, MergedInv
<1>2. InputsOK /\ SeriesOK
  BY SeriesAre DEF AggInv
<1>3. /\ Len(merged) = Len(RowDates) /\ Len(merged) \in Nat \ {0}
      /\ merged[1].date = RowDates[1]
      /\ \A k \in 1..Len(merged) : merged[k].value \in Int
  <2>1. 1 \in 1..Len(merged)
    BY <1>1, <1>2, MergedCurveType
  <2> QED
    BY <1>1, <1>2, <2>1, MergedCurveType, CurvePoints
<1>4. PICK i, j \in 1..(at - 1) : i < j /\ merged[j].value < merged[i].value
  BY <1>1, <1>3 DEF ScanInv, WorstInv
<1>5. at - 1 = Len(merged)
  BY <1>1, <1>3 DEF ScanInv, WorstInv
<1>6. i \in 1..Len(RowDates) /\ j \in 1..Len(RowDates) /\ i <= j
  BY <1>3, <1>4, <1>5
<1>7. merged[i].value <= merged[j].value
  BY <1>1, <1>2, <1>3, <1>6, MergedRises
<1> QED
  BY <1>3, <1>4, <1>5, <1>7

\* When every contributing strategy starts on the first date and none ever
\* loses, calculate_combined_drawdown reports no drawdown.
THEOREM NoLoss == AggSpec => []NoLossNoDrawdown
<1>1. AggInit => AggInv /\ ScanInv
  BY InvStarts, ScanStarts
<1>2. (AggInv /\ ScanInv) /\ [AggNext]_aggVars => (AggInv /\ ScanInv)'
  BY InvStep, ScanStep
<1> QED
  BY <1>1, <1>2, NoLossAtEnd, PTL DEF AggSpec

-----------------------------------------------------------------------------
(* The merged curve from the posted curves.                                *)

\* The first of the sorted points is the earliest.
LEMMA EarliestIsFirst ==
    ASSUME InputsOK, NEW s \in Strategies, rows[s].curve # <<>>
    PROVE  Earliest(s) = Sorted(rows[s].curve)[1]
<1> DEFINE curve == rows[s].curve
           n == Len(curve)
           Leads(i) == \A j \in 1..n : \/ curve[i].date < curve[j].date
                                       \/ curve[i].date = curve[j].date /\ i <= j
           first == CHOOSE i \in 1..n : Leads(i)
<1>1. curve \in Seq(Points)
  BY InputTypes
<1>2. n \in Nat /\ DOMAIN curve = 1..n /\ \A i \in 1..n : curve[i].date \in Nat
  BY <1>1, CurvePoints
<1>3. PICK i \in 1..n : Sorted(curve)[1] = curve[i] /\ Leads(i)
  <2> HIDE DEF curve
  <2> QED
    BY <1>1, SortedFirst DEF curve
<1>4. first \in 1..n /\ Leads(first)
  <2>1. \E x \in 1..n : Leads(x)
    BY <1>3
  <2> HIDE DEF Leads
  <2> QED
    BY <2>1
<1>5. Earliest(s) = curve[first]
  BY <1>2 DEF Earliest
<1> HIDE DEF first, curve, n
<1>6. first = i
  BY <1>2, <1>3, <1>4
<1> QED
  BY <1>3, <1>5, <1>6 DEF curve

LEMMA EligibleAre ==
    ASSUME InputsOK, SeriesInv, phase # "filter"
    PROVE  /\ Eligible = Contributors
           /\ \A s \in Contributors : /\ Earliest(s) = series[s][1]
                                      /\ series[s] = Sorted(rows[s].curve)
<1>1. /\ Contributors = {u \in Strategies : Contributes(u)}
      /\ \A s \in Contributors : series[s] = Sorted(rows[s].curve)
  BY DEF SeriesInv, Contributors
<1>2. \A s \in Strategies :
         rows[s].curve # <<>> => Earliest(s) = Sorted(rows[s].curve)[1]
  BY EarliestIsFirst
<1>3. Eligible = {u \in Strategies : Contributes(u)}
  BY <1>2 DEF Eligible, Contributes
<1>4. \A s \in Contributors : s \in Strategies /\ rows[s].curve # <<>>
  BY <1>1 DEF Contributes
<1> QED
  BY <1>1, <1>2, <1>3, <1>4

LEMMA RowDatesRise ==
    ASSUME InputsOK, SeriesOK, Contributors # {},
           \A s \in Contributors : ~RepeatsDate(series[s])
    PROVE  \A i, j \in 1..Len(RowDates) : i < j => RowDates[i] < RowDates[j]
<1>0. /\ Len(RowDates) \in Nat /\ RowDates \in Seq(Nat)
      /\ \A i, j \in 1..Len(RowDates) : i <= j => RowDates[i] <= RowDates[j]
  BY RowDatesAre
<1>1. CASE SameIndex
  <2>1. PICK u \in Contributors : RowDates = DatesOf(series[u])
    BY <1>1 DEF RowDates
  <2>2. IsInjective(RowDates)
    BY <2>1 DEF RepeatsDate
  <2>3. \A i, j \in 1..Len(RowDates) : RowDates[i] = RowDates[j] => i = j
    BY <1>0, <2>2 DEF IsInjective
  <2> SUFFICES ASSUME NEW i \in 1..Len(RowDates), NEW j \in 1..Len(RowDates), i < j
               PROVE  RowDates[i] < RowDates[j]
    OBVIOUS
  <2>4. RowDates[i] <= RowDates[j] /\ RowDates[i] # RowDates[j]
    BY <1>0, <2>3
  <2>5. RowDates[i] \in Nat /\ RowDates[j] \in Nat
    BY <1>0
  <2> QED
    BY <2>4, <2>5
<1>2. CASE ~SameIndex
  <2>1. RowDates = InOrder(AllDates, Earlier(AllDates))
    BY <1>2 DEF RowDates
  <2>2. Range(RowDates) = AllDates /\ DOMAIN RowDates = 1..Len(RowDates)
    BY RowDatesAre
  <2>3. AllDates \in SUBSET Nat
    BY <1>0, <2>2 DEF Range
  <2>4. IsFiniteSet(AllDates)
    <3> DEFINE D == 1..Len(RowDates)
    <3>1. IsFiniteSet(D) /\ DOMAIN RowDates = D
      BY <1>0, <2>2, FS_Interval
    <3> HIDE DEF D
    <3>2. IsFiniteSet({RowDates[x] : x \in D})
      BY <3>1, ImageFinite
    <3> QED
      BY <2>2, <3>1, <3>2 DEF Range
  <2>5. Lists(RowDates, AllDates, Earlier(AllDates))
    BY <2>1, <2>3, <2>4, NumbersOrdered, InOrderLists
  <2> QED
    BY <2>2, <2>5 DEF Lists, Earlier
<1> QED
  BY <1>1, <1>2

\* The value a row holds is the last one the strategy had posted by its date.
LEMMA HoldsLastKnown ==
    ASSUME InputsOK, SeriesOK, NEW s \in Contributors, NEW k \in 1..Len(RowDates),
           ~RepeatsDate(rows[s].curve), s \in Started(k),
           \A i, j \in 1..Len(RowDates) : i < j => RowDates[i] < RowDates[j]
    PROVE  LastKnown(s, RowDates[k]).value = Filled(s, RowDates)[k]
<1> DEFINE R == Range(rows[s].curve)
           d == RowDates[k]
           seen == {p \in R : p.date <= d}
           last == CHOOSE p \in seen : \A q \in seen : q.date <= p.date
<1>1. /\ Len(RowDates) \in Nat /\ Range(RowDates) = AllDates
      /\ RowDates \in Seq(Nat)
      /\ \A i, j \in 1..Len(RowDates) : i <= j => RowDates[i] <= RowDates[j]
  BY RowDatesAre
<1>2. R = Range(series[s]) /\ \A p \in R : p.date \in Nat
  BY DatesOfSeries DEF SeriesOK, Points
<1>3. PICK m \in 1..k, p \in Range(series[s]) :
         /\ p.date = RowDates[m]
         /\ Filled(s, RowDates)[k] = p.value
         /\ \A q \in Range(series[s]), j \in 1..k : q.date = RowDates[j] => j <= m
  BY RowHolds DEF Started
<1>4. m \in 1..Len(RowDates) /\ m <= k
  BY <1>1
<1>5. p \in seen
  BY <1>1, <1>2, <1>3, <1>4
<1>6. ASSUME NEW q \in seen PROVE q.date <= p.date
  <2>1. q.date \in AllDates
    <3>1. q.date \in Range(DatesOf(series[s]))
      <4>1. Range(DatesOf(series[s])) = {x.date : x \in Range(series[s])}
        BY DatesOfSeries
      <4> QED
        BY <1>2, <4>1
    <3> QED
      BY <3>1 DEF AllDates
  <2>2. PICK j \in 1..Len(RowDates) : RowDates[j] = q.date
    BY <1>1, <2>1 DEF Range
  <2>3. j <= k
    <3> SUFFICES ASSUME k < j PROVE FALSE
      BY <1>1
    <3>1. d < q.date
      BY <2>2
    <3>2. q.date <= d /\ q.date \in Nat /\ d \in Nat
      BY <1>1, <1>2
    <3> QED
      BY <3>1, <3>2
  <2>4. j <= m
    BY <1>2, <1>3, <2>2, <2>3
  <2> QED
    BY <1>1, <1>3, <1>4, <2>2, <2>4
<1>7. last \in seen /\ \A q \in seen : q.date <= last.date
  <2>1. \E x \in seen : \A q \in seen : q.date <= x.date
    BY <1>5, <1>6
  <2> HIDE DEF seen
  <2> QED
    BY <2>1
<1> HIDE DEF last
<1>8. last.date = p.date
  BY <1>2, <1>5, <1>6, <1>7
<1>9. \A x, y \in R : x.date = y.date => x = y
  <2>1. \A i, j \in DOMAIN rows[s].curve :
           rows[s].curve[i].date = rows[s].curve[j].date => i = j
    BY DEF RepeatsDate, IsInjective, DatesOf
  <2> QED
    BY <2>1 DEF Range
<1>10. last = p
  BY <1>5, <1>7, <1>8, <1>9
<1> QED
  BY <1>3, <1>10 DEF LastKnown, last

\* The strategies on a row are those that had started by its date.
LEMMA StartedByDate ==
    ASSUME InputsOK, SeriesOK, NEW s \in Contributors, NEW k \in 1..Len(RowDates),
           \A i, j \in 1..Len(RowDates) : i < j => RowDates[i] < RowDates[j]
    PROVE  s \in Started(k) <=> series[s][1].date <= RowDates[k]
<1> DEFINE c == series[s]
           x == c[1]
<1>1. /\ Len(RowDates) \in Nat /\ Range(RowDates) = AllDates
      /\ RowDates \in Seq(Nat)
      /\ \A i, j \in 1..Len(RowDates) : i <= j => RowDates[i] <= RowDates[j]
  BY RowDatesAre
<1>2. /\ DOMAIN c = 1..Len(c) /\ 1 \in 1..Len(c)
      /\ \A i \in 1..Len(c) : c[i].date \in Nat
      /\ \A i, j \in 1..Len(c) : i <= j => c[i].date <= c[j].date
  BY DatesOfSeries, CurvePoints DEF SeriesOK
<1>3. x \in Range(c) /\ \A p \in Range(c) : x.date <= p.date
  <2> HIDE DEF c
  <2> QED
    BY <1>2 DEF Range
<1>4. ASSUME s \in Started(k) PROVE x.date <= RowDates[k]
  <2>1. PICK m \in 1..k, p \in Range(c) : p.date = RowDates[m]
    BY <1>4, RowHolds DEF Started
  <2>2. p.date <= RowDates[k]
    BY <1>1, <2>1
  <2>3. x.date <= p.date
    BY <1>3
  <2>4. x.date \in Nat /\ p.date \in Nat /\ RowDates[k] \in Nat
    <3>1. m \in 1..Len(RowDates)
      BY <1>1
    <3> QED
      BY <1>1, <1>2, <2>1, <3>1
  <2> QED
    BY <2>2, <2>3, <2>4
<1>5. ASSUME x.date <= RowDates[k] PROVE s \in Started(k)
  <2>1. x.date \in AllDates
    <3>1. x.date \in Range(DatesOf(c))
      <4>1. Range(DatesOf(c)) = {p.date : p \in Range(c)}
        BY DatesOfSeries
      <4> QED
        BY <1>3, <4>1
    <3> QED
      BY <3>1 DEF AllDates
  <2>2. PICK j \in 1..Len(RowDates) : RowDates[j] = x.date
    BY <1>1, <2>1 DEF Range
  <2>3. j <= k
    <3> SUFFICES ASSUME k < j PROVE FALSE
      BY <1>1
    <3>1. RowDates[k] < RowDates[j]
      OBVIOUS
    <3>2. RowDates[j] <= RowDates[k] /\ RowDates[j] \in Nat /\ RowDates[k] \in Nat
      BY <1>1, <1>5, <2>2
    <3> QED
      BY <3>1, <3>2
  <2>4. Filled(s, RowDates)[k] # NaN
    BY <1>1, <1>3, <2>2, <2>3, RowHolds
  <2> QED
    BY <2>4 DEF Started
<1> QED
  BY <1>4, <1>5

LEMMA RowsAreMeans ==
    ASSUME InputsOK, SeriesInv, phase # "filter", Contributors # {},
           \A s \in Eligible : ~RepeatsDate(rows[s].curve),
           \A i, j \in 1..Len(RowDates) : i < j => RowDates[i] < RowDates[j],
           NEW k \in 1..Len(RowDates)
    PROVE  RowIsMean(MergedCurve[k])
<1> DEFINE row == MergedCurve[k]
           d == row.date
           live == {s \in Eligible : Earliest(s).date <= d}
           share(s) == [num |-> LastKnown(s, d).value * weights[s]
                                * (IF normalize THEN Base ELSE 1),
                        den |-> IF normalize THEN Earliest(s).value ELSE 1]
           shares == [s \in live |-> share(s)]
           mean == Total(shares, live)
<1>1. SeriesOK /\ Eligible = Contributors /\ \A s \in Contributors : Earliest(s) = series[s][1]
  BY SeriesAre, EligibleAre
<1>2. d = RowDates[k] /\ row.value = Mean(Shares(k), Started(k))
  BY <1>1, MergedCurveType
<1>3. live = Started(k)
  <2>1. \A s \in Contributors : s \in Started(k) <=> series[s][1].date <= RowDates[k]
    BY <1>1, StartedByDate
  <2>2. Started(k) \subseteq Contributors
    BY DEF Started
  <2> QED
    BY <1>1, <1>2, <2>1, <2>2
<1>4. ASSUME NEW s \in Started(k) PROVE share(s) = Shares(k)[s]
  <2> DEFINE v == Filled(s, RowDates)[k]
             w == weights[s]
  <2>1. s \in Contributors
    BY DEF Started
  <2>2. LastKnown(s, d).value = v
    BY <1>1, <1>2, <2>1, HoldsLastKnown
  <2>3. v \in Int /\ w \in Nat /\ Base \in Nat
    <3>1. PICK p \in Range(series[s]) : v = p.value
      BY <1>1, <2>1, RowHolds DEF Started
    <3>2. v \in Int
      BY <1>1, <2>1, <3>1, DatesOfSeries DEF Points
    <3> QED
      BY <1>1, <2>1, <3>2, AggregatorAssumption DEF SeriesOK
  <2>4. Earliest(s).value = series[s][1].value
    BY <1>1, <2>1
  <2>5. Shares(k)[s] = Share(s, v)
    BY DEF Shares
  <2>6. share(s) = [num |-> v * w * (IF normalize THEN Base ELSE 1),
                    den |-> IF normalize THEN series[s][1].value ELSE 1]
    BY <2>2, <2>4
  <2> HIDE DEF v, share, w
  <2>7. CASE normalize
    BY <2>5, <2>6, <2>7 DEF Share, w
  <2>8. CASE ~normalize
    <3>1. v * w * 1 = v * w
      BY <2>3
    <3> QED
      BY <2>5, <2>6, <2>8, <3>1 DEF Share, w
  <2> QED
    BY <2>7, <2>8
<1>5. shares = Shares(k)
  <2>1. \A s \in Started(k) : shares[s] = Shares(k)[s]
    BY <1>3, <1>4
  <2>2. shares = [s \in live |-> shares[s]] /\ Shares(k) = [s \in Started(k) |-> Shares(k)[s]]
    BY DEF Shares
  <2> HIDE DEF shares
  <2> QED
    BY <1>3, <2>1, <2>2
<1>6. row.value = Rounded([mean EXCEPT !.den = @ * WeightOf(live)])
  <2> HIDE DEF shares, live
  <2> QED
    BY <1>2, <1>3, <1>5 DEF Mean
<1> QED
  BY <1>6 DEF RowIsMean

LEMMA CurveIsMean == AggInv => MergedIsLastKnownMean
<1> SUFFICES ASSUME AggInv, phase \in {"scan", "done"},
                    \A s \in Eligible : ~RepeatsDate(rows[s].curve)
             PROVE  /\ Range(DatesOf(merged)) =
                          UNION {Range(DatesOf(rows[s].curve)) : s \in Eligible}
                    /\ \A i, j \in DOMAIN merged : i < j => merged[i].date < merged[j].date
                    /\ \A k \in DOMAIN merged : RowIsMean(merged[k])
  BY DEF MergedIsLastKnownMean
<1>1. InputsOK /\ SeriesInv /\ SeriesOK /\ phase # "filter"
  BY SeriesAre DEF AggInv
<1>2. Eligible = Contributors
  BY <1>1, EligibleAre
<1>3. CASE Contributors = {}
  <2>1. Contributors = {} /\ merged = <<>>
    BY <1>3 DEF AggInv, MergedInv
  <2>2. DOMAIN merged = {}
    BY <2>1
  <2>3. Range(DatesOf(merged)) = {}
    BY <2>2 DEF DatesOf, Range
  <2> QED
    BY <1>2, <2>1, <2>2, <2>3
<1>4. CASE Contributors # {}
  <2>1. merged = MergedCurve
    BY <1>4 DEF AggInv, MergedInv
  <2> DEFINE n == Len(RowDates)
  <2>2. /\ n \in Nat /\ DOMAIN merged = 1..n
        /\ \A k \in 1..n : merged[k].date = RowDates[k]
        /\ Range(RowDates) = AllDates /\ DOMAIN RowDates = 1..n
    BY <1>1, <1>4, <2>1, MergedCurveType, RowDatesAre
  <2>3. \A s \in Contributors : ~RepeatsDate(series[s])
    BY <1>1, <1>2, InputTypes, EligibleAre, SortedDistinct DEF SeriesOK
  <2>4. \A i, j \in 1..n : i < j => RowDates[i] < RowDates[j]
    BY <1>1, <1>4, <2>3, RowDatesRise
  <2>5. Range(DatesOf(merged)) = AllDates
    <3> HIDE DEF n
    <3> QED
      BY <2>2 DEF DatesOf, Range
  <2>6. AllDates = UNION {Range(DatesOf(rows[s].curve)) : s \in Eligible}
    <3>1. ASSUME NEW s \in Contributors
          PROVE  Range(DatesOf(series[s])) = Range(DatesOf(rows[s].curve))
      <4>1. Range(DatesOf(series[s])) = {p.date : p \in Range(series[s])}
        BY <1>1, DatesOfSeries
      <4>2. Range(DatesOf(rows[s].curve)) = {p.date : p \in Range(rows[s].curve)}
        BY DEF DatesOf, Range
      <4> QED
        BY <1>1, <4>1, <4>2 DEF SeriesOK
    <3> QED
      BY <1>2, <3>1 DEF AllDates
  <2>7. \A k \in 1..n : RowIsMean(merged[k])
    BY <1>1, <1>4, <2>1, <2>4, RowsAreMeans
  <2> QED
    BY <2>2, <2>4, <2>5, <2>6, <2>7
<1> QED
  BY <1>3, <1>4

\* merge_equity_curves has one row for each date of a contributing curve, in
\* order, and on it the weighted mean of the last values known by that date.
THEOREM MergedCorrect == AggSpec => []MergedIsLastKnownMean
BY InvStarts, InvStep, CurveIsMean, PTL DEF AggSpec
=============================================================================
