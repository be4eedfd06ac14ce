----------------------------- MODULE MCAggregator ----------------------------
(* An instance of Aggregator for TLC: two strategies, three dates.          *)
EXTENDS Aggregator

CONSTANTS s1, s2

Point(d, v) == [date |-> d, value |-> v]

\* A row as a strategy without deposits posts it.
Row(curve) ==
    LET n == Len(curve)
    IN  [curve |-> curve,
         total |-> IF n = 0 \/ curve[n].value < 0 THEN 0 ELSE curve[n].value,
         pnl   |-> IF n < 2 THEN 0 ELSE curve[n].value - curve[n - 1].value]

\* Two points in any order, also of one date, the first of them worth
\* nothing or not; and three dates with a rise or a fall.
MCShort == {<<Point(d, u), Point(e, v)>> : d, e \in {1, 2}, u \in {0, 2}, v \in {1, 3}}
MCLong == {<<Point(1, u), Point(2, v), Point(3, w)>> : u, v, w \in {1, 2, 3}}
MCLate == {<<Point(2, 2), Point(3, 4)>>, <<Point(3, 2)>>}

\* A deposit, a day that loses everything, one that loses more after a rise,
\* a row whose metadata has no curve.
MCOdd == {[Row(<<Point(1, 2), Point(2, 4)>>) EXCEPT !.pnl = 0],
          Row(<<Point(1, 2), Point(2, 0)>>),
          Row(<<Point(1, 1), Point(2, 3), Point(3, -3)>>),
          Row(<<Point(2, 1), Point(2, 0)>>),
          [curve |-> <<>>, pnl |-> 1, total |-> 2]}

MCPayloads == {Row(c) : c \in MCShort \union MCLong \union MCLate} \union MCOdd
=============================================================================
