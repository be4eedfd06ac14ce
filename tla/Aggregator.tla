----------------------------- MODULE Aggregator ------------------------------
(***************************************************************************)
(* services/aggregator.py on the rows of one round: every contributing     *)
(* equity curve is put on base 100, the curves are joined by date, filled  *)
(* forward and averaged by capital weight, and one scan of the merged      *)
(* curve finds its worst decline.  Beside it stand the two daily returns   *)
(* of the same rows: the one ingestion stores and the snapshot averages,   *)
(* and the one calculate_weighted_return computes for overall performance. *)
(*                                                                         *)
(* Money is an integer number of the smallest unit kept (Decimal, four     *)
(* places); a quotient is an exact fraction until the code rounds it.      *)
(***************************************************************************)
EXTENDS Integers, Sequences, FiniteSets, SequencesExt

CONSTANTS
    Strategies,     \* ids of the active entries of the registry
    Payloads,       \* contents of a daily_performance row
    Weights,        \* capital_weight an entry may have
    Base,           \* 100 in units of the last decimal kept
    NaN             \* no observation in a cell of the frame

Points == [date : Nat, value : Int]

\* capital_weight and total_value are ge=0; a curve has any dates in any
\* order, and any values.
ASSUME AggregatorAssumption ==
    /\ IsFiniteSet(Strategies)
    /\ Payloads \subseteq [curve : Seq(Points), pnl : Int, total : Nat]
    /\ Weights \subseteq Nat
    /\ Base \in Nat \ {0}
    /\ NaN \notin Int

VARIABLES
    rows,       \* the latest row of each strategy
    weights,    \* its capital weight
    normalize,  \* FALSE: GET /portfolio/equity-curve?normalize=false
    phase,      \* how far the aggregation is
    series,     \* the curves that contribute, each sorted by date
    merged,     \* the portfolio curve
    at,         \* the position the scan has reached
    peak,       \* running peak
    worst       \* max_drawdown, a fraction <= 0

inputs == <<rows, weights, normalize>>
aggVars == <<inputs, phase, series, merged, at, peak, worst>>

-----------------------------------------------------------------------------
(* Fractions with a positive denominator.                                  *)

Fractions == [num : Int, den : Nat \ {0}]
Zero == [num |-> 0, den |-> 1]
Plus(a, b) == [num |-> a.num * b.den + b.num * a.den, den |-> a.den * b.den]
Less(a, b) == a.num * b.den < b.num * a.den
AtMost(a, b) == a.num * b.den <= b.num * a.den

\* The sum of f over S.
Total(f, S) ==
    MapThenFoldSet(Plus, Zero, LAMBDA s : f[s], LAMBDA T : CHOOSE x \in T : TRUE, S)

\* f"{value:.4f}": the nearest unit.
Rounded(f) == (2 * f.num + f.den) \div (2 * f.den)

WeightOf(S) == MapThenSumSet(LAMBDA s : weights[s], S)

-----------------------------------------------------------------------------
(* Filter and join.                                                        *)

\* The elements of S one after the other, each pair of them in R.
InOrder(S, R) ==
    CHOOSE f \in [1..Cardinality(S) -> S] :
        /\ Range(f) = S
        /\ \A i, j \in DOMAIN f : i < j => <<f[i], f[j]>> \in R

\* The positions of a curve, points of one date in the order they came.
ByDate(curve) ==
    {p \in (DOMAIN curve) \X (DOMAIN curve) :
        \/ curve[p[1]].date < curve[p[2]].date
        \/ curve[p[1]].date = curve[p[2]].date /\ p[1] < p[2]}

\* pd.Series(...).sort_index()
Sorted(curve) ==
    LET order == InOrder(DOMAIN curve, ByDate(curve))
    IN  [k \in DOMAIN curve |-> curve[order[k]]]

\* What merge_equity_curves keeps: a curve, a weight, a positive start.
Contributes(s) ==
    /\ rows[s].curve # <<>>
    /\ weights[s] > 0
    /\ Sorted(rows[s].curve)[1].value > 0

Contributors == DOMAIN series
DatesOf(curve) == [k \in DOMAIN curve |-> curve[k].date]
RepeatsDate(curve) == ~IsInjective(DatesOf(curve))

SameIndex == \A s, u \in Contributors : DatesOf(series[s]) = DatesOf(series[u])

\* pandas joins series that have one index, and otherwise only series whose
\* labels are unique (ValueError: cannot reindex on duplicate labels).
Alignable == SameIndex \/ \A s \in Contributors : ~RepeatsDate(series[s])

AllDates == UNION {Range(DatesOf(series[s])) : s \in Contributors}
Earlier(dates) == {p \in dates \X dates : p[1] < p[2]}

\* The index of the frame.
RowDates ==
    IF SameIndex
    THEN DatesOf(series[CHOOSE s \in Contributors : TRUE])
    ELSE InOrder(AllDates, Earlier(AllDates))

Cell(s, dates, k) ==
    IF DatesOf(series[s]) = dates THEN series[s][k].value
    ELSE LET here == {p \in Range(series[s]) : p.date = dates[k]}
         IN  IF here = {} THEN NaN ELSE (CHOOSE p \in here : TRUE).value

\* Slip: a gap is filled with nothing.
Unfilled(s, dates) == [k \in DOMAIN dates |-> Cell(s, dates, k)]

\* frame.ffill(): a gap takes the last value above it.
Filled(s, dates) ==
    LET above(k) == {j \in 1..k : Cell(s, dates, j) # NaN}
    IN  [k \in DOMAIN dates |->
            IF above(k) = {} THEN NaN ELSE Cell(s, dates, Max(above(k)))]

\* One strategy's share of a row, before the division by the row's weight.
Share(s, v) ==
    IF normalize
    THEN [num |-> v * weights[s] * Base, den |-> series[s][1].value]
    ELSE [num |-> v * weights[s], den |-> 1]

\* Slip: the weights of the strategies that have not started count.
MeanOverAll(shares, S) ==
    LET sum == Total(shares, S)
    IN  Rounded([sum EXCEPT !.den = @ * WeightOf(Contributors)])

\* Weighted sum over the strategies with data on the row, by their weight.
Mean(shares, S) ==
    LET sum == Total(shares, S)
    IN  Rounded([sum EXCEPT !.den = @ * WeightOf(S)])

MergedCurve ==
    LET dates == RowDates
        frame == [s \in Contributors |-> Filled(s, dates)]
        value(k) ==
            LET started == {s \in Contributors : frame[s][k] # NaN}
            IN  Mean([s \in started |-> Share(s, frame[s][k])], started)
    IN  [k \in DOMAIN dates |-> [date |-> dates[k], value |-> value(k)]]

-----------------------------------------------------------------------------
(* The daily returns.                                                      *)

\* Slip: the first value of the curve, for the last but one.
ReturnOnFirst(p) ==
    IF Len(p.curve) >= 2 /\ p.curve[1].value > 0
    THEN [num |-> p.pnl, den |-> p.curve[1].value]
    ELSE Zero

\* _daily_return: against the last value but one of the curve as listed, else
\* against today's value, else nothing.  Stored as daily_return.
DailyReturn(p) ==
    LET n == Len(p.curve)
        prior == IF n >= 2 THEN p.curve[n - 1].value ELSE 0
    IN  IF prior > 0 THEN [num |-> p.pnl, den |-> prior]
        ELSE IF p.total > 0 THEN [num |-> p.pnl, den |-> p.total]
        ELSE Zero

Weighted(returns) ==
    LET parts == [s \in Strategies |-> [returns[s] EXCEPT !.num = @ * weights[s]]]
        sum == Total(parts, Strategies)
    IN  IF WeightOf(Strategies) = 0 THEN Zero
        ELSE [sum EXCEPT !.den = @ * WeightOf(Strategies)]

\* portfolio_snapshot.weighted_return
SnapshotReturn == Weighted([s \in Strategies |-> DailyReturn(rows[s])])

\* calculate_weighted_return, a row without value leaving only its weight.
OverallReturn ==
    Weighted([s \in Strategies |->
        IF rows[s].total > 0 THEN [num |-> rows[s].pnl, den |-> rows[s].total]
                             ELSE Zero])

-----------------------------------------------------------------------------
(* The aggregation.                                                        *)

AggInit ==
    /\ rows \in [Strategies -> Payloads]
    /\ weights \in [Strategies -> Weights]
    /\ normalize \in BOOLEAN
    /\ phase = "filter"
    /\ series = [s \in {} |-> <<>>]
    /\ merged = <<>>
    /\ at = 1
    /\ peak = 0
    /\ worst = Zero

Filter ==
    /\ phase = "filter"
    /\ series' = [s \in {u \in Strategies : Contributes(u)} |-> Sorted(rows[s].curve)]
    /\ phase' = "join"
    /\ UNCHANGED <<inputs, merged, at, peak, worst>>

\* An empty curve, whose drawdown is 0.  When no row carries a curve at all
\* the snapshot writer does not ask and stores NULL; 0 stands for both here.
NothingToJoin ==
    /\ phase = "join"
    /\ Contributors = {}
    /\ phase' = "done"
    /\ UNCHANGED <<inputs, series, merged, at, peak, worst>>

\* The ValueError goes through both callers, who catch PostgresError only.
JoinRaises ==
    /\ phase = "join"
    /\ ~Alignable
    /\ phase' = "raised"
    /\ UNCHANGED <<inputs, series, merged, at, peak, worst>>

\* With raw values the merged curve is the answer; else it is scanned from
\* its first value on.
Join ==
    /\ phase = "join"
    /\ Contributors # {}
    /\ Alignable
    /\ merged' = MergedCurve
    /\ phase' = IF normalize THEN "scan" ELSE "done"
    /\ peak' = IF normalize THEN merged'[1].value ELSE 0
    /\ UNCHANGED <<inputs, series, at, worst>>

\* Slip: the fall is measured against the value it fell to.
DeclineToValue(value, top) == [num |-> value - top, den |-> value]

\* value / peak - 1
Decline(value, top) == [num |-> value - top, den |-> top]

\* Slip: the peak is taken after the point is measured.
ScanPointLatePeak ==
    LET value == merged[at].value
    IN  /\ phase = "scan"
        /\ at <= Len(merged)
        /\ worst' = IF peak > 0 /\ Less(Decline(value, peak), worst)
                    THEN Decline(value, peak) ELSE worst
        /\ peak' = value
        /\ at' = at + 1
        /\ UNCHANGED <<inputs, phase, series, merged>>

\* Slip: every point is measured against the first.
ScanPointFromStart ==
    LET value == merged[at].value
    IN  /\ phase = "scan"
        /\ at <= Len(merged)
        /\ worst' = IF Less(Decline(value, peak), worst) THEN Decline(value, peak)
                    ELSE worst
        /\ at' = at + 1
        /\ UNCHANGED <<inputs, phase, series, merged, peak>>

ScanPoint ==
    LET value == merged[at].value
        top == IF value > peak THEN value ELSE peak
    IN  /\ phase = "scan"
        /\ at <= Len(merged)
        /\ peak' = top
        /\ worst' = IF top > 0 /\ Less(Decline(value, top), worst)
                    THEN Decline(value, top) ELSE worst
        /\ at' = at + 1
        /\ UNCHANGED <<inputs, phase, series, merged>>

ScanEnds ==
    /\ phase = "scan"
    /\ at > Len(merged)
    /\ phase' = "done"
    /\ UNCHANGED <<inputs, series, merged, at, peak, worst>>

AggNext ==
    \/ Filter \/ NothingToJoin \/ JoinRaises \/ Join
    \/ ScanPoint \/ ScanEnds

AggSpec == AggInit /\ [][AggNext]_aggVars

-----------------------------------------------------------------------------
(* Properties.                                                             *)

\* The shape of every variable.
AggTypeOK ==
    /\ rows \in [Strategies -> Payloads]
    /\ weights \in [Strategies -> Weights]
    /\ normalize \in BOOLEAN
    /\ phase \in {"filter", "join", "scan", "done", "raised"}
    /\ DOMAIN series \subseteq Strategies
    /\ \A s \in DOMAIN series : series[s] \in Seq(Points)
    /\ merged \in Seq(Points)
    /\ at \in 1..(Len(merged) + 1)
    /\ peak \in Int
    /\ worst \in Fractions

\* What merge_equity_curves owes a reader, from the curves as they were
\* posted: on each date of a contributing curve, the weighted mean of the
\* last value each contributing strategy had by then ("the portfolio reflects
\* whichever strategies exist on that date"), one row per date, in order.
LastKnown(s, d) ==
    LET seen == {p \in Range(rows[s].curve) : p.date <= d}
    IN  CHOOSE p \in seen : \A q \in seen : q.date <= p.date

\* The first point listed of the first date.
Earliest(s) ==
    LET curve == rows[s].curve
        first == CHOOSE i \in DOMAIN curve : \A j \in DOMAIN curve :
                    \/ curve[i].date < curve[j].date
                    \/ curve[i].date = curve[j].date /\ i <= j
    IN  curve[first]

Eligible == {s \in Strategies :
                /\ rows[s].curve # <<>>
                /\ weights[s] > 0
                /\ Earliest(s).value > 0}

RowIsMean(row) ==
    LET live == {s \in Eligible : Earliest(s).date <= row.date}
        share(s) == [num |-> LastKnown(s, row.date).value * weights[s]
                             * (IF normalize THEN Base ELSE 1),
                     den |-> IF normalize THEN Earliest(s).value ELSE 1]
        mean == Total([s \in live |-> share(s)], live)
    IN  row.value = Rounded([mean EXCEPT !.den = @ * WeightOf(live)])

MergedIsLastKnownMean ==
    (/\ phase \in {"scan", "done"}
     /\ \A s \in Eligible : ~RepeatsDate(rows[s].curve)) =>
        /\ Range(DatesOf(merged)) =
              UNION {Range(DatesOf(rows[s].curve)) : s \in Eligible}
        /\ \A i, j \in DOMAIN merged : i < j => merged[i].date < merged[j].date
        /\ \A k \in DOMAIN merged : RowIsMean(merged[k])

\* calculate_combined_drawdown finds the worst decline from any point to any
\* later one, and 0 when nothing declines, in its single pass.  A value below
\* zero it measures only against the highest point before it: from a lower one
\* the same value is the worse decline.
DrawdownIsWorst ==
    phase = "done" /\ normalize =>
        /\ \A i, j \in DOMAIN merged :
              /\ i <= j /\ merged[i].value > 0
              /\ \/ merged[j].value >= 0
                 \/ \A h \in 1..j : merged[h].value <= merged[i].value
              => AtMost(worst, Decline(merged[j].value, merged[i].value))
        /\ worst # Zero => \E i, j \in DOMAIN merged :
              i < j /\ worst = Decline(merged[j].value, merged[i].value)

\* The peak is never below base 100, so `peak <= 0` is never taken and no
\* division by zero hides behind it, whatever values follow the first.
PeakAtLeastBase == phase = "scan" => peak >= Base

Rising(curve) == \A i, j \in DOMAIN curve :
    curve[i].date <= curve[j].date => curve[i].value <= curve[j].value

\* When every contributing strategy starts on the first date and none ever
\* loses, the portfolio shows no drawdown.  A strategy that starts later pulls
\* the mean towards 100 on its first day, which the code takes for a loss.
NoLossNoDrawdown ==
    (/\ phase = "done"
     /\ \A s \in Contributors : Rising(rows[s].curve)
     /\ \A s \in Contributors : series[s][1].date = merged[1].date) =>
        worst = Zero

\* A round without deposits: each value moved by the day's profit.
NoFlows ==
    \A s \in Strategies :
        LET p == rows[s]  n == Len(p.curve)
        IN  /\ n >= 2 /\ p.curve[n - 1].value > 0
            /\ p.total > 0
            /\ p.total = p.curve[n - 1].value + p.pnl

\* Without deposits the overall answer never reports more than the snapshot of
\* the same rows: its denominator "understates every gain and overstates every
\* loss" (_daily_return).
OverallIsPessimistic == NoFlows => AtMost(OverallReturn, SnapshotReturn)
=============================================================================
