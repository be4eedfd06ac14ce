-------------------------------- MODULE Store --------------------------------
(***************************************************************************)
(* The data the gateway keeps outside its process: the strategy registry   *)
(* (strategies.json), the three db_gateway tables and the Redis key space. *)
(* A table is a function from its unique key to the stored content, or to  *)
(* NoRow; a query is an operator of the table.  Contents are revisions: two *)
(* payloads are told apart only when a property needs to.                  *)
(***************************************************************************)
EXTENDS Integers, FiniteSets, Sequences, Functions, FiniteSetsExt

CONSTANTS
    Registry,       \* the entries of strategies.json, in file order
    Strategies,     \* every strategy id a request may name
    Times,          \* last_updated instants (UTC)
    TicksPerDay,    \* instants in one UTC date
    Revisions,      \* contents a payload may carry
    Reporting,      \* the revisions whose parsed_report is not None
    Misdated,       \* the revisions whose equity curve repeats a date
    NoRow,          \* no row under this key
    NoSid, Latest   \* key parts of the portfolio-wide and "latest" keys

ASSUME RegistryAssumption ==
    Registry \in Seq([id : Strategies, active : BOOLEAN])

\* The last conjunct is what finiteness of a set of instants gives: every
\* non-empty set of row timestamps has a latest one (ORDER BY time DESC).
ASSUME TimesAssumption ==
    /\ Times \subseteq Nat
    /\ TicksPerDay \in Nat \ {0}
    /\ \A S \in SUBSET Times : S # {} => \E t \in S : \A u \in S : t >= u

ASSUME RevisionsAssumption ==
    /\ Reporting \subseteq Revisions
    /\ Misdated \subseteq Revisions
    /\ NoRow \notin Revisions \union [time : Times, rev : Revisions]

ASSUME KeysAssumption == NoSid \notin Strategies

-----------------------------------------------------------------------------
(* The registry.                                                           *)

\* StrategyRegistry.active_strategies, as positions in the list: the list
\* has one element per active entry even when two entries share an id.
ActiveEntries == {i \in DOMAIN Registry : Registry[i].active}

\* The distinct ids among them: what ANY($2::text[]) ranges over.
ActiveIds == {Registry[i].id : i \in ActiveEntries}

\* by_id(sid) is not None
IsRegistered(sid) == \E i \in DOMAIN Registry : Registry[i].id = sid

\* by_id returns the FIRST entry of that id; a read needs it to be active.
IsReadable(sid) ==
    \E i \in DOMAIN Registry :
        /\ Registry[i].id = sid
        /\ \A j \in 1..(i - 1) : Registry[j].id # sid
        /\ Registry[i].active

-----------------------------------------------------------------------------
(* The tables.                                                             *)

RowKeys == Strategies \X Times          \* UNIQUE (time, strategy_id)
Tables == [RowKeys -> Revisions \union {NoRow}]
EmptyTable == [k \in RowKeys |-> NoRow]

DayOf(t) == t \div TicksPerDay          \* time::date
Days == {DayOf(t) : t \in Times}

Upsert(table, sid, t, rev) == [table EXCEPT ![<<sid, t>>] = rev]

InstantsOf(table, sid) == {t \in Times : table[<<sid, t>>] # NoRow}
InstantsOn(table, sid, d) == {t \in InstantsOf(table, sid) : DayOf(t) = d}

RowAt(table, sid, t) == [time |-> t, rev |-> table[<<sid, t>>]]
Rows == [time : Times, rev : Revisions]

\* SELECT DISTINCT ON (strategy_id) ... ORDER BY strategy_id, time DESC, over
\* the rows of one date: one row per active id that has any.
RoundRows(table, d) ==
    [s \in {a \in ActiveIds : InstantsOn(table, a, d) # {}} |->
        RowAt(table, s, Max(InstantsOn(table, s, d)))]

\* The same over all dates.
LatestRows(table) ==
    [s \in {a \in ActiveIds : InstantsOf(table, a) # {}} |->
        RowAt(table, s, Max(InstantsOf(table, s)))]

\* ORDER BY time DESC LIMIT 1 for one strategy, or NoRow.
LatestRow(table, sid) ==
    IF InstantsOf(table, sid) = {} THEN NoRow
    ELSE RowAt(table, sid, Max(InstantsOf(table, sid)))

LatestRowOn(table, sid, d) ==
    IF InstantsOn(table, sid, d) = {} THEN NoRow
    ELSE RowAt(table, sid, Max(InstantsOn(table, sid, d)))

\* What aggregating a complete round depends on: one row per active id.
Aggregates == [ActiveIds -> Rows]

\* merge_equity_curves cannot join a curve that repeats a date with one of
\* other dates (Aggregator, JoinRaises); whether the dates differ is left open.
MayNotAlign(rows) ==
    /\ Cardinality(DOMAIN rows) > 1
    /\ \E s \in DOMAIN rows : rows[s].rev \in Misdated

-----------------------------------------------------------------------------
(* The Redis key space.  A key is <<family, strategy id, argument>>.       *)

OverallKey == <<"overall", NoSid, Latest>>
PerformanceKey(sid) == <<"performance", sid, Latest>>
ReportKey(sid, arg) == <<"report", sid, arg>>
TradesKey(sid) == <<"trades", sid, Latest>>
BenchmarkKey(sid) == <<"benchmark", sid, Latest>>
SnapshotKey(arg) == <<"snapshot", NoSid, arg>>
MetricsKey(arg) == <<"metrics", NoSid, arg>>

Keys ==
    {OverallKey}
    \union {PerformanceKey(s) : s \in Strategies}
    \union {ReportKey(s, a) : s \in Strategies, a \in Days \union {Latest}}
    \union {TradesKey(s) : s \in Strategies}
    \union {BenchmarkKey(s) : s \in Strategies}
    \union {SnapshotKey(a) : a \in Days \union {Latest}}
    \union {MetricsKey(a) : a \in Days \union {Latest}}

\* gateway:strategy:{sid}:{family}:*
PatternKeys(family, sid) == {k \in Keys : k[1] = family /\ k[2] = sid}

\* gateway:*
FlushKeys == {k \in Keys : k[1] \in {"report", "trades", "benchmark"}}

\* DELETE of every key of K that is present.
Without(entries, K) == Restrict(entries, DOMAIN entries \ K)
=============================================================================
