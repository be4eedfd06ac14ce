---------------------------- MODULE Gateway_proofs ----------------------------
(***************************************************************************)
(* Proofs about Gateway, for any number of readers and ingest handlers,    *)
(* every set of cached keys and of disruptions.                            *)
(***************************************************************************)
EXTENDS Gateway, Ingest_proofs

-----------------------------------------------------------------------------
(* What each step does to the shared state.                                *)

\* A command that deletes keys changes no entry it leaves.
Shrinks(entries) ==
    /\ DOMAIN entries \subseteq DOMAIN cache
    /\ \A k \in DOMAIN entries : entries[k] = cache[k]

LEMMA WithoutShrinks ==
    ASSUME NEW K
    PROVE  Shrinks(Without(cache, K)) /\ DOMAIN Without(cache, K) = DOMAIN cache \ K
BY DEF Shrinks, Without, Restrict

LEMMA InvalidateOnlyDeletes ==
    ASSUME NEW K, Invalidate(K)
    PROVE  /\ Shrinks(cache')
           /\ "redis" \notin Disruptions => DOMAIN cache' = DOMAIN cache \ K
BY WithoutShrinks DEF Invalidate

LEMMA IngestOnlyDeletes ==
    ASSUME [IngestNext]_ingestVars
    PROVE  Shrinks(cache')
<1>1. CASE UNCHANGED cache
  BY <1>1 DEF Shrinks
<1>2. ASSUME NEW r \in Requests, Advance(r) PROVE Shrinks(cache')
  <2>1. ASSUME NEW K, Invalidate(K) PROVE Shrinks(cache')
    BY <2>1, InvalidateOnlyDeletes
  <2>2. UNCHANGED cache \/ \E K : Invalidate(K)
    BY <1>2 DEF Advance, Acquire, UpsertDaily, PersistReport, Commit, DropReports,
                DropTrades, DropBenchmarks, SkipSnapshot, SelectRound, UpsertSnapshot,
                DropOverall, DropStrategy
  <2> QED
    BY <1>1, <2>1, <2>2
<1>3. ASSUME NEW r \in Requests, Arrive(r) \/ Fail(r) PROVE UNCHANGED cache
  BY <1>3 DEF Arrive, Accept, RejectUnknown, Fail, PersistFails, CommitUnconfirmed,
              AggregationRaises, SnapshotFails, UpsertUnconfirmed
<1>4. CASE Midnight \/ Crash
  BY <1>1, <1>4 DEF Midnight, Crash, CrashHandlers
<1> QED
  BY <1>1, <1>2, <1>3, <1>4 DEF IngestNext, ingestVars

\* Steps that only delete entries on behalf of nobody in particular.
Evicts == \E K : CacheOnly(Without(cache, K))

\* Steps of one reader up to its store, and of csm-set.
ReaderMoves(d) ==
    \/ \E k \in ReadKeys : Ask(d, k)
    \/ Hit(d) \/ Miss(d) \/ Query(d) \/ QueryFindsNothing(d)
    \/ QueryPage(d) \/ QueryPrevious(d) \/ ReaderFail(d)

LEMMA GatewaySteps ==
    ASSUME [GatewayNext]_vars
    PROVE  \/ UNCHANGED vars
           \/ Beside(IngestNext)
           \/ GatewayCrash
           \/ \E d \in Readers : ReaderMoves(d) \/ Store(d)
           \/ Evicts
           \/ \E s \in ActiveIds : CsmWrites(s)
<1>1. ASSUME NEW r \in Requests,
             Beside(Arrive(r)) \/ Beside(Advance(r)) \/ Beside(Fail(r))
      PROVE  Beside(IngestNext)
  BY <1>1 DEF Beside, IngestNext
<1>2. Beside(Midnight) => Beside(IngestNext)
  BY DEF Beside, IngestNext
<1>3. (\E k \in Keys : Expire(k)) \/ Flush \/ FlushFails => Evicts
  BY DEF Expire, Flush, FlushFails, Evicts
<1> QED
  BY <1>1, <1>2, <1>3 DEF GatewayNext, ReaderAdvance, ReaderMoves

LEMMA ReaderMovesLeave ==
    ASSUME NEW d \in Readers, ReaderMoves(d)
    PROVE  UNCHANGED <<ingestVars, csm, late>>
BY DEF ReaderMoves, Ask, Hit, Miss, Query, QueryFindsNothing, QueryPage,
       QueryPrevious, ReaderFail, LookupFails, QueryRaises, QueryFails

\* The ingest side makes a step of its own, or only the cache changes.
LEMMA IngestSide ==
    ASSUME [GatewayNext]_vars
    PROVE  \/ [IngestNext]_ingestVars
           \/ UNCHANGED <<today, tables, pc, locals, reply>>
<1>1. UNCHANGED vars => UNCHANGED ingestVars
  BY DEF vars
<1>2. Beside(IngestNext) \/ GatewayCrash => IngestNext
  BY DEF Beside, GatewayCrash, IngestNext
<1>3. ASSUME NEW d \in Readers, ReaderMoves(d) PROVE UNCHANGED ingestVars
  BY <1>3, ReaderMovesLeave
<1> QED
  BY <1>1, <1>2, <1>3, GatewaySteps DEF Store, Evicts, CacheOnly, CsmWrites

-----------------------------------------------------------------------------
(* Type correctness.                                                       *)

\* A reader serves a key that clients read; target and answer have one
\* element per reader.
GatewayTypeInv ==
    /\ TypeOK
    /\ GatewayTypeOK
    /\ DOMAIN target = Readers
    /\ DOMAIN answer = Readers
    /\ \A d \in Readers : step[d] # "idle" => target[d] \in ReadKeys

LEMMA EndType ==
    ASSUME GatewayTypeInv, NEW d \in Readers, NEW code \in Statuses, End(d, code)
    PROVE  /\ step' \in [Readers -> Steps]
           /\ \A e \in Readers : target'[e] \in Keys
           /\ status' \in [Readers -> Statuses]
           /\ DOMAIN target' = Readers
           /\ DOMAIN answer' = Readers
           /\ \A e \in Readers : step'[e] # "idle" => target'[e] \in ReadKeys
<1>1. OverallKey \in Keys
  BY DEF Keys
<1> QED
  BY <1>1 DEF End, GatewayTypeInv, GatewayTypeOK, Steps

LEMMA ReaderType ==
    ASSUME GatewayTypeInv, NEW d \in Readers, ReaderMoves(d)
    PROVE  /\ step' \in [Readers -> Steps]
           /\ \A e \in Readers : target'[e] \in Keys
           /\ status' \in [Readers -> Statuses]
           /\ DOMAIN target' = Readers
           /\ DOMAIN answer' = Readers
           /\ \A e \in Readers : step'[e] # "idle" => target'[e] \in ReadKeys
<1> DEFINE Goal ==
        /\ step' \in [Readers -> Steps]
        /\ \A e \in Readers : target'[e] \in Keys
        /\ status' \in [Readers -> Statuses]
        /\ DOMAIN target' = Readers
        /\ DOMAIN answer' = Readers
        /\ \A e \in Readers : step'[e] # "idle" => target'[e] \in ReadKeys
<1> USE DEF GatewayTypeInv, GatewayTypeOK, Steps, Statuses
<1>1. ASSUME NEW code \in Statuses, End(d, code) PROVE Goal
  BY <1>1, EndType
<1>2. ASSUME NEW k \in ReadKeys, Ask(d, k) PROVE Goal
  <2>1. CASE Readable(k)
    BY <1>2, <2>1, GatewayAssumption DEF Ask
  <2>2. CASE ~Readable(k)
    BY <1>1, <1>2, <2>2 DEF Ask
  <2> QED
    BY <2>1, <2>2
<1>3. CASE Hit(d) \/ QueryFindsNothing(d) \/ ReaderFail(d)
  BY <1>1, <1>3 DEF Hit, QueryFindsNothing, ReaderFail, LookupFails, QueryRaises,
                    QueryFails
<1>4. CASE Miss(d) \/ QueryPage(d) \/ QueryPrevious(d)
  BY <1>4 DEF Miss, QueryPage, QueryPrevious
<1>5. CASE Query(d)
  <2>1. AfterFirst(target[d]) \in Steps
    BY DEF AfterFirst
  <2> QED
    BY <1>5, <2>1 DEF Query
<1> QED
  BY <1>2, <1>3, <1>4, <1>5 DEF ReaderMoves

\* TypeOK holds beside readers, evictions and stores too.
LEMMA TypeBeside ==
    ASSUME GatewayTypeInv, [GatewayNext]_vars
    PROVE  TypeOK'
<1> USE DEF tables, locals
<1>1. CASE [IngestNext]_ingestVars
  BY <1>1, TypeStep DEF GatewayTypeInv
<1>2. CASE DOMAIN cache' \subseteq Keys /\ UNCHANGED <<today, tables, pc, locals, reply>>
  BY <1>2 DEF GatewayTypeInv, TypeOK
<1>3. UNCHANGED <<today, tables, pc, locals, reply>> => DOMAIN cache' \subseteq Keys
  <2> SUFFICES ASSUME UNCHANGED <<today, tables, pc, locals, reply>>,
                      ~[IngestNext]_ingestVars
               PROVE  DOMAIN cache' \subseteq Keys
    BY <1>1 DEF TypeOK
  <2>1. ASSUME NEW d \in Readers, Store(d) PROVE DOMAIN cache' \subseteq Keys
    BY <2>1, GatewayAssumption
       DEF Store, StoreLands, Setex, GatewayTypeInv, GatewayTypeOK, TypeOK
  <2>2. ASSUME Evicts PROVE DOMAIN cache' \subseteq Keys
    BY <2>2, WithoutShrinks DEF Evicts, CacheOnly, Shrinks, GatewayTypeInv, TypeOK
  <2>3. CASE cache' = cache
    BY <2>3 DEF GatewayTypeInv, TypeOK
  <2>4. ASSUME NEW d \in Readers, ReaderMoves(d) PROVE cache' = cache
    BY <2>4, ReaderMovesLeave DEF ingestVars
  <2>5. Beside(IngestNext) \/ GatewayCrash \/ UNCHANGED vars => [IngestNext]_ingestVars
    BY DEF Beside, GatewayCrash, IngestNext, vars
  <2> QED
    BY <2>1, <2>2, <2>3, <2>4, <2>5, GatewaySteps DEF CsmWrites, ingestVars
<1> QED
  BY <1>1, <1>2, <1>3, IngestSide

LEMMA GatewayTypeStep ==
    ASSUME GatewayTypeInv, [GatewayNext]_vars
    PROVE  GatewayTypeInv'
<1> USE DEF GatewayTypeInv, GatewayTypeOK
<1>0. TypeOK'
  BY TypeBeside
<1>1. CASE UNCHANGED vars
  BY <1>0, <1>1 DEF vars, ingestVars, readVars
<1>2. CASE Beside(IngestNext)
  BY <1>0, <1>2, IngestOnlyDeletes DEF Beside, Shrinks, LateIn, readVars
<1>3. CASE GatewayCrash
  <2>1. UNCHANGED cache
    BY <1>3 DEF GatewayCrash, Crash, CrashHandlers
  <2>2. OverallKey \in Keys
    BY DEF Keys
  <2> QED
    BY <1>0, <1>3, <2>1, <2>2 DEF GatewayCrash, Steps, Statuses
<1>4. ASSUME NEW d \in Readers, ReaderMoves(d) PROVE GatewayTypeInv'
  BY <1>0, <1>4, ReaderType, ReaderMovesLeave DEF ingestVars
<1>5. ASSUME NEW d \in Readers, Store(d) PROVE GatewayTypeInv'
  <2>1. target[d] \in ReadKeys
    BY <1>5 DEF Store
  <2>2. DOMAIN cache' \subseteq ReadKeys /\ late' \subseteq DOMAIN cache'
    BY <1>5, <2>1 DEF Store, StoreLands, Setex
  <2>3. UNCHANGED csm
    BY <1>5 DEF Store
  <2> QED
    BY <1>0, <1>5, <2>2, <2>3, EndType DEF Store, Statuses
<1>6. CASE Evicts
  BY <1>0, <1>6, WithoutShrinks DEF Evicts, CacheOnly, Shrinks, LateIn, readVars
<1>7. ASSUME NEW s \in ActiveIds, CsmWrites(s) PROVE GatewayTypeInv'
  BY <1>0, <1>7 DEF CsmWrites, ingestVars
<1> QED
  BY <1>1, <1>2, <1>3, <1>4, <1>5, <1>6, <1>7, GatewaySteps

LEMMA GatewayTypeInvariant == GatewaySpec => []GatewayTypeInv
<1>1. GatewayInit => GatewayTypeInv
  <2> SUFFICES ASSUME GatewayInit PROVE GatewayTypeInv
    OBVIOUS
  <2>1. TypeOK
    BY InitType DEF GatewayInit
  <2>2. OverallKey \in Keys
    BY DEF Keys
  <2> QED
    BY <2>1, <2>2
       DEF GatewayInit, Init, GatewayTypeInv, GatewayTypeOK, Steps, Statuses
<1> QED
  BY <1>1, GatewayTypeStep, PTL DEF GatewaySpec

\* Every variable keeps its shape; only keys that clients read are ever
\* cached, whatever is committed, stored, evicted or lost meanwhile.
THEOREM GatewayTypeCorrect == GatewaySpec => []GatewayTypeOK
<1>1. GatewayTypeInv => GatewayTypeOK
  BY DEF GatewayTypeInv
<1> QED
  BY <1>1, GatewayTypeInvariant, PTL

-----------------------------------------------------------------------------
(* What a read computes.                                                   *)

LEMMA DivMonotone ==
    ASSUME NEW t \in Nat, NEW u \in Nat, t >= u, NEW n \in Nat \ {0}
    PROVE  t \div n >= u \div n
OBVIOUS

\* Every non-empty set of dates has a latest one.
LEMMA LatestDate ==
    ASSUME NEW S \in SUBSET Days, S # {}
    PROVE  /\ Max(S) \in S
           /\ \A e \in S : Max(S) >= e
<1> DEFINE T == {t \in Times : DayOf(t) \in S}
<1>1. T # {}
  BY DEF Days
<1>2. PICK t \in T : \A u \in T : t >= u
  BY <1>1, TimesAssumption
<1>3. ASSUME NEW e \in S PROVE DayOf(t) >= e
  <2>1. PICK u \in Times : e = DayOf(u)
    BY DEF Days
  <2>2. t >= u /\ t \in Nat /\ u \in Nat
    BY <1>2, <2>1, TimesAssumption
  <2> QED
    BY <2>1, <2>2, DivMonotone, TimesAssumption DEF DayOf
<1>4. DayOf(t) \in S
  BY <1>2
<1> QED
  BY <1>3, <1>4 DEF Max

\* A key is of one family.
LEMMA KeyFamilies ==
    ASSUME NEW k \in Keys
    PROVE  \/ k = OverallKey
           \/ \E s \in Strategies : k = PerformanceKey(s)
           \/ \E s \in Strategies, a \in Days \union {Latest} : k = ReportKey(s, a)
           \/ \E s \in Strategies : k = TradesKey(s)
           \/ \E s \in Strategies : k = BenchmarkKey(s)
           \/ \E a \in Days \union {Latest} : k = SnapshotKey(a)
           \/ \E a \in Days \union {Latest} : k = MetricsKey(a)
BY DEF Keys

LEMMA ComputeIs ==
    ASSUME NEW k
    PROVE  /\ k[1] = "overall" => Compute(k) = <<LatestRows(daily)>>
           /\ k[1] = "performance" => Compute(k) = Found(LatestRow(daily, k[2]))
           /\ k[1] = "report" => Compute(k) = ReportAt(k[2], k[3])
           /\ k[1] = "trades" => Compute(k) = <<csm[k[2]], csm[k[2]]>>
           /\ k[1] = "benchmark" => Compute(k) = <<csm[k[2]]>>
           /\ k[1] = "snapshot" => Compute(k) = SnapshotAt(k[3])
           /\ k[1] = "metrics" => Compute(k) = MetricsOf(SnapshotAt(k[3]))
BY DEF Compute

LEMMA FoundIs ==
    ASSUME NEW row, Found(row) # NoAnswer
    PROVE  row # NoRow /\ Found(row) = <<row>>
BY DEF Found, NoAnswer

\* The row an ORDER BY time DESC LIMIT 1 returns is one that is stored.
LEMMA LatestRowIs ==
    ASSUME NEW table, NEW s, NEW d
    PROVE  /\ LatestRow(table, s) # NoRow => LatestRow(table, s).time \in InstantsOf(table, s)
           /\ LatestRowOn(table, s, d) # NoRow =>
                 LatestRowOn(table, s, d).time \in InstantsOn(table, s, d)
<1>1. InstantsOf(table, s) # {} => Max(InstantsOf(table, s)) \in InstantsOf(table, s)
  BY LatestInstant DEF InstantsOf
<1>2. InstantsOn(table, s, d) # {} => Max(InstantsOn(table, s, d)) \in InstantsOn(table, s, d)
  BY LatestInstant DEF InstantsOn, InstantsOf
<1> QED
  BY <1>1, <1>2 DEF LatestRow, LatestRowOn, RowAt

\* A snapshot answer is one stored snapshot of the date asked for.
LEMMA SnapshotAtIs ==
    ASSUME NEW arg, SnapshotAt(arg) # NoAnswer
    PROVE  \E x : SnapshotAt(arg) = <<x>> /\ x.date \in SnapshotsFor(arg)
<1>0. SnapshotDates \in SUBSET Days
  BY DEF SnapshotDates
<1>1. SnapshotDates # {} => Max(SnapshotDates) \in SnapshotDates
  BY <1>0, LatestDate
<1>2. PICK d \in SnapshotsFor(arg) : SnapshotAt(arg) = SnapshotOn(d)
  BY <1>1 DEF SnapshotAt, LatestSnapshot, SnapshotOn, SnapshotsFor
<1> QED
  BY <1>2 DEF SnapshotOn, SnapshotsFor

\* The snapshot before it is a stored one of an earlier date, if there is any.
LEMMA PreviousIs ==
    ASSUME NEW d
    PROVE  \/ PreviousSnapshot(d) = <<>>
           \/ \E y : /\ PreviousSnapshot(d) = <<y>>
                     /\ y.date \in {e \in SnapshotDates : e < d}
<1> DEFINE earlier == {e \in SnapshotDates : e < d}
<1>1. CASE earlier = {}
  BY <1>1 DEF PreviousSnapshot, NoAnswer
<1>2. CASE earlier # {}
  <2>1. PICK e \in SnapshotDates : e = Max(earlier) /\ e < d
    BY <1>2, LatestDate DEF SnapshotDates
  <2>2. PreviousSnapshot(d) = SnapshotOn(e)
    BY <1>2, <2>1 DEF PreviousSnapshot
  <2>3. SnapshotOn(e) = <<[date |-> e, round |-> snapshots[e]]>>
    BY DEF SnapshotOn
  <2>4. [date |-> e, round |-> snapshots[e]].date \in {f \in SnapshotDates : f < d}
    BY <2>1
  <2> HIDE DEF earlier
  <2> QED
    BY <2>2, <2>3, <2>4
<1> QED
  BY <1>1, <1>2

\* What a first query returns, when it returns anything, is made of stored rows.
LEMMA FirstAnswerIs ==
    ASSUME NEW k, FirstAnswer(k) # NoAnswer
    PROVE  /\ Backed(k, FirstAnswer(k))
           /\ k[1] = "metrics" => \E x : FirstAnswer(k) = <<x>>
<1>1. CASE k[1] = "performance"
  <2>1. FirstAnswer(k) = Found(LatestRow(daily, k[2]))
    BY <1>1, ComputeIs DEF FirstAnswer
  <2> QED
    BY <1>1, <2>1, FoundIs, LatestRowIs DEF Backed
<1>2. CASE k[1] = "report"
  <2>1. FirstAnswer(k) = Found(IF k[3] = Latest THEN LatestRow(reports, k[2])
                                                ELSE LatestRowOn(reports, k[2], k[3]))
    BY <1>2, ComputeIs DEF FirstAnswer, ReportAt
  <2> QED
    BY <1>2, <2>1, FoundIs, LatestRowIs DEF Backed, ReportInstants
<1>3. CASE k[1] \in {"snapshot", "metrics"}
  <2>1. FirstAnswer(k) = SnapshotAt(k[3])
    BY <1>3, ComputeIs DEF FirstAnswer
  <2>2. PICK x : SnapshotAt(k[3]) = <<x>> /\ x.date \in SnapshotsFor(k[3])
    BY <2>1, SnapshotAtIs
  <2> QED
    BY <1>3, <2>1, <2>2 DEF Backed
<1>4. CASE k[1] \notin {"performance", "report", "snapshot", "metrics"}
  BY <1>4 DEF Backed
<1> QED
  BY <1>1, <1>2, <1>3, <1>4

\* Metrics stay so when the second query has added its row.
LEMMA SecondAnswerIs ==
    ASSUME NEW k, NEW x, k[1] = "metrics", Backed(k, <<x>>)
    PROVE  Backed(k, <<x>> \o PreviousSnapshot(x.date))
<1>1. CASE PreviousSnapshot(x.date) = <<>>
  <2>1. <<x>> \o <<>> = <<x>>
    OBVIOUS
  <2> QED
    BY <1>1, <2>1
<1>2. ASSUME NEW y, PreviousSnapshot(x.date) = <<y>>,
             y.date \in {e \in SnapshotDates : e < x.date}
      PROVE  Backed(k, <<x>> \o PreviousSnapshot(x.date))
  <2>1. <<x>> \in Seq({x, y}) /\ <<y>> \in Seq({x, y})
    OBVIOUS
  <2>2. /\ Len(<<x>> \o <<y>>) = 2
        /\ (<<x>> \o <<y>>)[1] = x
        /\ (<<x>> \o <<y>>)[2] = y
    BY <2>1, ConcatProperties
  <2> QED
    BY <1>2, <2>2 DEF Backed
<1> QED
  BY <1>1, <1>2, PreviousIs

-----------------------------------------------------------------------------
(* What is cached is made of stored rows.                                  *)

\* The facts about the snapshot writer, beside readers and evictions.
WriterInv == SnapshotInv /\ DateRead

LEMMA WriterStep ==
    ASSUME GatewayTypeInv, WriterInv, [GatewayNext]_vars
    PROVE  WriterInv'
<1>1. CASE [IngestNext]_ingestVars
  BY <1>1, SnapshotStep, DateReadStep DEF WriterInv, GatewayTypeInv
<1>2. CASE UNCHANGED <<today, tables, pc, locals, reply>>
  BY <1>2 DEF WriterInv, SnapshotInv, DateRead, Covers, InstantsOn, InstantsOf,
              tables, locals
<1> QED
  BY <1>1, <1>2, IngestSide

LEMMA WriterInvariant == GatewaySpec => [](GatewayTypeInv /\ WriterInv)
<1>1. GatewayInit => WriterInv
  BY DEF GatewayInit, Init, WriterInv, SnapshotInv, DateRead
<1> QED
  BY <1>1, WriterStep, GatewayTypeInvariant, PTL DEF GatewaySpec

\* Rows and snapshots are replaced, never removed.
LEMMA BackedStays ==
    ASSUME GatewayTypeInv, WriterInv, [GatewayNext]_vars,
           NEW k \in Keys, NEW v, Backed(k, v)
    PROVE  Backed(k, v)'
<1>1. CASE [IngestNext]_ingestVars
  <2>1. ASSUME NEW s \in Strategies
        PROVE  /\ InstantsOf(daily, s) \subseteq InstantsOf(daily', s)
               /\ InstantsOf(reports, s) \subseteq InstantsOf(reports', s)
    <3>1. ASSUME NEW t \in Times
          PROVE  /\ daily[<<s, t>>] # NoRow => daily'[<<s, t>>] # NoRow
                 /\ reports[<<s, t>>] # NoRow => reports'[<<s, t>>] # NoRow
      BY <1>1, RowsStay DEF GatewayTypeInv, RowKeys
    <3> QED
      BY <3>1 DEF InstantsOf
  <2>2. ASSUME NEW d \in Days, snapshots[d] # NoRound PROVE snapshots'[d] # NoRound
    <3>1. ASSUME NEW r \in Requests, pc[r] = "upsert_snapshot", WriteSnapshot(r)
          PROVE  snapshots'[d] # NoRound
      BY <2>2, <3>1, WriterCloses DEF GatewayTypeInv, WriterInv, TypeOK
    <3> QED
      BY <1>1, <2>2, <3>1, WhoWritesSnapshots
  <2>3. SnapshotDates \subseteq SnapshotDates'
    BY <2>2 DEF SnapshotDates
  <2>4. k[1] \in {"performance", "report"} => k[2] \in Strategies
    BY KeyFamilies DEF OverallKey, PerformanceKey, ReportKey, TradesKey, BenchmarkKey,
                       SnapshotKey, MetricsKey
  <2>5. k[1] = "report" => ReportInstants(k[2], k[3]) \subseteq ReportInstants(k[2], k[3])'
    BY <2>1, <2>4 DEF ReportInstants, InstantsOn
  <2>6. SnapshotsFor(k[3]) \subseteq SnapshotsFor(k[3])'
    BY <2>3 DEF SnapshotsFor
  <2> QED
    BY <2>1, <2>3, <2>4, <2>5, <2>6 DEF Backed
<1>2. CASE UNCHANGED <<today, tables, pc, locals, reply>>
  BY <1>2 DEF Backed, ReportInstants, SnapshotsFor, SnapshotDates, InstantsOn,
              InstantsOf, tables
<1> QED
  BY <1>1, <1>2, IngestSide

CacheHas(k, v) == k \in DOMAIN cache /\ cache[k].value = v
Carries(d, k, v) ==
    step[d] \in {"page", "previous", "store"} /\ target[d] = k /\ answer[d] = v

\* What is cached, and what a reader past its first query is about to cache,
\* is made of stored rows; a second query is one of trades or of metrics.
AnswerInv ==
    /\ \A k, v : CacheHas(k, v) => Backed(k, v)
    /\ \A d \in Readers : \A k, v : Carries(d, k, v) => Backed(k, v)
    /\ \A d \in Readers :
          /\ step[d] = "page" => target[d][1] = "trades"
          /\ step[d] = "previous" => target[d][1] = "metrics" /\ \E x : answer[d] = <<x>>

\* How a reader comes to have an answer.
LEMMA WhoHasAnAnswer ==
    ASSUME GatewayTypeInv, [GatewayNext]_vars, NEW d \in Readers,
           step'[d] \in {"page", "previous", "store"}
    PROVE  \/ step'[d] = step[d] /\ target'[d] = target[d] /\ answer'[d] = answer[d]
           \/ Query(d) \/ QueryPage(d) \/ QueryPrevious(d)
<1> DEFINE Stays == step'[d] = step[d] /\ target'[d] = target[d] /\ answer'[d] = answer[d]
<1> USE DEF GatewayTypeInv, GatewayTypeOK, Steps
<1>1. ASSUME NEW e \in Readers, NEW code, End(e, code) PROVE Stays
  BY <1>1 DEF End
<1>2. ASSUME NEW e \in Readers, ReaderMoves(e),
             ~(Query(d) \/ QueryPage(d) \/ QueryPrevious(d))
      PROVE  Stays
  <2>1. CASE \E k \in ReadKeys : Ask(e, k)
    BY <1>1, <2>1 DEF Ask
  <2>2. CASE Hit(e) \/ QueryFindsNothing(e) \/ ReaderFail(e)
    BY <1>1, <2>2 DEF Hit, QueryFindsNothing, ReaderFail, LookupFails, QueryRaises,
                      QueryFails
  <2>3. CASE Miss(e)
    BY <2>3 DEF Miss
  <2>4. CASE Query(e) \/ QueryPage(e) \/ QueryPrevious(e)
    BY <1>2, <2>4 DEF Query, QueryPage, QueryPrevious
  <2> QED
    BY <1>2, <2>1, <2>2, <2>3, <2>4 DEF ReaderMoves
<1>3. ASSUME NEW e \in Readers, Store(e) PROVE Stays
  BY <1>1, <1>3 DEF Store
<1>4. ~GatewayCrash
  BY DEF GatewayCrash
<1> QED
  BY <1>2, <1>3, <1>4, GatewaySteps
     DEF vars, readVars, Beside, Evicts, CacheOnly, CsmWrites

\* What comes to be in the cache was there, or was a reader's answer.
LEMMA WhoCaches ==
    ASSUME GatewayTypeInv, [GatewayNext]_vars, NEW k, NEW v, CacheHas(k, v)'
    PROVE  CacheHas(k, v) \/ \E d \in Readers : Carries(d, k, v)
<1>1. Shrinks(cache') \/ \E d \in Readers : Store(d)
  <2>1. UNCHANGED ingestVars => Shrinks(cache')
    BY DEF ingestVars, Shrinks
  <2>2. Beside(IngestNext) \/ GatewayCrash => Shrinks(cache')
    BY IngestOnlyDeletes DEF Beside, GatewayCrash, IngestNext
  <2>3. Evicts => Shrinks(cache')
    BY WithoutShrinks DEF Evicts, CacheOnly
  <2> QED
    BY <2>1, <2>2, <2>3, GatewaySteps, ReaderMovesLeave DEF vars, CsmWrites
<1>2. CASE Shrinks(cache')
  BY <1>2 DEF Shrinks, CacheHas
<1>3. ASSUME NEW d \in Readers, Store(d), ~CacheHas(k, v) PROVE Carries(d, k, v)
  BY <1>3 DEF Store, StoreLands, Setex, CacheHas, Carries
<1> QED
  BY <1>1, <1>2, <1>3

\* What a reader comes to carry is what it carried, or the rows just read.
LEMMA WhoCarries ==
    ASSUME GatewayTypeInv, AnswerInv, [GatewayNext]_vars, NEW d \in Readers,
           NEW k, NEW v, Carries(d, k, v)'
    PROVE  /\ Backed(k, v)
           /\ step'[d] = "page" => k[1] = "trades"
           /\ step'[d] = "previous" => k[1] = "metrics" /\ \E x : v = <<x>>
<1> USE DEF GatewayTypeInv, GatewayTypeOK
<1>1. CASE step'[d] = step[d] /\ target'[d] = target[d] /\ answer'[d] = answer[d]
  BY <1>1 DEF AnswerInv, Carries
<1>2. CASE Query(d)
  <2>1. /\ target[d] = k
        /\ v = FirstAnswer(k)
        /\ v # NoAnswer
        /\ step'[d] = AfterFirst(k)
    BY <1>2 DEF Query, Carries
  <2>2. /\ AfterFirst(k) = "page" => k[1] = "trades"
        /\ AfterFirst(k) = "previous" => k[1] = "metrics"
    BY DEF AfterFirst
  <2> QED
    BY <2>1, <2>2, FirstAnswerIs
<1>3. CASE QueryPage(d)
  <2>1. k[1] = "trades" /\ step'[d] = "store"
    BY <1>3 DEF QueryPage, Carries, AnswerInv
  <2> QED
    BY <2>1 DEF Backed
<1>4. CASE QueryPrevious(d)
  <2>1. target[d] = k /\ k[1] = "metrics" /\ step'[d] = "store"
    BY <1>4 DEF QueryPrevious, Carries, AnswerInv
  <2>2. PICK x : answer[d] = <<x>>
    BY <1>4 DEF QueryPrevious, AnswerInv
  <2>3. Backed(k, <<x>>)
    BY <1>4, <2>1, <2>2 DEF QueryPrevious, Carries, AnswerInv
  <2>4. v = <<x>> \o PreviousSnapshot(x.date)
    BY <1>4, <2>2 DEF QueryPrevious, Carries
  <2> QED
    BY <2>1, <2>3, <2>4, SecondAnswerIs
<1>5. step'[d] \in {"page", "previous", "store"}
  BY DEF Carries
<1> QED
  BY <1>1, <1>2, <1>3, <1>4, <1>5, WhoHasAnAnswer

LEMMA AnswerStep ==
    ASSUME GatewayTypeInv, WriterInv, AnswerInv, [GatewayNext]_vars
    PROVE  AnswerInv'
<1>0. GatewayTypeInv'
  BY GatewayTypeStep
<1>1. ASSUME NEW k, NEW v, CacheHas(k, v)' PROVE Backed(k, v)'
  <2>1. Backed(k, v)
    BY <1>1, WhoCaches DEF AnswerInv
  <2>2. k \in Keys
    BY <1>0, <1>1 DEF CacheHas, GatewayTypeInv, TypeOK
  <2> QED
    BY <2>1, <2>2, BackedStays
<1>2. ASSUME NEW d \in Readers, NEW k, NEW v, Carries(d, k, v)' PROVE Backed(k, v)'
  <2>1. Backed(k, v)
    BY <1>2, WhoCarries
  <2>2. k \in Keys
    BY <1>0, <1>2 DEF Carries, GatewayTypeInv, GatewayTypeOK
  <2> QED
    BY <2>1, <2>2, BackedStays
<1>3. ASSUME NEW d \in Readers
      PROVE  /\ step'[d] = "page" => target'[d][1] = "trades"
             /\ step'[d] = "previous" =>
                   target'[d][1] = "metrics" /\ \E x : answer'[d] = <<x>>
  <2>1. PICK k, v : k = target'[d] /\ v = answer'[d]
    OBVIOUS
  <2>2. step'[d] \in {"page", "previous"} => Carries(d, k, v)'
    BY <2>1 DEF Carries
  <2> QED
    BY <2>1, <2>2, WhoCarries
<1> QED
  BY <1>1, <1>2, <1>3 DEF AnswerInv

\* What is cached of a strategy's performance or report, of a snapshot or of
\* the metrics is an answer made of stored rows, those its key is about, and
\* never an absence, whatever fails and however many ingests and readers
\* overlap: a 404 or a ServiceError comes before the set_cached, and what was
\* read is replaced but not removed between the query and the SETEX.
THEOREM CachedRowsExist == GatewaySpec => []CachedHasRow
<1>1. GatewayInit => AnswerInv
  BY DEF GatewayInit, Init, AnswerInv, CacheHas, Carries
<1>2. AnswerInv => CachedHasRow
  BY DEF AnswerInv, CacheHas, CachedHasRow
<1> QED
  BY <1>1, <1>2, AnswerStep, WriterInvariant, PTL DEF GatewaySpec

-----------------------------------------------------------------------------
(* Why a cached report may be out of date.                                 *)

\* Nothing but Postgres errors and midnights: a lost connection leaves a
\* committed report without its invalidation, and so do a failing Redis and a
\* crash.
ReportsAreDropped == Disruptions \subseteq {"postgres", "midnight"}

\* A report answer depends on the report rows of its strategy alone.
SameReports(sid) ==
    \A t \in Times : reports'[<<sid, t>>] = reports[<<sid, t>>]

LEMMA ReportAnswerSame ==
    ASSUME NEW sid, NEW arg, SameReports(sid)
    PROVE  ReportAt(sid, arg)' = ReportAt(sid, arg)
<1>1. InstantsOf(reports', sid) = InstantsOf(reports, sid)
  BY DEF SameReports, InstantsOf
<1>2. \A d : InstantsOn(reports', sid, d) = InstantsOn(reports, sid, d)
  BY <1>1 DEF InstantsOn
<1>3. LatestRow(reports', sid) = LatestRow(reports, sid)
  <2>1. CASE InstantsOf(reports, sid) = {}
    BY <1>1, <2>1 DEF LatestRow
  <2>2. CASE InstantsOf(reports, sid) # {}
    <3>1. Max(InstantsOf(reports, sid)) \in Times
      BY <2>2, LatestInstant DEF InstantsOf
    <3> QED
      BY <1>1, <3>1 DEF LatestRow, RowAt, SameReports
  <2> QED
    BY <2>1, <2>2
<1>4. LatestRowOn(reports', sid, arg) = LatestRowOn(reports, sid, arg)
  <2>1. CASE InstantsOn(reports, sid, arg) = {}
    BY <1>2, <2>1 DEF LatestRowOn
  <2>2. CASE InstantsOn(reports, sid, arg) # {}
    <3>1. Max(InstantsOn(reports, sid, arg)) \in Times
      BY <2>2, LatestInstant DEF InstantsOn, InstantsOf
    <3> QED
      BY <1>2, <3>1 DEF LatestRowOn, RowAt, SameReports
  <2> QED
    BY <2>1, <2>2
<1> QED
  BY <1>3, <1>4 DEF ReportAt

ReportKeys == Family({"report"})

LEMMA ReportKeysAre ==
    ASSUME NEW k \in ReportKeys
    PROVE  /\ k \in Keys
           /\ k[1] = "report"
           /\ k[2] \in Strategies
           /\ k \in PatternKeys("report", k[2])
           /\ Compute(k) = ReportAt(k[2], k[3])
<1>1. k \in Keys /\ k[1] = "report"
  BY DEF ReportKeys, Family
<1>2. k[2] \in Strategies
  BY <1>1, KeyFamilies DEF OverallKey, PerformanceKey, ReportKey, TradesKey,
                           BenchmarkKey, SnapshotKey, MetricsKey
<1> QED
  BY <1>1, <1>2, ComputeIs DEF PatternKeys

LEMMA ReportComputeSame ==
    ASSUME NEW k \in ReportKeys, SameReports(k[2])
    PROVE  Compute(k)' = Compute(k)
<1>1. ReportAt(k[2], k[3])' = ReportAt(k[2], k[3])
  BY ReportAnswerSame
<1>2. Compute(k)' = ReportAt(k[2], k[3])'
  BY ReportKeysAre DEF Compute
<1> QED
  BY <1>1, <1>2, ReportKeysAre

\* A handler between its commit and its first invalidation.
Dropping(k) == \E r \in Requests : pc[r] = "drop_reports" /\ payload[r].sid = k[2]

\* A handler that is to drop its reports does so next, and drops all of them.
LEMMA DroppingEnds ==
    ASSUME TypeOK, ReportsAreDropped, IngestNext, NEW k \in ReportKeys, Dropping(k)
    PROVE  Dropping(k)' \/ k \notin DOMAIN cache'
<1> PICK q \in Requests : pc[q] = "drop_reports" /\ payload[q].sid = k[2]
  BY DEF Dropping
<1> USE DEF tables, locals, TypeOK
<1> DEFINE Goal == Dropping(k)' \/ k \notin DOMAIN cache'
<1>0. pc'[q] = "drop_reports" /\ payload'[q] = payload[q] => Goal
  BY DEF Dropping
<1>1. ASSUME NEW r \in Requests, Arrive(r) PROVE Goal
  <2>1. PICK p \in Payloads : Accept(r, p) \/ RejectUnknown(r, p)
    BY <1>1 DEF Arrive
  <2> QED
    BY <1>0, <2>1 DEF Accept, RejectUnknown, Answer
<1>2. ASSUME NEW r \in Requests, DropReports(r) PROVE Goal
  <2>1. CASE r = q
    <3>1. DOMAIN cache' = DOMAIN cache \ PatternKeys("report", payload[q].sid)
      BY <1>2, <2>1, InvalidateOnlyDeletes DEF DropReports, ReportsAreDropped
    <3> QED
      BY <3>1, ReportKeysAre
  <2>2. CASE r # q
    BY <1>0, <1>2, <2>2 DEF DropReports, Goto
  <2> QED
    BY <2>1, <2>2
<1>3. ASSUME NEW r \in Requests,
             \/ Acquire(r) \/ UpsertDaily(r) \/ PersistReport(r) \/ Commit(r)
             \/ DropTrades(r) \/ DropBenchmarks(r) \/ SelectRound(r)
             \/ UpsertSnapshot(r) \/ DropOverall(r)
      PROVE  Goal
  BY <1>0, <1>3 DEF Acquire, UpsertDaily, PersistReport, Commit, DropTrades,
                    DropBenchmarks, SelectRound, UpsertSnapshot, DropOverall, Goto
<1>4. ASSUME NEW r \in Requests, NEW how, pc[r] # "drop_reports", Answer(r, how)
      PROVE  Goal
  BY <1>0, <1>4 DEF Answer
<1>5. ASSUME NEW r \in Requests, SkipSnapshot(r) PROVE Goal
  BY <1>4, <1>5 DEF SkipSnapshot
<1>6. ASSUME NEW r \in Requests, DropStrategy(r) PROVE Goal
  <2>1. pc[r] = "drop_strategies"
    BY <1>6 DEF DropStrategy
  <2>2. Answer(r, "201") \/ (Goto(r, "drop_strategies") /\ UNCHANGED payload)
    BY <1>6 DEF DropStrategy
  <2> QED
    BY <1>0, <1>4, <2>1, <2>2 DEF Goto
<1>7. ASSUME NEW r \in Requests, Fail(r) PROVE Goal
  BY <1>4, <1>7 DEF Fail, PersistFails, CommitUnconfirmed, AggregationRaises,
                    SnapshotFails, UpsertUnconfirmed, InTransaction
<1>8. CASE Midnight
  BY <1>0, <1>8 DEF Midnight
<1>9. ~Crash
  BY DEF ReportsAreDropped, Crash
<1> QED
  BY <1>1, <1>2, <1>3, <1>5, <1>6, <1>7, <1>8, <1>9 DEF IngestNext, Advance

\* A step that changes a report of k's strategy is a commit, which is about
\* to drop k.
LEMMA WhoChangesReports ==
    ASSUME TypeOK, ReportsAreDropped, IngestNext, NEW k \in ReportKeys
    PROVE  SameReports(k[2]) \/ Dropping(k)'
<1>1. CASE UNCHANGED reports
  BY <1>1 DEF SameReports
<1>2. ASSUME NEW r \in Requests, Commit(r) PROVE SameReports(k[2]) \/ Dropping(k)'
  <2>1. payload[r] \in PayloadType
    BY <1>2 DEF Commit, TypeOK
  <2>2. CASE payload[r].sid = k[2]
    BY <1>2, <2>2 DEF Commit, Goto, TypeOK, Dropping, locals
  <2>3. CASE payload[r].sid # k[2]
    <3>1. \A t \in Times : <<k[2], t>> \in RowKeys /\ <<k[2], t>> # KeyOf(r)
      BY <2>3, ReportKeysAre DEF RowKeys, KeyOf
    <3> QED
      BY <1>2, <2>1, <3>1, WriteBothEffect DEF Commit, SameReports
  <2> QED
    BY <2>2, <2>3
<1>3. ASSUME ~\E r \in Requests : Commit(r) PROVE UNCHANGED reports
  <2>1. ASSUME NEW r \in Requests, Arrive(r) PROVE UNCHANGED reports
    BY <2>1 DEF Arrive, Accept, RejectUnknown, tables
  <2>2. ASSUME NEW r \in Requests, Advance(r) PROVE UNCHANGED reports
    BY <1>3, <2>2 DEF Advance, Acquire, UpsertDaily, PersistReport, DropReports,
                      DropTrades, DropBenchmarks, SkipSnapshot, SelectRound,
                      UpsertSnapshot, DropOverall, DropStrategy, tables
  <2>3. ASSUME NEW r \in Requests, Fail(r) PROVE UNCHANGED reports
    BY <2>3 DEF Fail, PersistFails, CommitUnconfirmed, AggregationRaises,
                SnapshotFails, UpsertUnconfirmed, tables, ReportsAreDropped
  <2> QED
    BY <2>1, <2>2, <2>3 DEF IngestNext, Midnight, Crash, CrashHandlers, tables
<1> QED
  BY <1>1, <1>2, <1>3

LEMMA StalenessStep ==
    ASSUME ReportsAreDropped, GatewayTypeInv, ReportStalenessExplained, [GatewayNext]_vars
    PROVE  ReportStalenessExplained'
<1> SUFFICES ASSUME NEW k \in ReportKeys, Stale(k)'
             PROVE  k \in late' \/ Dropping(k)'
  BY DEF ReportStalenessExplained, ReportKeys, Dropping, Family
<1>0. Stale(k) => k \in late \/ Dropping(k)
  BY DEF ReportStalenessExplained, ReportKeys, Dropping
<1>1. CASE UNCHANGED vars
  <2>1. Compute(k)' = Compute(k)
    BY <1>1, ReportComputeSame DEF vars, ingestVars, SameReports
  <2> QED
    BY <1>0, <1>1, <2>1 DEF vars, ingestVars, Stale, Dropping
<1>2. CASE Beside(IngestNext)
  <2>1. SameReports(k[2]) \/ Dropping(k)'
    BY <1>2, WhoChangesReports DEF Beside, GatewayTypeInv
  <2>2. CASE SameReports(k[2])
    <3>1. k \in DOMAIN cache' /\ k \in DOMAIN cache /\ cache'[k] = cache[k]
      BY <1>2, IngestOnlyDeletes DEF Beside, Shrinks, Stale
    <3>2. Stale(k)
      BY <2>2, <3>1, ReportComputeSame DEF Stale
    <3>3. k \in late => k \in late'
      BY <1>2, <3>1 DEF Beside, LateIn
    <3>4. Dropping(k) => Dropping(k)'
      BY <1>2, <3>1, DroppingEnds DEF Beside, GatewayTypeInv
    <3> QED
      BY <1>0, <3>2, <3>3, <3>4
  <2> QED
    BY <2>1, <2>2
<1>3. CASE GatewayCrash
  BY <1>3 DEF GatewayCrash, Crash, ReportsAreDropped
<1>4. ASSUME UNCHANGED <<ingestVars, late>> PROVE k \in late' \/ Dropping(k)'
  <2>1. Compute(k)' = Compute(k)
    BY <1>4, ReportComputeSame DEF ingestVars, SameReports
  <2> QED
    BY <1>0, <1>4, <2>1 DEF ingestVars, Stale, Dropping
<1>5. ASSUME NEW d \in Readers, Store(d) PROVE k \in late' \/ Dropping(k)'
  <2>1. Compute(k)' = Compute(k)
    BY <1>5, ReportComputeSame DEF Store, SameReports, tables
  <2>2. CASE StoreLands(d) /\ k = target[d]
    BY <2>1, <2>2 DEF StoreLands, Setex, Stale
  <2>3. CASE StoreLands(d) /\ k # target[d]
    <3>1. Stale(k) /\ (k \in late => k \in late')
      BY <2>1, <2>3 DEF StoreLands, Setex, Stale
    <3> QED
      BY <1>0, <1>5, <3>1 DEF Store, Dropping, locals
  <2> QED
    BY <1>5, <2>2, <2>3 DEF Store, ReportsAreDropped
<1>6. CASE Evicts
  <2>1. Compute(k)' = Compute(k)
    BY <1>6, ReportComputeSame DEF Evicts, CacheOnly, SameReports, tables
  <2>2. Shrinks(cache') /\ late' = LateIn(cache') /\ UNCHANGED <<pc, payload>>
    BY <1>6, WithoutShrinks DEF Evicts, CacheOnly, locals
  <2>3. Stale(k) /\ (k \in late => k \in late')
    BY <2>1, <2>2 DEF Shrinks, LateIn, Stale
  <2> QED
    BY <1>0, <2>2, <2>3 DEF Dropping
<1> QED
  BY <1>1, <1>2, <1>3, <1>4, <1>5, <1>6, GatewaySteps, ReaderMovesLeave DEF CsmWrites

\* A report is served out of date only between the commit that replaced it and
\* the invalidation that follows it, or because a reader that had computed it
\* before the invalidation stored it after (the race that
\* invalidate_strategy_report_bundle leaves open).
THEOREM ReportStaleness ==
    ASSUME ReportsAreDropped
    PROVE  GatewaySpec => []ReportStalenessExplained
<1>1. GatewayInit => ReportStalenessExplained
  BY DEF GatewayInit, Init, ReportStalenessExplained, Stale
<1>2. GatewayTypeInv /\ ReportStalenessExplained /\ [GatewayNext]_vars
      => ReportStalenessExplained'
  BY StalenessStep
<1> QED
  BY <1>1, <1>2, GatewayTypeInvariant, PTL DEF GatewaySpec
=============================================================================
