---------------------------- MODULE Serial_proofs -----------------------------
(***************************************************************************)
(* Proofs about Gateway while it handles one request at a time: then what  *)
(* the invalidations and the snapshot writer leave behind is never out of  *)
(* date.  With two requests at once the runs show what goes wrong.         *)
(***************************************************************************)
EXTENDS Gateway_proofs

-----------------------------------------------------------------------------
(* One request at a time.                                                  *)

\* A handler's step leaves every other handler where it is.
LEMMA OneHandler ==
    ASSUME TypeOK, NEW r \in Requests, Arrive(r) \/ Advance(r) \/ Fail(r)
    PROVE  /\ Advance(r) \/ Fail(r) => pc[r] # "idle"
           /\ \A q \in Requests \ {r} :
                 /\ pc'[q] = pc[q]
                 /\ payload'[q] = payload[q]
                 /\ day'[q] = day[q]
                 /\ round'[q] = round[q]
                 /\ todo'[q] = todo[q]
<1> DEFINE Others == \A q \in Requests \ {r} :
                        /\ pc'[q] = pc[q]
                        /\ payload'[q] = payload[q]
                        /\ day'[q] = day[q]
                        /\ round'[q] = round[q]
                        /\ todo'[q] = todo[q]
<1> USE DEF tables, locals, TypeOK
<1>1. ASSUME NEW how, Answer(r, how) PROVE Others
  BY <1>1 DEF Answer
<1>2. ASSUME Arrive(r) PROVE Others
  BY <1>1, <1>2 DEF Arrive, Accept, RejectUnknown
<1>3. ASSUME \/ Acquire(r) \/ UpsertDaily(r) \/ PersistReport(r) \/ Commit(r)
             \/ DropReports(r) \/ DropTrades(r) \/ DropBenchmarks(r)
             \/ SelectRound(r) \/ UpsertSnapshot(r) \/ DropOverall(r)
      PROVE  Others /\ pc[r] # "idle"
  BY <1>3 DEF Acquire, UpsertDaily, PersistReport, Commit, DropReports, DropTrades,
              DropBenchmarks, SelectRound, UpsertSnapshot, DropOverall, Goto
<1>4. ASSUME SkipSnapshot(r) PROVE Others /\ pc[r] # "idle"
  BY <1>1, <1>4 DEF SkipSnapshot
<1>5. ASSUME DropStrategy(r) PROVE Others /\ pc[r] # "idle"
  <2>1. \/ Answer(r, "201")
        \/ \E i \in todo[r] : /\ Goto(r, "drop_strategies")
                              /\ todo' = [todo EXCEPT ![r] = @ \ {i}]
                              /\ UNCHANGED <<payload, day, round>>
    BY <1>5 DEF DropStrategy
  <2>2. pc[r] # "idle"
    BY <1>5 DEF DropStrategy
  <2> QED
    BY <1>1, <2>1, <2>2 DEF Goto
<1>6. ASSUME Fail(r) PROVE Others /\ pc[r] # "idle"
  BY <1>1, <1>6 DEF Fail, PersistFails, CommitUnconfirmed, AggregationRaises,
                    SnapshotFails, UpsertUnconfirmed, InTransaction
<1> QED
  BY <1>2, <1>3, <1>4, <1>5, <1>6 DEF Advance

LEMMA NoneInFlight ==
    ASSUME InFlight < 1
    PROVE  /\ \A r \in Requests : pc[r] = "idle"
           /\ \A d \in Readers : step[d] = "idle"
<1> DEFINE R == {r \in Requests : pc[r] # "idle"}
           D == {d \in Readers : step[d] # "idle"}
<1>1. IsFiniteSet(R) /\ IsFiniteSet(D)
  BY IngestAssumption, GatewayAssumption, FS_Subset
<1>2. Cardinality(R) \in Nat /\ Cardinality(D) \in Nat
  BY <1>1, FS_CardinalityType
<1>3. Cardinality(R) + Cardinality(D) < 1
  BY DEF InFlight
<1>4. Cardinality(R) = 0 /\ Cardinality(D) = 0
  <2> HIDE DEF R, D
  <2> QED
    BY <1>2, <1>3
<1>5. R = {} /\ D = {}
  <2> HIDE DEF R, D
  <2> QED
    BY <1>1, <1>4, FS_EmptySet
<1> QED
  BY <1>5

\* While a request of either kind is in flight, no other is.
Alone ==
    /\ \A q, r \in Requests : q # r => pc[q] = "idle" \/ pc[r] = "idle"
    /\ \A r \in Requests, d \in Readers : pc[r] = "idle" \/ step[d] = "idle"

LEMMA AloneStep ==
    ASSUME MaxInFlight = 1, GatewayTypeInv, Alone, [GatewayNext]_vars
    PROVE  Alone'
<1> USE DEF Alone
<1>1. CASE UNCHANGED <<pc, step>>
  BY <1>1
<1>2. ASSUME NEW r \in Requests, InFlight < MaxInFlight, Beside(Arrive(r)) PROVE Alone'
  BY <1>2, NoneInFlight, OneHandler DEF Beside, readVars, GatewayTypeInv
<1>3. ASSUME NEW r \in Requests, Beside(Advance(r)) \/ Beside(Fail(r)) PROVE Alone'
  BY <1>3, OneHandler DEF Beside, readVars, GatewayTypeInv
<1>4. CASE GatewayCrash
  BY <1>4 DEF GatewayCrash, Crash, CrashHandlers
<1>5. ASSUME NEW d \in Readers, NEW k \in ReadKeys, Ask(d, k) PROVE Alone'
  <2>1. /\ \A r \in Requests : pc[r] = "idle"
        /\ pc' = pc
    BY <1>5, NoneInFlight DEF Ask, ingestVars
  <2> QED
    BY <2>1
<1>6. ASSUME NEW d \in Readers, ReaderAdvance(d) \/ ReaderFail(d) PROVE Alone'
  <2>1. pc' = pc /\ \A e \in Readers : step[e] = "idle" => step'[e] = "idle"
    BY <1>6
       DEF ReaderAdvance, ReaderFail, Hit, Miss, Query, QueryFindsNothing, QueryPage,
           QueryPrevious, Store, LookupFails, QueryRaises, QueryFails, End, ingestVars,
           GatewayTypeInv, GatewayTypeOK
  <2> QED
    BY <2>1
<1> QED
  BY <1>1, <1>2, <1>3, <1>4, <1>5, <1>6
     DEF GatewayNext, vars, ingestVars, readVars, Beside, Midnight, Expire, Flush,
         FlushFails, CacheOnly, CsmWrites

-----------------------------------------------------------------------------
(* No reader stores an old answer.                                         *)

\* The keys whose answers are computed from the rows of db_gateway.
TableKeys == Family({"report", "overall", "performance"})

LEMMA TableAnswerSame ==
    ASSUME NEW k \in TableKeys, UNCHANGED <<daily, reports>>
    PROVE  Compute(k)' = Compute(k)
<1>1. k[1] \in {"report", "overall", "performance"}
  BY DEF TableKeys, Family
<1>2. CASE k[1] = "report"
  BY <1>2, ReportComputeSame DEF SameReports, ReportKeys, Family, TableKeys
<1>3. CASE k[1] = "overall"
  <2>1. Compute(k) = <<LatestRows(daily)>> /\ Compute(k)' = <<LatestRows(daily')>>
    BY <1>3 DEF Compute
  <2> QED
    BY <2>1
<1>4. CASE k[1] = "performance"
  <2>1. /\ Compute(k) = Found(LatestRow(daily, k[2]))
        /\ Compute(k)' = Found(LatestRow(daily', k[2]))
    BY <1>4 DEF Compute
  <2> QED
    BY <2>1
<1> QED
  BY <1>1, <1>2, <1>3, <1>4

\* A reader that is about to store has what a fresh query would give, because
\* no handler runs beside it; so no entry was out of date when stored.
SerialInv ==
    /\ Alone
    /\ \A d \in Readers :
          step[d] = "store" /\ target[d] \in TableKeys => answer[d] = Compute(target[d])
    /\ \A d \in Readers : step[d] \in {"page", "previous"} => target[d] \notin TableKeys
    /\ late \intersect TableKeys = {}

\* A reader in flight sees no row change.
LEMMA TablesStand ==
    ASSUME GatewayTypeInv, Alone, [GatewayNext]_vars, NEW d \in Readers, step[d] # "idle"
    PROVE  UNCHANGED <<daily, reports>>
<1>1. CASE [IngestNext]_ingestVars
  BY <1>1, OnlyCommitWrites DEF Alone
<1>2. CASE UNCHANGED <<today, tables, pc, locals, reply>>
  BY <1>2 DEF tables
<1> QED
  BY <1>1, <1>2, IngestSide

LEMMA SerialStep ==
    ASSUME MaxInFlight = 1, GatewayTypeInv, SerialInv, [GatewayNext]_vars
    PROVE  SerialInv'
<1> USE DEF GatewayTypeInv, GatewayTypeOK
<1>1. Alone'
  BY AloneStep DEF SerialInv
<1>2. ASSUME NEW d \in Readers, step'[d] = "store", target'[d] \in TableKeys
      PROVE  answer'[d] = Compute(target[d])'
  <2>1. \/ step[d] = "store" /\ target'[d] = target[d] /\ answer'[d] = answer[d]
        \/ Query(d) \/ QueryPage(d) \/ QueryPrevious(d)
    BY <1>2, WhoHasAnAnswer
  <2>2. CASE step[d] = "store" /\ target'[d] = target[d] /\ answer'[d] = answer[d]
    <3>1. UNCHANGED <<daily, reports>>
      BY <2>2, TablesStand DEF SerialInv
    <3>2. Compute(target[d]) = answer[d] /\ target[d] \in TableKeys
      BY <1>2, <2>2 DEF SerialInv
    <3>3. \A k \in TableKeys : Compute(k)' = Compute(k)
      BY <3>1, TableAnswerSame
    <3> QED
      BY <2>2, <3>2, <3>3
  <2>3. CASE Query(d)
    <3>1. target'[d] = target[d] /\ answer'[d] = FirstAnswer(target[d])
      BY <2>3 DEF Query
    <3>2. UNCHANGED <<daily, reports>>
      BY <2>3 DEF Query, ingestVars
    <3>3. \A k \in TableKeys : FirstAnswer(k) = Compute(k)
      BY DEF TableKeys, Family, FirstAnswer
    <3>4. \A k \in TableKeys : Compute(k)' = Compute(k)
      BY <3>2, TableAnswerSame
    <3> QED
      BY <1>2, <3>1, <3>3, <3>4
  <2>4. ~QueryPage(d) /\ ~QueryPrevious(d)
    BY <1>2 DEF QueryPage, QueryPrevious, SerialInv
  <2> QED
    BY <2>1, <2>2, <2>3, <2>4
<1>3. ASSUME NEW d \in Readers, step'[d] \in {"page", "previous"}
      PROVE  target'[d] \notin TableKeys
  <2>1. \A k \in TableKeys : AfterFirst(k) = "store"
    BY DEF TableKeys, Family, AfterFirst
  <2> QED
    BY <1>3, <2>1, WhoHasAnAnswer DEF Query, QueryPage, QueryPrevious, SerialInv
<1>4. late' \intersect TableKeys = {}
  <2>1. ASSUME NEW d \in Readers, Store(d) PROVE late' \intersect TableKeys = {}
    BY <2>1 DEF Store, StoreLands, SerialInv
  <2>2. CASE late' \subseteq late
    BY <2>2 DEF SerialInv
  <2> QED
    BY <2>1, <2>2, GatewaySteps, ReaderMovesLeave
       DEF vars, Beside, LateIn, GatewayCrash, Evicts, CacheOnly, CsmWrites
<1> QED
  BY <1>1, <1>2, <1>3, <1>4 DEF SerialInv

LEMMA SerialInvariant ==
    ASSUME MaxInFlight = 1
    PROVE  GatewaySpec => [](GatewayTypeInv /\ WriterInv /\ SerialInv)
<1>1. GatewayInit => SerialInv
  BY DEF GatewayInit, Init, SerialInv, Alone
<1>2. GatewayTypeInv /\ SerialInv /\ [GatewayNext]_vars => SerialInv'
  BY SerialStep
<1> QED
  BY <1>1, <1>2, WriterInvariant, PTL DEF GatewaySpec

\* With no ingest running no cached report is out of date: the invalidation
\* of an ingest leaves no report of its strategy behind, dated or latest
\* (invalidate_strategy_report_keys), and no read was in flight to put one
\* back.
THEOREM ReportsFresh ==
    ASSUME MaxInFlight = 1, ReportsAreDropped
    PROVE  GatewaySpec => []ReportsFreshAtRest
<1>1. SerialInv /\ ReportStalenessExplained => ReportsFreshAtRest
  BY DEF SerialInv, ReportStalenessExplained, ReportsFreshAtRest, AtRest, TableKeys, Family
<1> QED
  BY <1>1, SerialInvariant, ReportStaleness, PTL

-----------------------------------------------------------------------------
(* Why a cached performance answer may be out of date.  Nothing fails, the *)
(* date stands, and no active id is in the registry twice.                 *)

GoodDay == Disruptions = {} /\ NoRepeatedId

\* Every active strategy has reported for today and their curves can be joined.
Closable ==
    /\ ActiveIds # {}
    /\ AllReported(today)
    /\ ~MayNotAlign(RoundRows(daily, today))

PerformanceKeys == Family({"overall", "performance"})

\* A handler that comes to delete k unless it finds that today is not closable.
WillDropFor(r, k) ==
    \/ pc[r] \in {"drop_reports", "drop_trades", "drop_benchmarks", "select_round",
                  "upsert_snapshot", "drop_overall"}
    \/ /\ pc[r] = "drop_strategies"
       /\ k[1] = "performance"
       /\ \E i \in todo[r] : Registry[i].id = k[2]

WillDrop(k) == \E r \in Requests : WillDropFor(r, k)

\* Inductive for any number of requests at once.
PerformanceInv ==
    /\ \A r \in Requests : pc[r] \in {"select_round", "upsert_snapshot"} => day[r] = today
    /\ \A k \in DOMAIN cache : Readable(k)
    /\ \A d \in Readers : step[d] # "idle" => Readable(target[d])
    /\ \A k \in PerformanceKeys : Stale(k) => k \in late \/ WillDrop(k) \/ ~Closable

LEMMA InvalidateOne ==
    ASSUME "redis" \notin Disruptions, NEW x, Invalidate({x})
    PROVE  x \notin DOMAIN cache'
<1> DEFINE K == {x}
<1>1. Invalidate(K) => DOMAIN cache' = DOMAIN cache \ K
  <2> HIDE DEF K
  <2> QED
    BY InvalidateOnlyDeletes
<1> QED
  BY <1>1

LEMMA NothingFails ==
    ASSUME GoodDay
    PROVE  /\ ~Midnight
           /\ ~Crash
           /\ ~GatewayCrash
           /\ \A r \in Requests : Fail(r) <=> AggregationRaises(r)
BY DEF GoodDay, Midnight, Crash, GatewayCrash, Fail, PersistFails, CommitUnconfirmed,
       SnapshotFails, UpsertUnconfirmed

LEMMA PerformanceKeysAre ==
    ASSUME NEW k \in PerformanceKeys
    PROVE  /\ k \in Keys /\ k \in TableKeys
           /\ k = OverallKey \/ \E s \in Strategies : k = PerformanceKey(s)
           /\ k[1] = "performance" /\ Readable(k) =>
                 \E i \in ActiveEntries : Registry[i].id = k[2]
<1>1. k \in Keys /\ k[1] \in {"overall", "performance"}
  BY DEF PerformanceKeys, Family
<1>2. k = OverallKey \/ \E s \in Strategies : k = PerformanceKey(s)
  BY <1>1, KeyFamilies DEF OverallKey, PerformanceKey, ReportKey, TradesKey,
                           BenchmarkKey, SnapshotKey, MetricsKey
<1>3. ASSUME k[1] = "performance", Readable(k)
      PROVE  \E i \in ActiveEntries : Registry[i].id = k[2]
  BY <1>2, <1>3, KeysAssumption
     DEF OverallKey, PerformanceKey, Readable, IsReadable, ActiveEntries
<1> QED
  BY <1>1, <1>2, <1>3 DEF TableKeys, Family

\* A handler's step that does not commit leaves the rows and the date alone.
LEMMA RowsAndDateStand ==
    ASSUME "connection" \notin Disruptions,
           NEW r \in Requests, Arrive(r) \/ Advance(r) \/ Fail(r), ~Commit(r)
    PROVE  UNCHANGED <<daily, reports, today>>
<1> USE DEF tables
<1>1. ASSUME Arrive(r) PROVE UNCHANGED <<daily, reports, today>>
  BY <1>1 DEF Arrive, Accept, RejectUnknown
<1>2. ASSUME Advance(r) PROVE UNCHANGED <<daily, reports, today>>
  BY <1>2 DEF Advance, Acquire, UpsertDaily, PersistReport, DropReports, DropTrades,
              DropBenchmarks, SkipSnapshot, SelectRound, UpsertSnapshot, DropOverall,
              DropStrategy
<1>3. ASSUME Fail(r) PROVE UNCHANGED <<daily, reports, today>>
  BY <1>3 DEF Fail, PersistFails, CommitUnconfirmed, AggregationRaises, SnapshotFails,
              UpsertUnconfirmed
<1> QED
  BY <1>1, <1>2, <1>3

\* A handler that will drop k goes on to, deletes it, or finds that today is
\* not closable.
LEMMA WillDropEnds ==
    ASSUME GoodDay, TypeOK, NEW k \in PerformanceKeys, Readable(k),
           NEW r \in Requests, WillDropFor(r, k),
           Arrive(r) \/ Advance(r) \/ Fail(r),
           pc[r] \in {"select_round", "upsert_snapshot"} => day[r] = today
    PROVE  WillDropFor(r, k)' \/ k \notin DOMAIN cache' \/ ~Closable
<1> DEFINE Goal == WillDropFor(r, k)' \/ k \notin DOMAIN cache' \/ ~Closable
<1> USE DEF TypeOK, WillDropFor, locals
<1>0. "redis" \notin Disruptions
  BY DEF GoodDay
<1>1. ~Arrive(r)
  BY DEF Arrive, Accept, RejectUnknown
<1>2. CASE Acquire(r) \/ UpsertDaily(r) \/ PersistReport(r) \/ Commit(r)
  BY <1>2 DEF Acquire, UpsertDaily, PersistReport, Commit
<1>3. CASE \/ DropReports(r) \/ DropTrades(r) \/ DropBenchmarks(r)
           \/ SelectRound(r) \/ UpsertSnapshot(r)
  BY <1>3 DEF DropReports, DropTrades, DropBenchmarks, SelectRound, UpsertSnapshot, Goto
<1>4. CASE SkipSnapshot(r)
  <2>1. day[r] = today /\ (ActiveEntries = {} \/ ~RoundComplete(RoundRows(daily, today)))
    BY <1>4 DEF SkipSnapshot
  <2>2. ActiveEntries = {} => ActiveIds = {}
    BY DEF ActiveIds
  <2> QED
    BY <2>1, <2>2, IncompleteRoundLacksOne DEF Closable, GoodDay
<1>5. CASE AggregationRaises(r)
  BY <1>5 DEF AggregationRaises, Closable
<1>6. CASE DropOverall(r)
  <2>1. k = OverallKey => k \notin DOMAIN cache'
    BY <1>0, <1>6, InvalidateOne DEF DropOverall
  <2>2. ASSUME NEW s \in Strategies, k = PerformanceKey(s) PROVE WillDropFor(r, k)'
    <3>1. k[1] = "performance" /\ \E i \in ActiveEntries : Registry[i].id = k[2]
      BY <2>2, PerformanceKeysAre DEF PerformanceKey
    <3>2. pc'[r] = "drop_strategies" /\ todo'[r] = ActiveEntries
      BY <1>6 DEF DropOverall, Goto
    <3> QED
      BY <3>1, <3>2
  <2> QED
    BY <2>1, <2>2, PerformanceKeysAre
<1>7. CASE DropStrategy(r)
  <2>1. PICK i \in todo[r] :
           /\ Invalidate({PerformanceKey(Registry[i].id)})
           /\ IF todo[r] = {i}
              THEN Answer(r, "201")
              ELSE /\ todo' = [todo EXCEPT ![r] = @ \ {i}]
                   /\ Goto(r, "drop_strategies")
                   /\ UNCHANGED <<payload, day, round>>
    BY <1>7 DEF DropStrategy
  <2>2. PerformanceKey(Registry[i].id) \notin DOMAIN cache'
    BY <1>0, <2>1, InvalidateOne
  <2>3. PICK j \in todo[r] : k[1] = "performance" /\ Registry[j].id = k[2]
    BY <1>7 DEF DropStrategy
  <2>4. k = PerformanceKey(Registry[j].id)
    BY <2>3, PerformanceKeysAre DEF OverallKey, PerformanceKey
  <2>5. CASE i = j
    BY <2>2, <2>4, <2>5
  <2>6. CASE i # j
    <3>1. todo'[r] = todo[r] \ {i} /\ pc'[r] = "drop_strategies"
      BY <2>1, <2>6 DEF Goto
    <3> QED
      BY <2>3, <2>6, <3>1
  <2> QED
    BY <2>5, <2>6
<1> QED
  BY <1>1, <1>2, <1>3, <1>4, <1>5, <1>6, <1>7, NothingFails DEF Advance

\* On a good day a handler is at the writer only with today's date.
LEMMA DateReadIsToday ==
    ASSUME GoodDay, TypeOK, NEW r \in Requests, Arrive(r) \/ Advance(r) \/ Fail(r),
           pc[r] \in {"select_round", "upsert_snapshot"} => day[r] = today,
           pc'[r] \in {"select_round", "upsert_snapshot"}
    PROVE  day'[r] = today'
<1> USE DEF tables, locals, TypeOK
<1>1. ~Arrive(r)
  BY DEF Arrive, Accept, RejectUnknown, Answer
<1>2. ~Fail(r)
  BY NothingFails DEF AggregationRaises, Answer
<1>3. DropBenchmarks(r) \/ SelectRound(r)
  <2>1. ~DropStrategy(r)
    <3>1. DropStrategy(r) => Answer(r, "201") \/ Goto(r, "drop_strategies")
      BY DEF DropStrategy
    <3> QED
      BY <3>1 DEF Answer, Goto
  <2> QED
    BY <1>1, <1>2, <2>1
       DEF Advance, Acquire, UpsertDaily, PersistReport, Commit, DropReports, DropTrades,
           SkipSnapshot, UpsertSnapshot, DropOverall, Goto, Answer
<1> QED
  BY <1>3 DEF DropBenchmarks, SelectRound

\* A table answer that is out of date after a step of a handler was so before,
\* and the handlers that come to delete it are the same, unless this one has
\* found that today is not closable.
LEMMA HandlerKeepsPerformance ==
    ASSUME GoodDay, GatewayTypeInv, PerformanceInv,
           NEW r \in Requests, Arrive(r) \/ Advance(r) \/ Fail(r), late' = LateIn(cache'),
           NEW k \in PerformanceKeys, Stale(k)'
    PROVE  k \in late' \/ WillDrop(k)' \/ ~Closable'
<1> USE DEF GatewayTypeInv
<1>1. CASE Commit(r)
  BY <1>1 DEF Commit, Goto, WillDrop, WillDropFor, TypeOK
<1>2. CASE ~Commit(r)
  <2>1. UNCHANGED <<daily, reports, today>>
    BY <1>2, RowsAndDateStand DEF GoodDay
  <2>2. Shrinks(cache')
    <3>1. IngestNext
      BY DEF IngestNext
    <3> QED
      BY <3>1, IngestOnlyDeletes
  <2>3. k \in DOMAIN cache /\ k \in DOMAIN cache' /\ cache'[k] = cache[k]
    BY <2>2 DEF Shrinks, Stale
  <2>4. Stale(k)
    BY <2>1, <2>3, PerformanceKeysAre, TableAnswerSame DEF Stale
  <2>5. k \in late \/ WillDrop(k) \/ ~Closable
    BY <2>4 DEF PerformanceInv
  <2>6. k \in late => k \in late'
    BY <2>3 DEF LateIn
  <2>7. Closable' <=> Closable
    BY <2>1 DEF Closable, AllReported, InstantsOn, InstantsOf, RoundRows, RowAt,
                MayNotAlign
  <2>8. ASSUME NEW q \in Requests, WillDropFor(q, k)
        PROVE  WillDrop(k)' \/ ~Closable
    <3>1. CASE q = r
      <4>1. pc[r] \in {"select_round", "upsert_snapshot"} => day[r] = today
        BY DEF PerformanceInv
      <4>2. Readable(k)
        BY <2>3 DEF PerformanceInv
      <4> QED
        BY <2>3, <2>8, <3>1, <4>1, <4>2, WillDropEnds DEF WillDrop
    <3>2. CASE q # r
      <4>1. pc'[q] = pc[q] /\ todo'[q] = todo[q]
        BY <3>2, OneHandler
      <4> QED
        BY <2>8, <4>1 DEF WillDrop, WillDropFor
    <3> QED
      BY <3>1, <3>2
  <2> QED
    BY <2>5, <2>6, <2>7, <2>8 DEF WillDrop
<1> QED
  BY <1>1, <1>2

\* Only what is readable is served or cached.
LEMMA ReadableStep ==
    ASSUME GatewayTypeInv, [GatewayNext]_vars,
           \A k \in DOMAIN cache : Readable(k),
           \A d \in Readers : step[d] # "idle" => Readable(target[d])
    PROVE  /\ \A k \in DOMAIN cache' : Readable(k)
           /\ \A d \in Readers : step'[d] # "idle" => Readable(target'[d])
<1> DEFINE Cached == \A k \in DOMAIN cache' : Readable(k)
           Served == \A d \in Readers : step'[d] # "idle" => Readable(target'[d])
<1> USE DEF GatewayTypeInv, GatewayTypeOK
<1>1. Shrinks(cache') => Cached
  BY DEF Shrinks
<1>2. UNCHANGED cache => Cached
  OBVIOUS
<1>3. ASSUME NEW d \in Readers, NEW code, End(d, code) PROVE Served
  BY <1>3 DEF End
<1>4. CASE UNCHANGED vars
  BY <1>4 DEF vars, ingestVars, readVars
<1>5. CASE Beside(IngestNext)
  <2>1. Cached
    BY <1>1, <1>5, IngestOnlyDeletes DEF Beside
  <2> QED
    BY <1>5, <2>1 DEF Beside, readVars
<1>6. CASE GatewayCrash
  BY <1>2, <1>6 DEF GatewayCrash, Crash, CrashHandlers
<1>7. ASSUME NEW d \in Readers, ReaderMoves(d) PROVE Cached /\ Served
  <2>1. Cached
    BY <1>2, <1>7, ReaderMovesLeave DEF ingestVars
  <2>2. ASSUME NEW k \in ReadKeys, Ask(d, k) PROVE Served
    BY <1>3, <2>2 DEF Ask
  <2>3. CASE Hit(d) \/ QueryFindsNothing(d) \/ ReaderFail(d)
    BY <1>3, <2>1, <2>3 DEF Hit, QueryFindsNothing, ReaderFail, LookupFails,
                            QueryRaises, QueryFails
  <2>4. CASE Miss(d) \/ Query(d) \/ QueryPage(d) \/ QueryPrevious(d)
    BY <2>1, <2>4 DEF Miss, Query, QueryPage, QueryPrevious
  <2> QED
    BY <1>7, <2>1, <2>2, <2>3, <2>4 DEF ReaderMoves
<1>8. ASSUME NEW d \in Readers, Store(d) PROVE Cached /\ Served
  <2>1. Cached
    BY <1>2, <1>8 DEF Store, StoreLands, Setex
  <2> QED
    BY <1>3, <1>8, <2>1 DEF Store
<1>9. CASE Evicts
  BY <1>1, <1>9, WithoutShrinks DEF Evicts, CacheOnly, readVars
<1>10. ASSUME NEW s \in ActiveIds, CsmWrites(s) PROVE Cached /\ Served
  BY <1>2, <1>10 DEF CsmWrites, ingestVars
<1> QED
  BY <1>4, <1>5, <1>6, <1>7, <1>8, <1>9, <1>10, GatewaySteps

LEMMA PerformanceStep ==
    ASSUME GoodDay, GatewayTypeInv, PerformanceInv, [GatewayNext]_vars
    PROVE  PerformanceInv'
<1> DEFINE Moves(r) == Arrive(r) \/ Advance(r) \/ Fail(r)
<1>0. \/ \E r \in Requests : Moves(r) /\ late' = LateIn(cache')
      \/ UNCHANGED <<today, tables, pc, locals>>
  <2>1. Beside(IngestNext) => \E r \in Requests : Moves(r) /\ late' = LateIn(cache')
    BY NothingFails DEF Beside, IngestNext
  <2> QED
    BY <2>1, NothingFails, GatewaySteps, ReaderMovesLeave
       DEF vars, ingestVars, Store, Evicts, CacheOnly, CsmWrites, tables, locals
<1>1. ASSUME NEW q \in Requests, pc'[q] \in {"select_round", "upsert_snapshot"}
      PROVE  day'[q] = today'
  <2>1. CASE UNCHANGED <<today, tables, pc, locals>>
    BY <1>1, <2>1 DEF PerformanceInv, locals
  <2>2. ASSUME NEW r \in Requests, Moves(r) PROVE day'[q] = today'
    <3>1. CASE q = r
      BY <1>1, <2>2, <3>1, DateReadIsToday DEF GatewayTypeInv, PerformanceInv
    <3>2. CASE q # r
      <4>1. pc'[q] = pc[q] /\ day'[q] = day[q]
        BY <2>2, <3>2, OneHandler DEF GatewayTypeInv
      <4>2. today' = today
        BY <2>2, RowsAndDateStand DEF Commit, GoodDay
      <4> QED
        BY <1>1, <4>1, <4>2 DEF PerformanceInv
    <3> QED
      BY <3>1, <3>2
  <2> QED
    BY <1>0, <2>1, <2>2
<1>2. /\ \A k \in DOMAIN cache' : Readable(k)
      /\ \A d \in Readers : step'[d] # "idle" => Readable(target'[d])
  BY ReadableStep DEF PerformanceInv
<1>3. ASSUME NEW k \in PerformanceKeys, Stale(k)'
      PROVE  k \in late' \/ WillDrop(k)' \/ ~Closable'
  <2>1. CASE \E r \in Requests : Moves(r) /\ late' = LateIn(cache')
    BY <1>3, <2>1, HandlerKeepsPerformance
  <2>2. CASE UNCHANGED <<today, tables, pc, locals>>
    <3>1. Compute(k)' = Compute(k)
      BY <2>2, PerformanceKeysAre, TableAnswerSame DEF tables
    <3>2. (Closable' <=> Closable) /\ (WillDrop(k)' <=> WillDrop(k))
      BY <2>2 DEF Closable, AllReported, InstantsOn, InstantsOf, RoundRows, RowAt,
                  MayNotAlign, WillDrop, WillDropFor, tables, locals
    <3>3. Stale(k) => k \in late \/ WillDrop(k) \/ ~Closable
      BY DEF PerformanceInv
    <3>4. ASSUME Shrinks(cache'), late' = LateIn(cache')
          PROVE  Stale(k) /\ (k \in late => k \in late')
      BY <1>3, <3>1, <3>4 DEF Shrinks, LateIn, Stale
    <3>5. ASSUME NEW d \in Readers, Store(d)
          PROVE  k \in late' \/ (Stale(k) /\ (k \in late => k \in late'))
      <4>1. CASE StoreLands(d) /\ k = target[d]
        BY <1>3, <3>1, <4>1 DEF StoreLands, Setex, Stale
      <4>2. CASE StoreLands(d) /\ k # target[d]
        BY <1>3, <3>1, <4>2 DEF StoreLands, Setex, Stale
      <4> QED
        BY <3>5, <4>1, <4>2 DEF Store, GoodDay
    <3>6. CASE UNCHANGED <<cache, late>>
      BY <1>3, <3>1, <3>2, <3>3, <3>6 DEF Stale
    <3>7. CASE Beside(IngestNext)
      BY <3>2, <3>3, <3>4, <3>7, IngestOnlyDeletes DEF Beside
    <3>8. CASE Evicts
      BY <3>2, <3>3, <3>4, <3>8, WithoutShrinks DEF Evicts, CacheOnly
    <3> QED
      BY <3>2, <3>3, <3>5, <3>6, <3>7, <3>8, NothingFails, GatewaySteps, ReaderMovesLeave
         DEF vars, ingestVars, CsmWrites
  <2> QED
    BY <1>0, <2>1, <2>2
<1> QED
  BY <1>1, <1>2, <1>3 DEF PerformanceInv

\* When nothing fails and today's round can be closed, a portfolio or strategy
\* performance answer is out of date only until a handler past its commit has
\* deleted it, or because a slow reader stored it out of date: however many
\* handlers and readers interleave, each ingest of the day ends in the
\* invalidations of maybe_write_snapshot, of whatever date its own report is.
THEOREM PerformanceStaleness ==
    ASSUME GoodDay
    PROVE  GatewaySpec => []PerformanceInv
<1>1. GatewayInit => PerformanceInv
  BY DEF GatewayInit, Init, PerformanceInv, Stale
<1>2. GatewayTypeInv /\ PerformanceInv /\ [GatewayNext]_vars => PerformanceInv'
  BY PerformanceStep
<1> QED
  BY <1>1, <1>2, GatewayTypeInvariant, PTL DEF GatewaySpec

\* With no ingest running and today's round complete, the portfolio and
\* strategy performance answers are current, when requests are handled one at
\* a time: no read is then in flight to put an old answer back.
THEOREM PerformanceFresh ==
    ASSUME MaxInFlight = 1, GoodDay
    PROVE  GatewaySpec => []PerformanceFreshOnceComplete
<1>1. SerialInv /\ PerformanceInv => PerformanceFreshOnceComplete
  <2> SUFFICES ASSUME SerialInv, PerformanceInv, AtRest, Closable,
                      NEW k \in PerformanceKeys
               PROVE  ~Stale(k)
    BY DEF PerformanceFreshOnceComplete, Closable, PerformanceKeys
  <2>1. ~WillDrop(k)
    BY DEF AtRest, WillDrop, WillDropFor
  <2>2. k \notin late
    BY PerformanceKeysAre DEF SerialInv
  <2> QED
    BY <2>1, <2>2 DEF PerformanceInv
<1> QED
  BY <1>1, SerialInvariant, PerformanceStaleness, PTL

-----------------------------------------------------------------------------
(* Today's snapshot is the aggregate of the latest rows.  Redis may fail    *)
(* and the date change; a failing Postgres or a crash leaves a report       *)
(* committed and the snapshot as it was.                                    *)

SnapshotsAreWritten == Disruptions \subseteq {"redis", "midnight"} /\ NoRepeatedId

\* A handler that comes to replace the snapshot.
WillReplace(r) ==
    pc[r] \in {"drop_reports", "drop_trades", "drop_benchmarks",
               "select_round", "upsert_snapshot"}

\* No date has a snapshot before it comes, so a handler that carries a past
\* date finds today without one; and no row changes under a round that is
\* about to be written.
CurrentInv ==
    /\ \A d \in Days : d > today => snapshots[d] = NoRound
    /\ \A r \in Requests : pc[r] \in {"select_round", "upsert_snapshot"} =>
          /\ today >= day[r]
          /\ day[r] = today \/ snapshots[today] = NoRound
    /\ \A r \in Requests : pc[r] = "upsert_snapshot" =>
          round[r] = RoundRows(daily, day[r])
    /\ \/ snapshots[today] \in {NoRound, RoundRows(daily, today)}
       \/ MayNotAlign(RoundRows(daily, today))
       \/ \E r \in Requests : WillReplace(r)

LEMMA DaysAreNumbers == Days \subseteq Int
<1>1. \A t \in Times : t \in Nat /\ TicksPerDay \in Nat \ {0}
  BY TimesAssumption
<1>2. \A t \in Times : DayOf(t) \in Int
  BY <1>1 DEF DayOf
<1> QED
  BY <1>2 DEF Days

\* A snapshot never stands beside a round found incomplete.
LEMMA ClosedStaysComplete ==
    ASSUME TypeOK, SnapshotInv, NoRepeatedId, NEW d \in Days, snapshots[d] # NoRound
    PROVE  ActiveEntries # {} /\ RoundComplete(RoundRows(daily, d))
<1>1. Covers(snapshots[d], d)
  BY DEF SnapshotInv
<1>2. AllReported(d)
  BY <1>1 DEF Covers, AllReported
<1>3. RoundComplete(RoundRows(daily, d))
  BY <1>2, IncompleteRoundLacksOne
<1>4. ASSUME ActiveEntries = {} PROVE FALSE
  <2>1. ActiveIds = {}
    BY <1>4 DEF ActiveIds
  <2>2. DOMAIN snapshots[d] = {}
    BY <1>1, <2>1 DEF Covers
  <2>3. snapshots[d] \in [ActiveIds -> Rows]
    BY DEF TypeOK, LocalRounds, Aggregates
  <2>4. snapshots[d] = [s \in ActiveIds |-> snapshots[d][s]]
    BY <2>3
  <2>5. snapshots[d] = NoRound
    BY <2>1, <2>4 DEF NoRound
  <2> QED
    BY <2>5
<1> QED
  BY <1>3, <1>4

LEMMA ArrivalLeaves ==
    ASSUME TypeOK, NEW r \in Requests, Arrive(r)
    PROVE  /\ UNCHANGED <<today, tables, cache>>
           /\ pc[r] = "idle" /\ pc'[r] \in {"idle", "acquire"}
           /\ \A q \in Requests \ {r} :
                 pc'[q] = pc[q] /\ day'[q] = day[q] /\ round'[q] = round[q]
<1>1. PICK p \in Payloads : Accept(r, p) \/ RejectUnknown(r, p)
  BY DEF Arrive
<1>2. CASE Accept(r, p)
  BY <1>2, OneHandler DEF Accept, TypeOK
<1>3. CASE RejectUnknown(r, p)
  BY <1>3, OneHandler DEF RejectUnknown, Answer, TypeOK
<1> QED
  BY <1>1, <1>2, <1>3

\* While a handler is past its arrival no other is, so each of its steps keeps
\* the snapshot, replaces it, or leaves a handler that will.
LEMMA CurrentHandlerStep ==
    ASSUME SnapshotsAreWritten, TypeOK, SnapshotInv, DateRead, CurrentInv,
           NEW r \in Requests, Advance(r) \/ Fail(r),
           \A q \in Requests \ {r} : pc[q] = "idle"
    PROVE  CurrentInv'
<1> USE DEF tables, locals, TypeOK
<1>a. \A q \in Requests : pc'[q] # "idle" => q = r
  BY OneHandler
<1>b. /\ \A d \in Days : d > today => snapshots[d] = NoRound
      /\ pc[r] \in {"select_round", "upsert_snapshot"} =>
            /\ today >= day[r]
            /\ day[r] \in Days
            /\ day[r] = today \/ snapshots[today] = NoRound
      /\ pc[r] = "upsert_snapshot" => round[r] = RoundRows(daily, day[r])
      /\ \/ snapshots[today] \in {NoRound, RoundRows(daily, today)}
         \/ MayNotAlign(RoundRows(daily, today))
         \/ WillReplace(r)
  BY DEF CurrentInv, DateRead, WillReplace
<1>c. today \in Int /\ Days \subseteq Int
  BY DaysAreNumbers
<1>d. SUFFICES /\ \A d \in Days : d > today' => snapshots'[d] = NoRound
               /\ pc'[r] \in {"select_round", "upsert_snapshot"} =>
                     /\ today' >= day'[r]
                     /\ day'[r] = today' \/ snapshots'[today'] = NoRound
               /\ pc'[r] = "upsert_snapshot" => round'[r] = RoundRows(daily', day'[r])
               /\ \/ snapshots'[today'] \in {NoRound, RoundRows(daily', today')}
                  \/ MayNotAlign(RoundRows(daily', today'))
                  \/ WillReplace(r)'
  BY <1>a DEF CurrentInv
<1>1. CASE Commit(r)
  BY <1>1, <1>b DEF Commit, WriteBoth, Goto, WillReplace
<1>2. CASE Acquire(r) \/ UpsertDaily(r) \/ PersistReport(r) \/ DropOverall(r)
  BY <1>2, <1>b DEF Acquire, UpsertDaily, PersistReport, DropOverall, Goto, WillReplace
<1>3. CASE DropReports(r) \/ DropTrades(r)
  BY <1>3, <1>b DEF DropReports, DropTrades, Goto, WillReplace
<1>4. CASE DropBenchmarks(r)
  BY <1>4, <1>b, <1>c DEF DropBenchmarks, Goto, WillReplace
<1>5. CASE SelectRound(r)
  BY <1>5, <1>b DEF SelectRound, Goto, WillReplace
<1>6. CASE UpsertSnapshot(r)
  BY <1>6, <1>b, <1>c DEF UpsertSnapshot, WriteSnapshot, Goto, WillReplace
<1>7. CASE SkipSnapshot(r)
  <2>1. snapshots[today] = NoRound
    BY <1>7, <1>b, ClosedStaysComplete DEF SkipSnapshot, SnapshotsAreWritten
  <2> QED
    BY <1>7, <1>b, <2>1 DEF SkipSnapshot, Answer
<1>8. CASE DropStrategy(r)
  <2>1. pc[r] = "drop_strategies" /\ pc'[r] \in {"idle", "drop_strategies"}
    BY <1>8 DEF DropStrategy, Answer, Goto
  <2> QED
    BY <1>8, <1>b, <2>1 DEF DropStrategy, WillReplace
<1>9. CASE Fail(r)
  <2>1. "connection" \notin Disruptions /\ "postgres" \notin Disruptions
    BY DEF SnapshotsAreWritten
  <2>2. AggregationRaises(r)
    BY <1>9, <2>1 DEF Fail, PersistFails, CommitUnconfirmed, SnapshotFails,
                      UpsertUnconfirmed
  <2> QED
    BY <1>b, <2>2 DEF AggregationRaises, Answer
<1> QED
  BY <1>1, <1>2, <1>3, <1>4, <1>5, <1>6, <1>7, <1>8, <1>9 DEF Advance

LEMMA CurrentStands ==
    ASSUME CurrentInv, UNCHANGED <<today, daily, snapshots>>,
           \A q \in Requests :
              /\ WillReplace(q) => WillReplace(q)'
              /\ \/ pc'[q] \in {"idle", "acquire"}
                 \/ pc'[q] = pc[q] /\ day'[q] = day[q] /\ round'[q] = round[q]
    PROVE  CurrentInv'
<1>1. \A d : RoundRows(daily', d) = RoundRows(daily, d)
  OBVIOUS
<1>2. \A q \in Requests : pc'[q] \in {"select_round", "upsert_snapshot"} =>
         /\ today' >= day'[q]
         /\ day'[q] = today' \/ snapshots'[today'] = NoRound
  BY DEF CurrentInv
<1>3. \A q \in Requests : pc'[q] = "upsert_snapshot" =>
         round'[q] = RoundRows(daily', day'[q])
  BY <1>1 DEF CurrentInv
<1>4. \/ snapshots'[today'] \in {NoRound, RoundRows(daily', today')}
      \/ MayNotAlign(RoundRows(daily', today'))
      \/ \E q \in Requests : WillReplace(q)'
  <2> HIDE DEF WillReplace
  <2> QED
    BY <1>1 DEF CurrentInv
<1> QED
  BY <1>2, <1>3, <1>4 DEF CurrentInv

LEMMA CurrentStep ==
    ASSUME SnapshotsAreWritten, TypeOK, SnapshotInv, DateRead, CurrentInv, Alone,
           [IngestNext]_ingestVars
    PROVE  CurrentInv'
<1> USE DEF tables, locals, TypeOK
<1>1. CASE UNCHANGED ingestVars
  BY <1>1, CurrentStands DEF WillReplace, ingestVars
<1>2. ASSUME NEW r \in Requests, Arrive(r) PROVE CurrentInv'
  <2>1. /\ \A q \in Requests :
              \/ pc'[q] \in {"idle", "acquire"}
              \/ pc'[q] = pc[q] /\ day'[q] = day[q] /\ round'[q] = round[q]
        /\ \A q \in Requests : WillReplace(q) => WillReplace(q)'
    BY <1>2, ArrivalLeaves DEF WillReplace
  <2>2. UNCHANGED <<today, daily, snapshots>>
    BY <1>2, ArrivalLeaves
  <2> QED
    BY <2>1, <2>2, CurrentStands
<1>3. ASSUME NEW r \in Requests, Advance(r) \/ Fail(r) PROVE CurrentInv'
  <2>1. pc[r] # "idle"
    BY <1>3, OneHandler
  <2> QED
    BY <1>3, <2>1, CurrentHandlerStep DEF Alone
<1>4. CASE Midnight
  <2>1. /\ today \in Int /\ Days \subseteq Int
        /\ today' = today + 1 /\ today + 1 \in Days
        /\ UNCHANGED <<daily, snapshots, pc, day, round>>
    BY <1>4, DaysAreNumbers DEF Midnight
  <2>2. /\ \A d \in Days : d > today' => snapshots'[d] = NoRound
        /\ snapshots'[today'] = NoRound
    BY <2>1 DEF CurrentInv
  <2>3. ASSUME NEW q \in Requests, pc'[q] \in {"select_round", "upsert_snapshot"}
        PROVE  today' >= day'[q]
    <3>1. today >= day[q] /\ day[q] \in Int /\ day'[q] = day[q]
      BY <2>1, <2>3 DEF CurrentInv, DateRead
    <3> QED
      BY <2>1, <3>1
  <2>4. \A q \in Requests : pc'[q] = "upsert_snapshot" =>
           round'[q] = RoundRows(daily', day'[q])
    BY <2>1 DEF CurrentInv
  <2> QED
    BY <2>2, <2>3, <2>4 DEF CurrentInv
<1>5. ~Crash
  BY DEF SnapshotsAreWritten, Crash
<1> QED
  BY <1>1, <1>2, <1>3, <1>4, <1>5 DEF IngestNext

\* With no handler running, today's snapshot is the aggregate of the latest
\* rows of today: a repeated, corrected or late report has replaced it, also
\* when the date changed while a handler was about to write
\* (maybe_write_snapshot upserts again after every ingest of the day).
THEOREM SnapshotCurrent ==
    ASSUME MaxInFlight = 1, SnapshotsAreWritten
    PROVE  GatewaySpec => []SnapshotCurrentAtRest
<1>1. GatewayInit => CurrentInv
  BY DEF GatewayInit, Init, CurrentInv
<1>2. GatewayTypeInv /\ WriterInv /\ SerialInv /\ CurrentInv /\ [GatewayNext]_vars
      => CurrentInv'
  <2> SUFFICES ASSUME GatewayTypeInv, WriterInv, SerialInv, CurrentInv, [GatewayNext]_vars
               PROVE  CurrentInv'
    OBVIOUS
  <2>1. CASE [IngestNext]_ingestVars
    BY <2>1, CurrentStep DEF GatewayTypeInv, WriterInv, SerialInv
  <2>2. CASE UNCHANGED <<today, tables, pc, locals, reply>>
    BY <2>2, CurrentStands DEF WillReplace, tables, locals
  <2> QED
    BY <2>1, <2>2, IngestSide
<1>3. CurrentInv => SnapshotCurrentAtRest
  BY DEF CurrentInv, SnapshotCurrentAtRest, AtRest, WillReplace
<1> QED
  BY <1>1, <1>2, <1>3, SerialInvariant, PTL DEF GatewaySpec
=============================================================================
