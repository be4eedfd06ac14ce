------------------------------- MODULE Gateway -------------------------------
(***************************************************************************)
(* The read endpoints beside the ingest handlers: each answers from Redis  *)
(* or computes its answer from Postgres and stores it (cache-aside), while *)
(* handlers commit and invalidate, entries expire and the operator flushes.*)
(* A cached entry is the answer as it was computed, so that what a client  *)
(* is served can be compared with what the tables say.                     *)
(***************************************************************************)
EXTENDS Ingest

CONSTANTS
    Readers,        \* read handlers in flight at once (bound for TLC)
    ReadKeys,       \* the keys clients read in this instance
    TradeRevisions, \* contents of the tables of db_csm_set, empty ones included
    MaxInFlight     \* handlers of either kind in flight at once

ASSUME GatewayAssumption ==
    /\ ReadKeys \subseteq Keys
    /\ IsFiniteSet(Readers)
    /\ MaxInFlight \in Nat \ {0}

VARIABLES
    csm,        \* db_csm_set: per readable strategy, the revision of its trades
    step,       \* where each read handler is
    target,     \* the key it serves
    answer,     \* what it has computed
    status,     \* how it ended
    late        \* history: keys whose entry was out of date when stored

readVars == <<csm, step, target, answer, status>>
vars == <<ingestVars, readVars, late>>

NoAnswer == <<>>
Steps == {"idle", "lookup", "query", "page", "previous", "store"}
Statuses == {"none", "200", "404", "500"}

GatewayInit ==
    /\ Init
    /\ csm \in [ActiveIds -> TradeRevisions]
    /\ step = [d \in Readers |-> "idle"]
    /\ target = [d \in Readers |-> OverallKey]
    /\ answer = [d \in Readers |-> NoAnswer]
    /\ status = [d \in Readers |-> "none"]
    /\ late = {}

InFlight == Cardinality({r \in Requests : pc[r] # "idle"})
            + Cardinality({d \in Readers : step[d] # "idle"})

-----------------------------------------------------------------------------
(* What a miss computes, from the tables as they are now.                  *)

SnapshotDates == {d \in Days : snapshots[d] # NoRound}

\* An answer is a one-element sequence, NoAnswer when there is no row.
SnapshotOn(d) ==
    IF d \in SnapshotDates THEN <<[date |-> d, round |-> snapshots[d]]>> ELSE NoAnswer

LatestSnapshot ==
    IF SnapshotDates = {} THEN NoAnswer ELSE SnapshotOn(Max(SnapshotDates))

PreviousSnapshot(d) ==
    LET earlier == {e \in SnapshotDates : e < d}
    IN  IF earlier = {} THEN NoAnswer ELSE SnapshotOn(Max(earlier))

Found(row) == IF row = NoRow THEN NoAnswer ELSE <<row>>

SnapshotAt(arg) == IF arg = Latest THEN LatestSnapshot ELSE SnapshotOn(arg)

ReportAt(sid, arg) ==
    Found(IF arg = Latest THEN LatestRow(reports, sid)
                          ELSE LatestRowOn(reports, sid, arg))

\* Metrics compare a snapshot with the one before it.
MetricsOf(current) ==
    IF current = NoAnswer THEN NoAnswer
    ELSE current \o PreviousSnapshot(current[1].date)

\* NoAnswer stands for the cases in which the code answers an error instead of
\* a response.  An overall answer over no rows, a page without trades and an
\* empty benchmark curve are responses like any other, and are stored: the
\* first is <<LatestRows>> with an empty domain, the others are among the
\* contents that TradeRevisions may list.
Compute(k) ==
    CASE k[1] = "overall"     -> <<LatestRows(daily)>>
      [] k[1] = "performance" -> Found(LatestRow(daily, k[2]))
      [] k[1] = "report"      -> ReportAt(k[2], k[3])
      [] k[1] = "trades"      -> <<csm[k[2]], csm[k[2]]>>
      [] k[1] = "benchmark"   -> <<csm[k[2]]>>
      [] k[1] = "snapshot"    -> SnapshotAt(k[3])
      [] k[1] = "metrics"     -> MetricsOf(SnapshotAt(k[3]))

-----------------------------------------------------------------------------
(* A read handler.                                                         *)

LateIn(entries) == {k \in late : k \in DOMAIN entries}

\* The handler returns; what it had computed dies with it.
End(d, code) ==
    /\ step' = [step EXCEPT ![d] = "idle"]
    /\ answer' = [answer EXCEPT ![d] = NoAnswer]
    /\ target' = [target EXCEPT ![d] = OverallKey]
    /\ status' = [status EXCEPT ![d] = code]

\* _ensure_active and its inline copies: 404 before the cache is looked at.
Readable(k) == k[2] = NoSid \/ IsReadable(k[2])

Ask(d, k) ==
    /\ step[d] = "idle"
    /\ InFlight < MaxInFlight
    /\ IF Readable(k)
       THEN /\ target' = [target EXCEPT ![d] = k]
            /\ step' = [step EXCEPT ![d] = "lookup"]
            /\ status' = [status EXCEPT ![d] = "none"]
            /\ UNCHANGED answer
       ELSE End(d, "404")
    /\ UNCHANGED <<ingestVars, csm, late>>

Hit(d) ==
    /\ step[d] = "lookup"
    /\ target[d] \in DOMAIN cache
    /\ End(d, "200")
    /\ UNCHANGED <<ingestVars, csm, late>>

Miss(d) ==
    /\ step[d] = "lookup"
    /\ target[d] \notin DOMAIN cache
    /\ step' = [step EXCEPT ![d] = "query"]
    /\ UNCHANGED <<ingestVars, csm, target, answer, status, late>>

\* get_cached raises CacheError; no endpoint catches it.
LookupFails(d) ==
    /\ "redis" \in Disruptions
    /\ step[d] = "lookup"
    /\ End(d, "500")
    /\ UNCHANGED <<ingestVars, csm, late>>

\* Trades and benchmarks are read through the pool of db_csm_set.
PoolServes(k) == k[1] \in {"trades", "benchmark"} \/ ConnectionFree

\* The first query.  For metrics it is the current snapshot only, for trades
\* the count the page is to be read beside.
FirstAnswer(k) ==
    CASE k[1] = "metrics" -> SnapshotAt(k[3])
      [] k[1] = "trades"  -> <<csm[k[2]]>>
      [] OTHER            -> Compute(k)

AfterFirst(k) ==
    CASE k[1] = "metrics" -> "previous"
      [] k[1] = "trades"  -> "page"
      [] OTHER            -> "store"

Query(d) ==
    LET k == target[d]
        found == FirstAnswer(k)
    IN  /\ step[d] = "query"
        /\ PoolServes(k)
        /\ found # NoAnswer
        /\ answer' = [answer EXCEPT ![d] = found]
        /\ step' = [step EXCEPT ![d] = AfterFirst(k)]
        /\ UNCHANGED <<ingestVars, csm, target, status, late>>

\* Slip: an empty result is cached like any other.
QueryCachesNothing(d) ==
    LET k == target[d]
    IN  /\ step[d] = "query"
        /\ PoolServes(k)
        /\ FirstAnswer(k) = NoAnswer
        /\ step' = [step EXCEPT ![d] = "store"]
        /\ UNCHANGED <<ingestVars, csm, target, answer, status, late>>

\* Nothing found: never cached.  A strategy without rows is a ServiceError.
QueryFindsNothing(d) ==
    LET k == target[d]
    IN  /\ step[d] = "query"
        /\ PoolServes(k)
        /\ FirstAnswer(k) = NoAnswer
        /\ End(d, IF k[1] = "performance" THEN "500" ELSE "404")
        /\ UNCHANGED <<ingestVars, csm, late>>

\* Slip: asked for while the connection of the first query is still held.
QueryPreviousNested(d) ==
    /\ step[d] = "previous"
    /\ Cardinality(Holding) + 1 < PoolSize
    /\ answer' = [answer EXCEPT ![d] = @ \o PreviousSnapshot(@[1].date)]
    /\ step' = [step EXCEPT ![d] = "store"]
    /\ UNCHANGED <<ingestVars, csm, target, status, late>>

\* The previous snapshot, on a connection of its own.
QueryPrevious(d) ==
    /\ step[d] = "previous"
    /\ ConnectionFree
    /\ answer' = [answer EXCEPT ![d] = @ \o PreviousSnapshot(@[1].date)]
    /\ step' = [step EXCEPT ![d] = "store"]
    /\ UNCHANGED <<ingestVars, csm, target, status, late>>

\* The page of trades: a second statement on the same connection, and without
\* a transaction over both it may see rows that the count did not.
QueryPage(d) ==
    /\ step[d] = "page"
    /\ answer' = [answer EXCEPT ![d] = Append(@, csm[target[d][2]])]
    /\ step' = [step EXCEPT ![d] = "store"]
    /\ UNCHANGED <<ingestVars, csm, target, status, late>>

\* The rows are read but their curves cannot be joined: ValueError, which
\* compute_overall_performance does not turn into a ServiceError.
QueryRaises(d) ==
    /\ step[d] = "query"
    /\ target[d] = OverallKey
    /\ ConnectionFree
    /\ MayNotAlign(LatestRows(daily))
    /\ End(d, "500")
    /\ UNCHANGED <<ingestVars, csm, late>>

QueryFails(d) ==
    /\ Disruptions \intersect {"postgres", "connection"} # {}
    /\ step[d] \in {"query", "page", "previous"}
    /\ End(d, "500")
    /\ UNCHANGED <<ingestVars, csm, late>>

\* Slip: SET, without a time to live.
SetForGood(k, value) ==
    [key \in DOMAIN cache \union {k} |->
        IF key = k THEN [value |-> value, expires |-> FALSE] ELSE cache[key]]

\* Slip: the metrics are stored under the key of the snapshot they came from.
SetexUnderSnapshot(k, value) ==
    LET at == IF k[1] = "metrics" THEN SnapshotKey(k[3]) ELSE k
    IN  [key \in DOMAIN cache \union {at} |->
            IF key = at THEN [value |-> value, expires |-> TRUE] ELSE cache[key]]

\* SETEX: the value and its time to live in one command.
Setex(k, value) ==
    [key \in DOMAIN cache \union {k} |->
        IF key = k THEN [value |-> value, expires |-> TRUE] ELSE cache[key]]

StoreLands(d) ==
    LET k == target[d]
    IN  /\ cache' = Setex(k, answer[d])
        /\ late' = IF answer[d] = Compute(k) THEN late \ {k} ELSE late \union {k}

\* The answer is served whether or not it could be stored.
Store(d) ==
    /\ step[d] = "store"
    /\ \/ StoreLands(d)
       \/ "redis" \in Disruptions /\ UNCHANGED <<cache, late>>
    /\ End(d, "200")
    /\ UNCHANGED <<today, tables, pc, locals, reply, csm>>

ReaderAdvance(d) ==
    \/ Hit(d) \/ Miss(d) \/ Query(d) \/ QueryFindsNothing(d)
    \/ QueryPage(d) \/ QueryPrevious(d) \/ Store(d)

ReaderFail(d) == LookupFails(d) \/ QueryRaises(d) \/ QueryFails(d)

-----------------------------------------------------------------------------
(* Redis, the operator, the other database, the process.                   *)

CacheOnly(entries) ==
    /\ cache' = entries
    /\ late' = LateIn(entries)
    /\ UNCHANGED <<today, tables, pc, locals, reply, readVars>>

Expire(k) ==
    /\ k \in DOMAIN cache
    /\ cache[k].expires
    /\ CacheOnly(Without(cache, {k}))

\* POST /admin/cache/flush; a Redis failure part way is reported as 500.
Flush == DOMAIN cache # {} /\ CacheOnly(Without(cache, FlushKeys))

FlushFails ==
    /\ "redis" \in Disruptions
    /\ \E gone \in SUBSET (FlushKeys \intersect DOMAIN cache) :
          CacheOnly(Without(cache, gone))

\* csm-set writes its tables without telling the gateway.
CsmWrites(sid) ==
    /\ csm' \in {[csm EXCEPT ![sid] = v] : v \in TradeRevisions \ {csm[sid]}}
    /\ UNCHANGED <<ingestVars, step, target, answer, status, late>>

\* A step of the ingest side leaves the readers alone.
Beside(A) == A /\ late' = LateIn(cache') /\ UNCHANGED readVars

GatewayCrash ==
    /\ Crash
    /\ step' = [d \in Readers |-> "idle"]
    /\ answer' = [d \in Readers |-> NoAnswer]
    /\ status' = [d \in Readers |-> "none"]
    /\ target' = [d \in Readers |-> OverallKey]
    /\ UNCHANGED <<csm, late>>

GatewayNext ==
    \/ \E r \in Requests : \/ InFlight < MaxInFlight /\ Beside(Arrive(r))
                           \/ Beside(Advance(r))
                           \/ Beside(Fail(r))
    \/ Beside(Midnight)
    \/ GatewayCrash
    \/ \E d \in Readers : \/ \E k \in ReadKeys : Ask(d, k)
                          \/ ReaderAdvance(d)
                          \/ ReaderFail(d)
    \/ \E k \in Keys : Expire(k)
    \/ Flush \/ FlushFails
    \/ \E s \in ActiveIds : CsmWrites(s)

GatewaySpec == GatewayInit /\ [][GatewayNext]_vars

\* As in FairSpec, and Redis does expire what it was told to expire.
GatewayFairSpec ==
    /\ GatewaySpec
    /\ \A r \in Requests : SF_vars(Beside(Advance(r)))
    /\ \A d \in Readers : SF_vars(ReaderAdvance(d))
    /\ \A k \in Keys : WF_vars(Expire(k))

-----------------------------------------------------------------------------
(* Properties.                                                             *)

\* The shape of the variables this module adds.
GatewayTypeOK ==
    /\ DOMAIN cache \subseteq ReadKeys
    /\ csm \in [ActiveIds -> TradeRevisions]
    /\ step \in [Readers -> Steps]
    /\ \A d \in Readers : target[d] \in Keys
    /\ status \in [Readers -> Statuses]
    /\ late \subseteq DOMAIN cache

Stale(k) == k \in DOMAIN cache /\ cache[k].value # Compute(k)

Family(names) == {k \in Keys : k[1] \in names}

\* A report is never served out of date for longer than it takes its ingest
\* to get from the commit to the invalidation, except by an entry that a slow
\* reader stored out of date (invalidate_strategy_report_bundle).
ReportStalenessExplained ==
    \A k \in Family({"report"}) : Stale(k) =>
        \/ k \in late
        \/ \E r \in Requests : pc[r] = "drop_reports" /\ payload[r].sid = k[2]

\* With no ingest running, no cached report is out of date
\* (invalidate_strategy_report_keys: "so the next read recomputes instead of
\* serving a stale snapshot").
ReportsFreshAtRest == AtRest => \A k \in Family({"report"}) : ~Stale(k)

\* With no ingest running and today's round complete, the portfolio and
\* strategy performance answers are current: every ingest, of whichever date,
\* then ends in the invalidations of maybe_write_snapshot.  A round whose
\* curves cannot be joined raises before them.
PerformanceFreshOnceComplete ==
    AtRest /\ ActiveIds # {} /\ AllReported(today)
           /\ ~MayNotAlign(RoundRows(daily, today)) =>
        \A k \in Family({"overall", "performance"}) : ~Stale(k)

\* With no ingest running, no answer computed from db_gateway is out of date
\* ("the Dashboard never sees stale data after a Strategy Service posts a new
\* report").
NothingStaleAtRest ==
    AtRest => \A k \in Keys \ Family({"trades", "benchmark"}) : ~Stale(k)

\* The rows that the answer v to k names, in the tables as they are now.
ReportInstants(sid, arg) ==
    IF arg = Latest THEN InstantsOf(reports, sid) ELSE InstantsOn(reports, sid, arg)

SnapshotsFor(arg) == IF arg = Latest THEN SnapshotDates ELSE SnapshotDates \intersect {arg}

\* v answers k with a stored row of k's own strategy and date; metrics may add
\* one earlier snapshot.
Backed(k, v) ==
    /\ k[1] = "performance" => Len(v) = 1 /\ v[1].time \in InstantsOf(daily, k[2])
    /\ k[1] = "report"      => Len(v) = 1 /\ v[1].time \in ReportInstants(k[2], k[3])
    /\ k[1] = "snapshot"    => Len(v) = 1 /\ v[1].date \in SnapshotsFor(k[3])
    /\ k[1] = "metrics"     =>
          /\ Len(v) \in {1, 2}
          /\ v[1].date \in SnapshotsFor(k[3])
          /\ Len(v) = 2 => v[2].date \in {e \in SnapshotDates : e < v[1].date}

\* What is cached of a strategy's performance or report, of a snapshot or of
\* the metrics is an answer made of stored rows, those its key is about, and
\* never an absence (the 404s of portfolio.py and strategy_report.py and the
\* ServiceError of performance.py come before their set_cached); later upserts
\* may replace these rows, nothing removes them.  Nothing is said of the
\* overall answer, trades and benchmarks, whose empty answers are stored.
CachedHasRow ==
    \A k \in DOMAIN cache \intersect Family({"performance", "report", "snapshot", "metrics"}) :
        Backed(k, cache[k].value)

\* Redis being down turns no read into an error ("All cache failures must
\* degrade gracefully: log warning, compute fresh, never 500").
RedisFailsNoRead ==
    [][\A d \in Readers : step[d] = "lookup" => status'[d] # "500"]_vars

\* Once ingests stop, every answer is right again for good, and so are trades
\* and benchmarks once csm-set stops writing: what is stale expires, a torn
\* page of trades too, and no reader can store an old answer for ever.
Converges ==
    /\ <>[]AtRest =>
          <>[](\A k \in Keys \ Family({"trades", "benchmark"}) : ~Stale(k))
    /\ <>[][UNCHANGED csm]_vars =>
          <>[](\A k \in Family({"trades", "benchmark"}) : ~Stale(k))

\* Every read is answered.
EveryReadEnds == \A d \in Readers : step[d] # "idle" ~> step[d] = "idle"
=============================================================================
