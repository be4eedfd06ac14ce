------------------------------- MODULE Ingest --------------------------------
(***************************************************************************)
(* POST /api/v1/ingest/daily-report, from the payload to the reply: the    *)
(* transaction of services/ingestion.py, the report-key invalidation, and  *)
(* services/snapshot_writer.py, for any number of requests the event loop  *)
(* interleaves at their awaits.  One action is the code between two awaits *)
(* whose order another task can observe.                                   *)
(***************************************************************************)
EXTENDS Store

CONSTANTS
    Requests,       \* ingest handlers in flight at once (bound for TLC)
    Payloads,       \* what clients may post
    PoolSize,       \* connections of the asyncpg pool of db_gateway
    Disruptions,    \* what may go wrong in this instance
    NoPayload, NoDay

\* "postgres": a statement ends in asyncpg.PostgresError.  "connection": the
\* connection cannot be had or is lost (OSError, InterfaceError: not a
\* PostgresError).  "redis": a Redis command fails.  "crash": the gateway
\* process dies and restarts.  "midnight": the UTC date changes.
DisruptionKinds == {"postgres", "connection", "redis", "crash", "midnight"}

PayloadType == [sid : Strategies, time : Times, rev : Revisions]

ASSUME IngestAssumption ==
    /\ Payloads \subseteq PayloadType
    /\ NoPayload \notin PayloadType
    /\ NoDay \notin Days
    /\ PoolSize \in Nat \ {0}
    /\ Disruptions \subseteq DisruptionKinds
    /\ IsFiniteSet(Requests)

VARIABLES
    today,      \* datetime.now(UTC).date()
    daily,      \* daily_performance
    reports,    \* strategy_report_snapshot
    snapshots,  \* portfolio_snapshot: per midnight bucket, the rows aggregated
    cache,      \* Redis: cached key -> entry
    pc,         \* where each handler is
    payload,    \* its request body
    day,        \* `today` as maybe_write_snapshot read it
    round,      \* the rows its round SELECT returned
    todo,       \* the active entries whose key is still to be deleted
    reply       \* the status it answered with

tables == <<daily, reports, snapshots>>
locals == <<payload, day, round, todo>>
ingestVars == <<today, daily, reports, snapshots, cache,
                pc, payload, day, round, todo, reply>>

NoRound == [s \in {} |-> NoRow]

Labels == {"idle", "acquire", "upsert_daily", "persist_report", "commit",
           "drop_reports", "drop_trades", "drop_benchmarks",
           "select_round", "upsert_snapshot", "drop_overall", "drop_strategies"}
Replies == {"none", "201", "404", "500"}

Init ==
    /\ today \in Days
    /\ daily = EmptyTable
    /\ reports = EmptyTable
    /\ snapshots = [d \in Days |-> NoRound]
    /\ cache = [k \in {} |-> NoRow]
    /\ pc = [r \in Requests |-> "idle"]
    /\ payload = [r \in Requests |-> NoPayload]
    /\ day = [r \in Requests |-> NoDay]
    /\ round = [r \in Requests |-> NoRound]
    /\ todo = [r \in Requests |-> {}]
    /\ reply = [r \in Requests |-> "none"]

-----------------------------------------------------------------------------
\* The connection is held for the whole of `async with pool.acquire()`.
InTransaction(r) == pc[r] \in {"upsert_daily", "persist_report", "commit"}
Holding == {r \in Requests : InTransaction(r)}
ConnectionFree == Cardinality(Holding) < PoolSize

KeyOf(r) == <<payload[r].sid, payload[r].time>>
HasReport(r) == payload[r].rev \in Reporting

Goto(r, label) ==
    /\ pc' = [pc EXCEPT ![r] = label]
    /\ UNCHANGED reply

\* The handler returns and its locals die with it.  The payload of a request
\* answered 201 is kept: it is what the client takes for stored.
Answer(r, status) ==
    /\ pc' = [pc EXCEPT ![r] = "idle"]
    /\ reply' = [reply EXCEPT ![r] = status]
    /\ day' = [day EXCEPT ![r] = NoDay]
    /\ round' = [round EXCEPT ![r] = NoRound]
    /\ todo' = [todo EXCEPT ![r] = {}]
    /\ payload' = [payload EXCEPT ![r] = IF status = "201" THEN @ ELSE NoPayload]

-----------------------------------------------------------------------------
(* The request reaches the handler.                                        *)

Accept(r, p) ==
    /\ pc[r] = "idle"
    /\ IsRegistered(p.sid)
    /\ payload' = [payload EXCEPT ![r] = p]
    /\ pc' = [pc EXCEPT ![r] = "acquire"]
    /\ reply' = [reply EXCEPT ![r] = "none"]
    /\ UNCHANGED <<today, tables, cache, day, round, todo>>

RejectUnknown(r, p) ==
    /\ pc[r] = "idle"
    /\ ~IsRegistered(p.sid)
    /\ Answer(r, "404")
    /\ UNCHANGED <<today, tables, cache>>

-----------------------------------------------------------------------------
(* persist_daily_report: one transaction over both tables.  What it has    *)
(* written is visible to others at its commit only; until then the row it  *)
(* upserted is locked against other writers of the same key.               *)

Acquire(r) ==
    /\ pc[r] = "acquire"
    /\ ConnectionFree
    /\ Goto(r, "upsert_daily")
    /\ UNCHANGED <<today, tables, cache, locals>>

RowLocked(r) ==
    \E q \in Requests \ {r} :
        /\ pc[q] \in {"persist_report", "commit"}
        /\ KeyOf(q) = KeyOf(r)

\* Slip: the INSERT runs outside `conn.transaction()` and is visible at once.
UpsertDailyAutocommit(r) ==
    LET p == payload[r]
    IN  /\ pc[r] = "upsert_daily"
        /\ ~RowLocked(r)
        /\ daily' = Upsert(daily, p.sid, p.time, p.rev)
        /\ Goto(r, IF HasReport(r) THEN "persist_report" ELSE "commit")
        /\ UNCHANGED <<today, reports, snapshots, cache, locals>>

UpsertDaily(r) ==
    /\ pc[r] = "upsert_daily"
    /\ ~RowLocked(r)
    /\ Goto(r, IF HasReport(r) THEN "persist_report" ELSE "commit")
    /\ UNCHANGED <<today, tables, cache, locals>>

\* Slip: persist_report takes a connection of its own from the pool.
PersistReportOnOwnConnection(r) ==
    /\ pc[r] = "persist_report"
    /\ ConnectionFree
    /\ Goto(r, "commit")
    /\ UNCHANGED <<today, tables, cache, locals>>

PersistReport(r) ==
    /\ pc[r] = "persist_report"
    /\ Goto(r, "commit")
    /\ UNCHANGED <<today, tables, cache, locals>>

WriteBoth(r) ==
    LET p == payload[r]
    IN  /\ daily' = Upsert(daily, p.sid, p.time, p.rev)
        /\ reports' = IF HasReport(r)
                      THEN Upsert(reports, p.sid, p.time, p.rev)
                      ELSE reports
        /\ UNCHANGED snapshots

Commit(r) ==
    /\ pc[r] = "commit"
    /\ WriteBoth(r)
    /\ Goto(r, "drop_reports")
    /\ UNCHANGED <<today, cache, locals>>

\* Slip: the error is logged and the handler goes on to its 201.
PersistErrorSwallowed(r) ==
    /\ Disruptions \intersect {"postgres", "connection"} # {}
    /\ pc[r] = "acquire" \/ InTransaction(r)
    /\ Answer(r, "201")
    /\ UNCHANGED <<today, tables, cache>>

\* The transaction is rolled back and the client told 500.
PersistFails(r) ==
    /\ Disruptions \intersect {"postgres", "connection"} # {}
    /\ pc[r] = "acquire" \/ InTransaction(r)
    /\ Answer(r, "500")
    /\ UNCHANGED <<today, tables, cache>>

\* The server commits, the connection is lost before it says so.
CommitUnconfirmed(r) ==
    /\ "connection" \in Disruptions
    /\ pc[r] = "commit"
    /\ WriteBoth(r)
    /\ Answer(r, "500")
    /\ UNCHANGED <<today, cache>>

-----------------------------------------------------------------------------
(* Deleting cached keys.  Every invalidator swallows its failure, which    *)
(* may come after any part of the work is done.                            *)

Invalidate(K) ==
    \/ cache' = Without(cache, K)
    \/ /\ "redis" \in Disruptions
       /\ \E gone \in SUBSET (K \intersect DOMAIN cache) :
             cache' = Without(cache, gone)

\* Slip: the pattern lacks the `gateway:` prefix and matches no key.
DropReportsUnprefixed(r) ==
    /\ pc[r] = "drop_reports"
    /\ Invalidate({})
    /\ Goto(r, "drop_trades")
    /\ UNCHANGED <<today, tables, locals>>

\* Slip: only the latest report is dropped, not those cached by date.
DropLatestReport(r) ==
    /\ pc[r] = "drop_reports"
    /\ Invalidate({ReportKey(payload[r].sid, Latest)})
    /\ Goto(r, "drop_trades")
    /\ UNCHANGED <<today, tables, locals>>

DropReports(r) ==
    /\ pc[r] = "drop_reports"
    /\ Invalidate(PatternKeys("report", payload[r].sid))
    /\ Goto(r, "drop_trades")
    /\ UNCHANGED <<today, tables, locals>>

DropTrades(r) ==
    /\ pc[r] = "drop_trades"
    /\ Invalidate(PatternKeys("trades", payload[r].sid))
    /\ Goto(r, "drop_benchmarks")
    /\ UNCHANGED <<today, tables, locals>>

\* Slip: datetime.now() without UTC, in a zone ahead of it.
DropBenchmarksLocalDate(r) ==
    /\ pc[r] = "drop_benchmarks"
    /\ Invalidate(PatternKeys("benchmark", payload[r].sid))
    /\ day' = [day EXCEPT ![r] = today + 1]
    /\ Goto(r, "select_round")
    /\ UNCHANGED <<today, tables, payload, round, todo>>

\* maybe_write_snapshot reads the clock as soon as this returns.
DropBenchmarks(r) ==
    /\ pc[r] = "drop_benchmarks"
    /\ Invalidate(PatternKeys("benchmark", payload[r].sid))
    /\ day' = [day EXCEPT ![r] = today]
    /\ Goto(r, "select_round")
    /\ UNCHANGED <<today, tables, payload, round, todo>>

-----------------------------------------------------------------------------
(* maybe_write_snapshot.  Its SELECT and its UPSERT run on two connections *)
(* taken one after the other, outside any common transaction.              *)

\* Slip: off by one.
RoundMoreThanComplete(rows) == Cardinality(DOMAIN rows) > Cardinality(ActiveEntries)

RoundComplete(rows) == Cardinality(DOMAIN rows) >= Cardinality(ActiveEntries)

SkipSnapshot(r) ==
    /\ pc[r] = "select_round"
    /\ \/ ActiveEntries = {}
       \/ ConnectionFree /\ ~RoundComplete(RoundRows(daily, day[r]))
    /\ Answer(r, "201")
    /\ UNCHANGED <<today, tables, cache>>

SelectRound(r) ==
    /\ pc[r] = "select_round"
    /\ ActiveEntries # {}
    /\ ConnectionFree
    /\ RoundComplete(RoundRows(daily, day[r]))
    /\ round' = [round EXCEPT ![r] = RoundRows(daily, day[r])]
    /\ Goto(r, "upsert_snapshot")
    /\ UNCHANGED <<today, tables, cache, payload, day, todo>>

\* _compute_aggregates raises ValueError: not a ServiceError, so it goes
\* through the handler and the client gets 500 for a report that is stored.
AggregationRaises(r) ==
    LET rows == RoundRows(daily, day[r])
    IN  /\ pc[r] = "select_round"
        /\ ActiveEntries # {}
        /\ ConnectionFree
        /\ RoundComplete(rows)
        /\ MayNotAlign(rows)
        /\ Answer(r, "500")
        /\ UNCHANGED <<today, tables, cache>>

\* Slip: the clock is read again for the bucket.
WriteSnapshotInNewBucket(r) == snapshots' = [snapshots EXCEPT ![today] = round[r]]

\* Slip: ON CONFLICT (time) DO NOTHING.
WriteSnapshotOnce(r) ==
    snapshots' = [snapshots EXCEPT ![day[r]] = IF @ = NoRound THEN round[r] ELSE @]

WriteSnapshot(r) == snapshots' = [snapshots EXCEPT ![day[r]] = round[r]]

\* Slip: caches are dropped when the row is inserted, not when it is updated.
UpsertSnapshotQuietly(r) ==
    /\ pc[r] = "upsert_snapshot"
    /\ ConnectionFree
    /\ WriteSnapshot(r)
    /\ IF snapshots[day[r]] = NoRound
       THEN Goto(r, "drop_overall") /\ UNCHANGED locals
       ELSE Answer(r, "201")
    /\ UNCHANGED <<today, daily, reports, cache>>

UpsertSnapshot(r) ==
    /\ pc[r] = "upsert_snapshot"
    /\ ConnectionFree
    /\ WriteSnapshot(r)
    /\ Goto(r, "drop_overall")
    /\ UNCHANGED <<today, daily, reports, cache, locals>>

\* A PostgresError becomes a ServiceError, which the handler swallows; any
\* other exception goes through it and the client gets 500.
SnapshotFails(r) ==
    /\ pc[r] \in {"select_round", "upsert_snapshot"}
    /\ ActiveEntries # {}
    /\ \/ "postgres" \in Disruptions /\ Answer(r, "201")
       \/ "connection" \in Disruptions /\ Answer(r, "500")
    /\ UNCHANGED <<today, tables, cache>>

\* The row is written, the connection is lost before the server says so
\* (ConnectionDoesNotExistError is a PostgresError).
UpsertUnconfirmed(r) ==
    /\ "connection" \in Disruptions
    /\ pc[r] = "upsert_snapshot"
    /\ WriteSnapshot(r)
    /\ Answer(r, "201")
    /\ UNCHANGED <<today, daily, reports, cache>>

DropOverall(r) ==
    /\ pc[r] = "drop_overall"
    /\ Invalidate({OverallKey})
    /\ todo' = [todo EXCEPT ![r] = ActiveEntries]
    /\ Goto(r, "drop_strategies")
    /\ UNCHANGED <<today, tables, payload, day, round>>

\* One DELETE per active entry, in list order; the last one ends the request.
DropStrategy(r) ==
    /\ pc[r] = "drop_strategies"
    /\ \E i \in todo[r] :
        /\ \A j \in todo[r] : i <= j
        /\ Invalidate({PerformanceKey(Registry[i].id)})
        /\ IF todo[r] = {i}
           THEN Answer(r, "201")
           ELSE /\ todo' = [todo EXCEPT ![r] = @ \ {i}]
                /\ Goto(r, "drop_strategies")
                /\ UNCHANGED <<payload, day, round>>
    /\ UNCHANGED <<today, tables>>

-----------------------------------------------------------------------------
(* The world around the handlers.                                          *)

Midnight ==
    /\ "midnight" \in Disruptions
    /\ today + 1 \in Days
    /\ today' = today + 1
    /\ UNCHANGED <<tables, cache, pc, locals, reply>>

\* The process dies and comes back: transactions roll back, requests are
\* gone without an answer, Postgres and Redis keep what they hold.
CrashHandlers ==
    /\ pc' = [r \in Requests |-> "idle"]
    /\ payload' = [r \in Requests |-> NoPayload]
    /\ day' = [r \in Requests |-> NoDay]
    /\ round' = [r \in Requests |-> NoRound]
    /\ todo' = [r \in Requests |-> {}]
    /\ reply' = [r \in Requests |-> "none"]
    /\ UNCHANGED <<today, tables, cache>>

Crash == "crash" \in Disruptions /\ CrashHandlers

\* One step of handler r after the request was accepted, none failing.
Advance(r) ==
    \/ Acquire(r) \/ UpsertDaily(r) \/ PersistReport(r) \/ Commit(r)
    \/ DropReports(r) \/ DropTrades(r) \/ DropBenchmarks(r)
    \/ SkipSnapshot(r) \/ SelectRound(r) \/ UpsertSnapshot(r)
    \/ DropOverall(r) \/ DropStrategy(r)

Fail(r) ==
    \/ PersistFails(r) \/ CommitUnconfirmed(r)
    \/ AggregationRaises(r) \/ SnapshotFails(r) \/ UpsertUnconfirmed(r)

Arrive(r) == \E p \in Payloads : Accept(r, p) \/ RejectUnknown(r, p)

IngestNext ==
    \/ \E r \in Requests : Arrive(r) \/ Advance(r) \/ Fail(r)
    \/ Midnight
    \/ Crash

Spec == Init /\ [][IngestNext]_ingestVars

\* The event loop runs every ready task and asyncpg serves waiters in turn:
\* a handler that can go on does.  Nothing makes a client post.
FairSpec == Spec /\ \A r \in Requests : SF_ingestVars(Advance(r))

-----------------------------------------------------------------------------
(* Properties.                                                             *)

LocalRounds == {NoRound} \union Aggregates

\* The shape of every variable.
TypeOK ==
    /\ today \in Days
    /\ daily \in Tables
    /\ reports \in Tables
    /\ snapshots \in [Days -> LocalRounds]
    /\ DOMAIN cache \subseteq Keys
    /\ pc \in [Requests -> Labels]
    /\ payload \in [Requests -> PayloadType \union {NoPayload}]
    /\ \A r \in Requests :
          pc[r] # "idle" \/ reply[r] = "201" => payload[r] \in PayloadType
    /\ day \in [Requests -> Days \union {NoDay}]
    /\ round \in [Requests -> LocalRounds]
    /\ todo \in [Requests -> SUBSET ActiveEntries]
    /\ reply \in [Requests -> Replies]

\* "Atomic per strategy per day": at every key the report row and the daily
\* row come from the same payload whenever that payload carried a report, and
\* no report row stands without a daily row (persist_daily_report).
ReportMatchesDaily ==
    \A k \in RowKeys :
        /\ daily[k] \in Reporting => reports[k] = daily[k]
        /\ reports[k] # NoRow => daily[k] # NoRow

\* A client that was told 201 has its row, and its report if it sent one,
\* whatever failed after the commit and whoever wrote since.
AckedIsStored ==
    \A r \in Requests : reply[r] = "201" =>
        /\ daily[KeyOf(r)] # NoRow
        /\ HasReport(r) => reports[KeyOf(r)] # NoRow

\* Every active strategy has a row dated d.
AllReported(d) == \A s \in ActiveIds : InstantsOn(daily, s, d) # {}

\* A snapshot exists only for a date on which every active strategy has
\* reported, and aggregates rows of that date, also when the clock passes
\* midnight inside the writer or a report is dated another day.
SnapshotSound ==
    \A d \in Days : snapshots[d] # NoRound =>
        /\ AllReported(d)
        /\ DOMAIN snapshots[d] = ActiveIds
        /\ \A s \in ActiveIds :
              snapshots[d][s].time \in InstantsOn(daily, s, d)

\* A handler past its commit that has not given up on the snapshot.
WillClose(r) ==
    \/ pc[r] \in {"drop_reports", "drop_trades", "drop_benchmarks"}
    \/ pc[r] \in {"select_round", "upsert_snapshot"} /\ day[r] = today

\* Two strategies that commit at the same moment cannot both take the other
\* for missing: once all have reported for today, the snapshot exists or a
\* handler that will write it is still running.
RoundIsClosed ==
    ActiveIds # {} /\ AllReported(today) =>
        snapshots[today] # NoRound \/ \E r \in Requests : WillClose(r)

AtRest == \A r \in Requests : pc[r] = "idle"

\* With no handler running, today's snapshot is the aggregate of the latest
\* rows of today, if their curves can be joined: a repeated or corrected report
\* has replaced it.
SnapshotCurrentAtRest ==
    AtRest /\ snapshots[today] # NoRound /\ ~MayNotAlign(RoundRows(daily, today)) =>
        snapshots[today] = RoundRows(daily, today)

\* A failure of the snapshot writer never costs the client its 201 ("never let
\* snapshot failure block ingest acknowledgement").
SnapshotFailureIsAcked ==
    [][\A r \in Requests :
          pc[r] \in {"select_round", "upsert_snapshot"} => reply'[r] # "500"]_ingestVars

\* The handlers implement the promise of ReportBook: a request has entered its
\* report once its transaction has committed, and what it selected is its draft.
Book == INSTANCE ReportBook WITH
    book   <- [k \in RowKeys |-> [daily |-> daily[k], report |-> reports[k]]],
    closed <- snapshots,
    order  <- [r \in Requests |->
                  IF pc[r] = "acquire" \/ InTransaction(r) THEN "open"
                  ELSE IF pc[r] # "idle" THEN "entered"
                  ELSE IF reply[r] = "201" THEN "acked" ELSE "none"],
    slip   <- payload,
    draft  <- round

\* Whatever interleaves and fails, a client and a reader of the tables see no
\* more than requests entered, acknowledged and closed one step at a time.
ImplementsBook == Book!BookSpec

\* No handler waits for ever for a row lock or for a pool connection.
EveryRequestEnds == \A r \in Requests : pc[r] # "idle" ~> pc[r] = "idle"
=============================================================================
