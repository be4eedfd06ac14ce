---------------------------- MODULE Ingest_proofs ----------------------------
(***************************************************************************)
(* Proofs about Ingest, for every registry, set of payloads, pool size and *)
(* set of disruptions.                                                     *)
(***************************************************************************)
EXTENDS Ingest, FiniteSetTheorems, SequenceTheorems, TLAPS

-----------------------------------------------------------------------------
(* Facts about the queries.                                                *)

\* ORDER BY time DESC LIMIT 1 over a non-empty set of rows returns one of
\* them, and no other is later.
LEMMA LatestInstant ==
    ASSUME NEW S \in SUBSET Times, S # {}
    PROVE  /\ Max(S) \in S
           /\ \A u \in S : Max(S) >= u
BY TimesAssumption DEF Max

LEMMA ActiveIdsAreStrategies == ActiveIds \subseteq Strategies
<1> SUFFICES ASSUME NEW i \in ActiveEntries PROVE Registry[i].id \in Strategies
  BY DEF ActiveIds
<1>1. i \in DOMAIN Registry
  BY DEF ActiveEntries
<1>2. DOMAIN Registry = 1..Len(Registry)
  BY RegistryAssumption
<1>3. Registry[i] \in [id : Strategies, active : BOOLEAN]
  BY <1>1, <1>2, RegistryAssumption, ElementOfSeq
<1> QED
  BY <1>3

\* The round SELECT returns, for active strategies only, a stored row of the
\* date asked for.
LEMMA RoundRowsAreRows ==
    ASSUME NEW table \in Tables, NEW d
    PROVE  /\ DOMAIN RoundRows(table, d) \subseteq ActiveIds
           /\ \A s \in DOMAIN RoundRows(table, d) :
                 /\ RoundRows(table, d)[s] \in Rows
                 /\ RoundRows(table, d)[s].time \in InstantsOn(table, s, d)
<1> DEFINE Reported == {a \in ActiveIds : InstantsOn(table, a, d) # {}}
<1>1. DOMAIN RoundRows(table, d) = Reported
  BY DEF RoundRows
<1>2. ASSUME NEW s \in Reported
      PROVE  /\ RoundRows(table, d)[s] \in Rows
             /\ RoundRows(table, d)[s].time \in InstantsOn(table, s, d)
  <2> DEFINE t == Max(InstantsOn(table, s, d))
  <2>1. t \in InstantsOn(table, s, d)
    BY LatestInstant DEF InstantsOn, InstantsOf
  <2>2. RoundRows(table, d)[s] = RowAt(table, s, t)
    BY DEF RoundRows
  <2>3. s \in Strategies
    BY ActiveIdsAreStrategies
  <2>4. t \in Times /\ table[<<s, t>>] # NoRow
    BY <2>1 DEF InstantsOn, InstantsOf
  <2>5. table[<<s, t>>] \in Revisions
    BY <2>3, <2>4 DEF Tables, RowKeys
  <2> QED
    BY <2>1, <2>2, <2>4, <2>5 DEF RowAt, Rows
<1> QED
  BY <1>1, <1>2

LEMMA ActiveFinite ==
    /\ IsFiniteSet(ActiveEntries)
    /\ IsFiniteSet(ActiveIds)
    /\ Cardinality(ActiveEntries) \in Nat
    /\ Cardinality(ActiveIds) \in Nat
    /\ Cardinality(ActiveIds) <= Cardinality(ActiveEntries)
<1>1. IsFiniteSet(ActiveEntries)
  <2>1. DOMAIN Registry = 1..Len(Registry) /\ Len(Registry) \in Nat
    BY RegistryAssumption
  <2>2. IsFiniteSet(DOMAIN Registry)
    BY <2>1, FS_Interval
  <2> QED
    BY <2>2, FS_Subset DEF ActiveEntries
<1> DEFINE f == [i \in ActiveEntries |-> Registry[i].id]
<1>2. f \in Surjection(ActiveEntries, ActiveIds)
  BY DEF Surjection, ActiveIds
<1>3. IsFiniteSet(ActiveIds) /\ Cardinality(ActiveIds) <= Cardinality(ActiveEntries)
  BY <1>1, <1>2, FS_Surjection
<1> QED
  BY <1>1, <1>3, FS_CardinalityType

\* `len(rows) < len(active_ids)` is a comparison of numbers; that it is false
\* means that every active id has a row, repeated entries or not.
LEMMA CompleteRoundCoversActive ==
    ASSUME NEW table \in Tables, NEW d, RoundComplete(RoundRows(table, d))
    PROVE  /\ DOMAIN RoundRows(table, d) = ActiveIds
           /\ RoundRows(table, d) \in Aggregates
<1> DEFINE rows == RoundRows(table, d)
<1>1. DOMAIN rows \in SUBSET ActiveIds
  BY RoundRowsAreRows
<1>2. /\ IsFiniteSet(DOMAIN rows)
      /\ Cardinality(DOMAIN rows) <= Cardinality(ActiveIds)
      /\ Cardinality(DOMAIN rows) = Cardinality(ActiveIds) => ActiveIds = DOMAIN rows
  BY <1>1, ActiveFinite, FS_Subset
<1>3. Cardinality(DOMAIN rows) \in Nat
  BY <1>2, FS_CardinalityType
<1>4. Cardinality(DOMAIN rows) >= Cardinality(ActiveEntries)
  BY DEF RoundComplete
<1>5. DOMAIN rows = ActiveIds
  BY <1>2, <1>3, <1>4, ActiveFinite
<1>6. rows = [s \in DOMAIN rows |-> rows[s]]
  BY DEF RoundRows
<1>7. \A s \in ActiveIds : rows[s] \in Rows
  BY <1>5, RoundRowsAreRows
<1>8. rows \in Aggregates
  BY <1>5, <1>6, <1>7 DEF Aggregates
<1> QED
  BY <1>5, <1>8

-----------------------------------------------------------------------------
(* Type correctness.                                                       *)

\* Deleting keys, in full or in part, adds none.
LEMMA InvalidateShrinks ==
    ASSUME NEW K, Invalidate(K)
    PROVE  DOMAIN cache' \subseteq DOMAIN cache
BY DEF Invalidate, Without, Restrict

\* What a handler's step does to its control state and its locals.
LEMMA GotoType ==
    ASSUME TypeOK, NEW r \in Requests, NEW label \in Labels, Goto(r, label)
    PROVE  pc' \in [Requests -> Labels] /\ reply' \in [Requests -> Replies]
BY DEF Goto, TypeOK

LEMMA AnswerType ==
    ASSUME TypeOK, NEW r \in Requests, NEW status \in Replies, Answer(r, status),
           status = "201" => payload[r] \in PayloadType
    PROVE  /\ pc' \in [Requests -> Labels]
           /\ reply' \in [Requests -> Replies]
           /\ payload' \in [Requests -> PayloadType \union {NoPayload}]
           /\ \A q \in Requests :
                 pc'[q] # "idle" \/ reply'[q] = "201" => payload'[q] \in PayloadType
           /\ day' \in [Requests -> Days \union {NoDay}]
           /\ round' \in [Requests -> LocalRounds]
           /\ todo' \in [Requests -> SUBSET ActiveEntries]
<1>1. "idle" \in Labels /\ NoRound \in LocalRounds
  BY DEF Labels, LocalRounds
<1> QED
  BY <1>1 DEF Answer, TypeOK

LEMMA WriteBothType ==
    ASSUME TypeOK, NEW r \in Requests, payload[r] \in PayloadType, WriteBoth(r)
    PROVE  daily' \in Tables /\ reports' \in Tables /\ UNCHANGED snapshots
BY DEF TypeOK, WriteBoth, Upsert, Tables, RowKeys, PayloadType

\* One step, whoever takes it, keeps every variable's shape.
LEMMA TypeStep ==
    ASSUME TypeOK, [IngestNext]_ingestVars
    PROVE  TypeOK'
<1> USE DEF tables, locals
<1>1. CASE UNCHANGED ingestVars
  BY <1>1 DEF ingestVars, TypeOK
<1>2. ASSUME NEW r \in Requests, Arrive(r) PROVE TypeOK'
  <2>1. PICK p \in Payloads : Accept(r, p) \/ RejectUnknown(r, p)
    BY <1>2 DEF Arrive
  <2>2. p \in PayloadType
    BY IngestAssumption
  <2>3. CASE Accept(r, p)
    BY <2>2, <2>3 DEF Accept, TypeOK, Labels, Replies
  <2>4. CASE RejectUnknown(r, p)
    BY <2>4, AnswerType DEF RejectUnknown, TypeOK, Replies
  <2> QED
    BY <2>1, <2>3, <2>4
<1>3. ASSUME NEW r \in Requests, Acquire(r) \/ UpsertDaily(r) \/ PersistReport(r)
      PROVE  TypeOK'
  <2>1. PICK label \in Labels : Goto(r, label)
    BY <1>3 DEF Acquire, UpsertDaily, PersistReport, Labels
  <2>2. pc[r] # "idle"
    BY <1>3 DEF Acquire, UpsertDaily, PersistReport
  <2>3. UNCHANGED <<today, tables, cache, locals>>
    BY <1>3 DEF Acquire, UpsertDaily, PersistReport
  <2>4. \A q \in Requests : pc'[q] # "idle" \/ reply'[q] = "201" =>
                               pc[q] # "idle" \/ reply[q] = "201"
    BY <2>1, <2>2 DEF Goto, TypeOK
  <2> QED
    BY <2>1, <2>3, <2>4, GotoType DEF TypeOK
<1>4. ASSUME NEW r \in Requests, Commit(r) PROVE TypeOK'
  <2>1. payload[r] \in PayloadType
    BY <1>4 DEF Commit, TypeOK
  <2>2. daily' \in Tables /\ reports' \in Tables /\ UNCHANGED snapshots
    BY <1>4, <2>1, WriteBothType DEF Commit
  <2> QED
    BY <1>4, <2>1, <2>2 DEF Commit, Goto, TypeOK, Labels
<1>5. ASSUME NEW r \in Requests, DropReports(r) \/ DropTrades(r) PROVE TypeOK'
  <2>1. PICK label \in Labels : Goto(r, label)
    BY <1>5 DEF DropReports, DropTrades, Labels
  <2>2. pc[r] # "idle" /\ UNCHANGED <<today, tables, locals>>
    BY <1>5 DEF DropReports, DropTrades
  <2>3. DOMAIN cache' \subseteq DOMAIN cache
    BY <1>5, InvalidateShrinks DEF DropReports, DropTrades
  <2>4. \A q \in Requests : pc'[q] # "idle" \/ reply'[q] = "201" =>
                               pc[q] # "idle" \/ reply[q] = "201"
    BY <2>1, <2>2 DEF Goto, TypeOK
  <2> QED
    BY <2>1, <2>2, <2>3, <2>4, GotoType DEF TypeOK
<1>6. ASSUME NEW r \in Requests, DropBenchmarks(r) PROVE TypeOK'
  <2>1. DOMAIN cache' \subseteq DOMAIN cache
    BY <1>6, InvalidateShrinks DEF DropBenchmarks
  <2> QED
    BY <1>6, <2>1 DEF DropBenchmarks, Goto, TypeOK, Labels
<1>7. ASSUME NEW r \in Requests, SkipSnapshot(r) PROVE TypeOK'
  BY <1>7, AnswerType DEF SkipSnapshot, TypeOK, Replies
<1>8. ASSUME NEW r \in Requests, SelectRound(r) PROVE TypeOK'
  <2>1. RoundRows(daily, day[r]) \in LocalRounds
    BY <1>8, CompleteRoundCoversActive DEF SelectRound, TypeOK, LocalRounds
  <2> QED
    BY <1>8, <2>1 DEF SelectRound, Goto, TypeOK, Labels
<1>9. ASSUME NEW r \in Requests, UpsertSnapshot(r) PROVE TypeOK'
  <2>1. snapshots' \in [Days -> LocalRounds]
    BY <1>9 DEF UpsertSnapshot, WriteSnapshot, TypeOK
  <2> QED
    BY <1>9, <2>1 DEF UpsertSnapshot, Goto, TypeOK, Labels
<1>10. ASSUME NEW r \in Requests, DropOverall(r) PROVE TypeOK'
  <2>1. DOMAIN cache' \subseteq DOMAIN cache
    BY <1>10, InvalidateShrinks DEF DropOverall
  <2> QED
    BY <1>10, <2>1 DEF DropOverall, Goto, TypeOK, Labels
<1>11. ASSUME NEW r \in Requests, DropStrategy(r) PROVE TypeOK'
  <2>1. PICK i \in todo[r] :
           /\ Invalidate({PerformanceKey(Registry[i].id)})
           /\ IF todo[r] = {i}
              THEN Answer(r, "201")
              ELSE /\ todo' = [todo EXCEPT ![r] = @ \ {i}]
                   /\ Goto(r, "drop_strategies")
                   /\ UNCHANGED <<payload, day, round>>
    BY <1>11 DEF DropStrategy
  <2>2. DOMAIN cache' \subseteq DOMAIN cache
    BY <2>1, InvalidateShrinks
  <2>3. UNCHANGED <<today, tables>> /\ payload[r] \in PayloadType
    BY <1>11 DEF DropStrategy, TypeOK
  <2>4. CASE todo[r] = {i}
    BY <2>1, <2>2, <2>3, <2>4, AnswerType DEF TypeOK, Replies
  <2>5. CASE todo[r] # {i}
    BY <2>1, <2>2, <2>3, <2>5 DEF Goto, TypeOK, Labels
  <2> QED
    BY <2>4, <2>5
<1>12. ASSUME NEW r \in Requests, PersistFails(r) PROVE TypeOK'
  BY <1>12, AnswerType DEF PersistFails, TypeOK, Replies
<1>13. ASSUME NEW r \in Requests, CommitUnconfirmed(r) PROVE TypeOK'
  <2>1. daily' \in Tables /\ reports' \in Tables /\ UNCHANGED snapshots
    BY <1>13, WriteBothType DEF CommitUnconfirmed, TypeOK
  <2> QED
    BY <1>13, <2>1, AnswerType DEF CommitUnconfirmed, TypeOK, Replies
<1>14. ASSUME NEW r \in Requests, AggregationRaises(r) \/ SnapshotFails(r)
       PROVE  TypeOK'
  BY <1>14, AnswerType DEF AggregationRaises, SnapshotFails, TypeOK, Replies
<1>15. ASSUME NEW r \in Requests, UpsertUnconfirmed(r) PROVE TypeOK'
  <2>1. snapshots' \in [Days -> LocalRounds]
    BY <1>15 DEF UpsertUnconfirmed, WriteSnapshot, TypeOK
  <2> QED
    BY <1>15, <2>1, AnswerType DEF UpsertUnconfirmed, TypeOK, Replies
<1>16. CASE Midnight
  BY <1>16 DEF Midnight, TypeOK
<1>17. CASE Crash
  BY <1>17 DEF Crash, CrashHandlers, TypeOK, Labels, Replies, LocalRounds
<1> QED
  BY <1>1, <1>2, <1>3, <1>4, <1>5, <1>6, <1>7, <1>8, <1>9, <1>10, <1>11,
     <1>12, <1>13, <1>14, <1>15, <1>16, <1>17
     DEF IngestNext, Advance, Fail

LEMMA InitType == Init => TypeOK
<1> SUFFICES ASSUME Init PROVE TypeOK
  OBVIOUS
<1>1. EmptyTable \in Tables
  BY DEF EmptyTable, Tables
<1>2. NoRound \in LocalRounds /\ "idle" \in Labels /\ "none" \in Replies
  BY DEF LocalRounds, Labels, Replies
<1> QED
  BY <1>1, <1>2 DEF Init, TypeOK

\* Every variable keeps its shape, whatever fails and however the handlers
\* interleave.
THEOREM TypeCorrect == Spec => []TypeOK
<1>1. TypeOK /\ [IngestNext]_ingestVars => TypeOK'
  BY TypeStep
<1> QED
  BY <1>1, InitType, PTL DEF Spec

-----------------------------------------------------------------------------
(* Both tables are written together.                                       *)

\* The only code that writes daily_performance or strategy_report_snapshot is
\* a commit, which writes both; no other step touches either.
LEMMA OnlyCommitWrites ==
    ASSUME [IngestNext]_ingestVars
    PROVE  \/ UNCHANGED <<daily, reports>>
           \/ \E r \in Requests : pc[r] = "commit" /\ WriteBoth(r)
<1> USE DEF tables
<1>1. CASE UNCHANGED ingestVars
  BY <1>1 DEF ingestVars
<1>2. ASSUME NEW r \in Requests, Arrive(r) PROVE UNCHANGED <<daily, reports>>
  BY <1>2 DEF Arrive, Accept, RejectUnknown
<1>3. ASSUME NEW r \in Requests, Advance(r)
      PROVE  UNCHANGED <<daily, reports>> \/ (pc[r] = "commit" /\ WriteBoth(r))
  BY <1>3 DEF Advance, Acquire, UpsertDaily, PersistReport, Commit, DropReports,
              DropTrades, DropBenchmarks, SkipSnapshot, SelectRound,
              UpsertSnapshot, DropOverall, DropStrategy
<1>4. ASSUME NEW r \in Requests, Fail(r)
      PROVE  UNCHANGED <<daily, reports>> \/ (pc[r] = "commit" /\ WriteBoth(r))
  BY <1>4 DEF Fail, PersistFails, CommitUnconfirmed, AggregationRaises, SnapshotFails,
              UpsertUnconfirmed
<1>5. CASE Midnight \/ Crash
  BY <1>5 DEF Midnight, Crash, CrashHandlers
<1> QED
  BY <1>1, <1>2, <1>3, <1>4, <1>5 DEF IngestNext

\* What a commit leaves under a key: the payload under its own, and what was
\* there under any other.
LEMMA WriteBothEffect ==
    ASSUME TypeOK, NEW r \in Requests, payload[r] \in PayloadType, WriteBoth(r),
           NEW k \in RowKeys
    PROVE  /\ KeyOf(r) \in RowKeys
           /\ payload[r].rev \in Revisions
           /\ daily'[k] = IF k = KeyOf(r) THEN payload[r].rev ELSE daily[k]
           /\ reports'[k] = IF k = KeyOf(r) /\ HasReport(r)
                            THEN payload[r].rev ELSE reports[k]
BY DEF TypeOK, WriteBoth, Upsert, Tables, RowKeys, PayloadType, KeyOf

\* A row, once there, is never removed, only replaced.
LEMMA RowsStay ==
    ASSUME TypeOK, [IngestNext]_ingestVars, NEW k \in RowKeys
    PROVE  /\ daily[k] # NoRow => daily'[k] # NoRow
           /\ reports[k] # NoRow => reports'[k] # NoRow
<1>1. CASE UNCHANGED <<daily, reports>>
  BY <1>1
<1>2. ASSUME NEW r \in Requests, pc[r] = "commit", WriteBoth(r)
      PROVE  /\ daily[k] # NoRow => daily'[k] # NoRow
             /\ reports[k] # NoRow => reports'[k] # NoRow
  <2>1. payload[r] \in PayloadType
    BY <1>2 DEF TypeOK
  <2> QED
    BY <1>2, <2>1, WriteBothEffect, RevisionsAssumption
<1> QED
  BY <1>1, <1>2, OnlyCommitWrites

\* The daily row and the report row of a key never come apart, whatever
\* fails, and whichever handlers write that key (persist_daily_report).
THEOREM ReportsMatch == Spec => []ReportMatchesDaily
<1>1. Init => ReportMatchesDaily
  BY RevisionsAssumption DEF Init, ReportMatchesDaily, EmptyTable
<1>2. TypeOK /\ ReportMatchesDaily /\ [IngestNext]_ingestVars => ReportMatchesDaily'
  <2> SUFFICES ASSUME TypeOK, ReportMatchesDaily, [IngestNext]_ingestVars,
                      NEW k \in RowKeys
               PROVE  /\ daily'[k] \in Reporting => reports'[k] = daily'[k]
                      /\ reports'[k] # NoRow => daily'[k] # NoRow
    BY DEF ReportMatchesDaily
  <2>1. CASE UNCHANGED <<daily, reports>>
    BY <2>1 DEF ReportMatchesDaily
  <2>2. ASSUME NEW r \in Requests, pc[r] = "commit", WriteBoth(r)
        PROVE  /\ daily'[k] \in Reporting => reports'[k] = daily'[k]
               /\ reports'[k] # NoRow => daily'[k] # NoRow
    <3>1. payload[r] \in PayloadType
      BY <2>2 DEF TypeOK
    <3>2. CASE k = KeyOf(r)
      BY <2>2, <3>1, <3>2, WriteBothEffect, RevisionsAssumption DEF HasReport
    <3>3. CASE k # KeyOf(r)
      BY <2>2, <3>1, <3>3, WriteBothEffect DEF ReportMatchesDaily
    <3> QED
      BY <3>2, <3>3
  <2> QED
    BY <2>1, <2>2, OnlyCommitWrites
<1> QED
  BY <1>1, <1>2, TypeCorrect, PTL DEF Spec

-----------------------------------------------------------------------------
(* What was acknowledged is stored.                                        *)

AfterCommit == {"drop_reports", "drop_trades", "drop_benchmarks", "select_round",
                "upsert_snapshot", "drop_overall", "drop_strategies"}

Stored(r) ==
    /\ daily[KeyOf(r)] # NoRow
    /\ HasReport(r) => reports[KeyOf(r)] # NoRow

\* AckedIsStored alone is not inductive: the 201 comes several steps after
\* the commit that earns it.
CommittedIsStored ==
    \A r \in Requests : pc[r] \in AfterCommit \/ reply[r] = "201" => Stored(r)

\* A handler that was and is past its commit keeps its payload, and its rows
\* with it.
LEMMA StoredStays ==
    ASSUME TypeOK, [IngestNext]_ingestVars, NEW r \in Requests,
           payload[r] \in PayloadType, payload'[r] = payload[r], Stored(r)
    PROVE  Stored(r)'
<1>1. KeyOf(r) \in RowKeys
  BY DEF KeyOf, RowKeys, PayloadType
<1>2. /\ daily'[KeyOf(r)] # NoRow
      /\ reports[KeyOf(r)] # NoRow => reports'[KeyOf(r)] # NoRow
  BY <1>1, RowsStay DEF Stored
<1> QED
  BY <1>2 DEF Stored, KeyOf, HasReport

\* A handler comes to be past its commit, or to have answered 201, only by
\* committing or by having been there already, and keeps its payload.
LEMMA WhoIsPastCommit ==
    ASSUME TypeOK, [IngestNext]_ingestVars, NEW q \in Requests,
           pc'[q] \in AfterCommit \/ reply'[q] = "201"
    PROVE  /\ payload'[q] = payload[q]
           /\ \/ pc[q] \in AfterCommit \/ reply[q] = "201"
              \/ pc[q] = "commit" /\ WriteBoth(q)
<1> DEFINE Goal ==
        /\ payload'[q] = payload[q]
        /\ \/ pc[q] \in AfterCommit \/ reply[q] = "201"
           \/ pc[q] = "commit" /\ WriteBoth(q)
<1> USE DEF tables, locals, TypeOK, AfterCommit
<1>1. CASE UNCHANGED ingestVars
  BY <1>1 DEF ingestVars
<1>2. ASSUME NEW r \in Requests, Arrive(r) PROVE Goal
  <2>1. PICK p \in Payloads : Accept(r, p) \/ RejectUnknown(r, p)
    BY <1>2 DEF Arrive
  <2>2. CASE Accept(r, p)
    BY <2>2 DEF Accept
  <2>3. CASE RejectUnknown(r, p)
    BY <2>3 DEF RejectUnknown, Answer
  <2> QED
    BY <2>1, <2>2, <2>3
<1>3. ASSUME NEW r \in Requests, Acquire(r) \/ UpsertDaily(r) \/ PersistReport(r)
      PROVE  Goal
  BY <1>3 DEF Acquire, UpsertDaily, PersistReport, Goto
<1>4. ASSUME NEW r \in Requests, Commit(r) PROVE Goal
  BY <1>4 DEF Commit, Goto
<1>5. ASSUME NEW r \in Requests, DropReports(r) \/ DropTrades(r) \/ DropBenchmarks(r)
      PROVE  Goal
  BY <1>5 DEF DropReports, DropTrades, DropBenchmarks, Goto
<1>6. ASSUME NEW r \in Requests, SkipSnapshot(r) PROVE Goal
  BY <1>6 DEF SkipSnapshot, Answer
<1>7. ASSUME NEW r \in Requests, SelectRound(r) \/ UpsertSnapshot(r) \/ DropOverall(r)
      PROVE  Goal
  BY <1>7 DEF SelectRound, UpsertSnapshot, DropOverall, Goto
<1>8. ASSUME NEW r \in Requests, DropStrategy(r) PROVE Goal
  <2>1. pc[r] = "drop_strategies"
    BY <1>8 DEF DropStrategy
  <2>2. \/ Answer(r, "201")
        \/ Goto(r, "drop_strategies") /\ UNCHANGED payload
    BY <1>8 DEF DropStrategy
  <2> QED
    BY <2>1, <2>2 DEF Answer, Goto
<1>9. ASSUME NEW r \in Requests, PersistFails(r) \/ CommitUnconfirmed(r) PROVE Goal
  BY <1>9 DEF PersistFails, CommitUnconfirmed, Answer
<1>10. ASSUME NEW r \in Requests,
              AggregationRaises(r) \/ SnapshotFails(r) \/ UpsertUnconfirmed(r)
       PROVE  Goal
  BY <1>10 DEF AggregationRaises, SnapshotFails, UpsertUnconfirmed, Answer
<1>11. CASE Midnight
  BY <1>11 DEF Midnight
<1>12. CASE Crash
  BY <1>12 DEF Crash, CrashHandlers
<1> QED
  BY <1>1, <1>2, <1>3, <1>4, <1>5, <1>6, <1>7, <1>8, <1>9, <1>10, <1>11, <1>12
     DEF IngestNext, Advance, Fail

\* A 201 means stored, whatever has failed after the commit and whoever has
\* written since (api/v1/ingest.py, ingest_daily_report).
THEOREM AckedStored == Spec => []AckedIsStored
<1>1. Init => CommittedIsStored
  BY DEF Init, CommittedIsStored, AfterCommit
<1>2. TypeOK /\ CommittedIsStored /\ [IngestNext]_ingestVars => CommittedIsStored'
  <2> SUFFICES ASSUME TypeOK, CommittedIsStored, [IngestNext]_ingestVars,
                      NEW r \in Requests,
                      pc'[r] \in AfterCommit \/ reply'[r] = "201"
               PROVE  Stored(r)'
    BY DEF CommittedIsStored
  <2>1. payload'[r] = payload[r]
    BY WhoIsPastCommit
  <2>2. CASE pc[r] \in AfterCommit \/ reply[r] = "201"
    <3>1. payload[r] \in PayloadType
      BY <2>2 DEF TypeOK, AfterCommit
    <3>2. Stored(r)
      BY <2>2 DEF CommittedIsStored
    <3> QED
      BY <2>1, <3>1, <3>2, StoredStays
  <2>3. CASE pc[r] = "commit" /\ WriteBoth(r)
    <3>1. payload[r] \in PayloadType
      BY <2>3 DEF TypeOK
    <3>2. KeyOf(r) \in RowKeys
      BY <3>1 DEF KeyOf, RowKeys, PayloadType
    <3>3. /\ daily'[KeyOf(r)] # NoRow
          /\ HasReport(r) => reports'[KeyOf(r)] # NoRow
      BY <2>3, <3>1, <3>2, WriteBothEffect, RevisionsAssumption
    <3> QED
      BY <2>1, <3>3 DEF Stored, KeyOf, HasReport
  <2> QED
    BY <2>2, <2>3, WhoIsPastCommit
<1>3. CommittedIsStored => AckedIsStored
  BY DEF CommittedIsStored, AckedIsStored, Stored
<1> QED
  BY <1>1, <1>2, <1>3, TypeCorrect, PTL DEF Spec

-----------------------------------------------------------------------------
(* Snapshots.                                                              *)

\* `rows` is one row per active strategy, each at an instant of d at which
\* that strategy still has a row.
Covers(rows, d) ==
    /\ DOMAIN rows = ActiveIds
    /\ \A s \in ActiveIds : rows[s].time \in InstantsOn(daily, s, d)

\* SnapshotSound is not inductive: between its SELECT and its UPSERT a
\* handler carries the rows of a snapshot that does not exist yet.
SnapshotInv ==
    /\ \A r \in Requests : pc[r] = "upsert_snapshot" => Covers(round[r], day[r])
    /\ \A d \in Days : snapshots[d] # NoRound => Covers(snapshots[d], d)

\* Rows stay, and so does what they cover.
LEMMA CoversStays ==
    ASSUME TypeOK, [IngestNext]_ingestVars, NEW rows, NEW d, Covers(rows, d)
    PROVE  /\ DOMAIN rows = ActiveIds
           /\ \A s \in ActiveIds : rows[s].time \in InstantsOn(daily', s, d)
<1> SUFFICES ASSUME NEW s \in ActiveIds
             PROVE  rows[s].time \in InstantsOn(daily', s, d)
  BY DEF Covers
<1>1. rows[s].time \in InstantsOn(daily, s, d)
  BY DEF Covers
<1>2. <<s, rows[s].time>> \in RowKeys
  BY <1>1, ActiveIdsAreStrategies DEF InstantsOn, InstantsOf, RowKeys
<1> QED
  BY <1>1, <1>2, RowsStay DEF InstantsOn, InstantsOf

\* A handler comes to hold a round only by SelectRound, and keeps it and its
\* date until the snapshot is written.
LEMMA WhoHoldsARound ==
    ASSUME TypeOK, [IngestNext]_ingestVars, NEW q \in Requests,
           pc'[q] = "upsert_snapshot"
    PROVE  \/ pc[q] = "upsert_snapshot" /\ round'[q] = round[q] /\ day'[q] = day[q]
           \/ SelectRound(q)
<1> DEFINE Goal ==
        \/ pc[q] = "upsert_snapshot" /\ round'[q] = round[q] /\ day'[q] = day[q]
        \/ SelectRound(q)
<1> USE DEF tables, locals, TypeOK
<1>1. CASE UNCHANGED ingestVars
  BY <1>1 DEF ingestVars
<1>2. ASSUME NEW r \in Requests, Arrive(r) PROVE Goal
  <2>1. PICK p \in Payloads : Accept(r, p) \/ RejectUnknown(r, p)
    BY <1>2 DEF Arrive
  <2>2. CASE Accept(r, p)
    BY <2>2 DEF Accept
  <2>3. CASE RejectUnknown(r, p)
    BY <2>3 DEF RejectUnknown, Answer
  <2> QED
    BY <2>1, <2>2, <2>3
<1>3. ASSUME NEW r \in Requests,
             \/ Acquire(r) \/ UpsertDaily(r) \/ PersistReport(r) \/ Commit(r)
      PROVE  Goal
  BY <1>3 DEF Acquire, UpsertDaily, PersistReport, Commit, Goto
<1>4. ASSUME NEW r \in Requests, DropReports(r) \/ DropTrades(r) \/ DropBenchmarks(r)
      PROVE  Goal
  BY <1>4 DEF DropReports, DropTrades, DropBenchmarks, Goto
<1>5. ASSUME NEW r \in Requests, SkipSnapshot(r) PROVE Goal
  BY <1>5 DEF SkipSnapshot, Answer
<1>6. ASSUME NEW r \in Requests, SelectRound(r) PROVE Goal
  <2>1. CASE q = r
    BY <1>6, <2>1
  <2>2. CASE q # r
    BY <1>6, <2>2 DEF SelectRound, Goto
  <2> QED
    BY <2>1, <2>2
<1>7. ASSUME NEW r \in Requests, UpsertSnapshot(r) \/ DropOverall(r) PROVE Goal
  BY <1>7 DEF UpsertSnapshot, DropOverall, Goto
<1>8. ASSUME NEW r \in Requests, DropStrategy(r) PROVE Goal
  <2>1. \/ Answer(r, "201")
        \/ Goto(r, "drop_strategies") /\ UNCHANGED <<day, round>>
    BY <1>8 DEF DropStrategy
  <2> QED
    BY <2>1 DEF Answer, Goto
<1>9. ASSUME NEW r \in Requests, PersistFails(r) \/ CommitUnconfirmed(r) PROVE Goal
  BY <1>9 DEF PersistFails, CommitUnconfirmed, Answer
<1>10. ASSUME NEW r \in Requests,
              AggregationRaises(r) \/ SnapshotFails(r) \/ UpsertUnconfirmed(r)
       PROVE  Goal
  BY <1>10 DEF AggregationRaises, SnapshotFails, UpsertUnconfirmed, Answer
<1>11. CASE Midnight
  BY <1>11 DEF Midnight
<1>12. CASE Crash
  BY <1>12 DEF Crash, CrashHandlers
<1> QED
  BY <1>1, <1>2, <1>3, <1>4, <1>5, <1>6, <1>7, <1>8, <1>9, <1>10, <1>11, <1>12
     DEF IngestNext, Advance, Fail

\* A snapshot is written only by a handler that holds a round, under the date
\* it read before its SELECT.
LEMMA WhoWritesSnapshots ==
    ASSUME [IngestNext]_ingestVars
    PROVE  \/ UNCHANGED snapshots
           \/ \E r \in Requests : pc[r] = "upsert_snapshot" /\ WriteSnapshot(r)
<1> USE DEF tables
<1>1. CASE UNCHANGED ingestVars
  BY <1>1 DEF ingestVars
<1>2. ASSUME NEW r \in Requests, Arrive(r) PROVE UNCHANGED snapshots
  BY <1>2 DEF Arrive, Accept, RejectUnknown
<1>3. ASSUME NEW r \in Requests, Advance(r)
      PROVE  UNCHANGED snapshots \/ (pc[r] = "upsert_snapshot" /\ WriteSnapshot(r))
  BY <1>3 DEF Advance, Acquire, UpsertDaily, PersistReport, Commit, WriteBoth,
              DropReports, DropTrades, DropBenchmarks, SkipSnapshot, SelectRound,
              UpsertSnapshot, DropOverall, DropStrategy
<1>4. ASSUME NEW r \in Requests, Fail(r)
      PROVE  UNCHANGED snapshots \/ (pc[r] = "upsert_snapshot" /\ WriteSnapshot(r))
  BY <1>4 DEF Fail, PersistFails, CommitUnconfirmed, WriteBoth, AggregationRaises,
              SnapshotFails, UpsertUnconfirmed
<1>5. CASE Midnight \/ Crash
  BY <1>5 DEF Midnight, Crash, CrashHandlers
<1> QED
  BY <1>1, <1>2, <1>3, <1>4, <1>5 DEF IngestNext

\* No step of a handler undoes what the snapshot writer relies on.
LEMMA SnapshotStep ==
    ASSUME TypeOK, SnapshotInv, [IngestNext]_ingestVars
    PROVE  SnapshotInv'
<1>1. ASSUME NEW q \in Requests, pc'[q] = "upsert_snapshot"
      PROVE  Covers(round[q], day[q])'
  <2>1. CASE pc[q] = "upsert_snapshot" /\ round'[q] = round[q] /\ day'[q] = day[q]
    <3>1. Covers(round[q], day[q])
      BY <2>1 DEF SnapshotInv
    <3> QED
      BY <2>1, <3>1, CoversStays DEF Covers
  <2>2. CASE SelectRound(q)
    <3>1. round'[q] = RoundRows(daily, day[q]) /\ UNCHANGED <<daily, day>>
      BY <2>2 DEF SelectRound, tables, TypeOK
    <3>2. DOMAIN RoundRows(daily, day[q]) = ActiveIds
      BY <2>2, CompleteRoundCoversActive DEF SelectRound, TypeOK
    <3>3. \A s \in ActiveIds :
             RoundRows(daily, day[q])[s].time \in InstantsOn(daily, s, day[q])
      BY <3>2, RoundRowsAreRows DEF TypeOK
    <3> QED
      BY <3>1, <3>2, <3>3 DEF Covers
  <2> QED
    BY <1>1, <2>1, <2>2, WhoHoldsARound
<1>2. ASSUME NEW d \in Days, snapshots'[d] # NoRound
      PROVE  Covers(snapshots[d], d)'
  <2>1. CASE snapshots'[d] = snapshots[d]
    <3>1. Covers(snapshots[d], d)
      BY <1>2, <2>1 DEF SnapshotInv
    <3> QED
      BY <2>1, <3>1, CoversStays DEF Covers
  <2>2. ASSUME NEW r \in Requests, pc[r] = "upsert_snapshot", WriteSnapshot(r),
               snapshots'[d] # snapshots[d]
        PROVE  Covers(snapshots[d], d)'
    <3>1. d = day[r] /\ snapshots'[d] = round[r]
      BY <2>2 DEF WriteSnapshot, TypeOK
    <3>2. Covers(round[r], d)
      BY <2>2, <3>1 DEF SnapshotInv
    <3> QED
      BY <3>1, <3>2, CoversStays DEF Covers
  <2> QED
    BY <2>1, <2>2, WhoWritesSnapshots
<1> QED
  BY <1>1, <1>2 DEF SnapshotInv

\* The invariant of the snapshot writer, for itself and for its use below.
LEMMA SnapshotInvariant == Spec => []SnapshotInv
<1>1. Init => SnapshotInv
  BY DEF Init, SnapshotInv
<1>2. TypeOK /\ SnapshotInv /\ [IngestNext]_ingestVars => SnapshotInv'
  BY SnapshotStep
<1> QED
  BY <1>1, <1>2, TypeCorrect, PTL DEF Spec

\* A handler selects and closes under a date it has read, and only if some
\* strategy is active.
DateRead ==
    \A r \in Requests :
        /\ pc[r] \in {"select_round", "upsert_snapshot"} => day[r] \in Days
        /\ pc[r] = "upsert_snapshot" => ActiveEntries # {}

LEMMA DateReadStep ==
    ASSUME TypeOK, DateRead, [IngestNext]_ingestVars
    PROVE  DateRead'
<1> SUFFICES ASSUME NEW q \in Requests
             PROVE  /\ pc'[q] \in {"select_round", "upsert_snapshot"} => day'[q] \in Days
                    /\ pc'[q] = "upsert_snapshot" => ActiveEntries # {}
  BY DEF DateRead
<1> DEFINE Goal ==
        /\ pc'[q] \in {"select_round", "upsert_snapshot"} => day'[q] \in Days
        /\ pc'[q] = "upsert_snapshot" => ActiveEntries # {}
<1> USE DEF tables, locals, TypeOK, DateRead
<1>1. CASE UNCHANGED ingestVars
  BY <1>1 DEF ingestVars
<1>2. ASSUME NEW r \in Requests, Arrive(r) PROVE Goal
  <2>1. PICK p \in Payloads : Accept(r, p) \/ RejectUnknown(r, p)
    BY <1>2 DEF Arrive
  <2> QED
    BY <2>1 DEF Accept, RejectUnknown, Answer
<1>3. ASSUME NEW r \in Requests,
             \/ Acquire(r) \/ UpsertDaily(r) \/ PersistReport(r) \/ Commit(r)
             \/ DropReports(r) \/ DropTrades(r) \/ UpsertSnapshot(r) \/ DropOverall(r)
      PROVE  Goal
  BY <1>3 DEF Acquire, UpsertDaily, PersistReport, Commit, DropReports, DropTrades,
              UpsertSnapshot, DropOverall, Goto
<1>4. ASSUME NEW r \in Requests, DropBenchmarks(r) \/ SelectRound(r) PROVE Goal
  BY <1>4 DEF DropBenchmarks, SelectRound, Goto
<1>5. ASSUME NEW r \in Requests, NEW status, Answer(r, status) PROVE Goal
  BY <1>5 DEF Answer
<1>6. ASSUME NEW r \in Requests, SkipSnapshot(r) \/ Fail(r) PROVE Goal
  BY <1>5, <1>6 DEF SkipSnapshot, Fail, PersistFails, CommitUnconfirmed,
                    AggregationRaises, SnapshotFails, UpsertUnconfirmed
<1>7. ASSUME NEW r \in Requests, DropStrategy(r) PROVE Goal
  <2>1. pc[r] = "drop_strategies"
    BY <1>7 DEF DropStrategy
  <2>2. Answer(r, "201") \/ (Goto(r, "drop_strategies") /\ UNCHANGED day)
    BY <1>7 DEF DropStrategy
  <2> QED
    BY <1>5, <2>1, <2>2 DEF Goto
<1>8. CASE Midnight \/ Crash
  BY <1>8 DEF Midnight, Crash, CrashHandlers
<1> QED
  BY <1>1, <1>2, <1>3, <1>4, <1>6, <1>7, <1>8 DEF IngestNext, Advance

\* The snapshot writer's row is one its round may close its date with.
LEMMA WriterCloses ==
    ASSUME TypeOK, SnapshotInv, DateRead, NEW r \in Requests,
           pc[r] = "upsert_snapshot", WriteSnapshot(r)
    PROVE  /\ round[r] # NoRound
           /\ \A s \in ActiveIds : DayOf(round[r][s].time) = day[r]
           /\ day[r] \in Days
           /\ snapshots' = [snapshots EXCEPT ![day[r]] = round[r]]
<1>1. Covers(round[r], day[r])
  BY DEF SnapshotInv
<1>2. ActiveIds # {}
  BY DEF DateRead, ActiveIds
<1>3. round[r] # NoRound
  BY <1>1, <1>2 DEF Covers, NoRound
<1>4. \A s \in ActiveIds : DayOf(round[r][s].time) = day[r]
  BY <1>1 DEF Covers, InstantsOn
<1> QED
  BY <1>3, <1>4 DEF DateRead, WriteSnapshot

\* No snapshot without a row of that date for every active strategy: neither
\* a failure, nor midnight, nor a second writer, nor an id that is in the
\* registry twice brings one about (maybe_write_snapshot).
THEOREM SnapshotsSound == Spec => []SnapshotSound
<1>1. SnapshotInv => SnapshotSound
  BY DEF SnapshotInv, Covers, SnapshotSound, AllReported
<1> QED
  BY <1>1, SnapshotInvariant, PTL

-----------------------------------------------------------------------------
(* Rounds are closed.  It takes a day on which nothing but Redis fails and  *)
(* every curve can be joined, and a registry in which no active id is       *)
(* repeated: a repeated one makes `len(active_ids)` more than the rows a    *)
(* SELECT can ever return.                                                  *)

QuietDay == Disruptions \subseteq {"redis"} /\ Misdated = {}

NoRepeatedId == Cardinality(ActiveEntries) = Cardinality(ActiveIds)

\* RoundIsClosed needs the date a handler carries to be today's.
ClosingInv ==
    /\ RoundIsClosed
    /\ \A r \in Requests : pc[r] \in {"select_round", "upsert_snapshot"} => day[r] = today

\* A SELECT that finds too few rows has found a strategy that has none.
LEMMA IncompleteRoundLacksOne ==
    ASSUME TypeOK, NoRepeatedId, NEW d, ~RoundComplete(RoundRows(daily, d))
    PROVE  ~AllReported(d)
<1> SUFFICES ASSUME AllReported(d) PROVE FALSE
  OBVIOUS
<1>1. DOMAIN RoundRows(daily, d) = ActiveIds
  BY DEF RoundRows, AllReported
<1> QED
  BY <1>1, ActiveFinite DEF RoundComplete, NoRepeatedId

\* On a quiet day the clock stands and a handler that will close the round
\* stops being one only by finding it incomplete or by writing the snapshot.
LEMMA WhoStopsClosing ==
    ASSUME TypeOK, QuietDay, ClosingInv, [IngestNext]_ingestVars,
           NEW q \in Requests, WillClose(q)
    PROVE  WillClose(q)' \/ SkipSnapshot(q) \/ UpsertSnapshot(q)
<1> DEFINE Goal == WillClose(q)' \/ SkipSnapshot(q) \/ UpsertSnapshot(q)
<1> USE DEF tables, locals, TypeOK, WillClose
<1>0. day[q] = today \/ pc[q] \notin {"select_round", "upsert_snapshot"}
  BY DEF ClosingInv
<1>1. CASE UNCHANGED ingestVars
  BY <1>1 DEF ingestVars
<1>2. ASSUME NEW r \in Requests, Arrive(r) PROVE Goal
  <2>1. PICK p \in Payloads : Accept(r, p) \/ RejectUnknown(r, p)
    BY <1>2 DEF Arrive
  <2>2. CASE Accept(r, p)
    BY <2>2 DEF Accept
  <2>3. CASE RejectUnknown(r, p)
    BY <2>3 DEF RejectUnknown, Answer
  <2> QED
    BY <2>1, <2>2, <2>3
<1>3. ASSUME NEW r \in Requests,
             \/ Acquire(r) \/ UpsertDaily(r) \/ PersistReport(r) \/ Commit(r)
      PROVE  Goal
  BY <1>3 DEF Acquire, UpsertDaily, PersistReport, Commit, Goto
<1>4. ASSUME NEW r \in Requests, DropReports(r) \/ DropTrades(r) \/ DropBenchmarks(r)
      PROVE  Goal
  BY <1>4 DEF DropReports, DropTrades, DropBenchmarks, Goto
<1>5. ASSUME NEW r \in Requests, SkipSnapshot(r) PROVE Goal
  BY <1>5 DEF SkipSnapshot, Answer
<1>6. ASSUME NEW r \in Requests, SelectRound(r) PROVE Goal
  BY <1>0, <1>6 DEF SelectRound, Goto
<1>7. ASSUME NEW r \in Requests, UpsertSnapshot(r) PROVE Goal
  <2>1. CASE q = r
    BY <1>7, <2>1
  <2>2. CASE q # r
    BY <1>7, <2>2 DEF UpsertSnapshot, Goto
  <2> QED
    BY <2>1, <2>2
<1>8. ASSUME NEW r \in Requests, DropOverall(r) PROVE Goal
  BY <1>8 DEF DropOverall, Goto
<1>9. ASSUME NEW r \in Requests, DropStrategy(r) PROVE Goal
  <2>1. pc[r] = "drop_strategies" /\ UNCHANGED today
    BY <1>9 DEF DropStrategy
  <2>2. Answer(r, "201") \/ (Goto(r, "drop_strategies") /\ UNCHANGED day)
    BY <1>9 DEF DropStrategy
  <2> QED
    BY <2>1, <2>2 DEF Answer, Goto
<1>10. ~(Midnight \/ Crash) /\ \A r \in Requests : ~Fail(r)
  BY DEF QuietDay, Midnight, Crash, Fail, PersistFails, CommitUnconfirmed,
         AggregationRaises, MayNotAlign, SnapshotFails, UpsertUnconfirmed
<1> QED
  BY <1>1, <1>2, <1>3, <1>4, <1>5, <1>6, <1>7, <1>8, <1>9, <1>10
     DEF IngestNext, Advance

\* On a quiet day a handler is at the writer only with today's date.
LEMMA DateCarriedIsToday ==
    ASSUME TypeOK, QuietDay, ClosingInv, [IngestNext]_ingestVars,
           NEW q \in Requests, pc'[q] \in {"select_round", "upsert_snapshot"}
    PROVE  day'[q] = today'
<1> DEFINE Goal == day'[q] = today'
<1> USE DEF tables, locals, TypeOK, ClosingInv
<1>1. CASE UNCHANGED ingestVars
  BY <1>1 DEF ingestVars
<1>2. ASSUME NEW r \in Requests, Arrive(r) PROVE Goal
  BY <1>2 DEF Arrive, Accept, RejectUnknown, Answer
<1>3. ASSUME NEW r \in Requests,
             \/ Acquire(r) \/ UpsertDaily(r) \/ PersistReport(r) \/ Commit(r)
             \/ DropReports(r) \/ DropTrades(r) \/ UpsertSnapshot(r) \/ DropOverall(r)
      PROVE  Goal
  BY <1>3 DEF Acquire, UpsertDaily, PersistReport, Commit, DropReports, DropTrades,
              UpsertSnapshot, DropOverall, Goto
<1>4. ASSUME NEW r \in Requests, DropBenchmarks(r) PROVE Goal
  BY <1>4 DEF DropBenchmarks, Goto
<1>5. ASSUME NEW r \in Requests, SkipSnapshot(r) PROVE Goal
  BY <1>5 DEF SkipSnapshot, Answer
<1>6. ASSUME NEW r \in Requests, SelectRound(r) PROVE Goal
  BY <1>6 DEF SelectRound, Goto
<1>7. ASSUME NEW r \in Requests, DropStrategy(r) PROVE Goal
  <2>1. pc[r] = "drop_strategies" /\ UNCHANGED today
    BY <1>7 DEF DropStrategy
  <2>2. Answer(r, "201") \/ (Goto(r, "drop_strategies") /\ UNCHANGED day)
    BY <1>7 DEF DropStrategy
  <2> QED
    BY <2>1, <2>2 DEF Answer, Goto
<1>8. ~(Midnight \/ Crash) /\ \A r \in Requests : ~Fail(r)
  BY DEF QuietDay, Midnight, Crash, Fail, PersistFails, CommitUnconfirmed,
         AggregationRaises, MayNotAlign, SnapshotFails, UpsertUnconfirmed
<1> QED
  BY <1>1, <1>2, <1>3, <1>4, <1>5, <1>6, <1>7, <1>8 DEF IngestNext, Advance

\* However the handlers of a round interleave, the one whose report completes
\* it, or one that runs beside it, writes the snapshot: two that commit at the
\* same moment cannot both find the round incomplete (maybe_write_snapshot
\* looks only after its own commit).
THEOREM RoundsAreClosed ==
    ASSUME QuietDay, NoRepeatedId
    PROVE  Spec => []RoundIsClosed
<1>1. Init => ClosingInv
  <2> SUFFICES ASSUME Init PROVE ClosingInv
    OBVIOUS
  <2>1. \A s \in ActiveIds : InstantsOn(daily, s, today) = {}
    BY ActiveIdsAreStrategies DEF Init, InstantsOn, InstantsOf, EmptyTable, RowKeys
  <2>2. RoundIsClosed
    BY <2>1 DEF RoundIsClosed, AllReported
  <2> QED
    BY <2>2 DEF Init, ClosingInv
<1>2. TypeOK /\ SnapshotInv /\ ClosingInv /\ [IngestNext]_ingestVars => ClosingInv'
  <2> SUFFICES ASSUME TypeOK, SnapshotInv, ClosingInv, [IngestNext]_ingestVars
               PROVE  ClosingInv'
    OBVIOUS
  <2>1. \A r \in Requests :
           pc'[r] \in {"select_round", "upsert_snapshot"} => day'[r] = today'
    BY DateCarriedIsToday
  <2>2. ASSUME ActiveIds # {}, AllReported(today)'
        PROVE  snapshots'[today'] # NoRound \/ \E r \in Requests : WillClose(r)'
    <3>1. CASE \E r \in Requests : Commit(r)
      BY <3>1 DEF Commit, Goto, WillClose, TypeOK
    <3>2. CASE ~\E r \in Requests : Commit(r)
      <4>1. UNCHANGED <<daily, today>>
        <5>1. ~(Midnight \/ Crash) /\ \A r \in Requests : ~Fail(r)
          BY DEF QuietDay, Midnight, Crash, Fail, PersistFails, CommitUnconfirmed,
                 AggregationRaises, MayNotAlign, SnapshotFails, UpsertUnconfirmed
        <5>2. CASE UNCHANGED ingestVars
          BY <5>2 DEF ingestVars
        <5>3. ASSUME NEW r \in Requests, Arrive(r) PROVE UNCHANGED <<daily, today>>
          BY <5>3 DEF Arrive, Accept, RejectUnknown, tables
        <5>4. ASSUME NEW r \in Requests, Advance(r), ~Commit(r)
              PROVE  UNCHANGED <<daily, today>>
          BY <5>4 DEF Advance, Acquire, UpsertDaily, PersistReport, DropReports,
                      DropTrades, DropBenchmarks, SkipSnapshot, SelectRound,
                      UpsertSnapshot, DropOverall, DropStrategy, tables
        <5> QED
          BY <3>2, <5>1, <5>2, <5>3, <5>4 DEF IngestNext
      <4>2. snapshots[today] # NoRound \/ \E q \in Requests : WillClose(q)
        BY <2>2, <4>1 DEF ClosingInv, RoundIsClosed, AllReported
      <4>3. ASSUME NEW r \in Requests, pc[r] = "upsert_snapshot", WriteSnapshot(r)
            PROVE  snapshots'[today'] # NoRound
        <5>1. round[r] # NoRound
          BY <2>2, <4>3 DEF SnapshotInv, Covers, NoRound
        <5>2. day[r] = today
          BY <4>3 DEF ClosingInv
        <5> QED
          BY <4>1, <4>3, <5>1, <5>2 DEF WriteSnapshot, TypeOK
      <4>4. CASE snapshots[today] # NoRound
        BY <4>1, <4>3, <4>4, WhoWritesSnapshots
      <4>5. ASSUME NEW q \in Requests, WillClose(q), SkipSnapshot(q)
            PROVE  FALSE
        <5>1. pc[q] = "select_round" /\ day[q] = today
          BY <4>5 DEF SkipSnapshot, ClosingInv
        <5>2. AllReported(today)
          BY <2>2, <4>1 DEF AllReported
        <5>3. ActiveEntries # {}
          BY <2>2 DEF ActiveIds
        <5> QED
          BY <4>5, <5>1, <5>2, <5>3, IncompleteRoundLacksOne DEF SkipSnapshot
      <4>6. ASSUME NEW q \in Requests, WillClose(q), UpsertSnapshot(q)
            PROVE  snapshots'[today'] # NoRound
        BY <4>3, <4>6 DEF UpsertSnapshot
      <4> QED
        BY <4>2, <4>4, <4>5, <4>6, WhoStopsClosing
    <3> QED
      BY <3>1, <3>2
  <2> QED
    BY <2>1, <2>2 DEF ClosingInv, RoundIsClosed
<1>3. ClosingInv => RoundIsClosed
  BY DEF ClosingInv
<1> QED
  BY <1>1, <1>2, <1>3, TypeCorrect, SnapshotInvariant, PTL DEF Spec
=============================================================================
