-------------------------- MODULE Refinement_proofs --------------------------
(***************************************************************************)
(* The handlers of Ingest implement ReportBook: each of their steps is one *)
(* step of the book, or none.                                              *)
(***************************************************************************)
EXTENDS Ingest_proofs

\* What the INSTANCE in Ingest substitutes for book and order.
BookOf == [k \in RowKeys |-> [daily |-> daily[k], report |-> reports[k]]]

OrderOf == [r \in Requests |->
               IF pc[r] = "acquire" \/ InTransaction(r) THEN "open"
               ELSE IF pc[r] # "idle" THEN "entered"
               ELSE IF reply[r] = "201" THEN "acked" ELSE "none"]

-----------------------------------------------------------------------------
(* How the handler's control state reads as an order.                      *)

OpenLabels == {"acquire", "upsert_daily", "persist_report", "commit"}

LEMMA OrderIs ==
    ASSUME TypeOK, NEW r \in Requests
    PROVE  /\ pc[r] \in OpenLabels => OrderOf[r] = "open"
           /\ pc[r] \in AfterCommit => OrderOf[r] = "entered"
           /\ pc[r] = "idle" => OrderOf[r] \in {"none", "acked"}
BY DEF OrderOf, InTransaction, OpenLabels, AfterCommit

\* A handler that goes on without passing its commit leaves its order as it is.
LEMMA GotoKeepsOrder ==
    ASSUME TypeOK, NEW r \in Requests, NEW label, Goto(r, label),
           \/ pc[r] \in OpenLabels /\ label \in OpenLabels
           \/ pc[r] \in AfterCommit /\ label \in AfterCommit
    PROVE  OrderOf' = OrderOf
<1>1. pc' = [pc EXCEPT ![r] = label] /\ reply' = reply
  BY DEF Goto
<1>2. ASSUME NEW q \in Requests PROVE OrderOf'[q] = OrderOf[q]
  BY <1>1 DEF TypeOK, OrderOf, InTransaction, OpenLabels, AfterCommit
<1> QED
  BY <1>2 DEF OrderOf

\* A handler that answers ends its order.
LEMMA AnswerEnds ==
    ASSUME TypeOK, NEW r \in Requests, NEW status, Answer(r, status)
    PROVE  IF status = "201" THEN Book!Ends(r, "acked") ELSE Book!Ends(r, "none")
<1> DEFINE how == IF status = "201" THEN "acked" ELSE "none"
<1>1. OrderOf' = [OrderOf EXCEPT ![r] = how]
  BY DEF Answer, TypeOK, OrderOf, InTransaction
<1>2. /\ payload' = [payload EXCEPT ![r] = IF how = "acked" THEN @ ELSE NoPayload]
      /\ round' = [round EXCEPT ![r] = NoRound]
  BY DEF Answer
<1> QED
  BY <1>1, <1>2 DEF Book!Ends, Book!NoDraft, NoRound, OrderOf

\* A handler past its commit, for the step that takes it there.
LEMMA CommitEnters ==
    ASSUME TypeOK, NEW r \in Requests, payload[r] \in PayloadType, WriteBoth(r)
    PROVE  BookOf' = Book!Entered(r) /\ snapshots' = snapshots
<1> DEFINE p == payload[r]
<1>1. KeyOf(r) = <<p.sid, p.time>> /\ KeyOf(r) \in RowKeys
  BY DEF KeyOf, RowKeys, PayloadType
<1>2. Book!Entered(r) =
         [BookOf EXCEPT ![KeyOf(r)] =
             [daily |-> p.rev,
              report |-> IF p.rev \in Reporting THEN p.rev ELSE BookOf[KeyOf(r)].report]]
  BY DEF Book!Entered, BookOf, KeyOf
<1>3. ASSUME NEW k \in RowKeys PROVE BookOf'[k] = Book!Entered(r)[k]
  <2>1. BookOf'[k] = [daily |-> daily'[k], report |-> reports'[k]]
    BY DEF BookOf
  <2>2. CASE k = KeyOf(r)
    BY <1>1, <1>2, <2>1, <2>2, WriteBothEffect DEF BookOf, HasReport
  <2>3. CASE k # KeyOf(r)
    BY <1>1, <1>2, <2>1, <2>3, WriteBothEffect DEF BookOf
  <2> QED
    BY <2>2, <2>3
<1>4. BookOf' = [k \in RowKeys |-> BookOf'[k]]
  BY DEF BookOf
<1>5. Book!Entered(r) = [k \in RowKeys |-> Book!Entered(r)[k]]
  BY <1>2 DEF BookOf
<1>6. snapshots' = snapshots
  BY DEF WriteBoth
<1> QED
  BY <1>3, <1>4, <1>5, <1>6

\* The rows the round SELECT returns are what the book says of that date.
LEMMA BookRows ==
    ASSUME TypeOK, NEW d
    PROVE  Book!RoundRows([k \in RowKeys |-> BookOf[k].daily], d) = RoundRows(daily, d)
<1>1. [k \in RowKeys |-> BookOf[k].daily] = daily
  BY DEF BookOf, TypeOK, Tables
<1>2. Book!ActiveIds = ActiveIds
  BY DEF Book!ActiveIds, ActiveIds, Book!ActiveEntries, ActiveEntries
<1>3. \A a : Book!InstantsOn(daily, a, d) = InstantsOn(daily, a, d)
  BY DEF Book!InstantsOn, InstantsOn, Book!InstantsOf, InstantsOf, Book!DayOf, DayOf
<1>4. \A S : Book!Max(S) = Max(S)
  BY DEF Book!Max, Max
<1>5. \A s, t : Book!RowAt(daily, s, t) = RowAt(daily, s, t)
  BY DEF Book!RowAt, RowAt
<1> QED
  BY <1>1, <1>2, <1>3, <1>4, <1>5 DEF Book!RoundRows, RoundRows

-----------------------------------------------------------------------------
(* Each step is one of the book's, or none.                                *)

\* The book's variables, as the INSTANCE maps them.
Unmoved == UNCHANGED <<BookOf, snapshots, OrderOf, payload, round>>

LEMMA UnmovedStutters ==
    ASSUME Unmoved PROVE UNCHANGED Book!bookVars
BY DEF Unmoved, Book!bookVars, BookOf, OrderOf

LEMMA BookUnwritten ==
    ASSUME UNCHANGED <<daily, reports>> PROVE BookOf' = BookOf
BY DEF BookOf

\* A handler that gives up, or is refused, before or after its commit.
LEMMA GivesUp ==
    ASSUME TypeOK, NEW r \in Requests, NEW status, status # "201", Answer(r, status),
           UNCHANGED <<daily, reports, snapshots>>
    PROVE  Book!BookNext
<1>1. Book!Ends(r, "none")
  BY AnswerEnds
<1>2. Book!GiveUp
  BY <1>1 DEF Book!GiveUp
<1>3. UNCHANGED <<BookOf, snapshots>>
  BY BookUnwritten
<1> QED
  BY <1>2, <1>3 DEF Book!BookNext, BookOf

LEMMA Acknowledges ==
    ASSUME TypeOK, NEW r \in Requests, pc[r] \in AfterCommit, Answer(r, "201"),
           UNCHANGED <<daily, reports, snapshots>>
    PROVE  Book!BookNext
<1>1. OrderOf[r] = "entered" /\ Book!Ends(r, "acked")
  BY AnswerEnds, OrderIs
<1>2. UNCHANGED <<BookOf, snapshots>>
  BY BookUnwritten
<1>3. Book!Acknowledge(r)
  BY <1>1, <1>2 DEF Book!Acknowledge, BookOf, OrderOf
<1> QED
  BY <1>3 DEF Book!BookNext

LEMMA Closes ==
    ASSUME TypeOK, SnapshotInv, DateRead, NEW r \in Requests,
           pc[r] = "upsert_snapshot", WriteSnapshot(r), UNCHANGED <<daily, reports>>,
           \/ OrderOf' = OrderOf /\ UNCHANGED <<payload, round>>
           \/ Answer(r, "201")
    PROVE  Book!BookNext
<1>1. OrderOf[r] = "entered"
  BY OrderIs DEF AfterCommit
<1>2. /\ round[r] # Book!NoDraft
      /\ \E d \in Book!Days :
            /\ \A s \in Book!ActiveIds : Book!DayOf(round[r][s].time) = d
            /\ snapshots' = [snapshots EXCEPT ![d] = round[r]]
  BY WriterCloses
     DEF Book!NoDraft, NoRound, Book!Days, Days, Book!DayOf, DayOf,
         Book!ActiveIds, ActiveIds, Book!ActiveEntries, ActiveEntries
<1>3. UNCHANGED BookOf
  BY BookUnwritten
<1>4. \/ UNCHANGED <<OrderOf, payload, round>>
      \/ Book!Ends(r, "acked")
  BY AnswerEnds
<1>5. Book!Close(r)
  BY <1>1, <1>2, <1>3, <1>4 DEF Book!Close, BookOf, OrderOf
<1> QED
  BY <1>5 DEF Book!BookNext

LEMMA Simulation ==
    ASSUME TypeOK, SnapshotInv, DateRead, [IngestNext]_ingestVars
    PROVE  [Book!BookNext]_Book!bookVars
<1> DEFINE Goal == Book!BookNext \/ Unmoved
<1> SUFFICES Goal
  BY UnmovedStutters
<1> USE DEF tables, locals
<1>1. CASE UNCHANGED ingestVars
  BY <1>1 DEF ingestVars, Unmoved, BookOf, OrderOf, InTransaction
<1>2. ASSUME NEW r \in Requests, Arrive(r) PROVE Goal
  <2>1. PICK p \in Payloads : Accept(r, p) \/ RejectUnknown(r, p)
    BY <1>2 DEF Arrive
  <2>2. CASE Accept(r, p)
    <3>1. OrderOf[r] \in {"none", "acked"}
      BY <2>2, OrderIs DEF Accept
    <3>2. OrderOf' = [OrderOf EXCEPT ![r] = "open"]
      BY <2>2 DEF Accept, TypeOK, OrderOf, InTransaction
    <3>3. PICK s \in Strategies, t \in Times, v \in Revisions :
             payload' = [payload EXCEPT ![r] = [sid |-> s, time |-> t, rev |-> v]]
      BY <2>1, <2>2, IngestAssumption DEF Accept, PayloadType
    <3>4. UNCHANGED <<BookOf, snapshots, round>>
      BY <2>2, BookUnwritten DEF Accept
    <3>5. Book!Submit(r)
      BY <3>1, <3>2, <3>3, <3>4 DEF Book!Submit, BookOf, OrderOf
    <3> QED
      BY <3>5 DEF Book!BookNext
  <2>3. CASE RejectUnknown(r, p)
    BY <2>3, GivesUp DEF RejectUnknown
  <2> QED
    BY <2>1, <2>2, <2>3
<1>3. ASSUME NEW r \in Requests,
             \/ Acquire(r) \/ UpsertDaily(r) \/ PersistReport(r)
             \/ DropReports(r) \/ DropTrades(r) \/ DropBenchmarks(r) \/ DropOverall(r)
      PROVE  Goal
  <2>1. /\ UNCHANGED <<daily, reports, snapshots, payload, round>>
        /\ \E label :
              /\ Goto(r, label)
              /\ \/ pc[r] \in OpenLabels /\ label \in OpenLabels
                 \/ pc[r] \in AfterCommit /\ label \in AfterCommit
    BY <1>3 DEF Acquire, UpsertDaily, PersistReport, DropReports, DropTrades,
                DropBenchmarks, DropOverall, OpenLabels, AfterCommit
  <2> QED
    BY <2>1, GotoKeepsOrder, BookUnwritten DEF Unmoved
<1>4. ASSUME NEW r \in Requests, pc[r] = "commit", WriteBoth(r),
             \/ OrderOf' = [OrderOf EXCEPT ![r] = "entered"] /\ UNCHANGED <<payload, round>>
             \/ Answer(r, "500")
      PROVE  Goal
  <2>1. OrderOf[r] = "open" /\ payload[r] \in PayloadType
    BY <1>4, OrderIs DEF OpenLabels, TypeOK
  <2>2. BookOf' = Book!Entered(r) /\ snapshots' = snapshots
    BY <1>4, <2>1, CommitEnters
  <2>3. \/ OrderOf' = [OrderOf EXCEPT ![r] = "entered"] /\ UNCHANGED <<payload, round>>
        \/ Book!Ends(r, "none")
    BY <1>4, AnswerEnds
  <2>4. Book!Enter(r)
    BY <2>1, <2>2, <2>3 DEF Book!Enter, BookOf, OrderOf
  <2> QED
    BY <2>4 DEF Book!BookNext
<1>5. ASSUME NEW r \in Requests, Commit(r) PROVE Goal
  <2>1. OrderOf' = [OrderOf EXCEPT ![r] = "entered"]
    BY <1>5 DEF Commit, Goto, TypeOK, OrderOf, InTransaction
  <2> QED
    BY <1>4, <1>5, <2>1 DEF Commit
<1>6. ASSUME NEW r \in Requests, CommitUnconfirmed(r) PROVE Goal
  BY <1>4, <1>6 DEF CommitUnconfirmed
<1>7. ASSUME NEW r \in Requests, PersistFails(r) \/ AggregationRaises(r) PROVE Goal
  BY <1>7, GivesUp DEF PersistFails, AggregationRaises
<1>8. ASSUME NEW r \in Requests, SkipSnapshot(r) \/ SnapshotFails(r) PROVE Goal
  <2>1. pc[r] \in AfterCommit /\ UNCHANGED <<daily, reports, snapshots>>
    BY <1>8 DEF SkipSnapshot, SnapshotFails, AfterCommit
  <2>2. Answer(r, "201") \/ Answer(r, "500")
    BY <1>8 DEF SkipSnapshot, SnapshotFails
  <2> QED
    BY <2>1, <2>2, Acknowledges, GivesUp
<1>9. ASSUME NEW r \in Requests, SelectRound(r) PROVE Goal
  <2>1. OrderOf[r] = "entered" /\ OrderOf' = OrderOf
    BY <1>9, OrderIs, GotoKeepsOrder DEF SelectRound, AfterCommit
  <2>2. /\ DOMAIN RoundRows(daily, day[r]) = ActiveIds
        /\ day[r] \in Days
        /\ round' = [round EXCEPT ![r] = RoundRows(daily, day[r])]
        /\ UNCHANGED <<snapshots, payload>>
    BY <1>9, CompleteRoundCoversActive DEF SelectRound, TypeOK, DateRead
  <2>3. UNCHANGED BookOf
    BY <1>9, BookUnwritten DEF SelectRound
  <2>4. /\ Book!RoundRows([k \in RowKeys |-> BookOf[k].daily], day[r])
           = RoundRows(daily, day[r])
        /\ Book!ActiveIds = ActiveIds
        /\ Book!Days = Days
    BY BookRows
       DEF Book!ActiveIds, ActiveIds, Book!ActiveEntries, ActiveEntries,
           Book!Days, Days, Book!DayOf, DayOf
  <2>5. Book!Draft(r)
    BY <2>1, <2>2, <2>3, <2>4
       DEF Book!Draft, BookOf, OrderOf, Book!RowKeys, RowKeys
  <2> QED
    BY <2>5 DEF Book!BookNext
<1>10. ASSUME NEW r \in Requests, UpsertSnapshot(r) PROVE Goal
  <2>1. OrderOf' = OrderOf
    BY <1>10, GotoKeepsOrder DEF UpsertSnapshot, AfterCommit
  <2> QED
    BY <1>10, <2>1, Closes DEF UpsertSnapshot
<1>11. ASSUME NEW r \in Requests, UpsertUnconfirmed(r) PROVE Goal
  BY <1>11, Closes DEF UpsertUnconfirmed
<1>12. ASSUME NEW r \in Requests, DropStrategy(r) PROVE Goal
  <2>1. pc[r] = "drop_strategies" /\ UNCHANGED <<daily, reports, snapshots>>
    BY <1>12 DEF DropStrategy
  <2>2. Answer(r, "201") \/ (Goto(r, "drop_strategies") /\ UNCHANGED <<payload, round>>)
    BY <1>12 DEF DropStrategy
  <2>3. CASE Answer(r, "201")
    BY <2>1, <2>3, Acknowledges DEF AfterCommit
  <2>4. CASE Goto(r, "drop_strategies") /\ UNCHANGED <<payload, round>>
    BY <2>1, <2>4, GotoKeepsOrder, BookUnwritten DEF Unmoved, AfterCommit
  <2> QED
    BY <2>2, <2>3, <2>4
<1>13. CASE Midnight
  BY <1>13, BookUnwritten DEF Midnight, Unmoved, OrderOf, InTransaction
<1>14. CASE Crash
  <2>1. /\ OrderOf' = [r \in Requests |-> "none"]
        /\ payload' = [r \in Requests |-> NoPayload]
        /\ round' = [r \in Requests |-> NoRound]
    BY <1>14 DEF Crash, CrashHandlers, OrderOf, InTransaction
  <2>2. Book!GiveUp
    BY <2>1 DEF Book!GiveUp, Book!NoDraft, NoRound, OrderOf
  <2>3. UNCHANGED <<BookOf, snapshots>>
    BY <1>14, BookUnwritten DEF Crash, CrashHandlers
  <2> QED
    BY <2>2, <2>3 DEF Book!BookNext, BookOf
<1> QED
  BY <1>1, <1>2, <1>3, <1>5, <1>6, <1>7, <1>8, <1>9, <1>10, <1>11, <1>12, <1>13, <1>14
     DEF IngestNext, Advance, Fail

\* Whatever interleaves, fails, crashes or passes midnight, the transaction,
\* the invalidations and the snapshot writer are together the book of
\* ReportBook: a report is entered in one step or not at all, a client is told
\* 201 only after that, and a day is closed only with rows of that date, read
\* together, one for every active strategy.
THEOREM IngestImplementsBook == Spec => ImplementsBook
<1>1. Init => Book!BookInit
  BY DEF Init, Book!BookInit, Book!Unwritten, Book!NoDraft, NoRound, InTransaction,
         EmptyTable, Book!RowKeys, RowKeys, Book!Days, Days, Book!DayOf, DayOf
<1>2. Init => DateRead
  BY DEF Init, DateRead
<1>3. TypeOK /\ DateRead /\ [IngestNext]_ingestVars => DateRead'
  BY DateReadStep
<1>4. TypeOK /\ SnapshotInv /\ DateRead /\ [IngestNext]_ingestVars
      => [Book!BookNext]_Book!bookVars
  BY Simulation
<1> QED
  BY <1>1, <1>2, <1>3, <1>4, TypeCorrect, SnapshotInvariant, PTL
     DEF Spec, ImplementsBook, Book!BookSpec
=============================================================================
