------------------------------ MODULE ReportBook -----------------------------
(***************************************************************************)
(* What POST /api/v1/ingest/daily-report promises, whatever it is made of: *)
(* a report is entered in the book in one step, with its daily row or not  *)
(* at all; a client is told 201 only after that; a day is closed with rows *)
(* read from the book in one step, one of that day for every active        *)
(* strategy.  A request may be given up at any moment, entered or not, and *)
(* a day's closing may be repeated.  Pool, transactions, cache, clock and  *)
(* the order of the steps between are left to the implementation.          *)
(***************************************************************************)
EXTENDS Store

CONSTANTS
    Requests,   \* requests in flight at once
    NoPayload   \* no request body

VARIABLES
    book,       \* per key, the daily row and the report row
    closed,     \* per day, the rows it was closed with
    order,      \* what each request has come to
    slip,       \* its payload
    draft       \* the rows it means to close a day with

bookVars == <<book, closed, order, slip, draft>>

Unwritten == [daily |-> NoRow, report |-> NoRow]
NoDraft == [s \in {} |-> NoRow]

BookInit ==
    /\ book = [k \in RowKeys |-> Unwritten]
    /\ closed = [d \in Days |-> NoDraft]
    /\ order = [r \in Requests |-> "none"]
    /\ slip = [r \in Requests |-> NoPayload]
    /\ draft = [r \in Requests |-> NoDraft]

\* The book after the payload of r is entered: a payload without a report
\* leaves the report of its key as it was.
Entered(r) ==
    LET p == slip[r]
    IN  [book EXCEPT ![<<p.sid, p.time>>] =
            [daily |-> p.rev,
             report |-> IF p.rev \in Reporting THEN p.rev ELSE @.report]]

\* r ends: with the client told 201, or told nothing good.
Ends(r, how) ==
    /\ order' = [order EXCEPT ![r] = how]
    /\ slip' = [slip EXCEPT ![r] = IF how = "acked" THEN @ ELSE NoPayload]
    /\ draft' = [draft EXCEPT ![r] = NoDraft]

Submit(r) ==
    /\ order[r] \in {"none", "acked"}
    /\ \E s \in Strategies, t \in Times, v \in Revisions :
          slip' = [slip EXCEPT ![r] = [sid |-> s, time |-> t, rev |-> v]]
    /\ order' = [order EXCEPT ![r] = "open"]
    /\ UNCHANGED <<book, closed, draft>>

Enter(r) ==
    /\ order[r] = "open"
    /\ book' = Entered(r)
    /\ \/ order' = [order EXCEPT ![r] = "entered"] /\ UNCHANGED <<slip, draft>>
       \/ Ends(r, "none")
    /\ UNCHANGED closed

Draft(r) ==
    /\ order[r] = "entered"
    /\ \E d \in Days :
          LET rows == RoundRows([k \in RowKeys |-> book[k].daily], d)
          IN  /\ DOMAIN rows = ActiveIds
              /\ draft' = [draft EXCEPT ![r] = rows]
    /\ UNCHANGED <<book, closed, order, slip>>

Close(r) ==
    /\ order[r] = "entered"
    /\ draft[r] # NoDraft
    /\ \E d \in Days :
          /\ \A s \in ActiveIds : DayOf(draft[r][s].time) = d
          /\ closed' = [closed EXCEPT ![d] = draft[r]]
    /\ \/ UNCHANGED <<order, slip, draft>>
       \/ Ends(r, "acked")
    /\ UNCHANGED book

Acknowledge(r) ==
    /\ order[r] = "entered"
    /\ Ends(r, "acked")
    /\ UNCHANGED <<book, closed>>

\* A refusal, a failure, or a crash that takes every request with it.
GiveUp ==
    \/ \E r \in Requests : Ends(r, "none")
    \/ /\ order' = [r \in Requests |-> "none"]
       /\ slip' = [r \in Requests |-> NoPayload]
       /\ draft' = [r \in Requests |-> NoDraft]

BookNext ==
    \/ \E r \in Requests : \/ Submit(r) \/ Enter(r) \/ Draft(r)
                           \/ Close(r) \/ Acknowledge(r)
    \/ GiveUp /\ UNCHANGED <<book, closed>>

BookSpec == BookInit /\ [][BookNext]_bookVars
=============================================================================
