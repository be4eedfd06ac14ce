------------------------------ MODULE MCIngest -------------------------------
(* Instances of Ingest for TLC: two active strategies, one retired one, two *)
(* instants of one date and one of the next.                                *)
EXTENDS Ingest, TLC

CONSTANTS s1, s2, s3, ghost, v1, v2, r1, r2

MCStrategies == {s1, s2, s3, ghost}
MCRegistry == <<[id |-> s1, active |-> TRUE],
                [id |-> s3, active |-> FALSE],
                [id |-> s2, active |-> TRUE]>>

Post(s, t, v) == [sid |-> s, time |-> t, rev |-> v]

\* v1 carries a report, v2 does not.  A report, its correction at the same
\* instant, a later one, one of the next date, one of a retired strategy and
\* one nobody registered.
MCPayloads == {Post(s1, 0, v1), Post(s1, 0, v2), Post(s1, 1, v2),
               Post(s2, 0, v1), Post(s2, 2, v1), Post(ghost, 0, v1)}

\* Everything on one date.
MCRoundPayloads == {Post(s1, 0, v1), Post(s1, 0, v2), Post(s2, 0, v1), Post(s3, 0, v2)}

MCSymmetry == Permutations(Requests)
=============================================================================
