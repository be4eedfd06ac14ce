------------------------------ MODULE MCGateway ------------------------------
(* Instances of Gateway for TLC.                                            *)
EXTENDS Gateway, TLC

CONSTANTS s1, s2, v1, w1, v2, r1, r2, d1, d2

Active(s) == [id |-> s, active |-> TRUE]
Post(s, t, v) == [sid |-> s, time |-> t, rev |-> v]

MCOne == {s1}
MCOneRegistry == <<Active(s1)>>
MCTwo == {s1, s2}
MCTwoRegistry == <<Active(s1), Active(s2)>>
MCOneOfTwoRegistry == <<Active(s1), [id |-> s2, active |-> FALSE]>>

\* v1 and w1 carry a report, v2 does not.  s2 never reports.
MCReportPosts == {Post(s1, 0, v1), Post(s1, 0, w1), Post(s1, 0, v2), Post(s1, 2, v1)}
MCReportKeys == {ReportKey(s1, Latest), ReportKey(s1, 0)}

\* Two strategies that complete a round, correct it, and report another date.
MCRoundPosts == {Post(s1, 0, v1), Post(s1, 0, w1), Post(s1, 2, v2), Post(s2, 0, v1)}
MCRoundKeys ==
    {OverallKey, PerformanceKey(s1), ReportKey(s1, Latest), ReportKey(s1, 0),
     SnapshotKey(Latest), SnapshotKey(0), MetricsKey(Latest), MetricsKey(1)}

\* One strategy, a key of each kind of read.
MCAllPosts == {Post(s1, 0, v1), Post(s1, 2, v2)}
MCAllKeys == {PerformanceKey(s1), PerformanceKey(s2), TradesKey(s1), MetricsKey(Latest)}

\* A report and its correction, and the snapshot they close.
MCFewPosts == {Post(s1, 0, v1), Post(s1, 0, v2)}
MCFewKeys == {SnapshotKey(Latest)}

MCSymmetry == Permutations(Requests) \union Permutations(Readers)
=============================================================================
