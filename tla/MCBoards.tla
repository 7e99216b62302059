------------------------------ MODULE MCBoards ------------------------------
EXTENDS Boards

CONSTANTS r1, r2, r3, r4, e1, e2, d1, d2

MCRuns == {r1, r2, r3, r4}
MCEvalCases == {e1, e2}
MCDatasets == {d1, d2}
MCDatasetOf == [r \in MCRuns |-> IF r \in {r2, r4} THEN d2 ELSE d1]
MCBadCases == [r \in MCRuns |-> {e1}]

Source(report, run, evalCase, compare) ==
    [report |-> report, run |-> run, evalCase |-> evalCase, compare |-> compare]

\* A report, a bad case of it, and a failed item of a run.
MCSources ==
    {Source(r1, "none", "none", FALSE), Source(r1, "none", e1, FALSE),
     Source("none", r2, e1, FALSE)}

MCStart ==
    [t \in Tables |-> CASE t = "runs" -> <<r4, r3, r2, r1>>
                        [] t = "reports" -> <<r3, r2, r1>>
                        [] t = "evalCases" -> <<e1>>
                        [] t = "datasets" -> <<d1, d2>>]

SeedCase(i, s, status) ==
    [id |-> i, status |-> status, report |-> s.report, run |-> s.run,
     evalCase |-> s.evalCase, compare |-> s.compare]

\* No case; a closed case ahead of an open one of the same report, of another
\* source, or of the same run; and a covered bad case.
MCSeeds ==
    {<<>>,
     <<SeedCase(2, Source(r1, "none", "none", FALSE), "closed"),
       SeedCase(1, Source(r1, "none", e1, FALSE), "open")>>,
     <<SeedCase(2, Source(r1, "none", "none", TRUE), "open"),
       SeedCase(1, Source(r2, "none", "none", FALSE), "closed")>>,
     <<SeedCase(2, Source("none", r2, e1, FALSE), "closed"),
       SeedCase(1, Source("none", r2, e1, FALSE), "open")>>}
==============================================================================
