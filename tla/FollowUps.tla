------------------------------ MODULE FollowUps ------------------------------
(***************************************************************************)
(* What the operator boards of internal/app/httpapi say about the cases    *)
(* that follow up on an eval report, an eval case or an eval run: the      *)
(* summaries that the case store counts, and the next action that each     *)
(* board offers.                                                           *)
(*                                                                         *)
(* The case table is a sequence of cases, the one updated last at its      *)
(* head, which is the order of every listing of the case store.  The empty *)
(* string of the code is "none", or 0 for a case id.  All rows are of one  *)
(* tenant.                                                                 *)
(***************************************************************************)
EXTENDS Integers, Sequences, FiniteSets, Functions

\* A case, with the rows it was opened for.  A compare-derived case names the
\* report of the selected side.
CaseRow(Ids, Runs, EvalCases) ==
    [id : Ids, status : {"open", "closed"}, report : Runs \cup {"none"},
     run : Runs \cup {"none"}, evalCase : EvalCases \cup {"none"}, compare : BOOLEAN]

NoCase == 0

\* A queue is a set of positions of the case table, and its first case the
\* one updated last.
First(queue) == CHOOSE i \in queue : \A j \in queue : i <= j

OpenCases(cases, queue) == {i \in queue : cases[i].status = "open"}

NoSummary == [total |-> 0, open |-> 0, latest |-> NoCase, status |-> "none"]

\* The counts and the latest case of a queue.
Summary(cases, queue) ==
    IF queue = {} THEN NoSummary
    ELSE [total |-> Cardinality(queue), open |-> Cardinality(OpenCases(cases, queue)),
          latest |-> cases[First(queue)].id, status |-> cases[First(queue)].status]

\* The four GROUP BY queries of the case store.
SummarizeBySourceEvalReportIDs(cases, r) ==
    Summary(cases, {i \in DOMAIN cases : cases[i].report = r})

SummarizeCompareOriginBySourceEvalReportIDs(cases, r) ==
    Summary(cases, {i \in DOMAIN cases : cases[i].report = r /\ cases[i].compare})

SummarizeBySourceEvalCaseIDs(cases, e) ==
    Summary(cases, {i \in DOMAIN cases : cases[i].evalCase = e})

SummarizeBySourceEvalRunIDs(cases, r) ==
    Summary(cases, {i \in DOMAIN cases : cases[i].run = r})

\* Bad cases, or failed items of a run, without an open follow-up.
Uncovered(cases, badCases) ==
    {e \in badCases : SummarizeBySourceEvalCaseIDs(cases, e).open = 0}

----------------------------------------------------------------------------
(* The offers.  An offer names the case to open, if it opens one.          *)

Offer(mode, case) == [mode |-> mode, case |-> case]

NoOffer == Offer("none", NoCase)

\* The latest case if it is open, else the queue that holds an older one.
OpenLatestOrQueue(s) ==
    IF s.latest # NoCase /\ s.status = "open"
    THEN Offer("open_existing_case", s.latest)
    ELSE Offer("open_existing_queue", NoCase)

\* Of a report and of an eval case: the latest case is opened whatever its
\* own status when some case of the queue is open.
newEvalReportFollowUpActionResponse(s) ==
    IF s.open <= 0 THEN Offer("create", NoCase)
    ELSE IF s.latest # NoCase THEN Offer("open_existing_case", s.latest)
    ELSE Offer("open_existing_queue", NoCase)

\* Mutant: an open case in the queue is taken for an open latest case.
linkedCaseOfAnyStatus(s) ==
    IF s.total <= 0 THEN NoOffer
    ELSE IF s.open > 0 THEN Offer("open_existing_case", s.latest)
    ELSE Offer("open_existing_queue", NoCase)

\* Of a report and of an eval case.
newEvalReportLinkedCaseActionResponse(s) ==
    IF s.total <= 0 THEN NoOffer
    ELSE IF s.open > 0 THEN OpenLatestOrQueue(s)
    ELSE Offer("open_existing_queue", NoCase)

\* Of a report and of an eval case.
newEvalReportPrimaryActionResponse(s) ==
    IF newEvalReportLinkedCaseActionResponse(s) # NoOffer
    THEN newEvalReportLinkedCaseActionResponse(s)
    ELSE newEvalReportFollowUpActionResponse(s)

\* A bad case of a report detail: "create" takes the place of "none".
newEvalReportBadCaseLinkedCaseActionResponse(s) ==
    IF s.total <= 0 THEN Offer("create", NoCase)
    ELSE IF s.open > 0 THEN OpenLatestOrQueue(s)
    ELSE Offer("open_existing_queue", NoCase)

newEvalReportBadCaseQueueActionResponse(uncovered) ==
    IF uncovered > 0 THEN Offer("open_existing_queue", NoCase) ELSE NoOffer

\* The compare page creates a case only when no compare-derived one is open.
newEvalReportCompareFollowUpActionResponse(compare) ==
    IF compare.open > 0 THEN Offer("open_existing_queue", NoCase) ELSE Offer("create", NoCase)

newEvalReportComparePrimaryActionResponse(s, compare) ==
    IF newEvalReportLinkedCaseActionResponse(s) # NoOffer
    THEN newEvalReportLinkedCaseActionResponse(s)
    ELSE newEvalReportCompareFollowUpActionResponse(compare)

newEvalRunLinkedCaseActionResponse(s) ==
    IF s.total > 0 THEN OpenLatestOrQueue(s) ELSE NoOffer

newEvalRunListPrimaryActionResponse(s, hasReport) ==
    IF newEvalRunLinkedCaseActionResponse(s) # NoOffer
    THEN newEvalRunLinkedCaseActionResponse(s)
    ELSE Offer(IF hasReport THEN "open_report" ELSE "open_run", NoCase)

\* A queue of a dataset board: of its latest report, of all its reports, or of
\* its latest run.
newEvalDatasetCaseQueueActionResponse(s) ==
    IF s.open <= 0 THEN NoOffer ELSE OpenLatestOrQueue(s)

newEvalDatasetFollowUpActionResponse(uncovered, hasReport) ==
    IF uncovered <= 0 THEN NoOffer
    ELSE Offer(IF hasReport THEN "open_latest_report_queue" ELSE "open_latest_run_queue", NoCase)

\* The first of the queues of the dataset and of its latest report, then the
\* unresolved items, then the latest report or run.
newEvalDatasetPrimaryActionResponse(row) ==
    LET handoff == IF newEvalDatasetCaseQueueActionResponse(row.queue) # NoOffer
                   THEN newEvalDatasetCaseQueueActionResponse(row.queue)
                   ELSE newEvalDatasetCaseQueueActionResponse(row.linked)
        followUp == newEvalDatasetFollowUpActionResponse(row.uncovered, row.hasReport)
    IN  IF handoff # NoOffer THEN handoff
        ELSE IF followUp # NoOffer THEN followUp
        ELSE IF row.latest = "none" THEN NoOffer
        ELSE Offer(IF row.hasReport THEN "open_report" ELSE "open_run", NoCase)
==============================================================================
