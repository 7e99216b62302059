-------------------------------- MODULE Boards --------------------------------
(***************************************************************************)
(* The operator boards of internal/app/httpapi: how one request, or one    *)
(* client that follows next_offset, reads listings page by page and joins  *)
(* them with case summaries while other requests and workers write the     *)
(* same tables.                                                            *)
(*                                                                         *)
(* Every listing is LIMIT/OFFSET over rows ordered by the time of the last *)
(* write, so a write moves its row forward, between two pages of a reader  *)
(* as well.  A board row is joined from several queries, each one a        *)
(* snapshot of its own.                                                    *)
(***************************************************************************)
EXTENDS FollowUps

CONSTANTS
    Runs,        \* eval runs; the report of a run has an id derived from the run's
    EvalCases,   \* eval cases
    Datasets,    \* eval datasets
    DatasetOf,   \* [Runs -> Datasets]
    BadCases,    \* [Runs -> SUBSET EvalCases]: the failed items, once a run is finished
    Sources,     \* what a case may be opened for
    Start,       \* [Tables -> Seq of keys]: the listings a behaviour starts with
    Seeds,       \* case queues a behaviour may start with
    Limit,       \* page size a client asks for
    Offsets,     \* offsets a client asks for
    ScanMin,     \* least page size of a filtered scan (50, and 20 for eval cases)
    BulkLimit,   \* page size of a scan for a dataset (100)
    MaxCases,    \* case ids are 1..MaxCases
    MaxChanges   \* bound: writes of others in one behaviour

CaseIds == 1..MaxCases

Cases == CaseRow(CaseIds, Runs, EvalCases)

\* The tables that are read page by page.
Tables == {"runs", "reports", "evalCases", "datasets"}

Keys(t) == IF t = "evalCases" THEN EvalCases ELSE IF t = "datasets" THEN Datasets ELSE Runs

\* A listing holds keys of its table, each once.
IsListing(t, list) ==
    list \in Seq(Keys(t)) /\ \A i, j \in DOMAIN list : list[i] = list[j] => i = j

\* A case names rows that exist.
Exists(listing, s) ==
    /\ s.report # "none" => s.report \in Range(listing.reports)
    /\ s.run # "none" => s.run \in Range(listing.runs)
    /\ s.evalCase # "none" => s.evalCase \in Range(listing.evalCases)

ASSUME ConstantsAssumption ==
    /\ "none" \notin Runs \cup EvalCases \cup Datasets
    /\ DatasetOf \in [Runs -> Datasets]
    /\ BadCases \in [Runs -> SUBSET EvalCases] /\ \A r \in Runs : IsFiniteSet(BadCases[r])
    /\ Sources \subseteq [report : Runs \cup {"none"}, run : Runs \cup {"none"},
                          evalCase : EvalCases \cup {"none"}, compare : BOOLEAN]
    /\ DOMAIN Start = Tables /\ \A t \in Tables : IsListing(t, Start[t])
    /\ Seeds \subseteq Seq(Cases) /\ \A seed \in Seeds : \A i \in DOMAIN seed : Exists(Start, seed[i])
    /\ Limit \in Nat \ {0} /\ ScanMin \in Nat \ {0} /\ BulkLimit \in Nat \ {0}
    /\ Offsets \subseteq Nat
    /\ MaxCases \in Nat /\ MaxChanges \in Nat

VARIABLES
    table,     \* table[t]: the keys of t, the row written last first
    finished,  \* runs that succeeded or failed, with their results
    cases,     \* the case queue, the case updated last first
    changes,   \* writes so far
    touched,   \* touched[t]: keys of t written since the request began
    stale,     \* a case was written since the request began
    ask,       \* the request being served, NoAsk if there is none
    pc,        \* the query it makes next
    at,        \* the offset of its scan
    page,      \* the page listed last
    rows,      \* the rows of that page, with what was read for them
    k,         \* the row of the page that is read next
    matched,   \* the rows gathered from the pages so far
    latest,    \* latest[d]: the run met first of a dataset
    ids,       \* ids[d]: the reports met of a dataset
    resp       \* the response

stores == <<table, finished, cases, changes, touched, stale>>

vars == <<stores, ask, pc, at, page, rows, k, matched, latest, ids, resp>>

Key(t, key) == key \in Range(table[t])

----------------------------------------------------------------------------
(* Pages.                                                                  *)

Least(i, j) == IF i < j THEN i ELSE j

Greatest(i, j) == IF i < j THEN j ELSE i

\* Mutant: next_offset counts the extra row that tells of a further page.
PagePastExtraRow(list, offset, limit) ==
    [rows |-> SubSeq(list, offset + 1, Least(Len(list), offset + limit)),
     more |-> Len(list) > offset + limit, next |-> offset + limit + 1]

\* LIMIT limit+1 OFFSET offset, and has_more and next_offset made of it.
Page(list, offset, limit) ==
    [rows |-> SubSeq(list, offset + 1, Least(Len(list), offset + limit)),
     more |-> Len(list) > offset + limit, next |-> offset + limit]

NoPage == [rows |-> <<>>, more |-> FALSE, next |-> 0]

Rank(positions, i) == Cardinality({j \in positions : j <= i})

\* The n-th of a set of positions.
Nth(positions, n) == CHOOSE i \in positions : Rank(positions, i) = n

\* The rows at a set of positions, in their order.
Picked(list, positions) == [n \in 1..Cardinality(positions) |-> list[Nth(positions, n)]]

\* A run as a scan met it.
NoRun == [run |-> "none", final |-> FALSE]

\* A request: kind of board, the ids it asks for (none for a listing), the filter
\* values it accepts (both when it has no filter), its offset, and its dataset.
Ask(kind, keys, needs, bad, offset, dataset) ==
    [kind |-> kind, keys |-> keys, needs |-> needs, bad |-> bad, offset |-> offset,
     dataset |-> dataset]

NoAsk == Ask("none", <<>>, BOOLEAN, BOOLEAN, 0, "none")

\* A row as it is listed, before the summaries are read.
NewRow(key) ==
    [id |-> key, linked |-> NoSummary, compare |-> NoSummary, queue |-> NoSummary,
     backed |-> NoSummary, uncovered |-> 0, final |-> key \in finished, latest |-> "none", hasReport |-> FALSE]

NewRows(keys) == [i \in DOMAIN keys |-> NewRow(keys[i])]

Filtered(q) == q.needs # BOOLEAN \/ q.bad # BOOLEAN

\* The page size of a scan.
ScanLimit(q) ==
    IF ~Filtered(q) THEN Limit
    ELSE IF q.kind = "reports" THEN Greatest(Greatest(q.offset + Limit + 1, ScanMin), Limit)
    ELSE Greatest(Limit, ScanMin)

\* Mutant: a filtered scan starts at the client's offset.
ScanFromOffset(q) == q.offset

\* Where a scan starts: a filtered one counts its matches from the first row,
\* and that of a case queue gathers all reports of the dataset.
ScanStart(q) == IF Filtered(q) \/ q.kind = "caseQueue" THEN 0 ELSE q.offset

\* The test of a filtered listing on a row.
Matches(q, row) ==
    LET open == row.linked.open > 0
        unresolved == row.uncovered > 0
    IN  /\ q.kind = "reports" => open \in q.needs /\ unresolved \in q.bad
        /\ q.kind = "evalCases" => open \in q.needs
        /\ q.kind \in {"runs", "datasets"} => unresolved \in q.needs

Matching(q, list) == Picked(list, {i \in DOMAIN list : Matches(q, list[i])})

----------------------------------------------------------------------------
(* Requests.                                                               *)

Filters == {BOOLEAN, {TRUE}, {FALSE}}

\* What a client may ask for: a listing with its filters, a walk along the
\* pages of the reports, the case queue of one dataset, a row by its id, or a
\* comparison of two reports.
Requests ==
    {Ask("reports", <<>>, n, b, o, "none") : n \in Filters, b \in Filters, o \in Offsets}
    \cup {Ask(t, <<>>, n, BOOLEAN, o, "none") :
            t \in {"runs", "evalCases", "datasets"}, n \in Filters, o \in Offsets}
    \cup {Ask("walk", <<>>, BOOLEAN, BOOLEAN, 0, "none")}
    \cup {Ask("caseQueue", <<>>, BOOLEAN, BOOLEAN, o, d) : d \in Datasets, o \in Offsets}
    \cup {Ask("reports", <<r, s>>, BOOLEAN, BOOLEAN, 0, "none") : r, s \in Runs}
    \cup {Ask(t, <<r>>, BOOLEAN, BOOLEAN, 0, "none") : t \in {"reports", "run"}, r \in Runs}
    \cup {Ask("evalCases", <<e>>, BOOLEAN, BOOLEAN, 0, "none") : e \in EvalCases}
    \cup {Ask("datasets", <<d>>, BOOLEAN, BOOLEAN, 0, "none") : d \in Datasets}

\* Nothing is gathered.
Cleared ==
    /\ page' = NoPage /\ rows' = <<>> /\ k' = 1 /\ matched' = <<>> /\ resp' = NoPage
    /\ latest' = [d \in Datasets |-> NoRun]
    /\ ids' = [d \in Datasets |-> <<>>]

Begin(q) ==
    /\ pc = "idle"
    /\ ask' = q
    /\ at' = ScanStart(q)
    /\ pc' = IF q.keys # <<>> THEN "get" ELSE IF q.kind = "caseQueue" THEN "ids" ELSE "list"
    /\ Cleared
    /\ touched' = [t \in Tables |-> {}]
    /\ stale' = FALSE
    /\ UNCHANGED <<table, finished, cases, changes>>

\* A step of the reader.
Read == UNCHANGED <<stores, ask>>

Respond(answer) == pc' = "done" /\ resp' = answer /\ UNCHANGED at

TableOf(q) == IF q.kind = "walk" THEN "reports" ELSE IF q.kind = "run" THEN "runs" ELSE q.kind

\* Goes on with the next page of the listing.
NextPage(listed) == pc' = "list" /\ at' = listed.next /\ UNCHANGED resp

\* What a filtered listing returns of its matches: it skips those before its
\* offset, keeps the next ones up to its limit, and has more if one follows.
MatchedPage(all, offset) == Page(all, offset, Limit)

\* The rows of a page are complete.  A filtered listing stops at the first
\* match after its own page.
Consume(full, listed) ==
    LET all == matched \o Matching(ask, full)
    IN  /\ rows' = full /\ page' = listed /\ matched' = all
        /\ \/ ask.kind = "walk" /\ listed.more /\ NextPage(listed)
           \/ ask.kind = "walk" /\ ~listed.more /\ Respond([NoPage EXCEPT !.rows = all])
           \/ ask.kind # "walk" /\ ~Filtered(ask) /\ Respond([listed EXCEPT !.rows = all])
           \/ /\ ask.kind # "walk" /\ Filtered(ask)
              /\ IF Len(all) > ask.offset + Limit \/ ~listed.more
                 THEN Respond(MatchedPage(all, ask.offset))
                 ELSE NextPage(listed)
        /\ UNCHANGED <<latest, ids>>
        /\ Read

\* The rows of the page with a field read for each of them, and the next query.
Fill(full, next) ==
    /\ rows' = full
    /\ pc' = next
    /\ UNCHANGED <<at, page, k, matched, latest, ids, resp>>
    /\ Read

\* Lists one page; a page without rows calls for no further query.
ListPage ==
    /\ pc = "list"
    /\ ask.kind # "datasets"
    /\ LET listed == Page(table[TableOf(ask)], at, ScanLimit(ask))
       IN  \/ listed.rows = <<>> /\ Consume(<<>>, listed)
           \/ /\ listed.rows # <<>>
              /\ rows' = NewRows(listed.rows)
              /\ page' = listed
              /\ pc' = IF ask.kind = "runs" THEN "items" ELSE "linked"
              /\ UNCHANGED <<at, matched, latest, ids, resp>>
              /\ Read
    /\ k' = 1

\* The detail and compare pages look their rows up by id, and go on to the
\* queries of a listing if all of them exist.
GetRows ==
    /\ pc = "get"
    /\ LET found == \A i \in DOMAIN ask.keys : Key(TableOf(ask), ask.keys[i])
       IN  \/ ~found /\ Respond(NoPage) /\ UNCHANGED <<rows, matched>>
           \/ /\ found /\ ask.kind = "datasets"
              /\ matched' = NewRows(ask.keys)
              /\ pc' = "latest"
              /\ UNCHANGED <<at, rows, resp>>
           \/ /\ found /\ ask.kind # "datasets"
              /\ rows' = NewRows(ask.keys)
              /\ pc' = IF ask.kind = "run" THEN "items" ELSE "linked"
              /\ UNCHANGED <<at, matched, resp>>
    /\ UNCHANGED <<page, k, latest, ids>>
    /\ Read

\* buildEvalReportListResponse: three queries for the reports of the page.
ReadReportCases ==
    /\ pc = "linked"
    /\ ask.kind \in {"reports", "walk"}
    /\ Fill([i \in DOMAIN rows |->
                [rows[i] EXCEPT !.linked = SummarizeBySourceEvalReportIDs(cases, rows[i].id)]],
            "compare")

ReadCompareCases ==
    /\ pc = "compare"
    /\ Fill([i \in DOMAIN rows |->
                [rows[i] EXCEPT !.compare = SummarizeCompareOriginBySourceEvalReportIDs(cases, rows[i].id)]],
            "bad")

ReadBadCases ==
    /\ pc = "bad"
    /\ ask.kind \in {"reports", "walk"}
    /\ Consume([i \in DOMAIN rows |->
                [rows[i] EXCEPT !.uncovered = Cardinality(Uncovered(cases, BadCases[rows[i].id]))]],
               page)
    /\ UNCHANGED k

\* applyFollowUpSummaries: one query for the eval cases of the page.
ReadEvalCaseCases ==
    /\ pc = "linked"
    /\ ask.kind = "evalCases"
    /\ Consume([i \in DOMAIN rows |->
                [rows[i] EXCEPT !.linked = SummarizeBySourceEvalCaseIDs(cases, rows[i].id)]],
               page)
    /\ UNCHANGED k

\* The failed items of a run: a run that is not finished has no results.
FailedItems(r) == IF r \in finished THEN BadCases[r] ELSE {}

\* buildEvalRunListRows reads three things for each run in turn.  The results
\* and the cases of their items are two queries, taken here as one.
ReadRunItems ==
    /\ pc = "items"
    /\ ask.kind = "runs"
    /\ Fill([rows EXCEPT ![k].uncovered = Cardinality(Uncovered(cases, FailedItems(rows[k].id)))],
            "linked")

ReadRunCases ==
    /\ pc = "linked"
    /\ ask.kind = "runs"
    /\ Fill([rows EXCEPT ![k].linked = SummarizeBySourceEvalRunIDs(cases, rows[k].id)], "report")

\* The report is looked up for a run that was listed as finished.
ReadRunReport ==
    /\ pc = "report"
    /\ ask.kind = "runs"
    /\ LET full == [rows EXCEPT ![k].hasReport = rows[k].final /\ Key("reports", rows[k].id)]
       IN  \/ /\ k < Len(rows)
              /\ rows' = full
              /\ pc' = "items"
              /\ k' = k + 1
              /\ UNCHANGED <<at, page, matched, latest, ids, resp>>
              /\ Read
           \/ k >= Len(rows) /\ Consume(full, page) /\ UNCHANGED k

\* writeEvalRunDetailResponse counts the results that came with the run, and
\* reads report and cases in the other order.
ReadDetailItems ==
    /\ pc = "items"
    /\ ask.kind = "run"
    /\ Fill([i \in DOMAIN rows |->
                [rows[i] EXCEPT !.uncovered =
                    Cardinality(Uncovered(cases, IF rows[i].final THEN BadCases[rows[i].id] ELSE {}))]],
            "report")

ReadDetailReport ==
    /\ pc = "report"
    /\ ask.kind = "run"
    /\ Fill([i \in DOMAIN rows |->
                [rows[i] EXCEPT !.hasReport = rows[i].final /\ Key("reports", rows[i].id)]],
            "linked")

ReadDetailCases ==
    /\ pc = "linked"
    /\ ask.kind = "run"
    /\ Consume([i \in DOMAIN rows |->
                [rows[i] EXCEPT !.linked = SummarizeBySourceEvalRunIDs(cases, rows[i].id)]],
               page)
    /\ UNCHANGED k

----------------------------------------------------------------------------
(* The dataset board.  The queries that it makes for one dataset after     *)
(* another are taken together: nothing relates the datasets to each other. *)

\* The candidates: one page, or with a filter every page.
ListDatasets ==
    /\ pc = "list"
    /\ ask.kind = "datasets"
    /\ LET listed == Page(table.datasets, at, ScanLimit(ask))
           all == matched \o NewRows(listed.rows)
       IN  /\ page' = listed /\ matched' = all
           /\ \/ Filtered(ask) /\ listed.more /\ NextPage(listed)
              \/ /\ ~Filtered(ask) \/ ~listed.more
                 /\ at' = 0
                 /\ IF all # <<>> THEN pc' = "latest" /\ UNCHANGED resp
                    ELSE pc' = "done" /\ resp' = listed
    /\ UNCHANGED <<rows, k, latest, ids>>
    /\ Read

Targets == {matched[i].id : i \in DOMAIN matched}

RunsOf(list, d) == {i \in DOMAIN list : DatasetOf[list[i]] = d}

\* The run at the head of a dataset's runs on a page.
NewestRun(list, d) ==
    [run |-> list[First(RunsOf(list, d))], final |-> list[First(RunsOf(list, d))] \in finished]

\* Mutant: a later page overwrites the run that was found.
LastRuns(list) ==
    [d \in Datasets |->
        IF d \in Targets /\ RunsOf(list, d) # {} THEN NewestRun(list, d) ELSE latest[d]]

\* The first run met of each dataset is its latest.
LatestRuns(list) ==
    [d \in Datasets |->
        IF d \in Targets /\ latest[d] = NoRun /\ RunsOf(list, d) # {} THEN NewestRun(list, d)
        ELSE latest[d]]

\* Pages through the runs until every dataset has one.
collectLatestEvalRunsByDataset ==
    /\ pc = "latest"
    /\ LET listed == Page(table.runs, at, BulkLimit)
           found == \A d \in Targets : LatestRuns(listed.rows)[d] # NoRun
       IN  /\ latest' = LatestRuns(listed.rows)
           /\ at' = IF found \/ ~listed.more THEN 0 ELSE listed.next
           /\ pc' = IF found \/ ~listed.more THEN "report" ELSE "latest"
    /\ UNCHANGED <<page, rows, k, matched, ids, resp>>
    /\ Read

\* The candidates with a field read for each of them, and the next query.
FillCandidates(full, next) ==
    /\ matched' = full
    /\ pc' = next
    /\ UNCHANGED <<at, page, rows, k, latest, ids, resp>>
    /\ Read

\* The reports of the latest runs, where these are finished.
LookUpReports ==
    /\ pc = "report"
    /\ ask.kind = "datasets"
    /\ FillCandidates([i \in DOMAIN matched |->
            LET run == latest[matched[i].id]
            IN  [matched[i] EXCEPT !.latest = run.run, !.final = run.final,
                                   !.hasReport = run.final /\ Key("reports", run.run)]],
            "bad")

ReadLatestBadCases ==
    /\ pc = "bad"
    /\ ask.kind = "datasets"
    /\ FillCandidates([i \in DOMAIN matched |-> [matched[i] EXCEPT !.uncovered =
            IF matched[i].hasReport THEN Cardinality(Uncovered(cases, BadCases[matched[i].latest]))
            ELSE 0]],
            "linked")

ReadLatestReportCases ==
    /\ pc = "linked"
    /\ ask.kind = "datasets"
    /\ FillCandidates([i \in DOMAIN matched |-> [matched[i] EXCEPT !.linked =
            IF matched[i].hasReport THEN SummarizeBySourceEvalReportIDs(cases, matched[i].latest)
            ELSE NoSummary]],
            "items")

\* A finished run without a report: its own failed items.
ReadFallbackItems ==
    /\ pc = "items"
    /\ ask.kind = "datasets"
    /\ FillCandidates([i \in DOMAIN matched |-> [matched[i] EXCEPT !.uncovered =
            IF matched[i].final /\ ~matched[i].hasReport
            THEN Cardinality(Uncovered(cases, FailedItems(matched[i].latest)))
            ELSE matched[i].uncovered]],
            "ids")

\* Pages through the reports of the tenant; a report met twice is kept twice.
collectEvalReportIDsByDataset ==
    /\ pc = "ids"
    /\ ask.kind = "datasets"
    /\ LET listed == Page(table.reports, at, BulkLimit)
       IN  /\ ids' = [d \in Datasets |->
                        IF d \in Targets THEN ids[d] \o Picked(listed.rows, RunsOf(listed.rows, d))
                        ELSE <<>>]
           /\ at' = IF listed.more THEN listed.next ELSE 0
           /\ pc' = IF listed.more THEN "ids" ELSE "counts"
    /\ UNCHANGED <<page, rows, k, matched, latest, resp>>
    /\ Read

\* Mutant: only the report at the head of the list is counted.
CountHead(d) ==
    LET s == SummarizeBySourceEvalReportIDs(cases, Head(ids[d]))
    IN  IF ids[d] = <<>> THEN NoSummary ELSE [NoSummary EXCEPT !.total = s.total, !.open = s.open]

\* The counts of a dataset add up those of its reports: a case counts once for
\* every place of its report in the list.
Counted(d) ==
    LET of == {p \in (DOMAIN ids[d]) \X (DOMAIN cases) : cases[p[2]].report = ids[d][p[1]]}
    IN  [NoSummary EXCEPT !.total = Cardinality(of),
                          !.open = Cardinality({p \in of : cases[p[2]].status = "open"})]

CountQueues ==
    /\ pc = "counts"
    /\ FillCandidates([i \in DOMAIN matched |-> [matched[i] EXCEPT !.queue = Counted(matched[i].id)]],
                      "newest")

\* The cases of a list of reports, in the order of the queue.
CasesOf(reports) == Picked(cases, {i \in DOMAIN cases : cases[i].report \in Range(reports)})

\* ListCases with a limit of one, for a dataset that has a report.
ReadNewestCase ==
    /\ pc = "newest"
    /\ FillCandidates([i \in DOMAIN matched |->
            LET newest == Page(CasesOf(ids[matched[i].id]), 0, 1).rows
            IN  IF newest = <<>> THEN matched[i]
                ELSE [matched[i] EXCEPT !.queue.latest = newest[1].id,
                                        !.queue.status = newest[1].status]],
            "backed")

\* The cases of the latest runs, and the response.  A detail page goes on with
\* the recent runs of its dataset, which are left out.
ReadRunBackedCases ==
    /\ pc = "backed"
    /\ LET full == [i \in DOMAIN matched |-> [matched[i] EXCEPT !.backed =
                        IF matched[i].latest = "none" THEN NoSummary
                        ELSE SummarizeBySourceEvalRunIDs(cases, matched[i].latest)]]
       IN  /\ matched' = full
           /\ Respond(IF Filtered(ask) THEN MatchedPage(Matching(ask, full), ask.offset)
                      ELSE [page EXCEPT !.rows = full])
    /\ UNCHANGED <<page, rows, k, latest, ids>>
    /\ Read

----------------------------------------------------------------------------
(* The case queue of one dataset.                                          *)

\* Pages through the reports of the dataset; a report met twice is kept once.
collectEvalReportIDsForDataset ==
    /\ pc = "ids"
    /\ ask.kind = "caseQueue"
    /\ LET listed == Page(Picked(table.reports, RunsOf(table.reports, ask.dataset)), at, BulkLimit)
           old == ids[ask.dataset]
           new == old \o Picked(listed.rows, {i \in DOMAIN listed.rows : listed.rows[i] \notin Range(old)})
       IN  /\ ids' = [ids EXCEPT ![ask.dataset] = new]
           /\ at' = IF listed.more THEN listed.next ELSE at
           /\ pc' = IF listed.more THEN "ids" ELSE IF new # <<>> THEN "cases" ELSE "done"
    /\ UNCHANGED <<page, rows, k, matched, latest, resp>>
    /\ Read

ListCases ==
    /\ pc = "cases"
    /\ Respond(Page(CasesOf(ids[ask.dataset]), ask.offset, Limit))
    /\ UNCHANGED <<page, rows, k, matched, latest, ids>>
    /\ Read

\* The response is delivered, or a query fails and the request with it.
Leave == ask' = NoAsk /\ pc' = "idle" /\ at' = 0 /\ Cleared /\ UNCHANGED stores

Deliver == pc = "done" /\ Leave

QueryFails == pc \notin {"idle", "done"} /\ Leave

----------------------------------------------------------------------------
(* The writes of others.  A response is taken to be delivered before the   *)
(* next write; writes are remembered while a request is being served.      *)

Change ==
    /\ changes < MaxChanges
    /\ changes' = changes + 1
    /\ pc # "done"
    /\ UNCHANGED <<ask, pc, at, page, rows, k, matched, latest, ids, resp>>

\* The row at position n, or a new one if n is past the end, comes to
\* position l as x.
Move(x, n, l, list) ==
    [i \in 1..Greatest(n, Len(list)) |->
        IF i = l THEN x ELSE IF l < i /\ i <= n THEN list[i - 1] ELSE list[i]]

\* Every write sets updated_at, to a time no older than the row's own.  The
\* time is taken before the write commits - that of a run before the judge,
\* that of a report is the run's finished_at - and rows written meanwhile stay
\* ahead, so the row lands at the front or anywhere behind it.
WriteRow(t, key) ==
    /\ Change
    /\ \E n \in 1..Len(table[t]) + 1 : \E l \in 1..n :
          /\ IF Key(t, key) THEN n <= Len(table[t]) /\ table[t][n] = key ELSE n = Len(table[t]) + 1
          /\ table' = [table EXCEPT ![t] = Move(key, n, l, table[t])]
    /\ touched' = IF pc = "idle" THEN touched ELSE [touched EXCEPT ![t] = @ \cup {key}]
    /\ UNCHANGED <<cases, stale>>

\* A run is created or claimed.
StartRun(r) == r \notin finished /\ WriteRow("runs", r) /\ UNCHANGED finished

FinishRun(r) ==
    /\ Key("runs", r) /\ r \notin finished
    /\ WriteRow("runs", r)
    /\ finished' = finished \cup {r}

\* The results go with the retry, a report that was saved stays.
RetryRun(r) == r \in finished /\ WriteRow("runs", r) /\ finished' = finished \ {r}

\* A report is built from a finished run, and saved again after a retry.
SaveEvalReport(r) == r \in finished /\ WriteRow("reports", r) /\ UNCHANGED finished

\* A dataset is created, gets an item or is published.
WriteDataset(d) == WriteRow("datasets", d) /\ UNCHANGED finished

\* An eval case is written once: a second promotion of its case meets the
\* unique constraint and changes nothing.
PromoteCase(e) ==
    ~Key("evalCases", e) /\ WriteRow("evalCases", e) /\ UNCHANGED finished

WriteCase(queue) ==
    /\ Change
    /\ cases' = queue
    /\ stale' = (pc # "idle")
    /\ UNCHANGED <<table, finished, touched>>

\* Two requests may both find no open case of their source and both save one;
\* only a run-backed case is looked up under the lock of the table.  The lookup
\* of a compare case ends in an error where there is none, so such a case is
\* never added here.
CreateCase(s) ==
    /\ Len(cases) < MaxCases
    /\ Exists(table, s)
    /\ ~s.compare
    /\ s.run # "none" => SummarizeBySourceEvalRunIDs(cases, s.run).open = 0
    /\ WriteCase(Move([id |-> Len(cases) + 1, status |-> "open", report |-> s.report, run |-> s.run,
                       evalCase |-> s.evalCase, compare |-> FALSE], Len(cases) + 1, 1, cases))

\* The case at position i, written again.
Moved(i, status) == Move([cases[i] EXCEPT !.status = status], i, 1, cases)

CloseCase(i) == cases[i].status = "open" /\ WriteCase(Moved(i, "closed"))

ReopenCase(i) == cases[i].status = "closed" /\ WriteCase(Moved(i, "open"))

\* A note or an assignment.
TouchCase(i) == WriteCase(Moved(i, cases[i].status))

----------------------------------------------------------------------------
Init ==
    /\ table = Start
    /\ finished = Range(Start.reports)
    /\ cases \in Seeds
    /\ changes = 0
    /\ touched = [t \in Tables |-> {}]
    /\ stale = FALSE
    /\ ask = NoAsk /\ pc = "idle" /\ at = 0
    /\ page = NoPage /\ rows = <<>> /\ k = 1 /\ matched = <<>> /\ resp = NoPage
    /\ latest = [d \in Datasets |-> NoRun]
    /\ ids = [d \in Datasets |-> <<>>]

Reader ==
    \/ \E q \in Requests : Begin(q)
    \/ ListPage \/ GetRows \/ ReadReportCases \/ ReadCompareCases \/ ReadBadCases \/ ReadEvalCaseCases
    \/ ReadRunItems \/ ReadRunCases \/ ReadRunReport
    \/ ReadDetailItems \/ ReadDetailReport \/ ReadDetailCases
    \/ ListDatasets \/ collectLatestEvalRunsByDataset \/ LookUpReports \/ ReadLatestBadCases
    \/ ReadLatestReportCases \/ ReadFallbackItems \/ collectEvalReportIDsByDataset
    \/ CountQueues \/ ReadNewestCase \/ ReadRunBackedCases
    \/ collectEvalReportIDsForDataset \/ ListCases
    \/ Deliver \/ QueryFails

Others ==
    \/ \E r \in Runs : StartRun(r) \/ FinishRun(r) \/ RetryRun(r) \/ SaveEvalReport(r)
    \/ \E d \in Datasets : WriteDataset(d)
    \/ \E e \in EvalCases : PromoteCase(e)
    \/ \E s \in Sources : CreateCase(s)
    \/ \E i \in DOMAIN cases : CloseCase(i) \/ ReopenCase(i) \/ TouchCase(i)

Next == Reader \/ Others

Spec == Init /\ [][Next]_vars

----------------------------------------------------------------------------
(* Properties.                                                             *)

Done(kinds) == pc = "done" /\ ask.kind \in kinds

Unwritten == ~stale /\ \A t \in Tables : touched[t] = {}

\* What a listing would show of a row if it read everything at once.
ReportRow(r) ==
    [NewRow(r) EXCEPT !.linked = SummarizeBySourceEvalReportIDs(cases, r),
                      !.compare = SummarizeCompareOriginBySourceEvalReportIDs(cases, r),
                      !.uncovered = Cardinality(Uncovered(cases, BadCases[r]))]

RunRow(r) ==
    [NewRow(r) EXCEPT !.linked = SummarizeBySourceEvalRunIDs(cases, r),
                      !.uncovered = Cardinality(Uncovered(cases, FailedItems(r))),
                      !.hasReport = r \in finished /\ Key("reports", r)]

EvalCaseRow(e) == [NewRow(e) EXCEPT !.linked = SummarizeBySourceEvalCaseIDs(cases, e)]

TrueRow(kind, key) ==
    IF kind = "reports" THEN ReportRow(key)
    ELSE IF kind = "evalCases" THEN EvalCaseRow(key)
    ELSE RunRow(key)

TrueRows(kind, keys) == [i \in DOMAIN keys |-> TrueRow(kind, keys[i])]

Listings == {"reports", "runs", "evalCases"}

\* Of a listing during which nothing was written, with any filter and offset,
\* the response is the page of the matching rows at that offset: the scan that
\* skips, counts and stops across pages of its own size loses and repeats no
\* match, and has_more and next_offset are right, so that the pages of a client
\* that follows next_offset tile the matches.  A page about given rows shows
\* what the listing shows of them.
PageIsExact ==
    /\ Done(Listings \cup {"run"}) /\ Unwritten /\ ask.keys # <<>> =>
          resp.rows = IF Range(ask.keys) \subseteq Range(table[TableOf(ask)])
                      THEN TrueRows(ask.kind, ask.keys) ELSE <<>>
    /\ Done(Listings) /\ Unwritten /\ ask.keys = <<>> =>
          LET exact == Page(Matching(ask, TrueRows(ask.kind, table[ask.kind])), ask.offset, Limit)
          IN  resp.rows = exact.rows /\ resp.more = exact.more
              /\ (exact.more => resp.next = exact.next)

Untouched(t) == Range(table[t]) \ touched[t]

Seen == {resp.rows[i].id : i \in DOMAIN resp.rows}

\* Rows are written while they are read page by page, and every write moves its
\* row forward.  A row that nobody wrote is never skipped for it: a client
\* that follows next_offset to the end has seen it; a complete filtered listing
\* holds it if it matches, as long as no case was written; and both scans for a
\* dataset have its report.
UntouchedRowsAreSeen ==
    /\ Done({"walk"}) => Untouched("reports") \subseteq Seen
    /\ Done(Listings) /\ ~stale /\ ~resp.more /\ ask.offset = 0 /\ ask.keys = <<>> =>
          \A key \in Untouched(ask.kind) : Matches(ask, TrueRow(ask.kind, key)) => key \in Seen
    /\ Done({"datasets", "caseQueue"}) =>
          \A r \in Untouched("reports") :
              DatasetOf[r] \in Targets \cup {ask.dataset} => r \in Range(ids[DatasetOf[r]])

\* The latest run that the board shows of a dataset is one that was written
\* during the request, or else the newest run of the dataset: the early stop
\* and the pages in between never leave an older one.
LatestRunIsNewest ==
    Done({"datasets"}) =>
        \A i \in DOMAIN matched :
            LET untouched == {j \in RunsOf(table.runs, matched[i].id) : table.runs[j] \notin touched.runs}
            IN  matched[i].latest \in touched.runs \/
                matched[i].latest = IF untouched = {} THEN "none" ELSE table.runs[First(untouched)]

\* The positions of the cases of a dataset's reports.
QueueOf(d, reports) ==
    {i \in DOMAIN cases : cases[i].report \in reports /\ DatasetOf[cases[i].report] = d}

\* The case queue of a dataset.  With no case written during the request, the
\* list and the counts show every case of a report that was not written either,
\* and if no report was written they show exactly the cases of the dataset.  A
\* report that moves in front of the scan may be counted twice or not at all.
DatasetQueueIsComplete ==
    ~stale =>
        /\ Done({"datasets"}) => \A i \in DOMAIN matched :
              LET shown == matched[i].queue
                  settled == QueueOf(matched[i].id, Untouched("reports"))
              IN  /\ shown.total >= Cardinality(settled)
                  /\ shown.open >= Cardinality(OpenCases(cases, settled))
                  /\ touched.reports = {} => shown = Summary(cases, settled)
        /\ Done({"caseQueue"}) =>
              LET settled == QueueOf(ask.dataset, Untouched("reports"))
              IN  /\ ~resp.more /\ ask.offset = 0 =>
                        \A i \in settled : cases[i] \in Range(resp.rows)
                  /\ touched.reports = {} =>
                        resp.rows = Page(Picked(cases, settled), ask.offset, Limit).rows

IsOpen(id) == \E i \in DOMAIN cases : cases[i].id = id /\ cases[i].status = "open"

OpenOfReport(r) == \E i \in DOMAIN cases : cases[i].status = "open" /\ cases[i].report = r

OpenOfCompare(r) ==
    \E i \in DOMAIN cases : cases[i].status = "open" /\ cases[i].report = r /\ cases[i].compare

OpenOfEvalCase(e) == \E i \in DOMAIN cases : cases[i].status = "open" /\ cases[i].evalCase = e

OpenOfDataset(d) ==
    \E i \in DOMAIN cases : cases[i].status = "open" /\ cases[i].report # "none"
                            /\ DatasetOf[cases[i].report] = d

\* The offers that tell the status of the case they open.
CheckedOffers(row) ==
    IF ask.kind = "reports" THEN {newEvalReportLinkedCaseActionResponse(row.linked),
                                  newEvalReportComparePrimaryActionResponse(row.linked, row.compare)}
    ELSE IF ask.kind = "evalCases" THEN {newEvalReportLinkedCaseActionResponse(row.linked),
                                         newEvalReportBadCaseLinkedCaseActionResponse(row.linked)}
    ELSE IF ask.kind \in {"runs", "run"} THEN {newEvalRunListPrimaryActionResponse(row.linked, row.hasReport)}
    ELSE {newEvalDatasetPrimaryActionResponse(row), newEvalDatasetCaseQueueActionResponse(row.backed)}

\* With no case written since the request began, the offers of a row agree with
\* the cases, although they are computed from several queries.
\* "open_existing_case" of a linked-case, run or dataset offer names an open
\* case.  "create" is offered where no open case of the source exists, and only
\* there; a dataset is offered its queue or case if and only if one of its cases
\* is open, and a report its bad cases unless open cases cover them all.  What
\* becomes of a "create" that is taken up is the subject of module Cases.  A
\* follow-up offer opens the latest case of its source whenever one of them is
\* open; the latest may be closed, so only its "create" is in here.
OffersMatchCases ==
    Done({"reports", "runs", "run", "evalCases", "datasets"}) /\ ~stale =>
        \A i \in DOMAIN resp.rows : LET row == resp.rows[i] IN
            /\ \A offer \in CheckedOffers(row) :
                  offer.mode = "open_existing_case" => IsOpen(offer.case)
            /\ ask.kind = "reports" =>
                  /\ newEvalReportPrimaryActionResponse(row.linked).mode = "create" => ~OpenOfReport(row.id)
                  /\ newEvalReportFollowUpActionResponse(row.linked).mode = "create" <=> ~OpenOfReport(row.id)
                  /\ newEvalReportCompareFollowUpActionResponse(row.compare).mode = "create" <=>
                        ~OpenOfCompare(row.id)
                  /\ newEvalReportBadCaseQueueActionResponse(row.uncovered) = NoOffer <=>
                        \A e \in BadCases[row.id] : OpenOfEvalCase(e)
            /\ ask.kind = "evalCases" =>
                  (newEvalReportFollowUpActionResponse(row.linked).mode = "create" <=> ~OpenOfEvalCase(row.id))
            /\ ask.kind = "datasets" /\ touched.reports = {} =>
                  (newEvalDatasetPrimaryActionResponse(row).mode \in
                        {"open_existing_case", "open_existing_queue"} <=> OpenOfDataset(row.id))
==============================================================================
