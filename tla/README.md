# OpsPilot: formal models

OpsPilot answers operator questions with an agent pipeline and hands long or
dangerous work to asynchronous tasks.  This directory holds TLA+ models of the
parts that keep or read shared state: chat turns and their tools, workflow tasks
and the Temporal workflows behind them, eval runs, eval datasets, the case queue,
and the operator boards that read all of these.  Every module is translated from
the Go code, PROJECT.json maps each definition to its lines, and every property
below is checked by TLC and, where the table of theorems says so, proved by TLAPS
for all values of the constants.

## The system

| part | state it keeps | operations | what is hard about it |
|---|---|---|---|
| workflow tasks (`internal/workflow`, `storage/postgres/workflow_tasks.go`) | `workflow_tasks`, `workflow_task_events` | Promote, ApproveTask, RetryTask, claim, execute, finalise | decisions check a status they read earlier; workers hold rows through long executions; commits can be lost |
| report finalisation (`internal/report`) | `reports` | one transaction with the task, or a separate save | one of the two writes failing |
| eval runs (`internal/eval/runner.go`, `run_service.go`) | `eval_runs`, their events, items and item results | create, retry, claim, execute, judge, mark, fall back, materialise | a judge that fails or is slow inside a five-second finalisation; a batch that is given up half-way |
| eval reports (`internal/eval/report_service.go`) | `eval_reports`, one per run | materialise (upsert), compare, detect regressions | reports about an attempt that was retried |
| eval datasets (`internal/eval/dataset_service.go`) | `eval_datasets`, `eval_dataset_items` | create, add item, publish; read by run creation | two-query reads outside a transaction, published baselines must not move |
| cases (`internal/case`) | `cases`, `case_notes` | create with de-duplication, close, reopen, assign, unassign, note | racing creations, optimistic concurrency on `updated_at` |
| Temporal workflows (`temporal_report_runtime.go`) | workflow executions in Temporal | start, signal-with-start, activities with retries | timeouts after the side effect, reuse of workflow ids |
| chat service, planner, critic, tool gate (`internal/app/chat`, `internal/agent`) | sessions and messages, promoted tasks | one turn: load the policy, plan, retrieve, call tools, replan, answer, review, promote, reply | whatever the model proposes must pass the gates; a turn that fails half-way leaves what it wrote |
| policy store (`storage/postgres/policy_store.go`) | `tool_policies` (edited elsewhere), a cache per scope | load, merge three layers | concurrent loads, outages, stale entries |
| operator boards (`internal/app/httpapi/eval_*.go`) | none; they read everything | filtered listings, details, comparison, dataset scans, offered actions | several queries per answer, pages by offset over rows that move |
| retrieval, ingestion, context engine, versions, tool adapters, observability | indexes, append-only rows, counters | calls of models and services | text and floating point rather than state |

The API process runs one goroutine per request.  A worker process runs one poll
loop, which processes a batch of tasks and then a batch of eval runs.  They
share nothing but PostgreSQL (and Temporal): a handler creates or queues a row,
a worker claims it with `FOR UPDATE SKIP LOCKED`, and its outcome is written back
with an event.  An eval run copies the items of a published dataset when it is
created; its report is the source of follow-up cases; a closed case may become
an eval case, the members of datasets.  A chat turn ends in the API process; what
it may not do itself it promotes to a task, which an operator approves and a
worker hands to Temporal.  The boards join reports, runs, eval cases and datasets
with the cases that follow up on them and offer the operator a next action.

What makes each part correct:

* tasks: the audit log and the rows are written together, a body runs only as often as someone decided,
  decisions respect the status they are about, a succeeded report task has its report,
  queued tasks settle;
* eval runs: history, results and report agree, success is final, every claim
  has one outcome, provider errors strand nothing;
* datasets: a published dataset is frozen, a run is an exact snapshot of it;
* cases: assignments are made on the current case, no duplicate open cases;
* Temporal: an approved tool completes at most once, after a decision, and
  success is shown only of a tool that completed;
* chat: writes wait for approval, forbidden tools are out of reach, of the calls
  that are held back one is put before an operator, evaluations have no effects;
* boards: pages lose and repeat nothing, offers agree with the cases.

Where the code does not keep one of these, a run shows it (the violations below) or
the section on documentation and code says so.

## The modules

A store operation is one transaction and therefore one atomic step.  A request
or a worker is split wherever another process can come in between: after each
transaction and each call of an external service.  Contents (titles, reasons,
payloads, time stamps) are abstracted; ids are small numbers in creation order.

**WorkflowTasks** models `workflow_tasks` as `task`, the audit log as event
counts `log`, reports as `report`, and what each handler
(`api`) and worker (`worker`) is in the middle of.  `Promote` /
`StartSucceeds` / `StartFails`, `ApproveRead` / `ApproveWrite` and `RetryRead` /
`RetryWrite` are the three requests of `service.go`; `ClaimQueuedTasks`,
`ExecuteStart`, `ExecuteSucceeds` / `ExecuteFails`, `VersionFound`,
`FinalizeReport` or `RecordGeneratedReport`, and `WriteOutcome` are the loop of
`Runner.ProcessNextBatch`.  The faults are the error returns of that code: a
transaction rolled back, a commit whose acknowledgement is lost, a failed start
or version lookup, and a crash.  `SKIP LOCKED` is a choice of which rows are
locked at that moment, among those another process is about to write.  `Legacy`
are queued report rows without a `version_id`, left by a process older than that
column: only for them does the runner take its version-lookup branch.  The audit
log is kept in no order: events are listed by a `created_at` that is stamped before
the transaction, so the order of their commits is not the order an operator sees.  `audit_ref` is kept as the prefix that
`TemporalExecutor.Execute` reads.  Here an execution just succeeds or fails.

**TemporalTasks** extends WorkflowTasks with the Temporal server: `wf` holds the
runs of each workflow id, `attached` the run a worker waits for, `effects` how
often a tool was called.  Where WorkflowTasks lets an execution end in any way,
here it ends as its run does.  `StartTaskReturns` / `StartTaskErrs` are
`StartTask`; `SubmitWorkflow`, `SubmitRefused` and `SubmitErrs` are
`RunReportWorkflow` and `ContinueApprovedToolWorkflow` under the reuse policy of
`approvedToolStartWorkflowOptions` (`ReuseAllowed`); `ResultArrives` and
`ResultLost` are `WorkflowRun.Get`; the `Activity*` actions and `RunTimesOut` are
the two workflows with their attempts.  The server is external: an id has at most
one open run, a start attaches to it, and a signal wakes a waiting run.

**ToolApproval** is the abstract specification: what an operator may rely on for a
tool that needs approval, with three variables and five actions.  TemporalTasks
implements it under the mapping of `Approval`: the phase of a request is the
status of its task, `granted` is read off the audit log, `completed` counts the
runs that completed.  `ToolApprovalIsKept` checks it.  The converse reading matters
as well: an attempt may *call* a tool more often than once, which is why
`ToolCallsWithinDecisions` bounds calls separately.

**Planning** holds what decides about tools: `MergePolicies` over organisation,
tenant and user, `isTenantToolAllowed`, `validateLLMPlan`, `validatePlanPolicy`,
and the keyword planner (`selectTool`, `buildSteps`, `planWithKeywords`).  A
message is reduced to the keywords the planner looks for.

**ChatTurn** models `chat.Service.Handle`, one `turn` per request, over the stored
`messages` (a count of each, by session, role and request), the `promoted` tasks and the policy `cache`.  `LookUpPolicy`,
`QueryPolicies` / `QueryFails`, `CachePolicy` are the three places of `LoadPolicy`
between which other requests run (`Parsed` is `LoadScopedPolicies` passing over rows
that are malformed); then `OpenSession`, `StoreUserMessage`,
`PlanTurn`, `Retrieve`, `RunTool` / `Replan` / `ToolFailsTurn`, `ToolsDone`,
`Answer` (completion and review), `Promote` and `Reply`.  The language model may
answer with any plan of `Input[r].plans`, invalid and mislabelled ones included,
and with any verdict.  `TurnFails` and `WriteLost` are the error returns.

**FollowUps** holds the case summaries and the `new...ActionResponse` functions of
the boards as operators.  **Boards** models one request at a time through its
queries, each a step of its own, with the writes of others in between.
`table[t]` is a listing in the order of `updated_at`, so a write moves its row
forward (`Move`): to the front, or behind rows written meanwhile, since the time is
taken before the write commits (`SaveEvalReport` even uses the run's
`finished_at`).  What is filtered out of a listing is written as the set of
positions that stay (`Picked`), and so are the case queues that the summaries
count.  The request being served is the variables from `ask` to `resp`: the query
it makes next (`pc`), the offset of its scan, the page listed last and its rows as
far as they have been read, and what it has gathered.  `touched` and `stale` record
what others wrote since it began; only properties read them.  A request is one of: a listing of reports, runs, eval cases or datasets
with any filter and offset; a client that walks along `next_offset`; the case
queue of a dataset; a detail page; a comparison.  The results of a run and the
cases of their items, two queries of `evalRunFollowUpSummary`, are taken as one
step, and the recent runs of a dataset's detail page are left out.  A write takes a
time no older than the row's own; a delayed save that brings an older one, and
with it moves a row backwards, is not modelled.

**EvalRuns** models the rows, item results, events and reports of runs and the
way of a worker through one run.  Each status change is one compare-and-set
(`transitionRun`), so requests are atomic.  `live` says whether the finalisation
context is still usable: `finalizationContext` makes it so, its five seconds may end
at any point between the judge and the saved report (`ContextExpires`), and the
runner cancels it before it materialises the report of a failed run.  Both error paths, `MarkRejected` and `MaterializeMissed`, follow
the code to where `ProcessNextBatch` returns and forgets its batch.

**EvalDatasets** models datasets, their items in order, and runs with the items
they copied.  A request is `ReadStatus`, `ReadItems` (the two queries of
`GetDataset` and the check of the status) and a write.

**Cases** models the case table, counts of notes, and handlers.  A creation is
`CreateLookup` (the lookup of `handleCreateCase`) and `SaveCase` or
`ReuseOpenEvalRunCase`; the lookup of a compare-origin creation fails where it finds
no case (pc `refused`), so the only compare cases are those the table starts with
(`CompareCases`), stored before creations looked for them; an assignment is a read
and an `UPDATE` that names the `updated_at` that was read (`Matches`).  `updatedAt`
counts the writes of a row, which takes it that no two writes of one case have the
same microsecond.

The modules that compose: TemporalTasks composes WorkflowTasks with the server;
ChatTurn composes Planning with sessions, cache and promotion; Boards joins what
EvalRuns, EvalDatasets and Cases write, reduced to the order of their rows.

The `MC*` modules add the model values and the symmetry sets, the `*_proofs`
modules the theorems.  Definitions introduced by `Mutant:` are wrong variants of
the definition that follows; they are part of no specification and serve to show
that each property depends on the code it is about.

## The runs

| run | bounds | result |
|---|---|---|
| `tasks_safety` | 2 handlers, 2 workers (one saves reports apart), 2 tasks (one legacy), 4 requests, 2 faults of any kind | pass, 500 000 states |
| `tasks_stale_decision` | 2 handlers, 1 worker, 1 task | violation |
| `tasks_unapproved` | 1 handler, 1 worker, 1 task, 1 start failure | violation |
| `evals_safety` | 2 workers, 3 runs, batches of 2, 1 retry per run, 1 fault of every kind | pass, 805 000 states |
| `evals_provider_error` | 1 worker, 2 runs, 1 provider error | violation |
| `cases_safety` | 2 handlers, 2 operators, one source of each kind, 2 cases, compare cases at the start, 5 requests | pass, 439 000 states |
| `cases_duplicate` | the same, 2 requests | violation |
| `datasets_safety` | 3 handlers, 3 eval cases, 2 datasets, 2 runs, 7 requests | pass, 260 000 states |
| `temporal_fair` | 1 handler, 2 workers, 2 tasks, 3 requests, 1 fault, 2 attempts per run, 2 lost answers, `TFairSpec` | pass, 65 000 states |
| `chat_safety` | 2 turns, 2 tools, 7 plans, rows of which none, the tenant's or the organisation's is malformed, 1 replan, 1 policy edit, 1 failed call, with fairness | pass, 233 000 states |
| `chat_malformed_policy` | the same, no edits and no failed calls | violation |
| `boards` | 4 runs, 3 reports, 2 eval cases, 2 datasets, 3 cases, pages of 1, offsets 0 and 1, 2 writes of others per behaviour | pass, 2 770 000 states |

Why the bounds are enough for the cases that matter: two actors of a kind make
every race of the code (its races are between pairs: two approvals, a retry and a
claim, an addition and a publication; datasets need a third for the reader).
Two tasks or three runs with batches of two make a batch that is given up
half-way, and one row left for the other worker.  Two faults make one during the
handling of another.  Seven requests are what it takes to create, add to, publish
and run a dataset with two overtaking requests.

Two attempts (the code has three) are the least number with a
repetition, and two lost answers let the answer of a retry be lost as well.  One
chat turn may come with anything; the other is an evaluation that shares its
session and its policy cache.  Pages of one row put a page boundary between any
two rows, so that the code's sizes (50, 20, 100) are no special case: the scan
logic only compares positions with `offset`, `limit` and the page.  Two writes
move a row and change a summary, or move two rows past the reader.

`temporal_fair` has one handler and no lost acknowledgement of a commit because
`ClaimIsExclusive` and `ToolApprovalIsKept` fail otherwise: a second, stale decision
queues a task that a worker has (`tasks_stale_decision`), and a commit that is
reported as failed leaves a worker holding a row that a retry queues again.  So the
run shows what Temporal adds to the tasks, not what overlapping decisions do; those
are in `tasks_safety`.  In `tasks_safety` one worker finalises in one transaction, as
`cmd/worker` does with its store, and the other takes the path of a runner without
an `AtomicReportRecorder`, which saves the report before the task; that save fails
or is acknowledged, and a lost answer to it is not modelled.

Deadlock is checked in `boards` only, where a reader can always go on.  In the
others, with all requests used up and all work settled the system rests, and so
does the real one.

What the passing runs show:

* `ClaimsWithinDecisions`, `ExecutionsWithinDecisions`: no task is claimed or
  executed more often than it was queued by a creation, approval or retry, stale ones
  included.
* `SucceededReportIsReady`, `RunningIsHeld`, `ClaimIsExclusive`: a succeeded report
  task has its report, running tasks have a worker unless a fault happened, and one
  worker at a time.
* `QueuedTasksSettleUnlessFault`: every queued task is eventually succeeded or
  failed, whatever answers Temporal loses, unless a fault of a worker or of the
  database happened.
* `ToolApprovalIsKept`, `ToolCallsWithinDecisions`: the refinement described above,
  and at most `MaximumAttempts` calls of a tool per decision to run it.
* `HistoryMatchesRun`, `FlowConserved`, `SucceededIsFinal`,
  `SuccessReportIsTrue`, `OwnerIsUnique`, `SuccessIsReported`: see the comments in
  `EvalRuns`.
* `MembersAreDistinct`, `PublishedIsFrozen`, `RunsMatchBaseline`: the re-check
  under the row lock is what freezes a published dataset, and reading the status
  before the items is what makes the unlocked snapshot of `CreateRun` right.
* `AssignmentIsInformed`, `TokenIdentifiesCase`, `OneOpenCasePerRun`: `updated_at`
  works as a token because every write of a case sets it.
* `WritesAwaitApproval`, `ForbiddenToolsAreNotReached`, `HeldBackCallIsPromoted`,
  `EvaluationsHaveNoEffects`, `OutcomeMatchesEffects`, `TurnsEnd`: the gates of a
  chat turn hold against any plan, on the replanning path, during an outage and
  with a stale cache.  Two limits are part of what they say: what is forbidden is
  what rows that parse forbid, and of several held-back tools one gets a task.
* `PageIsExact`, `UntouchedRowsAreSeen`: a filtered scan returns exactly its page if
  nothing is written meanwhile, and writes never make it skip a row they do not
  touch (rows are moved forward only, never deleted).
* `LatestRunIsNewest`, `DatasetQueueIsComplete`, `OffersMatchCases`: what a dataset
  row says of its newest run and its queue, and that offers computed from several
  queries agree with the case table.  Whether an offered creation then succeeds is
  not part of it: that of a compare case does not.

What the violations show (the quoted documents are under "findings" in
PROJECT.json):

* `tasks_stale_decision`: a stale approval or retry rewrites a task that has moved
  on.
* `tasks_unapproved`: a tool runs unapproved after a failed start and a retry.
* `evals_provider_error`: a provider error strands the rest of a batch of eval runs
  in `running`.
* `cases_duplicate`: two requests open two cases for one eval report.
* `chat_malformed_policy`: a row of the organisation that does not parse lifts its
  list of forbidden tools.

Fairness.  `TFairness` assumes weak fairness of each worker's fault-free steps, of
the completion of an accepted request, and of the server.  The first is the ticker
of `startPollLoop`, which calls `process` until shutdown; the second is net/http
running a handler to its end; the third says that runs end, which the server's
execution timeout sees to, and that an attached worker gets the result. `Fairness` of ChatTurn is
weak fairness of each accepted turn: its goroutine runs on, the HTTP clients of the
language model and the tools have timeouts, and the database is taken to answer or
to fail.  No fairness is assumed of requests being made, of approvals, of policy
edits or of faults.

## The proofs

| module | theorem | property |
|---|---|---|
| `WorkflowTasks_proofs` | `TypeCorrect`, `ClaimsBounded` | `TypeOK`, `ClaimsWithinDecisions` |
| | `NothingStranded`, `ExecutionsBounded`, `SucceededReportsReady` | `RunningIsHeld`, `ExecutionsWithinDecisions`, `SucceededReportIsReady` |
| | `Exclusive` (with `OneAtATime`) | `ClaimIsExclusive` |
| `TemporalTasks_proofs` | `TemporalImplementsTasks`, `TemporalTypeCorrect`, `ToolCallsBounded` | `TSpec => Spec`, `TTypeOK`, `ToolCallsWithinDecisions` |
| `ToolApproval_proofs` | `ApprovalKept` (with `OneAtATime`) | `ToolApprovalIsKept` |
| `EvalRuns_proofs` | `TypeCorrect`, `HistoryTrue`, `FlowHolds`, `SuccessIsFinal` | `TypeOK`, `HistoryMatchesRun`, `FlowConserved`, `SucceededIsFinal` |
| | `ReportsTrue`, `SuccessReported`, `OwnersUnique` | `SuccessReportIsTrue`, `SuccessIsReported`, `OwnerIsUnique` |
| `Cases_proofs` | `TypeCorrect`, `TokenHolds`, `AssignmentInformed`, `OneOpenCase` | `TypeOK`, `TokenIdentifiesCase`, `AssignmentIsInformed`, `OneOpenCasePerRun` |
| `EvalDatasets_proofs` | `TypeCorrect`, `PublishedFrozen`, `BaselineHolds`, `MembersDistinct` | `TypeOK`, `PublishedIsFrozen`, `RunsMatchBaseline`, `MembersAreDistinct` |
| `ChatTurn_proofs` | `ChatTypeCorrect`, `WritesAwait`, `ForbiddenUnreached` | `TypeOK`, `WritesAwaitApproval`, `ForbiddenToolsAreNotReached` |
| | `HeldBackPromoted`, `EvaluationsInert`, `OutcomesMatch` | `HeldBackCallIsPromoted`, `EvaluationsHaveNoEffects`, `OutcomeMatchesEffects` |
| `Boards_proofs` | `TypeCorrect`, `PageExact`, `UntouchedSeen` | `TypeOK`, `PageIsExact`, `UntouchedRowsAreSeen` |
| | `LatestRunShown`, `DatasetQueueComplete`, `OffersMatched` | `LatestRunIsNewest`, `DatasetQueueIsComplete`, `OffersMatchCases` |

They hold for every number of tasks, runs, cases, datasets, turns, handlers and
workers, for every registry of tools, every set of policies and plans, every size of
page, offset and length of a listing, any number of writes between two queries of a
board, and for every bound.  The assumptions are those that the modules state by
name (`ConstantsAssumption`, `TemporalAssumption`, `RegistryAssumption`,
`ChatAssumption`): bounds are natural numbers, a batch limit is positive, the fault
kinds are known ones, the absent value is not an operator, a run or a tool, and the
plans, messages and policies that may come in have the shape their Go types give
them.  A policy that may come in is one with the flag `configured` or the absent
one, and any of its layers may be malformed.  The listings that Boards starts with
have each row once, and its cases name rows that exist, which primary keys and
`validateCaseSources` see to.

Two theorems have a hypothesis besides.  `OneAtATime` says that there is one
handler and no lost acknowledgement of a commit, the configuration of
`temporal_fair`.  It is needed: `tasks_stale_decision` is the counterexample with
two handlers, and a commit that is reported as failed leaves a worker holding a row
that another may claim after a retry.  Workers, their number, crashes, rolled back
transactions and everything Temporal does are not restricted by it.  Some
properties say in themselves what they are about: `SuccessIsReported` speaks of
behaviours without a failed transaction, a crash or an expired context, `OwnerIsUnique`
of those without a lost acknowledgement, and `ForbiddenToolsAreNotReached` of what
rows that parse have forbidden all the time.

How they go:

* `ClaimsBounded`.  `ClaimsWithinDecisions` counts a queued row as a decision that
  no claim has used.  It needs `ClaimInv`, which adds that an absent row has no
  claims, so that the creation of a row that needs approval keeps it.  Each kind of
  write (update, claim, insertion) has a lemma.
* `NothingStranded`, `ExecutionsBounded`.  `Kinds` reduces the steps of a worker to
  six effects on what it holds and on the tables, with `HandsInv`: between batches
  a worker holds nothing.  `ExecutionsWithinClaims` then counts: the executions of a
  task, plus the workers that hold it and have not begun, are at most its claims;
  with `ClaimsBounded` these are at most the decisions.
* `SucceededReportsReady`.  `ReportInv` adds that a worker about to write a report
  task as succeeded has its report saved, and that its snapshot has the type of the
  row, since it decides by the snapshot whether a report is due.
* `Exclusive`.  `SerialInv`: a row in a worker's hands is
  running, and what the one handler has read is still so.  Each part needs the
  other: a row in hands cannot be decided about because it is running.
* `TemporalImplementsTasks`.  Every step of TemporalTasks is a step of WorkflowTasks
  or leaves its variables alone, so the theorems above carry over.
* `ToolCallsBounded`.  `CallsInv`: the calls made, plus the attempts left to the open
  run, plus `MaximumAttempts` for each worker that has begun and not yet submitted,
  are at most `MaximumAttempts` times the executions.  It rests on `TInv`: only the
  newest run of an id is open, and a worker waits for a run that exists.
* `ApprovalKept` is the refinement step by step.  `RowsInv`: a gated row is queued or
  running only after a decision.  `SnapsCurrent`: what a worker holds of a gated row
  is what the row says.  `ApprovalInv`: a run works or has completed only
  after a decision, no run follows one that completed, a task whose approval is
  awaited or has not been submitted has none that works or has completed, and a worker reports success
  only of a tool that completed.  Each step is then one of the five actions of
  ToolApproval or a stutter.  The attempt showed that the guards of the CASE in
  `PhaseOf`, part of the mapping, overlapped for tasks that are not gated, so that
  its value was not determined; it is an IF now.
* `HistoryTrue`, `FlowHolds`, `SuccessIsFinal`.  `StepKinds` reduces the steps of
  all processes to five effects on the tables; each property is then preserved by
  each effect.
* `ReportsTrue`, `SuccessReported`.  `SaverInv`: a worker that goes on to the report
  with a live context has a run that succeeded, and what it read of the run says so;
  a success is never undone, so the late save is still right.
* `OwnersUnique`.  `OwnerInv` adds that a run that is owned is running.
* `TokenHolds`, `AssignmentInformed`.  `TokenInv` says that a snapshot is not newer
  than the row, and is the row if it is as new; it is kept because every write
  increases `updatedAt`.  `Unborn` adds that an absent row has no assignee.
* `OneOpenCase`.  The property is inductive: `SaveCase` looks and inserts in one
  step, and only `ReopenCase` opens a case otherwise, with its note.
* `PublishedFrozen` needs the types only; `BaselineHolds` needs `ReaderOK`: a
  handler that has read "published" for a run reads a dataset that is published by
  now, and the items it holds are the dataset's.
* ChatTurn.  First lemmas about Planning: merging layers adds up their lists of
  forbidden tools (`LayeredPolicy`, `MergedPolicy`), and every plan that validation
  lets through, and every plan of the keyword planner, uses registered tools that
  the policy does not forbid (`PlansAllowed`).  `Kinds` then reduces the steps of a
  turn to eleven effects, and `Inv` is preserved by each.  Its parts: `PolicyInv`
  (rows, cache and loaded policies forbid what has been forbidden all the time, or
  deny every tool), `PlanInv` (so do the plans made under them), `ProgressInv` (no
  calls before the tools and no task before the promotion; an evaluation comes to
  neither), `PromotionInv` (a turn about to promote with a held-back call has the
  verdict that makes the task one for that tool), and `MessagesInv`, `FailureInv`,
  `SessionInv` (what is stored of a turn, by its place).
* Boards.  The lemmas about positions come first: `NthFacts` and `PickedFacts` (what
  is picked, and in which order), `PickedAppend` (picking from two parts of a list
  in turn is picking from the list, the reason why a scan may filter page by page),
  `PageIs`, and `MoveFacts` (a row that is not written only moves backwards).
  `ReaderKinds` and `WritesOf` then reduce the actions to the writing of a row, the
  writing of a case, and a few kinds of queries.
* `UntouchedSeen`.  `SeenInv`: a row that nobody wrote, which in truth passes the
  filter, and whose position is behind the offset of the scan, has been gathered or
  is on the page being read.  It is kept by writes because such a row never moves
  forward, so it cannot get from before the reader to behind it.  It needs
  `TruthInv`, which says of every field of a row that has been read that it is as it
  is in truth, up to what was written since; only so does a row that matches in
  truth match when it is read.  `IdsInv` is the same for the reports that the scans
  for a dataset meet.
* `LatestRunShown`.  `NewestInv`: no run behind the offset, of a dataset that has none
  yet, is unwritten, and the run that a dataset has was written or is in front of
  every unwritten one.  The early stop is right since datasets keep the first run met.
* `DatasetQueueComplete`.  `ListedIds`: a report is met twice only if one was written,
  the reports met are of the dataset, and the list of a case queue has none twice.
  So the sum of the counts over a dataset's list is at least, and without writes
  exactly, the number of its cases (`Counted` as the cardinality of a set of pairs).
  `DatasetInv` says which fields of a candidate hold what after which query.
* `OffersMatched`.  `RespInv` carries `TruthInv` over to the rows of the response; then
  `SummaryFacts` (a summary has an open case just if the queue has, and its latest
  case is the first of the queue) decides each offer.
* `PageExact`.  `ExactInv`: while nothing is written, a filtered scan at offset n has
  gathered exactly the matches among the first n rows of the listing, and the page
  being read is the one at n.  A scan that stops early has gathered a prefix of all
  matches that is longer than the page it answers (`PagePrefix`).

Only model-checked:

* liveness (`QueuedTasksSettleUnlessFault`, `TurnsEnd`), which is out of the prover's reach;
* the violations, which are counterexamples.

## Where documentation and code differ

Besides the findings of PROJECT.json, met while modelling:

* `GET /eval-reports/{id}?bad_case_needs_follow_up=true` returns the bad cases that
  *have* an open follow-up (`filterEvalReportBadCasesByNeedsFollowUp`,
  `eval_reports.go:726`), while `docs/runbooks/local-bootstrap.md:209` and
  `docs/plans/2026-03-28-eval-report-row-unresolved-bad-case-handoff.md` call it
  the unresolved slice.  The list filter of the same name does mean unresolved.
  Likewise `needs_follow_up` means "has an open case" for reports and eval cases
  and "has uncovered items" for runs and datasets.
* `README.md:75` says the flag `AllowToolUseExplicit` keeps partial policy rows from
  disabling tools; a single partial row without a parent layer still does, since
  `allow` is then the zero value.
* When the version lookup of a report task without a version fails, the runner goes
  on to the finalisation with the status set to failed (`workflow/runner.go:88`), and
  one transaction writes the row as failed, a ready report and a succeeded event.
* A finalisation that was committed and reported as failed is written back as a
  failed task beside its ready report (`workflow/runner.go:105`), although
  `docs/runbooks/local-bootstrap.md:272` says that the two transitions line up.
* The five seconds of the eval finalisation may end between the mark and the saving
  of the report (`eval/runner.go:143`).  The run is then terminal and nothing saves
  its report, although `docs/runbooks/local-bootstrap.md:171` promises one.
* On PostgreSQL no compare case can be created where none is open: `scanCase` has
  replaced `pgx.ErrNoRows` before `FindOpenByCompareOrigin` tests for it
  (`postgres/cases.go:389`), and the handler answers 500.
  `docs/plans/2026-03-28-case-source-eval-report-dedupe.md:19` expects a 201.
* A follow-up offer opens the latest case of its source whenever any is open
  (`eval_reports.go:874`), so it may open a closed one.
* A turn promotes the first call it held back (`chat/service.go:382`); those of other
  tools are dropped without a word to the operator.  Which call that is is decided by
  the name of the tool (`:628`), so that the task may carry the arguments of an
  earlier call of it that has been done already.

## Not modelled

The contents of prompts, retrieved evidence, answers and reports, with their
floating-point scores: retrieval ranking, the context engine, `buildEvalReport`,
`DetectRegression`; ingestion; tenancy checks (all rows of a module are of one
tenant); the task board, the trace page and the version page, which are single
reads; the recent runs of a dataset's detail page; the in-memory stores, which stand in when no
database is configured (their dataset store lacks the draft check under the lock);
the order of the two batches within one tick of the worker.
`Service.UpdateTask` and `EvalRunStore.UpdateRun` have no caller, and no process
configures the `CaseCreator` that `PromoteRegressionCases` needs to open cases.
`PROJECT.json` lists every part with the reason.

## What is left

Every safety property that a passing run checks is proved.  Liveness stays with TLC.
Three hazards of PROJECT.json have no property: the memory store of datasets, the
order of the two batches in a tick of the worker, and the succeeded event of a row
that is written as failed, each with its reason there.
