--------------------------- MODULE WorkflowTasks ---------------------------
(***************************************************************************)
(* The asynchronous task lifecycle of internal/workflow: the rows of       *)
(* workflow_tasks and their audit log, the API requests that create,       *)
(* approve and retry tasks, and the workers that claim, execute and        *)
(* finalise them.                                                          *)
(*                                                                         *)
(* Every store operation is one PostgreSQL transaction and so one atomic   *)
(* step.  What is NOT atomic is a request: ApproveTask and RetryTask read  *)
(* the row, check its status in memory, and write it back with an UPDATE   *)
(* whose only condition is the id (updateTaskQuery); Promote inserts the   *)
(* row, calls Temporal, and may write the row again; a worker holds a row  *)
(* snapshot from its claim to its final write.  Each of these is split     *)
(* where another process can interleave.                                   *)
(***************************************************************************)
EXTENDS Integers, FiniteSets

CONSTANTS
    Clients,         \* API request handlers that may run concurrently
    Workers,         \* worker processes (cmd/worker), one poll loop each
    MaxTasks,        \* task ids are 1..MaxTasks, in created_at order
    Legacy,          \* ids of queued report rows without a version_id, left by
                     \* a process older than migration 000011
    BatchLimit,      \* the limit of ProcessNextBatch
    Temporal,        \* TRUE: Temporal starter and executor are configured
    Atomic,          \* the workers whose report store finalises in one transaction:
                     \* all, but for those of an older build or another store
    FaultKinds,      \* which faults may happen
    MaxOps,          \* bound: API requests accepted in one behaviour
    MaxFaults        \* bound: faults in one behaviour

Tasks == 1..MaxTasks

ASSUME ConstantsAssumption ==
    /\ MaxTasks \in Nat
    /\ Legacy \subseteq Tasks
    /\ BatchLimit \in Nat \ {0}
    /\ Temporal \in BOOLEAN
    /\ Atomic \subseteq Workers
    /\ FaultKinds \subseteq {"rollback", "lostack", "crash", "start", "lookup"}
    /\ MaxOps \in Nat
    /\ MaxFaults \in Nat

TaskTypes == {"report_generation", "approved_tool_execution"}
Statuses == {"absent", "waiting_approval", "queued", "running", "succeeded", "failed"}
Actions == {"created", "claimed", "approved", "retried", "succeeded", "failed"}

\* audit_ref, cut down to the prefix that TemporalExecutor.Execute reads.
AuditRefs == {"none", "approval", "retry", "start_failed", "worker"}

Row == [type : TaskTypes, requiresApproval : BOOLEAN, version : BOOLEAN,
        status : Statuses, auditRef : AuditRefs]

NoRow == [type |-> "report_generation", requiresApproval |-> FALSE,
          version |-> FALSE, status |-> "absent", auditRef |-> "none"]

VARIABLES
    task,     \* [Tasks -> Row]: the workflow_tasks table
    log,      \* log[t][a]: how many events with action a the audit log of t has
    report,   \* report[t]: a ready report exists for t
    execs,    \* execs[t]: how often Executor.Execute was called for t
    api,      \* what each API handler is in the middle of
    worker,   \* what each worker is in the middle of
    ops,      \* API requests accepted so far
    faults    \* faults so far

store == <<task, log, report>>
vars == <<task, log, report, execs, api, worker, ops, faults>>

IdleClient == [pc |-> "idle", id |-> 0, snap |-> NoRow]

IdleWorker == [pc |-> "idle", batch |-> {}, snap |-> [t \in Tasks |-> NoRow],
               cur |-> 0, status |-> "absent"]

Exists(t) == task[t].status # "absent"

Init ==
    /\ task = [t \in Tasks |->
                  IF t \in Legacy THEN [NoRow EXCEPT !.status = "queued"] ELSE NoRow]
    /\ log = [t \in Tasks |->
                  [a \in Actions |-> IF t \in Legacy /\ a = "created" THEN 1 ELSE 0]]
    /\ report = [t \in Tasks |-> FALSE]
    /\ execs = [t \in Tasks |-> 0]
    /\ api = [c \in Clients |-> IdleClient]
    /\ worker = [w \in Workers |-> IdleWorker]
    /\ ops = 0
    /\ faults = 0

----------------------------------------------------------------------------
(* The store: each operator is the effect of one committed transaction.    *)

\* The mutable columns of a row, overwritten.
Written(row, status, ref, version) ==
    [row EXCEPT !.status = status, !.auditRef = ref, !.version = version]

\* The event counts of a task after one more event.
Counted(counts, action) == [counts EXCEPT ![action] = @ + 1]

\* One more event in the audit log of t.
AppendTaskEvent(t, action) == log' = [log EXCEPT ![t] = Counted(@, action)]

\* INSERT of a row with its "created" event.
CreateTaskWithEvent(t, row) ==
    /\ task' = [task EXCEPT ![t] = row]
    /\ AppendTaskEvent(t, "created")
    /\ UNCHANGED report

\* UPDATE ... WHERE id = t of the mutable columns, with its event: whatever
\* the row's status is by now, it is overwritten.
UpdateTaskWithEvent(t, status, ref, version, action) ==
    /\ task' = [task EXCEPT ![t] = Written(task[t], status, ref, version)]
    /\ AppendTaskEvent(t, action)

Fault(kind) ==
    /\ kind \in FaultKinds
    /\ faults < MaxFaults
    /\ faults' = faults + 1

----------------------------------------------------------------------------
(* API requests.                                                           *)

ShouldStartTaskOnPromote(row) ==
    Temporal /\ row.type = "approved_tool_execution" /\ row.requiresApproval

NewRow(type, requiresApproval) ==
    [type |-> type, requiresApproval |-> requiresApproval, version |-> TRUE,
     status |-> IF requiresApproval THEN "waiting_approval" ELSE "queued",
     auditRef |-> "none"]

\* Promote up to the row's insertion.  A request whose version lookup or
\* insert fails returns with nothing changed.  Ids are handed out before the
\* insert commits, so rows may appear out of created_at order.
Promote(c) ==
    /\ api[c].pc = "idle"
    /\ ops < MaxOps
    /\ ops' = ops + 1
    /\ \E t \in Tasks, type \in TaskTypes, requiresApproval \in BOOLEAN :
          LET row == NewRow(type, requiresApproval) IN
          /\ ~Exists(t)
          /\ CreateTaskWithEvent(t, row)
          /\ api' = IF ShouldStartTaskOnPromote(row)
                    THEN [api EXCEPT ![c] = [pc |-> "starting", id |-> t, snap |-> row]]
                    ELSE api
    /\ UNCHANGED <<execs, worker, faults>>

\* StartTask returned no error: Promote is done.
StartSucceeds(c) ==
    /\ api[c].pc = "starting"
    /\ api' = [api EXCEPT ![c] = IdleClient]
    /\ UNCHANGED <<store, execs, worker, ops, faults>>

\* StartTask failed: Promote writes the row it inserted back as failed.
StartFails(c) ==
    /\ api[c].pc = "starting"
    /\ Fault("start")
    /\ UpdateTaskWithEvent(api[c].id, "failed", "start_failed",
                           api[c].snap.version, "failed")
    /\ api' = [api EXCEPT ![c] = IdleClient]
    /\ UNCHANGED <<report, execs, worker, ops>>

\* GetTask and the status check of ApproveTask.  A request that finds another
\* status returns ErrInvalidTaskTransition and changes nothing.
ApproveRead(c, t) ==
    /\ api[c].pc = "idle"
    /\ ops < MaxOps
    /\ ops' = ops + 1
    /\ task[t].status = "waiting_approval"
    /\ api' = [api EXCEPT ![c] = [pc |-> "approving", id |-> t, snap |-> task[t]]]
    /\ UNCHANGED <<store, execs, worker, faults>>

ApproveWrite(c) ==
    /\ api[c].pc = "approving"
    /\ UpdateTaskWithEvent(api[c].id, "queued", "approval", api[c].snap.version, "approved")
    /\ api' = [api EXCEPT ![c] = IdleClient]
    /\ UNCHANGED <<report, execs, worker, ops, faults>>

RetryRead(c, t) ==
    /\ api[c].pc = "idle"
    /\ ops < MaxOps
    /\ ops' = ops + 1
    /\ task[t].status = "failed"
    /\ api' = [api EXCEPT ![c] = [pc |-> "retrying", id |-> t, snap |-> task[t]]]
    /\ UNCHANGED <<store, execs, worker, faults>>

RetryWrite(c) ==
    /\ api[c].pc = "retrying"
    /\ UpdateTaskWithEvent(api[c].id, "queued", "retry", api[c].snap.version, "retried")
    /\ api' = [api EXCEPT ![c] = IdleClient]
    /\ UNCHANGED <<report, execs, worker, ops, faults>>

\* The write of an approval or retry is rolled back: the request fails.
DecisionFails(c) ==
    /\ api[c].pc \in {"approving", "retrying"}
    /\ Fault("rollback")
    /\ api' = [api EXCEPT ![c] = IdleClient]
    /\ UNCHANGED <<store, execs, worker, ops>>

----------------------------------------------------------------------------
(* Workers.                                                                *)

Queued == {t \in Tasks : task[t].status = "queued"}

\* Rows whose lock another transaction, of a request or of a worker that is
\* writing an outcome, may be holding at this moment.
Lockable ==
    {api[c].id : c \in {d \in Clients : api[d].pc # "idle"}}
        \cup {worker[w].cur : w \in {v \in Workers :
                                      worker[v].pc \in {"finalizing", "updating"}}}

\* The rows ClaimQueuedTasks picks: the BatchLimit oldest queued rows that
\* are not locked (FOR UPDATE SKIP LOCKED).
Claimable(locked) ==
    LET free == Queued \ locked
    IN  {t \in free : Cardinality({u \in free : u < t}) < BatchLimit}

\* Mutant: the claim returns the queued rows without marking them running.
ClaimRowsUnmarked(ids) ==
    /\ UNCHANGED <<task, report>>
    /\ log' = [t \in Tasks |->
                   IF t \in ids THEN Counted(log[t], "claimed") ELSE log[t]]

ClaimRows(ids) ==
    /\ task' = [t \in Tasks |->
                   IF t \in ids THEN [task[t] EXCEPT !.status = "running"] ELSE task[t]]
    /\ log' = [t \in Tasks |->
                   IF t \in ids THEN Counted(log[t], "claimed") ELSE log[t]]
    /\ UNCHANGED report

ClaimQueuedTasks(w) ==
    /\ worker[w].pc = "idle"
    /\ \E locked \in SUBSET Lockable :
          LET ids == Claimable(locked) IN
          /\ ids # {}
          /\ ClaimRows(ids)
          /\ worker' = [worker EXCEPT ![w] =
                [IdleWorker EXCEPT
                    !.pc = "next", !.batch = ids,
                    !.snap = [t \in Tasks |-> IF t \in ids THEN task'[t] ELSE NoRow]]]
    /\ UNCHANGED <<execs, api, ops, faults>>

\* The claim commits but its acknowledgement is lost: ProcessNextBatch
\* returns the error and the rows stay running with nobody to execute them.
ClaimLost(w) ==
    /\ worker[w].pc = "idle"
    /\ Fault("lostack")
    /\ \E locked \in SUBSET Lockable :
          Claimable(locked) # {} /\ ClaimRows(Claimable(locked))
    /\ UNCHANGED <<execs, api, worker, ops>>

\* The next task of the batch goes to the executor.  UPDATE ... RETURNING
\* promises no order, so it is any of them.
ExecuteStart(w) ==
    /\ worker[w].pc = "next"
    /\ \E t \in worker[w].batch :
          /\ worker' = [worker EXCEPT ![w] = [@ EXCEPT !.pc = "executing", !.cur = t]]
          /\ execs' = [execs EXCEPT ![t] = @ + 1]
    /\ UNCHANGED <<store, api, ops, faults>>

\* Whether TemporalExecutor.Execute sends the row to a Temporal workflow; the
\* placeholder executor runs the rest and never fails on a known type.
UsesTemporal(row) ==
    /\ Temporal
    /\ \/ row.type = "report_generation"
       \/ row.auditRef \in {"approval", "retry"}

\* Execute returned without error: a report is finalised first, after the
\* current version was looked up for a row that has none; any other task is
\* written back as succeeded.
ExecuteSucceeds(w) ==
    LET row == worker[w].snap[worker[w].cur] IN
    /\ worker[w].pc = "executing"
    /\ worker' = [worker EXCEPT ![w] = [@ EXCEPT
          !.pc = IF row.type # "report_generation" THEN "updating"
                 ELSE IF row.version THEN "finalizing" ELSE "versioning",
          !.status = "succeeded"]]
    /\ UNCHANGED <<store, execs, api, ops, faults>>

\* Mutant: the runner goes to the write without setting the status.
FailedWithoutStatus(w) == [worker[w] EXCEPT !.pc = "updating"]

\* The worker once it has decided to write its current task back as failed.
Failed(w) == [worker[w] EXCEPT !.pc = "updating", !.status = "failed"]

ExecuteFails(w) ==
    /\ worker[w].pc = "executing"
    /\ UsesTemporal(worker[w].snap[worker[w].cur])
    /\ worker' = [worker EXCEPT ![w] = Failed(w)]
    /\ UNCHANGED <<store, execs, api, ops, faults>>

\* Mutant: the runner returns after the first task of its batch.
AdvancedToIdle(w) == IdleWorker

\* The worker after it is done with its current task.
Advanced(w) ==
    LET rest == worker[w].batch \ {worker[w].cur}
    IN  IF rest = {} THEN IdleWorker
        ELSE [worker[w] EXCEPT !.pc = "next", !.batch = rest, !.cur = 0,
                               !.status = "absent",
                               !.snap = [@ EXCEPT ![worker[w].cur] = NoRow]]

\* The snapshots of w with the version of its current task filled in.
Versioned(w) ==
    [t \in Tasks |-> IF t = worker[w].cur THEN [worker[w].snap[t] EXCEPT !.version = TRUE]
                     ELSE worker[w].snap[t]]

\* The runner's lookup of the current version for a row that has none.
VersionFound(w) ==
    /\ worker[w].pc = "versioning"
    /\ worker' = [worker EXCEPT ![w] =
                      [@ EXCEPT !.pc = "finalizing", !.snap = Versioned(w)]]
    /\ UNCHANGED <<store, execs, api, ops, faults>>

\* The lookup fails: the runner sets the status to failed, and goes on to
\* finalise the report all the same.
VersionError(w) ==
    /\ worker[w].pc = "versioning"
    /\ Fault("lookup")
    /\ worker' = [worker EXCEPT ![w] = [@ EXCEPT !.pc = "finalizing", !.status = "failed"]]
    /\ UNCHANGED <<store, execs, api, ops>>

\* Mutant: the report row is left out of the finalisation.
FinalizeCommitWithoutReport(w) ==
    /\ UpdateTaskWithEvent(worker[w].cur, worker[w].status, "worker", TRUE, "succeeded")
    /\ UNCHANGED report

\* The one transaction of FinalizeSucceededTaskWithReport: the row with the
\* status the runner holds, a "succeeded" event whatever that status is, and
\* the report.  buildGeneratedReport has filled in a missing version by then.
FinalizeCommit(w) ==
    /\ UpdateTaskWithEvent(worker[w].cur, worker[w].status, "worker", TRUE, "succeeded")
    /\ report' = [report EXCEPT ![worker[w].cur] = TRUE]

FinalizeReport(w) ==
    /\ w \in Atomic
    /\ worker[w].pc = "finalizing"
    /\ FinalizeCommit(w)
    /\ worker' = [worker EXCEPT ![w] = Advanced(w)]
    /\ UNCHANGED <<execs, api, ops, faults>>

\* The finalisation (or the report's save) fails: the task is to be written
\* back as failed.
FinalizeRolledBack(w) ==
    /\ worker[w].pc = "finalizing"
    /\ Fault("rollback")
    /\ worker' = [worker EXCEPT ![w] = Failed(w)]
    /\ UNCHANGED <<store, execs, api, ops>>

\* The finalisation commits, its acknowledgement is lost, and the runner
\* takes it for a failure.
FinalizeLost(w) ==
    /\ w \in Atomic
    /\ worker[w].pc = "finalizing"
    /\ Fault("lostack")
    /\ FinalizeCommit(w)
    /\ worker' = [worker EXCEPT ![w] = Failed(w)]
    /\ UNCHANGED <<execs, api, ops>>

\* A report store without combined transactions: the report is saved now and
\* the task is written back in a step of its own.
RecordGeneratedReport(w) ==
    /\ w \notin Atomic
    /\ worker[w].pc = "finalizing"
    /\ report' = [report EXCEPT ![worker[w].cur] = TRUE]
    /\ worker' = [worker EXCEPT ![w] = [@ EXCEPT !.pc = "updating"]]
    /\ UNCHANGED <<task, log, execs, api, ops, faults>>

\* The write of the outcome that the worker holds.
OutcomeCommit(w) ==
    /\ UpdateTaskWithEvent(worker[w].cur, worker[w].status, "worker",
                           worker[w].snap[worker[w].cur].version, worker[w].status)
    /\ UNCHANGED report

WriteOutcome(w) ==
    /\ worker[w].pc = "updating"
    /\ OutcomeCommit(w)
    /\ worker' = [worker EXCEPT ![w] = Advanced(w)]
    /\ UNCHANGED <<execs, api, ops, faults>>

\* The write fails: ProcessNextBatch returns, and with it the rest of the
\* batch is dropped, still running in the store.
OutcomeRolledBack(w) ==
    /\ worker[w].pc = "updating"
    /\ Fault("rollback")
    /\ worker' = [worker EXCEPT ![w] = IdleWorker]
    /\ UNCHANGED <<store, execs, api, ops>>

OutcomeLost(w) ==
    /\ worker[w].pc = "updating"
    /\ Fault("lostack")
    /\ OutcomeCommit(w)
    /\ worker' = [worker EXCEPT ![w] = IdleWorker]
    /\ UNCHANGED <<execs, api, ops>>

\* The process dies or is shut down in the middle of a batch, and restarts.
Crash(w) ==
    /\ worker[w].pc # "idle"
    /\ Fault("crash")
    /\ worker' = [worker EXCEPT ![w] = IdleWorker]
    /\ UNCHANGED <<store, execs, api, ops>>

----------------------------------------------------------------------------
ClientStep(c) ==
    \/ Promote(c)
    \/ StartSucceeds(c)
    \/ StartFails(c)
    \/ \E t \in Tasks : ApproveRead(c, t) \/ RetryRead(c, t)
    \/ ApproveWrite(c)
    \/ RetryWrite(c)
    \/ DecisionFails(c)

\* A worker's steps when nothing goes wrong.
WorkerStep(w) ==
    \/ ClaimQueuedTasks(w)
    \/ ExecuteStart(w)
    \/ ExecuteSucceeds(w)
    \/ ExecuteFails(w)
    \/ VersionFound(w)
    \/ FinalizeReport(w)
    \/ RecordGeneratedReport(w)
    \/ WriteOutcome(w)

WorkerFault(w) ==
    \/ ClaimLost(w)
    \/ VersionError(w)
    \/ FinalizeRolledBack(w)
    \/ FinalizeLost(w)
    \/ OutcomeRolledBack(w)
    \/ OutcomeLost(w)
    \/ Crash(w)

Next ==
    \/ \E c \in Clients : ClientStep(c)
    \/ \E w \in Workers : WorkerStep(w) \/ WorkerFault(w)

Spec == Init /\ [][Next]_vars

----------------------------------------------------------------------------
(* Properties.                                                             *)

ClientState == [pc : {"idle", "starting", "approving", "retrying"},
                id : Tasks \cup {0}, snap : Row]

WorkerState == [pc : {"idle", "next", "executing", "versioning", "finalizing", "updating"},
                batch : SUBSET Tasks, snap : [Tasks -> Row],
                cur : Tasks \cup {0}, status : {"absent", "succeeded", "failed"}]

\* A request in flight is about a task; a worker that is past picking a task
\* has picked one of its batch, and one that is past executing it has an
\* outcome to write.
ClientOK(s) == s.pc # "idle" => s.id \in Tasks

WorkerOK(s) ==
    /\ s.pc \notin {"idle", "next"} => s.cur \in s.batch
    /\ s.pc \in {"versioning", "finalizing", "updating"} => s.status # "absent"

TypeOK ==
    /\ task \in [Tasks -> Row]
    /\ log \in [Tasks -> [Actions -> Nat]]
    /\ report \in [Tasks -> BOOLEAN]
    /\ execs \in [Tasks -> Nat]
    /\ api \in [Clients -> ClientState]
    /\ worker \in [Workers -> WorkerState]
    /\ ops \in 0..MaxOps
    /\ faults \in 0..MaxFaults
    /\ \A c \in Clients : ClientOK(api[c])
    /\ \A w \in Workers : WorkerOK(worker[w])

\* The decisions that put a task in the queue: its creation, unless it has
\* to wait for an approval, and every approval and retry.
Decisions(t) ==
    (IF task[t].requiresApproval THEN 0 ELSE log[t]["created"])
        + log[t]["approved"] + log[t]["retried"]

\* A task body runs at most once per decision to run it: no interleaving of
\* claims, stale approvals, crashes and lost acknowledgements makes a worker
\* execute a task that nobody queued again.  In particular a task that
\* requires approval never runs before someone approved or retried it.
ExecutionsWithinDecisions ==
    \A t \in Tasks : execs[t] <= Decisions(t)

\* The same for claims, strong enough to be inductive: a queued row is a
\* decision that no claim has used yet.
ClaimsWithinDecisions ==
    \A t \in Tasks :
        log[t]["claimed"] + (IF task[t].status = "queued" THEN 1 ELSE 0) <= Decisions(t)

\* A report task shown as succeeded has its report, however the finalisation
\* was retried or interleaved, and also where report and task are saved in two
\* steps with a failure or a crash between them.
SucceededReportIsReady ==
    \A t \in Tasks :
        task[t].status = "succeeded" /\ task[t].type = "report_generation" => report[t]

Holds(w, t) == t \in worker[w].batch

\* A running task is in the hands of some worker, unless a fault happened:
\* only a crash, a lost claim or a failed write strands a task.
RunningIsHeld ==
    faults = 0 =>
        \A t \in Tasks : task[t].status = "running" => \E w \in Workers : Holds(w, t)

\* At most one worker has a task at a time.
ClaimIsExclusive ==
    \A t \in Tasks : \A v, w \in Workers : Holds(v, t) /\ Holds(w, t) => v = w

\* "Approval and retry endpoints should reject invalid task states explicitly
\* rather than silently rewriting state": an approval is recorded only for a
\* task that waits for one, a retry only for one that failed.
DecisionsRespectState ==
    [][\A t \in Tasks :
          /\ log'[t]["approved"] > log[t]["approved"] => task[t].status = "waiting_approval"
          /\ log'[t]["retried"] > log[t]["retried"] => task[t].status = "failed"]_vars

\* A tool that requires approval runs only after an approval was recorded.
ApprovedBeforeExecution ==
    \A t \in Tasks : task[t].requiresApproval /\ execs[t] > 0 => log[t]["approved"] > 0
=============================================================================
