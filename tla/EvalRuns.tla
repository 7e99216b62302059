------------------------------ MODULE EvalRuns ------------------------------
(***************************************************************************)
(* The eval-run lifecycle of internal/eval over the PostgreSQL stores: runs *)
(* are created and retried by API requests, claimed in batches by workers,  *)
(* executed, judged, finalised, and materialised into an eval report.      *)
(*                                                                         *)
(* Unlike WorkflowTasks, every status change is one transaction whose      *)
(* UPDATE names the status it expects (transitionRun), so requests are     *)
(* atomic.  What is not atomic is a worker's way through one run: execute, *)
(* judge and mark, perhaps mark again with the fallback judge, read the    *)
(* run, save its report.  All of that but the execution runs under one     *)
(* finalisation context of five seconds, which may expire at any point of  *)
(* it, and which the runner cancels before it materialises the report of a *)
(* run that failed.                                                        *)
(***************************************************************************)
EXTENDS Integers, FiniteSets

CONSTANTS
    Workers,       \* worker processes, one poll loop each
    MaxRuns,       \* run ids are 1..MaxRuns, in created_at order
    BatchLimit,    \* the limit of ProcessNextBatch
    FaultKinds,    \* which faults may happen
    MaxRetries,    \* bound: retries of one run
    MaxFaults      \* bound: faults of one kind in one behaviour

Runs == 1..MaxRuns

Kinds == {"execute", "judge", "deadline", "rollback", "lostack", "crash"}

ASSUME ConstantsAssumption ==
    /\ MaxRuns \in Nat
    /\ BatchLimit \in Nat \ {0}
    /\ FaultKinds \subseteq Kinds
    /\ MaxRetries \in Nat
    /\ MaxFaults \in Nat

Statuses == {"absent", "queued", "running", "succeeded", "failed"}
Events == {"created", "claimed", "succeeded", "failed", "retried"}
Outcomes == {"succeeded", "failed"}

VARIABLES
    status,    \* status[r]: the row of r in eval_runs, "absent" before its insert
    results,   \* results[r]: the status of its eval_run_item_results, or "none"
    events,    \* events[r][e]: how many events e the history of r has
    last,      \* last[r]: the event of r that was committed last, or "none"
    report,    \* report[r]: the run_status of its eval report, or "none"
    worker,    \* what each worker is in the middle of
    faults     \* faults[k]: faults of kind k so far

rows == <<status, results, events, last>>
vars == <<status, results, events, last, report, worker, faults>>

\* live: the finalisation context has neither expired nor been cancelled.
Idle == [pc |-> "idle", batch |-> {}, cur |-> 0, live |-> FALSE, snap |-> "none"]

Init ==
    /\ status = [r \in Runs |-> "absent"]
    /\ results = [r \in Runs |-> "none"]
    /\ events = [r \in Runs |-> [e \in Events |-> 0]]
    /\ last = [r \in Runs |-> "none"]
    /\ report = [r \in Runs |-> "none"]
    /\ worker = [w \in Workers |-> Idle]
    /\ faults = [k \in Kinds |-> 0]

Fault(kind) ==
    /\ kind \in FaultKinds
    /\ faults[kind] < MaxFaults
    /\ faults' = [faults EXCEPT ![kind] = @ + 1]

----------------------------------------------------------------------------
(* The store.                                                              *)

\* The event counts of a run after one more event.
Counted(counts, event) == [counts EXCEPT ![event] = @ + 1]

AppendRunEvent(r, event) ==
    /\ events' = [events EXCEPT ![r] = Counted(@, event)]
    /\ last' = [last EXCEPT ![r] = event]

\* Mutant: the UPDATE does not name the status it expects.
TransitionUnchecked(r, from, to, event, itemResults) ==
    /\ status[r] # "absent"
    /\ status' = [status EXCEPT ![r] = to]
    /\ results' = [results EXCEPT ![r] = itemResults]
    /\ AppendRunEvent(r, event)

\* UPDATE ... WHERE id = r AND status = from, the replacement of the item
\* results, and the event, in one transaction.
TransitionRun(r, from, to, event, itemResults) ==
    /\ status[r] = from
    /\ status' = [status EXCEPT ![r] = to]
    /\ results' = [results EXCEPT ![r] = itemResults]
    /\ AppendRunEvent(r, event)

----------------------------------------------------------------------------
(* API requests.                                                           *)

\* A run of a published dataset (EvalDatasets), with its event.
CreateRun(r) ==
    /\ status[r] = "absent"
    /\ status' = [status EXCEPT ![r] = "queued"]
    /\ AppendRunEvent(r, "created")
    /\ UNCHANGED <<results, report, worker, faults>>

\* Mutant: any finished run may be retried.
RetryFinishedRun(r) ==
    /\ events[r]["retried"] < MaxRetries
    /\ \E from \in Outcomes : TransitionRun(r, from, "queued", "retried", "none")
    /\ UNCHANGED <<report, worker, faults>>

\* Mutant: the item results of the failed attempt stay.
RetryKeepsResults(r) ==
    /\ events[r]["retried"] < MaxRetries
    /\ TransitionRun(r, "failed", "queued", "retried", "failed")
    /\ UNCHANGED <<report, worker, faults>>

\* A failed run is queued again and its item results are deleted.  Its eval
\* report stays.  A run in any other status is ErrInvalidEvalRunState.
RetryRun(r) ==
    /\ events[r]["retried"] < MaxRetries
    /\ TransitionRun(r, "failed", "queued", "retried", "none")
    /\ UNCHANGED <<report, worker, faults>>

----------------------------------------------------------------------------
(* Workers.                                                                *)

Queued == {r \in Runs : status[r] = "queued"}

\* The BatchLimit oldest queued runs.
Claimable == {r \in Queued : Cardinality({q \in Queued : q < r}) < BatchLimit}

\* Mutant: the claim returns the queued runs without marking them.
ClaimRowsUnmarked(ids) ==
    /\ UNCHANGED <<status, results>>
    /\ events' = [r \in Runs |-> IF r \in ids THEN Counted(events[r], "claimed") ELSE events[r]]
    /\ last' = [r \in Runs |-> IF r \in ids THEN "claimed" ELSE last[r]]

ClaimRows(ids) ==
    /\ status' = [r \in Runs |-> IF r \in ids THEN "running" ELSE status[r]]
    /\ events' = [r \in Runs |-> IF r \in ids THEN Counted(events[r], "claimed") ELSE events[r]]
    /\ last' = [r \in Runs |-> IF r \in ids THEN "claimed" ELSE last[r]]
    /\ UNCHANGED results

ClaimQueuedRuns(w) ==
    /\ worker[w].pc = "idle"
    /\ Claimable # {}
    /\ ClaimRows(Claimable)
    /\ worker' = [worker EXCEPT ![w] = [Idle EXCEPT !.pc = "next", !.batch = Claimable]]
    /\ UNCHANGED <<report, faults>>

\* The claim commits and its answer is lost: ProcessNextBatch returns.
ClaimLost(w) ==
    /\ worker[w].pc = "idle"
    /\ Claimable # {}
    /\ Fault("lostack")
    /\ ClaimRows(Claimable)
    /\ UNCHANGED <<report, worker>>

\* The runs of a batch are worked off in created_at order.
Oldest(r, batch) == r \in batch /\ \A q \in batch : r <= q

\* The worker after ExecuteRun of r, with a fresh finalisation context.
Executed(w, r, pc) == [worker[w] EXCEPT !.pc = pc, !.cur = r, !.live = TRUE]

ExecuteSucceeds(w) ==
    /\ worker[w].pc = "next"
    /\ \E r \in Runs :
          /\ Oldest(r, worker[w].batch)
          /\ worker' = [worker EXCEPT ![w] = Executed(w, r, "succeeding")]
    /\ UNCHANGED <<rows, report, faults>>

\* The run could not be read, the process is shutting down, or faults are
\* injected.  (An error of the chat service fails no run.)
ExecuteFails(w) ==
    /\ worker[w].pc = "next"
    /\ Fault("execute")
    /\ \E r \in Runs :
          /\ Oldest(r, worker[w].batch)
          /\ worker' = [worker EXCEPT ![w] = Executed(w, r, "failing")]
    /\ UNCHANGED <<rows, report>>

\* Mutant: the context is cancelled before the report is materialised, for
\* succeeded runs too.
MarkedAlwaysCancelled(w) == [worker[w] EXCEPT !.pc = "reporting", !.live = FALSE]

\* A run has been marked, next is its report.  The runner has cancelled the
\* context by then, unless the run was marked succeeded.
Marked(w) ==
    [worker[w] EXCEPT !.pc = "reporting", !.live = (worker[w].pc = "succeeding")]

\* What a mark writes.
OutcomeOf(pc) == IF pc = "succeeding" THEN "succeeded" ELSE "failed"

\* The transaction of MarkRunSucceeded, MarkRunFailed or
\* MarkRunFailedWithFallback, with one item result per item of the run.
MarkCommit(w) ==
    LET outcome == OutcomeOf(worker[w].pc)
    IN  TransitionRun(worker[w].cur, "running", outcome, outcome, outcome)

MarkRun(w) ==
    /\ worker[w].pc \in {"succeeding", "failing", "fallback"}
    /\ worker[w].live
    /\ MarkCommit(w)
    /\ worker' = [worker EXCEPT ![w] = Marked(w)]
    /\ UNCHANGED <<report, faults>>

\* After a mark that returned an error: the fallback judge is tried next, and
\* if that was it, ProcessNextBatch returns and drops the rest of the batch.
MarkRejected(w) ==
    IF worker[w].pc = "fallback" THEN Idle ELSE [worker[w] EXCEPT !.pc = "fallback"]

\* The run is not running any more, or the context has expired.
MarkMissed(w) ==
    /\ worker[w].pc \in {"succeeding", "failing", "fallback"}
    /\ status[worker[w].cur] # "running" \/ ~worker[w].live
    /\ worker' = [worker EXCEPT ![w] = MarkRejected(w)]
    /\ UNCHANGED <<rows, report, faults>>

\* The judge's provider answers with an error; the fallback judge has none.
JudgeFails(w) ==
    /\ worker[w].pc \in {"succeeding", "failing"}
    /\ Fault("judge")
    /\ worker' = [worker EXCEPT ![w] = MarkRejected(w)]
    /\ UNCHANGED <<rows, report>>

\* The five seconds are over: the judge's provider was slow, or the store
\* was.  Whatever the worker still has to do for its run, the fallback, the
\* mark or the report, it does with an expired context.
ContextExpires(w) ==
    /\ worker[w].live
    /\ Fault("deadline")
    /\ worker' = [worker EXCEPT ![w] = [@ EXCEPT !.live = FALSE]]
    /\ UNCHANGED <<rows, report>>

MarkRolledBack(w) ==
    /\ worker[w].pc \in {"succeeding", "failing", "fallback"}
    /\ Fault("rollback")
    /\ worker' = [worker EXCEPT ![w] = MarkRejected(w)]
    /\ UNCHANGED <<rows, report>>

\* The mark commits, its answer is lost or comes too late for the context,
\* and the runner takes it for an error.
MarkLost(w) ==
    /\ worker[w].pc \in {"succeeding", "failing", "fallback"}
    /\ worker[w].live
    /\ Fault("lostack")
    /\ MarkCommit(w)
    /\ worker' = [worker EXCEPT ![w] = MarkRejected(w)]
    /\ UNCHANGED report

\* MaterializeRunReport reads the run, ...
MaterializeRead(w) ==
    /\ worker[w].pc = "reporting"
    /\ worker[w].live
    /\ status[worker[w].cur] \in Outcomes
    /\ worker' = [worker EXCEPT ![w] =
                     [@ EXCEPT !.pc = "saving", !.snap = status[worker[w].cur]]]
    /\ UNCHANGED <<rows, report, faults>>

\* ... fails if the context is cancelled or has expired or if the run is not
\* terminal, upon which ProcessNextBatch returns, ...
MaterializeMissed(w) ==
    /\ worker[w].pc \in {"reporting", "saving"}
    /\ \/ ~worker[w].live
       \/ worker[w].pc = "reporting" /\ status[worker[w].cur] \notin Outcomes
    /\ worker' = [worker EXCEPT ![w] = Idle]
    /\ UNCHANGED <<rows, report, faults>>

MaterializeRolledBack(w) ==
    /\ worker[w].pc \in {"reporting", "saving"}
    /\ Fault("rollback")
    /\ worker' = [worker EXCEPT ![w] = Idle]
    /\ UNCHANGED <<rows, report>>

\* Mutant: the runner looks for a next run in an empty batch.
AdvancedUnchecked(w) ==
    [Idle EXCEPT !.pc = "next", !.batch = worker[w].batch \ {worker[w].cur}]

\* The worker after it is done with its current run.
Advanced(w) ==
    LET rest == worker[w].batch \ {worker[w].cur}
    IN  IF rest = {} THEN Idle ELSE [Idle EXCEPT !.pc = "next", !.batch = rest]

\* ... and upserts the report built from what it read.
SaveEvalReport(w) ==
    /\ worker[w].pc = "saving"
    /\ worker[w].live
    /\ report' = [report EXCEPT ![worker[w].cur] = worker[w].snap]
    /\ worker' = [worker EXCEPT ![w] = Advanced(w)]
    /\ UNCHANGED <<rows, faults>>

SaveLost(w) ==
    /\ worker[w].pc = "saving"
    /\ worker[w].live
    /\ Fault("lostack")
    /\ report' = [report EXCEPT ![worker[w].cur] = worker[w].snap]
    /\ worker' = [worker EXCEPT ![w] = Idle]
    /\ UNCHANGED rows

Crash(w) ==
    /\ worker[w].pc # "idle"
    /\ Fault("crash")
    /\ worker' = [worker EXCEPT ![w] = Idle]
    /\ UNCHANGED <<rows, report>>

----------------------------------------------------------------------------
WorkerStep(w) ==
    \/ ClaimQueuedRuns(w)
    \/ ExecuteSucceeds(w)
    \/ MarkRun(w)
    \/ MarkMissed(w)
    \/ MaterializeRead(w)
    \/ MaterializeMissed(w)
    \/ SaveEvalReport(w)

WorkerFault(w) ==
    \/ ClaimLost(w)
    \/ ExecuteFails(w)
    \/ JudgeFails(w)
    \/ ContextExpires(w)
    \/ MarkRolledBack(w)
    \/ MarkLost(w)
    \/ MaterializeRolledBack(w)
    \/ SaveLost(w)
    \/ Crash(w)

Next ==
    \/ \E r \in Runs : CreateRun(r) \/ RetryRun(r)
    \/ \E w \in Workers : WorkerStep(w) \/ WorkerFault(w)

Spec == Init /\ [][Next]_vars

----------------------------------------------------------------------------
(* Properties.                                                             *)

WorkerState ==
    [pc : {"idle", "next", "succeeding", "failing", "fallback", "reporting", "saving"},
     batch : SUBSET Runs, cur : Runs \cup {0}, live : BOOLEAN, snap : Outcomes \cup {"none"}]

WorkerOK(s) ==
    /\ s.pc = "next" => s.batch # {}
    /\ s.pc \notin {"idle", "next"} => s.cur \in s.batch
    /\ s.pc = "saving" => s.snap # "none"

TypeOK ==
    /\ status \in [Runs -> Statuses]
    /\ results \in [Runs -> Outcomes \cup {"none"}]
    /\ events \in [Runs -> [Events -> Nat]]
    /\ last \in [Runs -> Events \cup {"none"}]
    /\ report \in [Runs -> Outcomes \cup {"none"}]
    /\ worker \in [Workers -> WorkerState]
    /\ faults \in [Kinds -> 0..MaxFaults]
    /\ \A w \in Workers : WorkerOK(worker[w])

\* The status an event stands for.
StatusAfter(event) ==
    CASE event \in {"created", "retried"} -> "queued"
      [] event = "claimed" -> "running"
      [] event \in Outcomes -> event
      [] OTHER -> "absent"

\* History, item results and row of a run agree: the event committed last
\* names the status, and item results exist exactly for a finished run and
\* have its outcome, however workers, retries and failed transactions
\* interleave.  (The history is listed by created_at, which a mark takes
\* before it asks the judge; the property is about what is committed.)
HistoryMatchesRun ==
    \A r \in Runs :
        /\ status[r] = StatusAfter(last[r])
        /\ results[r] = IF status[r] \in Outcomes THEN status[r] ELSE "none"

One(b) == IF b THEN 1 ELSE 0

\* Every time a run is queued it is claimed once, and every claim ends in one
\* outcome: nothing is lost or done twice between two events, whichever
\* worker writes an outcome and however often the runner tries to.
FlowConserved ==
    \A r \in Runs :
        /\ events[r]["created"] + events[r]["retried"]
              = events[r]["claimed"] + One(status[r] = "queued")
        /\ events[r]["claimed"]
              = events[r]["succeeded"] + events[r]["failed"] + One(status[r] = "running")

\* A run that succeeded stays so: not even the fallback after a success whose
\* acknowledgement was lost turns it into a failure.
SucceededIsFinal ==
    [][\A r \in Runs : status[r] = "succeeded" => status'[r] = "succeeded"]_vars

\* An eval report that says a run succeeded is right about it, also after
\* retries, stale reads and late saves.
SuccessReportIsTrue ==
    \A r \in Runs : report[r] = "succeeded" => status[r] = "succeeded"

\* The worker still has to execute or mark r.
Owns(w, r) ==
    /\ r \in worker[w].batch
    /\ ~(worker[w].cur = r /\ worker[w].pc \in {"reporting", "saving"})

\* As long as no acknowledgement was lost, a running run has one owner at
\* most.  (After a lost one it can have two: the worker whose mark was
\* committed tries the fallback while the retried run is another's.)
OwnerIsUnique ==
    faults["lostack"] = 0 =>
        \A r \in Runs : \A v, w \in Workers : Owns(v, r) /\ Owns(w, r) => v = w

\* A run that succeeded has its report or a worker on its way to save it with
\* a live context, whatever errors executions and the judge's provider end
\* in, as long as no transaction fails, no process dies and no finalisation
\* takes longer than its five seconds.
SuccessIsReported ==
    (\A k \in {"deadline", "rollback", "lostack", "crash"} : faults[k] = 0) =>
        \A r \in Runs : status[r] = "succeeded" =>
            \/ report[r] = "succeeded"
            \/ \E w \in Workers : /\ worker[w].cur = r /\ worker[w].live
                                  /\ worker[w].pc \in {"reporting", "saving"}

\* "provider errors do not strand eval runs in running": a running run is in
\* the batch of some worker.
RunsAreNotStranded ==
    \A r \in Runs : status[r] = "running" => \E w \in Workers : r \in worker[w].batch
=============================================================================
