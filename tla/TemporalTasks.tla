--------------------------- MODULE TemporalTasks ---------------------------
(***************************************************************************)
(* WorkflowTasks composed with the Temporal workflows that execute its     *)
(* tasks (internal/workflow/temporal_*.go).  Where WorkflowTasks lets an   *)
(* execution end in any way, here it ends as the workflow run it is        *)
(* attached to does.  A workflow id is the task id, so one task may have   *)
(* several runs, one after the other; the server decides by the reuse      *)
(* policy of the start options whether a start may add one.                *)
(***************************************************************************)
EXTENDS WorkflowTasks, Sequences

CONSTANTS
    MaxAttempts,   \* RetryPolicy.MaximumAttempts of the activities
    MaxLost        \* bound: answers of the Temporal server lost in one behaviour

ASSUME TemporalAssumption ==
    /\ Temporal
    /\ MaxAttempts \in Nat \ {0}
    /\ MaxLost \in Nat

VARIABLES
    wf,         \* wf[t]: the runs of the workflow with id t, oldest first
    effects,    \* effects[t]: how often the tool of t was called
    attached,   \* attached[w]: the run whose result w waits for, or 0
    lost        \* answers lost so far

temporal == <<wf, effects, attached, lost>>
tvars == <<vars, temporal>>

Run == [state : {"waiting", "active", "completed", "failed"}, attempts : 0..MaxAttempts]
NewRun(state) == [state |-> state, attempts |-> 0]

\* The newest run of t; only that one can be open.
Newest(t) == wf[t][Len(wf[t])]
LastState(t) == IF wf[t] = <<>> THEN "none" ELSE Newest(t).state
Open(t) == LastState(t) \in {"waiting", "active"}

TInit ==
    /\ Init
    /\ wf = [t \in Tasks |-> <<>>]
    /\ effects = [t \in Tasks |-> 0]
    /\ attached = [w \in Workers |-> 0]
    /\ lost = 0

Started(t, state) == [wf EXCEPT ![t] = Append(@, NewRun(state))]
NewestSet(t, run) == [wf EXCEPT ![t][Len(wf[t])] = run]

LoseAnswer == lost < MaxLost /\ lost' = lost + 1

----------------------------------------------------------------------------
(* The starter of the API.                                                 *)

\* ExecuteWorkflow of a new task: it attaches to an open run of the same id
\* and starts one otherwise.
StartTask(t) == wf' = IF Open(t) THEN wf ELSE Started(t, "waiting")

StartTaskReturns(c) ==
    /\ StartSucceeds(c)
    /\ StartTask(api[c].id)
    /\ UNCHANGED <<effects, attached, lost>>

\* The call fails, before or after the server has started the run.
StartTaskErrs(c) ==
    /\ StartFails(c)
    /\ StartTask(api[c].id) \/ UNCHANGED wf
    /\ UNCHANGED <<effects, attached, lost>>

OtherClientStep(c) ==
    /\ \/ Promote(c)
       \/ \E t \in Tasks : ApproveRead(c, t) \/ RetryRead(c, t)
       \/ ApproveWrite(c)
       \/ RetryWrite(c)
    /\ UNCHANGED temporal

DecisionErrs(c) == DecisionFails(c) /\ UNCHANGED temporal

----------------------------------------------------------------------------
(* The workers, as clients of Temporal.                                    *)

Current(w) == worker[w].snap[worker[w].cur]

\* Mutant: the server may start another run whatever became of the last one.
ReuseAlways(t, row) == TRUE

\* approvedToolStartWorkflowOptions: a retry may start another run of the
\* workflow only if the last one failed or timed out
\* (ALLOW_DUPLICATE_FAILED_ONLY); an approval and a report task always may.
ReuseAllowed(t, row) ==
    \/ row.type = "report_generation"
    \/ row.auditRef # "retry"
    \/ LastState(t) # "completed"

\* RunReportWorkflow: attach to the open run or start one.
RunReportWorkflow(t) == wf' = IF Open(t) THEN wf ELSE Started(t, "active")

\* ContinueApprovedToolWorkflow: SignalWithStartWorkflow.  The workflow
\* receives one signal; a further one is buffered and never read.
ContinueApprovedToolWorkflow(t) ==
    wf' = IF ~Open(t) THEN Started(t, "active")
          ELSE IF LastState(t) = "waiting" THEN NewestSet(t, NewRun("active"))
          ELSE wf

Submit(t, row) ==
    /\ Open(t) \/ ReuseAllowed(t, row)
    /\ IF row.type = "report_generation" THEN RunReportWorkflow(t)
       ELSE ContinueApprovedToolWorkflow(t)

Submitting(w) ==
    /\ worker[w].pc = "executing"
    /\ UsesTemporal(Current(w))
    /\ attached[w] = 0

\* The workflow is started or signalled and the worker waits for its result.
SubmitWorkflow(w) ==
    /\ Submitting(w)
    /\ Submit(worker[w].cur, Current(w))
    /\ attached' = [attached EXCEPT ![w] = Len(wf'[worker[w].cur])]
    /\ UNCHANGED <<vars, effects, lost>>

\* The server refuses another run of the workflow: the execution fails.
SubmitRefused(w) ==
    /\ Submitting(w)
    /\ ~Open(worker[w].cur)
    /\ ~ReuseAllowed(worker[w].cur, Current(w))
    /\ ExecuteFails(w)
    /\ UNCHANGED temporal

\* The call fails although the server may have taken it.
SubmitErrs(w) ==
    /\ Submitting(w)
    /\ LoseAnswer
    /\ ExecuteFails(w)
    /\ Submit(worker[w].cur, Current(w)) \/ UNCHANGED wf
    /\ UNCHANGED <<effects, attached>>

Detach(w) == attached' = [attached EXCEPT ![w] = 0]
AttachedRun(w) == wf[worker[w].cur][attached[w]].state

\* WorkflowRun.Get returned the result of the run.
GetResult(w) ==
    IF AttachedRun(w) = "completed" THEN ExecuteSucceeds(w)
    ELSE AttachedRun(w) = "failed" /\ ExecuteFails(w)

ResultArrives(w) ==
    /\ attached[w] # 0
    /\ GetResult(w)
    /\ Detach(w)
    /\ UNCHANGED <<wf, effects, lost>>

\* Get fails while the run goes on, or after it has ended.
ResultLost(w) ==
    /\ attached[w] # 0
    /\ LoseAnswer
    /\ ExecuteFails(w)
    /\ Detach(w)
    /\ UNCHANGED <<wf, effects>>

\* Rows that Temporal does not handle run in the placeholder executor, which
\* knows both task types and never fails on them.
FallbackExecutes(w) ==
    /\ worker[w].pc = "executing"
    /\ ~UsesTemporal(Current(w))
    /\ ExecuteSucceeds(w)
    /\ UNCHANGED temporal

\* The steps that have nothing to do with Temporal.
OtherWorkerStep(w) ==
    /\ \/ ClaimQueuedTasks(w)
       \/ ExecuteStart(w)
       \/ VersionFound(w)
       \/ FinalizeReport(w)
       \/ RecordGeneratedReport(w)
       \/ WriteOutcome(w)
    /\ UNCHANGED temporal

\* A fault of the worker ends its wait; the run goes on without it.
OtherWorkerFault(w) ==
    /\ WorkerFault(w)
    /\ Detach(w)
    /\ UNCHANGED <<wf, effects, lost>>

----------------------------------------------------------------------------
(* The Temporal server and the activities it schedules.                    *)

Ended(run, state) == [run EXCEPT !.state = state, !.attempts = 0]

ToolCalled(t) == effects' = [effects EXCEPT ![t] = @ + 1]

\* The attempts of a report's activity only read: GenerateReport lists the
\* messages of the session, builds the context and searches.
GenerateReport(t) == task[t].type = "report_generation" /\ UNCHANGED effects

\* One attempt of ExecuteApprovedTool calls the tool, unless the task names
\* none or the attempt fails before.
ExecuteApprovedTool(t) ==
    /\ task[t].type = "approved_tool_execution"
    /\ ToolCalled(t) \/ UNCHANGED effects

Attempt(t) == GenerateReport(t) \/ ExecuteApprovedTool(t)

\* An attempt returns its result and completes the run.
ActivityCompletes(t) ==
    /\ LastState(t) = "active"
    /\ Attempt(t)
    /\ wf' = NewestSet(t, Ended(Newest(t), "completed"))
    /\ UNCHANGED <<vars, attached, lost>>

\* Mutant: the retry policy sets no limit.
AttemptsUnlimited(run) == [run EXCEPT !.attempts = 0]

\* A run after a failed attempt: retried until MaximumAttempts is reached.
AfterFailedAttempt(run) ==
    IF run.attempts + 1 = MaxAttempts THEN Ended(run, "failed")
    ELSE [run EXCEPT !.attempts = @ + 1]

\* An attempt returns an error, or its start-to-close timeout passes, whether
\* or not it had called the tool by then.
ActivityFails(t) ==
    /\ LastState(t) = "active"
    /\ Attempt(t)
    /\ wf' = NewestSet(t, AfterFailedAttempt(Newest(t)))
    /\ UNCHANGED <<vars, attached, lost>>

\* The error of an injected fault is not retried.
ActivityRefuses(t) ==
    /\ LastState(t) = "active"
    /\ task[t].type = "approved_tool_execution"
    /\ wf' = NewestSet(t, Ended(Newest(t), "failed"))
    /\ UNCHANGED <<vars, effects, attached, lost>>

\* The execution timeout passes.  It covers the time the run waits for its
\* signal; an attempt that is under way may still call the tool.
RunTimesOut(t) ==
    /\ Open(t)
    /\ IF LastState(t) = "active" THEN Attempt(t) ELSE UNCHANGED effects
    /\ wf' = NewestSet(t, Ended(Newest(t), "failed"))
    /\ UNCHANGED <<vars, attached, lost>>

----------------------------------------------------------------------------
TemporalWorkerStep(w) ==
    \/ SubmitWorkflow(w)
    \/ SubmitRefused(w)
    \/ ResultArrives(w)
    \/ FallbackExecutes(w)
    \/ OtherWorkerStep(w)

ServerStep(t) ==
    \/ ActivityCompletes(t)
    \/ ActivityFails(t)
    \/ ActivityRefuses(t)
    \/ RunTimesOut(t)

TNext ==
    \/ \E c \in Clients : \/ StartTaskReturns(c) \/ StartTaskErrs(c)
                          \/ OtherClientStep(c) \/ DecisionErrs(c)
    \/ \E w \in Workers : \/ TemporalWorkerStep(w)
                          \/ SubmitErrs(w) \/ ResultLost(w) \/ OtherWorkerFault(w)
    \/ \E t \in Tasks : ServerStep(t)

TSpec == TInit /\ [][TNext]_tvars

\* A worker's poll loop keeps running, and a request that has been accepted is
\* carried through: the ticker of cmd/worker and net/http see to both.  A run
\* ends because the server enforces its execution timeout.
TFairness ==
    /\ \A w \in Workers : WF_tvars(TemporalWorkerStep(w))
    /\ \A c \in Clients : WF_tvars(StartTaskReturns(c))
                          /\ WF_tvars(OtherClientStep(c) /\ api[c].pc # "idle")
    /\ \A t \in Tasks : WF_tvars(ServerStep(t))

TFairSpec == TSpec /\ TFairness

----------------------------------------------------------------------------
(* Properties.                                                             *)

TTypeOK ==
    /\ TypeOK
    /\ wf \in [Tasks -> Seq(Run)]
    /\ effects \in [Tasks -> Nat]
    /\ attached \in [Workers -> Nat]
    /\ \A w \in Workers : attached[w] # 0 =>
          worker[w].pc = "executing" /\ attached[w] \in DOMAIN wf[worker[w].cur]
    /\ lost \in 0..MaxLost

Completions(t) == Cardinality({i \in DOMAIN wf[t] : wf[t][i].state = "completed"})

\* The requests of ToolApproval are the tasks that execute an approved tool.
Gated(t) == task[t].type = "approved_tool_execution" /\ task[t].requiresApproval

PhaseOf(t) ==
    IF ~Gated(t) THEN "none"
    ELSE CASE task[t].status = "absent" -> "none"
           [] task[t].status = "waiting_approval" -> "proposed"
           [] task[t].status \in {"queued", "running"} -> "authorised"
           [] OTHER -> task[t].status

Approval == INSTANCE ToolApproval WITH
    Requests <- Tasks,
    phase <- [t \in Tasks |-> PhaseOf(t)],
    granted <- [t \in Tasks |-> Gated(t) /\ log[t]["approved"] + log[t]["retried"] > 0],
    completed <- [t \in Tasks |-> IF Gated(t) THEN Completions(t) ELSE 0]

\* Tasks, workers and Temporal together keep the promise of ToolApproval when
\* operators decide one at a time: whichever answers get lost, runs time out
\* and attempts are repeated, the tool of a request completes at most once,
\* after a decision, and success is shown only of a tool that did complete.
ToolApprovalIsKept == Approval!Spec

\* A tool is called at most MaximumAttempts times per decision to run it, over
\* all the runs that its task ever had: retries by the server and by the
\* operator multiply and nothing else does.
ToolCallsWithinDecisions ==
    \A t \in Tasks : effects[t] <= MaxAttempts * Decisions(t)

\* Every queued task is eventually executed and settled, because runs end and
\* their results, or the loss of those, reach the worker; only a fault of a
\* worker or of the database may leave it unsettled.
QueuedTasksSettleUnlessFault ==
    \A t \in Tasks :
        task[t].status = "queued" ~> task[t].status \in {"succeeded", "failed"} \/ faults > 0
=============================================================================
