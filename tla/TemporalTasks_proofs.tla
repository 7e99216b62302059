------------------------ MODULE TemporalTasks_proofs ------------------------
(***************************************************************************)
(* Proofs about TemporalTasks: the tasks composed with their workflow runs *)
(* behave as WorkflowTasks does, and tools are called no more often than   *)
(* the decisions and the retry policy allow.                               *)
(***************************************************************************)
EXTENDS TemporalTasks, WorkflowTasks_proofs, SequenceTheorems

USE ConstantsAssumption, TemporalAssumption DEF Tasks

----------------------------------------------------------------------------
(* Every step of the composition is a step of WorkflowTasks.               *)

LEMMA GetResultSteps ==
    ASSUME NEW w \in Workers, GetResult(w) PROVE ExecuteSucceeds(w) \/ ExecuteFails(w)
  BY DEF GetResult

LEMMA StepsImplemented == [TNext]_tvars => [Next]_vars
  <1> SUFFICES ASSUME [TNext]_tvars PROVE [Next]_vars
    OBVIOUS
  <1>1. CASE UNCHANGED tvars
    BY <1>1 DEF tvars
  <1>2. ASSUME NEW c \in Clients,
               StartTaskReturns(c) \/ StartTaskErrs(c) \/ OtherClientStep(c) \/ DecisionErrs(c)
        PROVE  ClientStep(c)
    BY <1>2 DEF StartTaskReturns, StartTaskErrs, OtherClientStep, DecisionErrs, ClientStep
  <1>3. ASSUME NEW w \in Workers,
               \/ TemporalWorkerStep(w) \/ SubmitErrs(w) \/ ResultLost(w) \/ OtherWorkerFault(w)
        PROVE  WorkerStep(w) \/ WorkerFault(w) \/ UNCHANGED vars
    BY <1>3, GetResultSteps
       DEF TemporalWorkerStep, SubmitWorkflow, SubmitRefused, ResultArrives, FallbackExecutes,
           OtherWorkerStep, SubmitErrs, ResultLost, OtherWorkerFault, WorkerStep
  <1>4. ASSUME NEW t \in Tasks, ServerStep(t) PROVE UNCHANGED vars
    BY <1>4 DEF ServerStep, ActivityCompletes, ActivityFails, ActivityRefuses, RunTimesOut
  <1> QED BY <1>1, <1>2, <1>3, <1>4 DEF TNext, Next

\* Tasks whose executions end as their Temporal runs do behave as tasks whose
\* executions may end in any way: what is proved of WorkflowTasks holds here.
THEOREM TemporalImplementsTasks == TSpec => Spec
  <1>1. TInit => Init
    BY DEF TInit
  <1> QED BY <1>1, StepsImplemented, PTL DEF TSpec, Spec

----------------------------------------------------------------------------
(* Types.                                                                  *)

\* A run fails with its last attempt, so no run has used all of them.
OpenRun == [state : {"waiting", "active", "completed", "failed"}, attempts : 0..(MaxAttempts - 1)]

RunsOK ==
    /\ wf \in [Tasks -> Seq(OpenRun)]
    /\ effects \in [Tasks -> Nat]
    /\ lost \in 0..MaxLost

\* A worker waits for a run only while it executes a task of that run that
\* goes to Temporal.
Waiting(w) ==
    /\ attached[w] \in Nat
    /\ attached[w] # 0 => /\ worker[w].pc = "executing"
                          /\ UsesTemporal(Current(w))
                          /\ attached[w] \in DOMAIN wf[worker[w].cur]

TInv ==
    /\ RunsOK
    /\ attached \in [Workers -> Nat]
    /\ \A w \in Workers : Waiting(w)

\* The two ways in which the runs of a task change.
LEMMA StartedRuns ==
    ASSUME RunsOK, NEW t \in Tasks, NEW state \in {"waiting", "active"}, wf' = Started(t, state)
    PROVE  /\ wf' \in [Tasks -> Seq(OpenRun)]
           /\ wf'[t] = Append(wf[t], NewRun(state))
           /\ Len(wf'[t]) = Len(wf[t]) + 1
           /\ \A i \in DOMAIN wf[t] : i \in DOMAIN wf'[t] /\ wf'[t][i] = wf[t][i]
           /\ wf'[t][Len(wf'[t])] = NewRun(state)
           /\ \A u \in Tasks \ {t} : wf'[u] = wf[u]
  <1>1. NewRun(state) \in OpenRun
    BY DEF NewRun, OpenRun
  <1>2. wf[t] \in Seq(OpenRun)
    BY DEF RunsOK
  <1>3. /\ Append(wf[t], NewRun(state)) \in Seq(OpenRun)
        /\ Len(Append(wf[t], NewRun(state))) = Len(wf[t]) + 1
        /\ \A i \in 1..Len(wf[t]) : Append(wf[t], NewRun(state))[i] = wf[t][i]
        /\ Append(wf[t], NewRun(state))[Len(wf[t]) + 1] = NewRun(state)
    BY <1>1, <1>2, AppendProperties
  <1>4. /\ wf'[t] = Append(wf[t], NewRun(state)) /\ \A u \in Tasks \ {t} : wf'[u] = wf[u]
        /\ wf' \in [Tasks -> Seq(OpenRun)]
    BY <1>3 DEF RunsOK, Started
  <1>5. DOMAIN wf[t] = 1..Len(wf[t]) /\ DOMAIN wf'[t] = 1..(Len(wf[t]) + 1) /\ Len(wf[t]) \in Nat
    <2>1. DOMAIN wf'[t] = 1..Len(wf'[t])
      BY <1>3, <1>4
    <2> QED BY <1>2, <1>3, <1>4, <2>1
  <1> QED BY <1>3, <1>4, <1>5

LEMMA NewestRuns ==
    ASSUME RunsOK, NEW t \in Tasks, NEW run \in OpenRun, LastState(t) # "none",
           wf' = NewestSet(t, run)
    PROVE  /\ wf' \in [Tasks -> Seq(OpenRun)]
           /\ wf'[t] # <<>> /\ DOMAIN wf'[t] = DOMAIN wf[t] /\ Len(wf'[t]) = Len(wf[t])
           /\ Len(wf[t]) \in DOMAIN wf[t]
           /\ \A i \in DOMAIN wf[t] : wf'[t][i] = IF i = Len(wf[t]) THEN run ELSE wf[t][i]
           /\ \A u \in Tasks \ {t} : wf'[u] = wf[u]
  <1> DEFINE n == Len(wf[t])
             s == [wf[t] EXCEPT ![n] = run]
  <1>1. wf[t] \in Seq(OpenRun) /\ wf[t] # <<>>
    BY DEF RunsOK, LastState
  <1>2. n \in Nat /\ n # 0 /\ DOMAIN wf[t] = 1..n /\ n \in 1..n
    BY <1>1, EmptySeq
  <1>3. /\ s \in Seq(OpenRun) /\ Len(s) = n
        /\ \A i \in 1..n : s[i] = IF i = n THEN run ELSE wf[t][i]
    BY <1>1, <1>2, ExceptSeq
  <1>4. wf'[t] = s /\ \A u \in Tasks \ {t} : wf'[u] = wf[u]
    BY DEF NewestSet, RunsOK
  <1>5. wf' \in [Tasks -> Seq(OpenRun)]
    BY <1>3 DEF NewestSet, RunsOK
  <1>6. DOMAIN s = 1..n /\ s # <<>>
    BY <1>1, <1>2, <1>3
  <1> HIDE DEF s
  <1> QED BY <1>2, <1>3, <1>4, <1>5, <1>6

----------------------------------------------------------------------------
(* What a step does to the runs.                                           *)

\* The submission of a task starts a run that works, or wakes the one that
\* waits for its signal.
Activates(t) ==
    \/ ~Open(t) /\ wf' = Started(t, "active")
    \/ LastState(t) = "waiting" /\ wf' = NewestSet(t, NewRun("active"))

LEMMA SubmitRuns ==
    ASSUME NEW t, NEW row, Submit(t, row) PROVE (wf' = wf /\ Open(t)) \/ Activates(t)
  BY DEF Submit, RunReportWorkflow, ContinueApprovedToolWorkflow, Activates, Open

\* The runs of a task only become more.
RunsGrow ==
    /\ wf' \in [Tasks -> Seq(OpenRun)]
    /\ \A t \in Tasks : DOMAIN wf[t] \subseteq DOMAIN wf'[t]

LEMMA ActivatesGrow ==
    ASSUME RunsOK, NEW t \in Tasks, Activates(t)
    PROVE  /\ RunsGrow
           /\ Len(wf'[t]) \in DOMAIN wf'[t] /\ Len(wf'[t]) # 0
           /\ wf'[t][Len(wf'[t])] = NewRun("active")
           /\ \A u \in Tasks \ {t} : wf'[u] = wf[u]
  <1>1. CASE wf' = Started(t, "active")
    <2>1. /\ RunsGrow /\ Len(wf'[t]) = Len(wf[t]) + 1
          /\ wf'[t][Len(wf'[t])] = NewRun("active")
          /\ \A u \in Tasks \ {t} : wf'[u] = wf[u]
      BY <1>1, StartedRuns DEF RunsGrow
    <2>2. wf'[t] \in Seq(OpenRun) /\ wf[t] \in Seq(OpenRun)
      BY <2>1 DEF RunsGrow, RunsOK
    <2>3. Len(wf[t]) \in Nat /\ DOMAIN wf'[t] = 1..Len(wf'[t])
      BY <2>2
    <2> QED BY <2>1, <2>3
  <1>2. CASE LastState(t) = "waiting" /\ wf' = NewestSet(t, NewRun("active"))
    <2>1. NewRun("active") \in OpenRun
      BY DEF NewRun, OpenRun
    <2>2. wf[t] \in Seq(OpenRun) /\ LastState(t) # "none"
      BY <1>2 DEF RunsOK
    <2>3. Len(wf[t]) \in Nat /\ DOMAIN wf[t] = 1..Len(wf[t])
      BY <2>2
    <2> QED BY <1>2, <2>1, <2>2, <2>3, NewestRuns DEF RunsGrow
  <1> QED BY <1>1, <1>2 DEF Activates

LEMMA StutterGrows == ASSUME RunsOK, wf' = wf PROVE RunsGrow
  BY DEF RunsOK, RunsGrow

LEMMA StartTaskGrows ==
    ASSUME RunsOK, NEW t \in Tasks, StartTask(t) PROVE RunsGrow
  <1>1. CASE wf' = wf
    BY <1>1, StutterGrows
  <1>2. CASE wf' = Started(t, "waiting")
    BY <1>2, StartedRuns DEF RunsGrow
  <1> QED BY <1>1, <1>2 DEF StartTask

Retried(run) == [run EXCEPT !.attempts = @ + 1]

\* What the server makes of the newest run: an active run completes, fails, or
\* has used one attempt more; a waiting one fails.
ServerSets(t, run) ==
    /\ wf' = NewestSet(t, run)
    /\ \/ /\ LastState(t) = "active"
          /\ \/ run = Ended(Newest(t), "completed")
             \/ run = Ended(Newest(t), "failed")
             \/ /\ Newest(t).attempts + 1 # MaxAttempts
                /\ run = Retried(Newest(t))
          /\ effects' = effects \/ ToolCalled(t)
       \/ /\ LastState(t) = "waiting"
          /\ run = Ended(Newest(t), "failed")
          /\ effects' = effects

LEMMA ServerKinds ==
    ASSUME NEW t \in Tasks, ServerStep(t)
    PROVE  /\ UNCHANGED <<vars, attached, lost>>
           /\ \E run : ServerSets(t, run)
           /\ (\E run : wf' = NewestSet(t, run) /\ LastState(t) = "waiting") => effects' = effects
  <1>1. UNCHANGED <<vars, attached, lost>>
    BY DEF ServerStep, ActivityCompletes, ActivityFails, ActivityRefuses, RunTimesOut
  <1>2. Attempt(t) => effects' = effects \/ ToolCalled(t)
    BY DEF Attempt, GenerateReport, ExecuteApprovedTool
  <1>3. CASE ActivityCompletes(t)
    BY <1>1, <1>2, <1>3 DEF ActivityCompletes, ServerSets
  <1>4. CASE ActivityFails(t)
    BY <1>1, <1>2, <1>4 DEF ActivityFails, AfterFailedAttempt, Retried, ServerSets
  <1>5. CASE ActivityRefuses(t)
    BY <1>1, <1>2, <1>5 DEF ActivityRefuses, ServerSets
  <1>6. CASE RunTimesOut(t)
    BY <1>1, <1>2, <1>6 DEF RunTimesOut, ServerSets, Open
  <1> QED BY <1>3, <1>4, <1>5, <1>6 DEF ServerStep

\* The newest run of a task that has one, and what the server makes of it.
LEMMA NewestType ==
    ASSUME RunsOK, NEW t \in Tasks, LastState(t) # "none"
    PROVE  Newest(t) \in OpenRun /\ Newest(t).state = LastState(t)
  <1>1. wf[t] \in Seq(OpenRun) /\ wf[t] # <<>>
    BY DEF RunsOK, LastState
  <1>2. Len(wf[t]) \in 1..Len(wf[t])
    BY <1>1, EmptySeq
  <1> QED BY <1>1, <1>2, ElementOfSeq DEF Newest, LastState

LEMMA EndedRuns ==
    ASSUME NEW r \in OpenRun
    PROVE  /\ Ended(r, "completed").state = "completed" /\ Ended(r, "failed").state = "failed"
           /\ Retried(r).state = r.state /\ Retried(r).attempts = r.attempts + 1
           /\ Ended(r, "completed") \in OpenRun /\ Ended(r, "failed") \in OpenRun
           /\ r.attempts + 1 # MaxAttempts => Retried(r) \in OpenRun
  <1>1. 0 \in 0..(MaxAttempts - 1) /\ r.attempts \in 0..(MaxAttempts - 1)
    BY DEF OpenRun
  <1>2. r.attempts + 1 # MaxAttempts => r.attempts + 1 \in 0..(MaxAttempts - 1)
    BY <1>1
  <1>3. /\ Ended(r, "completed").state = "completed" /\ Ended(r, "failed").state = "failed"
        /\ Ended(r, "completed") \in OpenRun /\ Ended(r, "failed") \in OpenRun
    BY <1>1 DEF Ended, OpenRun
  <1>4. r.attempts + 1 # MaxAttempts => Retried(r) \in OpenRun
    BY <1>2 DEF OpenRun, Retried
  <1>5. Retried(r).state = r.state /\ Retried(r).attempts = r.attempts + 1
    BY DEF OpenRun, Retried
  <1> QED BY <1>3, <1>4, <1>5

LEMMA ServerGrows ==
    ASSUME RunsOK, NEW t \in Tasks, NEW run, ServerSets(t, run)
    PROVE  run \in OpenRun /\ RunsGrow /\ effects' \in [Tasks -> Nat]
  <1>1. LastState(t) # "none"
    BY DEF ServerSets
  <1>2. Newest(t) \in OpenRun
    BY <1>1, NewestType
  <1>3. run \in OpenRun
    <2>1. \/ run = Ended(Newest(t), "completed") \/ run = Ended(Newest(t), "failed")
          \/ /\ Newest(t).attempts + 1 # MaxAttempts
             /\ run = Retried(Newest(t))
      BY DEF ServerSets
    <2> QED BY <1>2, <2>1, EndedRuns
  <1>4. effects' \in [Tasks -> Nat]
    <2>1. effects' = effects \/ effects' = [effects EXCEPT ![t] = @ + 1]
      BY DEF ServerSets, ToolCalled
    <2>2. effects \in [Tasks -> Nat]
      BY DEF RunsOK
    <2>3. effects[t] + 1 \in Nat
      BY <2>2
    <2> QED BY <2>1, <2>2, <2>3
  <1>5. wf' = NewestSet(t, run)
    BY DEF ServerSets
  <1>6. RunsGrow
    BY <1>1, <1>3, <1>5, NewestRuns DEF RunsGrow, RunsOK
  <1> QED BY <1>3, <1>4, <1>6

----------------------------------------------------------------------------
(* What a step of a worker does, as far as Temporal is concerned.          *)

LEMMA OtherPhases ==
    ASSUME TypeOK, NEW w \in Workers
    PROVE  /\ (\/ ClaimQueuedTasks(w) \/ VersionFound(w) \/ FinalizeReport(w)
               \/ RecordGeneratedReport(w) \/ WriteOutcome(w))
                => worker[w].pc # "executing" /\ worker'[w].pc # "executing" /\ execs' = execs
           /\ WorkerFault(w) => worker'[w].pc # "executing" /\ execs' = execs
           /\ ExecuteSucceeds(w) \/ ExecuteFails(w)
                => worker[w].pc = "executing" /\ worker'[w].pc # "executing" /\ execs' = execs
  <1>1. worker[w] \in WorkerState
    BY DEF TypeOK
  <1>2. ASSUME NEW s, worker' = [worker EXCEPT ![w] = s] PROVE worker'[w] = s
    BY <1>2 DEF TypeOK
  <1>3. /\ IdleWorker.pc = "idle" /\ Failed(w).pc = "updating"
        /\ Advanced(w).pc \in {"idle", "next"}
    BY <1>1 DEF IdleWorker, Failed, Advanced, WorkerState
  <1>4. ASSUME ClaimQueuedTasks(w)
        PROVE  worker[w].pc # "executing" /\ worker'[w].pc # "executing" /\ execs' = execs
    <2> DEFINE s(ids) == [IdleWorker EXCEPT !.pc = "next", !.batch = ids,
                             !.snap = [t \in Tasks |-> IF t \in ids THEN task'[t] ELSE NoRow]]
    <2>1. PICK ids : worker' = [worker EXCEPT ![w] = s(ids)]
      BY <1>4 DEF ClaimQueuedTasks
    <2>2. s(ids).pc = "next"
      BY DEF IdleWorker
    <2> HIDE DEF s
    <2> QED BY <1>2, <1>4, <2>1, <2>2 DEF ClaimQueuedTasks
  <1>5. ASSUME NEW p, NEW x
        PROVE  /\ [worker[w] EXCEPT !.pc = p].pc = p
               /\ [worker[w] EXCEPT !.pc = p, !.snap = x].pc = p
               /\ [worker[w] EXCEPT !.pc = p, !.status = x].pc = p
    BY <1>1 DEF WorkerState
  <1>6. ASSUME VersionFound(w) \/ RecordGeneratedReport(w)
        PROVE  worker[w].pc # "executing" /\ worker'[w].pc # "executing" /\ execs' = execs
    <2>1. CASE VersionFound(w)
      <3>1. worker'[w] = [worker[w] EXCEPT !.pc = "finalizing", !.snap = Versioned(w)]
        BY <1>2, <2>1 DEF VersionFound
      <3>2. worker'[w].pc = "finalizing"
        BY <1>5, <3>1
      <3> QED BY <2>1, <3>2 DEF VersionFound
    <2>2. CASE RecordGeneratedReport(w)
      <3>1. worker'[w] = [worker[w] EXCEPT !.pc = "updating"]
        BY <1>2, <2>2 DEF RecordGeneratedReport
      <3>2. worker'[w].pc = "updating"
        BY <1>5, <3>1
      <3> QED BY <2>2, <3>2 DEF RecordGeneratedReport
    <2> QED BY <1>6, <2>1, <2>2
  <1>7. ASSUME FinalizeReport(w) \/ WriteOutcome(w)
        PROVE  worker[w].pc # "executing" /\ worker'[w].pc # "executing" /\ execs' = execs
    BY <1>2, <1>3, <1>7 DEF FinalizeReport, WriteOutcome
  <1>8. ASSUME WorkerFault(w) PROVE worker'[w].pc # "executing" /\ execs' = execs
    <2>1. CASE VersionError(w)
      <3>1. worker'[w] = [worker[w] EXCEPT !.pc = "finalizing", !.status = "failed"]
        BY <1>2, <2>1 DEF VersionError
      <3>2. worker'[w].pc = "finalizing"
        BY <1>5, <3>1
      <3> QED BY <2>1, <3>2 DEF VersionError
    <2>2. CASE ~VersionError(w)
      BY <1>2, <1>3, <1>8, <2>2 DEF WorkerFault, ClaimLost, FinalizeRolledBack, FinalizeLost,
         OutcomeRolledBack, OutcomeLost, Crash
    <2> QED BY <2>1, <2>2
  <1>9. ASSUME ExecuteSucceeds(w) \/ ExecuteFails(w)
        PROVE  worker[w].pc = "executing" /\ worker'[w].pc # "executing" /\ execs' = execs
    <2>1. CASE ExecuteSucceeds(w)
      <3> DEFINE row == worker[w].snap[worker[w].cur]
                 p == IF row.type # "report_generation" THEN "updating"
                      ELSE IF row.version THEN "finalizing" ELSE "versioning"
      <3>1. worker' = [worker EXCEPT ![w] = [worker[w] EXCEPT !.pc = p, !.status = "succeeded"]]
        BY <2>1 DEF ExecuteSucceeds
      <3>2. p # "executing"
        OBVIOUS
      <3> HIDE DEF p
      <3>3. worker'[w] = [worker[w] EXCEPT !.pc = p, !.status = "succeeded"]
        BY <1>2, <3>1
      <3>4. worker'[w].pc = p
        BY <1>5, <3>3
      <3> QED BY <2>1, <3>2, <3>4 DEF ExecuteSucceeds
    <2>2. CASE ExecuteFails(w)
      BY <1>2, <1>3, <2>2 DEF ExecuteFails
    <2> QED BY <1>9, <2>1, <2>2
  <1> QED BY <1>4, <1>6, <1>7, <1>8, <1>9

\* It begins to execute a task, ...
Begins(w) ==
    /\ worker[w].pc = "next"
    /\ worker'[w].pc = "executing"
    /\ worker'[w].cur \in Tasks
    /\ execs' = [execs EXCEPT ![worker'[w].cur] = @ + 1]
    /\ attached'[w] = 0
    /\ wf' = wf

\* ... submits it to Temporal, and waits for the run or gives up, ...
Submits(w) ==
    /\ worker[w].pc = "executing" /\ worker[w].cur \in Tasks
    /\ UsesTemporal(Current(w))
    /\ attached[w] = 0
    /\ wf' = wf \/ Activates(worker[w].cur)
    /\ execs' = execs
    /\ \/ /\ Open(worker[w].cur) \/ Activates(worker[w].cur)
          /\ worker' = worker
          /\ attached'[w] = Len(wf'[worker[w].cur])
       \/ worker'[w].pc # "executing" /\ attached'[w] = 0

\* ... or does not execute one any more, if it did before.
Ends(w) ==
    /\ worker'[w].pc # "executing"
    /\ attached'[w] = 0
    /\ execs' = execs
    /\ wf' = wf

LEMMA WorkerEffects ==
    ASSUME TypeOK, HandsInv, TInv, NEW w \in Workers,
           \/ TemporalWorkerStep(w) \/ SubmitErrs(w) \/ ResultLost(w) \/ OtherWorkerFault(w)
    PROVE  /\ effects' = effects /\ lost' \in 0..MaxLost
           /\ attached' \in [Workers -> Nat]
           /\ \A v \in Workers \ {w} : worker'[v] = worker[v] /\ attached'[v] = attached[v]
           /\ Begins(w) \/ Submits(w) \/ Ends(w)
  <1>0. attached \in [Workers -> Nat] /\ Waiting(w) /\ RunsOK /\ lost \in 0..MaxLost
    BY DEF TInv, RunsOK
  <1>1. worker[w] \in WorkerState /\ WorkerOK(worker[w])
    BY DEF TypeOK
  <1>2. worker[w].pc = "executing" => worker[w].cur \in Tasks
    BY <1>1 DEF WorkerState, WorkerOK
  <1>3. ASSUME WorkerStep(w) \/ WorkerFault(w) PROVE \A v \in Workers \ {w} : worker'[v] = worker[v]
    <2>1. PICK s : worker' = [worker EXCEPT ![w] = s]
      BY <1>3, WorkerKinds
    <2> QED BY <2>1 DEF TypeOK
  <1>4. ASSUME Detach(w)
        PROVE  /\ attached' \in [Workers -> Nat] /\ attached'[w] = 0
               /\ \A v \in Workers \ {w} : attached'[v] = attached[v]
    BY <1>0, <1>4 DEF Detach
  <1>5. CASE SubmitWorkflow(w)
    <2>1. /\ worker[w].pc = "executing" /\ worker[w].cur \in Tasks /\ UsesTemporal(Current(w))
          /\ attached[w] = 0 /\ worker' = worker /\ execs' = execs
      BY <1>2, <1>5 DEF SubmitWorkflow, Submitting, vars
    <2>2. (wf' = wf /\ Open(worker[w].cur)) \/ Activates(worker[w].cur)
      BY <1>5, SubmitRuns DEF SubmitWorkflow
    <2>3. wf'[worker[w].cur] \in Seq(OpenRun)
      BY <1>0, <2>1, <2>2, ActivatesGrow DEF RunsOK, RunsGrow
    <2>4. Len(wf'[worker[w].cur]) \in Nat
      BY <2>3
    <2>5. /\ attached' \in [Workers -> Nat] /\ attached'[w] = Len(wf'[worker[w].cur])
          /\ \A v \in Workers \ {w} : attached'[v] = attached[v]
      BY <1>0, <1>5, <2>4 DEF SubmitWorkflow
    <2>6. Submits(w)
      BY <2>1, <2>2, <2>5 DEF Submits
    <2> QED BY <1>0, <1>5, <2>1, <2>5, <2>6 DEF SubmitWorkflow
  <1>6. CASE SubmitErrs(w)
    <2>1. /\ worker[w].pc = "executing" /\ worker[w].cur \in Tasks /\ UsesTemporal(Current(w))
          /\ attached[w] = 0 /\ attached' = attached
      BY <1>2, <1>6 DEF SubmitErrs, Submitting
    <2>2. wf' = wf \/ Activates(worker[w].cur)
      BY <1>6, SubmitRuns DEF SubmitErrs
    <2>3. worker'[w].pc # "executing" /\ execs' = execs
      BY <1>6, OtherPhases DEF SubmitErrs
    <2>4. Submits(w)
      BY <2>1, <2>2, <2>3 DEF Submits
    <2>5. lost' \in 0..MaxLost
      BY <1>0, <1>6 DEF SubmitErrs, LoseAnswer
    <2> QED BY <1>0, <1>3, <1>6, <2>1, <2>4, <2>5 DEF SubmitErrs, WorkerStep
  <1>7. CASE SubmitRefused(w) \/ FallbackExecutes(w)
    <2>1. attached[w] = 0
      BY <1>0, <1>7 DEF SubmitRefused, Submitting, FallbackExecutes, Waiting
    <2>2. ExecuteSucceeds(w) \/ ExecuteFails(w)
      BY <1>7 DEF SubmitRefused, FallbackExecutes
    <2>3. UNCHANGED <<wf, effects, attached, lost>>
      BY <1>7 DEF SubmitRefused, FallbackExecutes, temporal
    <2>4. Ends(w)
      BY <2>1, <2>2, <2>3, OtherPhases DEF Ends
    <2> QED BY <1>0, <1>3, <2>2, <2>3, <2>4 DEF WorkerStep
  <1>8. CASE ResultArrives(w) \/ ResultLost(w)
    <2>1. ExecuteSucceeds(w) \/ ExecuteFails(w)
      BY <1>8, GetResultSteps DEF ResultArrives, ResultLost
    <2>2. wf' = wf /\ effects' = effects /\ Detach(w) /\ lost' \in 0..MaxLost
      BY <1>0, <1>8 DEF ResultArrives, ResultLost, LoseAnswer
    <2>3. Ends(w)
      BY <1>4, <2>1, <2>2, OtherPhases DEF Ends
    <2> QED BY <1>3, <1>4, <2>1, <2>2, <2>3 DEF WorkerStep
  <1>9. CASE OtherWorkerFault(w)
    <2>1. Ends(w)
      BY <1>4, <1>9, OtherPhases DEF OtherWorkerFault, Ends
    <2> QED BY <1>0, <1>3, <1>4, <1>9, <2>1 DEF OtherWorkerFault
  <1>10. CASE OtherWorkerStep(w)
    <2>1. UNCHANGED <<wf, effects, attached, lost>> /\ WorkerStep(w)
      BY <1>10 DEF OtherWorkerStep, temporal, WorkerStep
    <2>2. CASE ExecuteStart(w)
      <3> DEFINE s(t) == [worker[w] EXCEPT !.pc = "executing", !.cur = t]
      <3>1. PICK t \in worker[w].batch : /\ worker' = [worker EXCEPT ![w] = s(t)]
                                         /\ execs' = [execs EXCEPT ![t] = @ + 1]
        BY <2>2 DEF ExecuteStart
      <3>2. s(t).pc = "executing" /\ s(t).cur = t /\ t \in Tasks
        BY <1>1 DEF WorkerState
      <3> HIDE DEF s
      <3>3. worker'[w] = s(t)
        BY <3>1 DEF TypeOK
      <3>4. worker[w].pc = "next" /\ attached[w] = 0
        BY <1>0, <2>2 DEF ExecuteStart, Waiting
      <3>5. Begins(w)
        BY <2>1, <3>1, <3>2, <3>3, <3>4 DEF Begins
      <3> QED BY <1>0, <1>3, <2>1, <3>5
    <2>3. CASE ~ExecuteStart(w)
      <3>1. worker[w].pc # "executing" /\ worker'[w].pc # "executing" /\ execs' = execs
        <4>1. \/ ClaimQueuedTasks(w) \/ VersionFound(w) \/ FinalizeReport(w)
              \/ RecordGeneratedReport(w) \/ WriteOutcome(w)
          BY <1>10, <2>3 DEF OtherWorkerStep
        <4> QED BY <4>1, OtherPhases
      <3>2. Ends(w)
        BY <1>0, <2>1, <3>1 DEF Ends, Waiting
      <3> QED BY <1>0, <1>3, <2>1, <3>2
    <2> QED BY <2>2, <2>3
  <1> QED BY <1>5, <1>6, <1>7, <1>8, <1>9, <1>10 DEF TemporalWorkerStep

\* A step of a handler changes the runs of one task at most, where it starts
\* one that waits.
LEMMA ClientEffects ==
    ASSUME TypeOK, RunsOK, NEW c \in Clients,
           StartTaskReturns(c) \/ StartTaskErrs(c) \/ OtherClientStep(c) \/ DecisionErrs(c)
    PROVE  /\ ClientStep(c) /\ UNCHANGED <<worker, execs, effects, attached, lost>>
           /\ RunsGrow
           /\ wf' = wf \/ (api[c].pc = "starting" /\ api[c].id \in Tasks /\ StartTask(api[c].id))
  <1>1. ClientStep(c)
    BY DEF StartTaskReturns, StartTaskErrs, OtherClientStep, DecisionErrs, ClientStep
  <1>2. worker' = worker /\ execs' = execs
    BY <1>1, ClientKinds
  <1>3. UNCHANGED <<effects, attached, lost>>
    BY DEF StartTaskReturns, StartTaskErrs, OtherClientStep, DecisionErrs, temporal
  <1>4. wf' = wf \/ (api[c].pc = "starting" /\ StartTask(api[c].id))
    BY DEF StartTaskReturns, StartTaskErrs, OtherClientStep, DecisionErrs, temporal, StartSucceeds,
           StartFails
  <1>5. api[c].pc = "starting" => api[c].id \in Tasks
    BY DEF TypeOK, ClientOK
  <1>6. RunsGrow
    BY <1>4, <1>5, StutterGrows, StartTaskGrows
  <1> QED BY <1>1, <1>2, <1>3, <1>4, <1>5, <1>6

----------------------------------------------------------------------------
(* The invariant of the runs.                                              *)

LEMMA RunsInit == TInit => TInv
  <1> SUFFICES ASSUME TInit PROVE TInv
    OBVIOUS
  <1>1. wf \in [Tasks -> Seq(OpenRun)]
    BY EmptySeq DEF TInit
  <1> QED BY <1>1 DEF TInit, TInv, RunsOK, Waiting

\* A worker whose state and wait do not change keeps waiting for a run that
\* there is.
LEMMA WaitingStays ==
    ASSUME NEW w \in Workers, TypeOK, Waiting(w), RunsGrow,
           worker'[w] = worker[w], attached'[w] = attached[w]
    PROVE  Waiting(w)'
  <1>1. worker[w] \in WorkerState /\ WorkerOK(worker[w])
    BY DEF TypeOK
  <1>2. worker[w].pc = "executing" => worker[w].cur \in Tasks
    BY <1>1 DEF WorkerState, WorkerOK
  <1>3. Current(w)' = Current(w)
    BY DEF Current
  <1> QED BY <1>2, <1>3 DEF Waiting, RunsGrow, UsesTemporal

\* An open run is the last of a sequence of runs.
LEMMA OpenLast ==
    ASSUME RunsOK, NEW t \in Tasks, Open(t)
    PROVE  Len(wf[t]) \in DOMAIN wf[t] /\ Len(wf[t]) # 0
  <1>1. wf[t] \in Seq(OpenRun) /\ wf[t] # <<>>
    BY DEF RunsOK, Open, LastState
  <1>2. Len(wf[t]) \in 1..Len(wf[t]) /\ DOMAIN wf[t] = 1..Len(wf[t])
    BY <1>1, EmptySeq
  <1> QED BY <1>2

LEMMA WorkerRunsGrow ==
    ASSUME RunsOK, NEW w \in Workers, Begins(w) \/ Submits(w) \/ Ends(w)
    PROVE  RunsGrow
  <1>1. wf' = wf \/ (worker[w].cur \in Tasks /\ Activates(worker[w].cur))
    BY DEF Begins, Submits, Ends
  <1> QED BY <1>1, StutterGrows, ActivatesGrow

LEMMA RunsNext == TypeOK /\ HandsInv /\ TInv /\ [TNext]_tvars => TInv'
  <1> SUFFICES ASSUME TypeOK, HandsInv, TInv, [TNext]_tvars PROVE TInv'
    OBVIOUS
  <1>1. RunsOK /\ attached \in [Workers -> Nat] /\ \A w \in Workers : Waiting(w)
    BY DEF TInv
  <1>2. effects \in [Tasks -> Nat] /\ lost \in 0..MaxLost
    BY <1>1 DEF RunsOK
  <1>3. ASSUME RunsGrow, effects' \in [Tasks -> Nat], lost' \in 0..MaxLost
        PROVE  RunsOK'
    BY <1>3 DEF RunsGrow, RunsOK
  <1>4. ASSUME RunsGrow, worker' = worker, attached' = attached, effects' \in [Tasks -> Nat],
               lost' = lost
        PROVE  TInv'
    <2>1. \A w \in Workers : Waiting(w)'
      BY <1>1, <1>4, WaitingStays
    <2>2. RunsOK'
      BY <1>2, <1>3, <1>4
    <2> QED BY <1>1, <1>4, <2>1, <2>2 DEF TInv
  <1>5. CASE UNCHANGED tvars
    <2>1. UNCHANGED <<wf, worker, attached, effects, lost>>
      BY <1>5 DEF tvars, vars, temporal
    <2> QED BY <1>1, <1>2, <1>4, <2>1, StutterGrows
  <1>6. ASSUME NEW c \in Clients,
               StartTaskReturns(c) \/ StartTaskErrs(c) \/ OtherClientStep(c) \/ DecisionErrs(c)
        PROVE  TInv'
    BY <1>1, <1>2, <1>4, <1>6, ClientEffects
  <1>7. ASSUME NEW w \in Workers,
               \/ TemporalWorkerStep(w) \/ SubmitErrs(w) \/ ResultLost(w) \/ OtherWorkerFault(w)
        PROVE  TInv'
    <2>1. /\ effects' = effects /\ lost' \in 0..MaxLost
          /\ attached' \in [Workers -> Nat]
          /\ \A v \in Workers \ {w} : worker'[v] = worker[v] /\ attached'[v] = attached[v]
          /\ Begins(w) \/ Submits(w) \/ Ends(w)
      BY <1>7, WorkerEffects
    <2>2. RunsGrow
      BY <1>1, <2>1, WorkerRunsGrow
    <2>3. \A v \in Workers \ {w} : Waiting(v)'
      BY <1>1, <2>1, <2>2, WaitingStays
    <2>4. Waiting(w)'
      <3>1. CASE attached'[w] = 0
        BY <3>1 DEF Waiting
      <3>2. CASE attached'[w] # 0
        <4>1. /\ worker' = worker /\ worker[w].cur \in Tasks /\ worker[w].pc = "executing"
              /\ UsesTemporal(Current(w)) /\ attached'[w] = Len(wf'[worker[w].cur])
              /\ (wf' = wf /\ Open(worker[w].cur)) \/ Activates(worker[w].cur)
          BY <2>1, <3>2 DEF Begins, Submits, Ends
        <4>2. Len(wf'[worker[w].cur]) \in DOMAIN wf'[worker[w].cur]
          BY <1>1, <4>1, OpenLast, ActivatesGrow
        <4>3. UsesTemporal(Current(w))'
          BY <4>1 DEF UsesTemporal, Current
        <4>4. attached'[w] \in Nat
          BY <2>1
        <4> QED BY <4>1, <4>2, <4>3, <4>4 DEF Waiting
      <3> QED BY <3>1, <3>2
    <2>5. RunsOK'
      BY <1>2, <1>3, <2>1, <2>2
    <2> QED BY <2>1, <2>3, <2>4, <2>5 DEF TInv
  <1>8. ASSUME NEW t \in Tasks, ServerStep(t) PROVE TInv'
    <2>1. UNCHANGED <<vars, attached, lost>> /\ \E run : ServerSets(t, run)
      BY <1>8, ServerKinds
    <2>2. RunsGrow /\ effects' \in [Tasks -> Nat]
      BY <1>1, <2>1, ServerGrows
    <2>3. UNCHANGED <<worker, attached, lost>>
      BY <2>1 DEF vars
    <2> QED BY <1>4, <2>2, <2>3
  <1> QED BY <1>5, <1>6, <1>7, <1>8 DEF TNext

LEMMA TasksInvariants == TSpec => [](TypeOK /\ HandsInv)
  BY TemporalImplementsTasks, TypeCorrect, HandsHold, PTL

LEMMA RunsHold == TSpec => []TInv
  BY RunsInit, RunsNext, TasksInvariants, PTL DEF TSpec

LEMMA RunTypes == TypeOK /\ TInv => TTypeOK
  <1> SUFFICES ASSUME TypeOK, TInv PROVE TTypeOK
    OBVIOUS
  <1>1. OpenRun \subseteq Run
    <2>1. 0..(MaxAttempts - 1) \subseteq 0..MaxAttempts
      OBVIOUS
    <2> QED BY <2>1 DEF OpenRun, Run
  <1>2. Seq(OpenRun) \subseteq Seq(Run)
    BY <1>1, SeqMonotonic
  <1> QED BY <1>2 DEF TTypeOK, TInv, RunsOK, Waiting

\* TTypeOK holds in every reachable state: in particular a worker waits only
\* for a run that there is, and only while it executes the run's task.
THEOREM TemporalTypeCorrect == TSpec => []TTypeOK
  BY RunTypes, TasksInvariants, RunsHold, PTL

----------------------------------------------------------------------------
(* Calls of tools.                                                         *)

\* The workers that execute t and have not submitted it.
Unsubmitted(t) ==
    {w \in Workers : worker[w].pc = "executing" /\ worker[w].cur = t /\ attached[w] = 0}

\* The attempts that the server may still make in the newest run of t.
AttemptsLeft(t) ==
    IF LastState(t) = "active" THEN MaxAttempts - Newest(t).attempts ELSE 0

\* Every execution is good for MaximumAttempts calls of the tool: those of its
\* run, made or left, or of the run that it has not submitted yet.
CallsOK(t) ==
    /\ IsFiniteSet(Unsubmitted(t))
    /\ effects[t] + AttemptsLeft(t) + MaxAttempts * Cardinality(Unsubmitted(t))
         <= MaxAttempts * execs[t]

CallsInv == \A t \in Tasks : CallsOK(t)

LEMMA Multiples ==
    ASSUME NEW m \in Nat, NEW n \in Nat PROVE m * n \in Nat /\ m * (n + 1) = m * n + m
  OBVIOUS

LEMMA MultiplesGrow ==
    ASSUME NEW m \in Nat, NEW n \in Nat, NEW k \in Nat, n <= k PROVE m * n <= m * k
  OBVIOUS

LEMMA AttemptsLeftType ==
    ASSUME RunsOK, NEW t \in Tasks
    PROVE  /\ AttemptsLeft(t) \in 0..MaxAttempts
           /\ LastState(t) = "active" => AttemptsLeft(t) >= 1
  <1>1. CASE LastState(t) = "active"
    <2>1. Newest(t).attempts \in 0..(MaxAttempts - 1)
      BY <1>1, NewestType DEF OpenRun
    <2> QED BY <1>1, <2>1 DEF AttemptsLeft
  <1>2. CASE LastState(t) # "active"
    BY <1>2 DEF AttemptsLeft
  <1> QED BY <1>1, <1>2

LEMMA AttemptsLeftRange == RunsOK => \A t \in Tasks : AttemptsLeft(t) \in 0..MaxAttempts
  BY AttemptsLeftType

LEMMA AttemptsLeftNext == ASSUME RunsOK' PROVE \A t \in Tasks : AttemptsLeft(t)' \in 0..MaxAttempts
  <1>1. (RunsOK => \A t \in Tasks : AttemptsLeft(t) \in 0..MaxAttempts)'
    BY AttemptsLeftRange, PTL
  <1> QED BY <1>1

\* The operators of a task depend on its runs only.
LEMMA SameRuns ==
    ASSUME NEW t \in Tasks, wf'[t] = wf[t]
    PROVE  AttemptsLeft(t)' = AttemptsLeft(t) /\ LastState(t)' = LastState(t)
  BY DEF AttemptsLeft, LastState, Newest

\* The last run tells the state.
LEMMA LastRun ==
    ASSUME RunsGrow, NEW t \in Tasks, NEW n \in DOMAIN wf'[t], n = Len(wf'[t])
    PROVE  LastState(t)' = wf'[t][n].state /\ Newest(t)' = wf'[t][n]
  <1>1. wf'[t] \in Seq(OpenRun)
    BY DEF RunsGrow
  <1>2. wf'[t] # <<>>
    BY <1>1
  <1> QED BY <1>2 DEF LastState, Newest

\* The bound survives a step that begins no execution and makes calls only out
\* of the attempts left.
LEMMA CallsShrink ==
    ASSUME TypeOK, TInv, TInv', NEW t \in Tasks, CallsOK(t),
           Unsubmitted(t)' \subseteq Unsubmitted(t), execs'[t] = execs[t],
           effects'[t] + AttemptsLeft(t)' <= effects[t] + AttemptsLeft(t)
    PROVE  CallsOK(t)'
  <1> DEFINE k == Cardinality(Unsubmitted(t))
             l == Cardinality(Unsubmitted(t)')
  <1>1. IsFiniteSet(Unsubmitted(t)') /\ k \in Nat /\ l \in Nat /\ l <= k
    BY FS_Subset, FS_CardinalityType DEF CallsOK
  <1>2. execs[t] \in Nat /\ effects[t] \in Nat /\ effects'[t] \in Nat
    BY DEF TypeOK, TInv, RunsOK
  <1>3. RunsOK /\ RunsOK'
    BY DEF TInv
  <1>4. AttemptsLeft(t) \in Nat /\ AttemptsLeft(t)' \in Nat
    <2>1. AttemptsLeft(t) \in 0..MaxAttempts
      BY <1>3, AttemptsLeftType
    <2>2. AttemptsLeft(t)' \in 0..MaxAttempts
      BY <1>3, AttemptsLeftNext
    <2> QED BY <2>1, <2>2
  <1> DEFINE mk == MaxAttempts * k
             ml == MaxAttempts * l
             me == MaxAttempts * execs[t]
  <1>5. mk \in Nat /\ ml \in Nat /\ ml <= mk /\ me \in Nat
    BY <1>1, <1>2, Multiples, MultiplesGrow
  <1>6. effects[t] + AttemptsLeft(t) + mk <= me
    BY DEF CallsOK
  <1> HIDE DEF mk, ml, me
  <1>7. effects'[t] + AttemptsLeft(t)' + ml <= me
    BY <1>2, <1>4, <1>5, <1>6
  <1> QED BY <1>1, <1>7 DEF CallsOK, ml, me

LEMMA CallsClient ==
    ASSUME TypeOK, TInv, TInv', CallsInv, NEW c \in Clients,
           StartTaskReturns(c) \/ StartTaskErrs(c) \/ OtherClientStep(c) \/ DecisionErrs(c)
    PROVE  CallsInv'
  <1> SUFFICES ASSUME NEW t \in Tasks PROVE CallsOK(t)'
    BY DEF CallsInv
  <1>0. RunsOK
    BY DEF TInv
  <1>1. /\ UNCHANGED <<worker, execs, effects, attached, lost>> /\ RunsGrow
        /\ wf' = wf \/ (api[c].id \in Tasks /\ StartTask(api[c].id))
    BY <1>0, ClientEffects
  <1>2. Unsubmitted(t)' = Unsubmitted(t)
    BY <1>1 DEF Unsubmitted
  <1>3. AttemptsLeft(t)' <= AttemptsLeft(t)
    <2>1. CASE wf'[t] = wf[t]
      <3>1. AttemptsLeft(t)' = AttemptsLeft(t) /\ AttemptsLeft(t) \in 0..MaxAttempts
        BY <1>0, <2>1, SameRuns, AttemptsLeftType
      <3> QED BY <3>1
    <2>2. CASE wf'[t] # wf[t]
      <3>1. api[c].id \in Tasks /\ wf' = Started(api[c].id, "waiting")
        BY <1>1, <2>2 DEF StartTask
      <3>2. t = api[c].id
        BY <1>0, <2>2, <3>1, StartedRuns
      <3>3. wf'[t] = Append(wf[t], NewRun("waiting")) /\ wf'[t][Len(wf'[t])] = NewRun("waiting")
            /\ Len(wf'[t]) = Len(wf[t]) + 1
        BY <1>0, <3>1, <3>2, StartedRuns
      <3>4. wf[t] \in Seq(OpenRun) /\ wf'[t] \in Seq(OpenRun)
        BY <1>0, <1>1 DEF RunsOK, RunsGrow
      <3>5. Len(wf'[t]) \in DOMAIN wf'[t]
        <4>1. DOMAIN wf'[t] = 1..Len(wf'[t]) /\ Len(wf[t]) \in Nat
          BY <3>4
        <4> QED BY <3>3, <4>1
      <3>6. LastState(t)' = "waiting"
        BY <1>1, <3>3, <3>5, LastRun DEF NewRun
      <3>7. AttemptsLeft(t)' = 0
        BY <3>6 DEF AttemptsLeft
      <3>8. AttemptsLeft(t) \in 0..MaxAttempts
        BY <1>0, AttemptsLeftType
      <3> QED BY <3>7, <3>8
    <2> QED BY <2>1, <2>2
  <1>4. effects'[t] + AttemptsLeft(t)' <= effects[t] + AttemptsLeft(t)
    <2>1. RunsOK'
      BY DEF TInv
    <2>2. AttemptsLeft(t) \in 0..MaxAttempts
      BY <1>0, AttemptsLeftType
    <2>3. AttemptsLeft(t)' \in 0..MaxAttempts
      BY <2>1, AttemptsLeftNext
    <2>4. effects'[t] = effects[t] /\ effects[t] \in Nat
      BY <1>0, <1>1 DEF RunsOK
    <2> QED BY <1>3, <2>2, <2>3, <2>4
  <1>5. CallsOK(t)
    BY DEF CallsInv
  <1> QED BY <1>1, <1>2, <1>4, <1>5, CallsShrink

LEMMA CallsWorker ==
    ASSUME TypeOK, HandsInv, TInv, TInv', CallsInv, NEW w \in Workers,
           \/ TemporalWorkerStep(w) \/ SubmitErrs(w) \/ ResultLost(w) \/ OtherWorkerFault(w)
    PROVE  CallsInv'
  <1> SUFFICES ASSUME NEW t \in Tasks PROVE CallsOK(t)'
    BY DEF CallsInv
  <1>0. RunsOK /\ RunsOK' /\ CallsOK(t)
    BY DEF TInv, CallsInv
  <1>1. /\ effects' = effects
        /\ \A v \in Workers \ {w} : worker'[v] = worker[v] /\ attached'[v] = attached[v]
        /\ Begins(w) \/ Submits(w) \/ Ends(w)
    BY WorkerEffects
  <1>2. /\ execs[t] \in Nat /\ effects[t] \in Nat /\ effects'[t] = effects[t]
        /\ AttemptsLeft(t) \in 0..MaxAttempts /\ AttemptsLeft(t)' \in 0..MaxAttempts
    <2>1. execs[t] \in Nat
      BY DEF TypeOK
    <2>2. effects[t] \in Nat /\ effects'[t] = effects[t]
      BY <1>0, <1>1 DEF RunsOK
    <2>3. AttemptsLeft(t) \in 0..MaxAttempts /\ AttemptsLeft(t)' \in 0..MaxAttempts
      BY <1>0, AttemptsLeftType, AttemptsLeftNext
    <2> QED BY <2>1, <2>2, <2>3
  <1>3. ASSUME Unsubmitted(t)' \subseteq Unsubmitted(t), execs'[t] = execs[t], wf'[t] = wf[t]
        PROVE  CallsOK(t)'
    <2>1. AttemptsLeft(t)' = AttemptsLeft(t)
      BY <1>3, SameRuns
    <2>2. effects'[t] + AttemptsLeft(t)' <= effects[t] + AttemptsLeft(t)
      BY <1>2, <2>1
    <2> QED BY <1>0, <1>3, <2>2, CallsShrink
  <1> DEFINE k == Cardinality(Unsubmitted(t))
  <1>4. IsFiniteSet(Unsubmitted(t)) /\ k \in Nat
        /\ effects[t] + AttemptsLeft(t) + MaxAttempts * k <= MaxAttempts * execs[t]
    BY <1>0, FS_CardinalityType DEF CallsOK
  <1>5. CASE Begins(w)
    <2>1. CASE t = worker'[w].cur
      <3>1. w \notin Unsubmitted(t) /\ Unsubmitted(t)' = Unsubmitted(t) \cup {w}
        BY <1>1, <1>5, <2>1 DEF Begins, Unsubmitted
      <3>2. IsFiniteSet(Unsubmitted(t)') /\ Cardinality(Unsubmitted(t)') = k + 1
        BY <1>4, <3>1, FS_AddElement
      <3>3. execs'[t] = execs[t] + 1
        BY <1>5, <2>1 DEF Begins, TypeOK
      <3>4. AttemptsLeft(t)' = AttemptsLeft(t)
        BY <1>5, SameRuns DEF Begins
      <3> DEFINE mk == MaxAttempts * k
                 me == MaxAttempts * execs[t]
      <3>5. /\ mk \in Nat /\ me \in Nat
            /\ MaxAttempts * (k + 1) = mk + MaxAttempts
            /\ MaxAttempts * (execs[t] + 1) = me + MaxAttempts
            /\ effects[t] + AttemptsLeft(t) + mk <= me
        BY <1>2, <1>4, Multiples
      <3> HIDE DEF mk, me
      <3>6. effects'[t] + AttemptsLeft(t)' + (mk + MaxAttempts) <= me + MaxAttempts
        BY <1>2, <3>4, <3>5
      <3>7. effects'[t] + AttemptsLeft(t)' + MaxAttempts * Cardinality(Unsubmitted(t)')
              <= MaxAttempts * execs'[t]
        BY <3>2, <3>3, <3>5, <3>6
      <3> QED BY <3>2, <3>7 DEF CallsOK
    <2>2. CASE t # worker'[w].cur
      <3>1. Unsubmitted(t)' \subseteq Unsubmitted(t)
        BY <1>1, <2>2 DEF Unsubmitted
      <3>2. execs'[t] = execs[t] /\ wf'[t] = wf[t]
        BY <1>5, <2>2 DEF Begins, TypeOK
      <3> QED BY <1>3, <3>1, <3>2
    <2> QED BY <2>1, <2>2
  <1>6. CASE Ends(w)
    <2>1. Unsubmitted(t)' \subseteq Unsubmitted(t)
      BY <1>1, <1>6 DEF Ends, Unsubmitted
    <2> QED BY <1>3, <1>6, <2>1 DEF Ends
  <1>7. CASE Submits(w)
    <2>0. worker[w].cur \in Tasks /\ (wf' = wf \/ Activates(worker[w].cur)) /\ execs' = execs
      BY <1>7 DEF Submits
    <2>1. Unsubmitted(t)' = Unsubmitted(t) \ {w}
      <3>1. attached'[w] # 0 \/ worker'[w].pc # "executing"
        <4>1. CASE /\ Open(worker[w].cur) \/ Activates(worker[w].cur)
                   /\ worker' = worker
                   /\ attached'[w] = Len(wf'[worker[w].cur])
          BY <1>0, <2>0, <4>1, OpenLast, ActivatesGrow
        <4> QED BY <1>7, <4>1 DEF Submits
      <3> QED BY <1>1, <3>1 DEF Unsubmitted
    <2>2. CASE wf'[t] = wf[t]
      BY <1>3, <2>0, <2>1, <2>2
    <2>3. CASE wf'[t] # wf[t]
      <3>1. Activates(worker[w].cur) /\ t = worker[w].cur
        BY <1>0, <2>0, <2>3, ActivatesGrow
      <3>2. w \in Unsubmitted(t)
        BY <1>7, <3>1 DEF Submits, Unsubmitted
      <3>3. IsFiniteSet(Unsubmitted(t)') /\ Cardinality(Unsubmitted(t)') = k - 1 /\ k # 0
        BY <1>4, <2>1, <3>2, FS_RemoveElement, FS_EmptySet
      <3>4. k - 1 \in Nat
        BY <1>4, <3>3
      <3> DEFINE ml == MaxAttempts * (k - 1)
                 me == MaxAttempts * execs[t]
      <3>5. ml \in Nat /\ me \in Nat /\ MaxAttempts * ((k - 1) + 1) = ml + MaxAttempts
        BY <1>2, <3>4, Multiples
      <3>6. (k - 1) + 1 = k
        BY <1>4
      <3>7. MaxAttempts * k = ml + MaxAttempts
        BY <3>5, <3>6
      <3>8. effects[t] + AttemptsLeft(t) + (ml + MaxAttempts) <= me
        BY <1>4, <3>7
      <3> HIDE DEF ml, me
      <3>9. effects'[t] + AttemptsLeft(t)' + ml <= me
        BY <1>2, <3>5, <3>8
      <3> QED BY <2>0, <3>3, <3>9 DEF CallsOK, ml, me
    <2> QED BY <2>2, <2>3
  <1> QED BY <1>1, <1>5, <1>6, <1>7

LEMMA CallsServer ==
    ASSUME TypeOK, TInv, TInv', CallsInv, NEW u \in Tasks, ServerStep(u)
    PROVE  CallsInv'
  <1> SUFFICES ASSUME NEW t \in Tasks PROVE CallsOK(t)'
    BY DEF CallsInv
  <1>0. RunsOK /\ RunsOK' /\ CallsOK(t)
    BY DEF TInv, CallsInv
  <1>1. UNCHANGED <<worker, attached, execs>>
    BY ServerKinds DEF vars
  <1>2. PICK run : ServerSets(u, run)
    BY ServerKinds
  <1>3. Unsubmitted(t)' = Unsubmitted(t) /\ execs'[t] = execs[t]
    BY <1>1 DEF Unsubmitted
  <1>4. /\ effects[t] \in Nat /\ AttemptsLeft(t) \in 0..MaxAttempts
        /\ AttemptsLeft(t)' \in 0..MaxAttempts
    BY <1>0, AttemptsLeftType, AttemptsLeftNext DEF RunsOK
  <1>5. LastState(u) # "none" /\ wf' = NewestSet(u, run) /\ run \in OpenRun /\ RunsGrow
    BY <1>0, <1>2, ServerGrows DEF ServerSets
  <1>6. SUFFICES effects'[t] + AttemptsLeft(t)' <= effects[t] + AttemptsLeft(t)
    BY <1>0, <1>3, CallsShrink
  <1>7. CASE t # u
    <2>1. wf'[t] = wf[t]
      BY <1>0, <1>5, <1>7, NewestRuns
    <2>2. AttemptsLeft(t)' = AttemptsLeft(t)
      BY <2>1, SameRuns
    <2>3. effects'[t] = effects[t]
      BY <1>0, <1>2, <1>7 DEF ServerSets, ToolCalled, RunsOK
    <2> QED BY <1>4, <2>2, <2>3
  <1>8. CASE t = u
    <2>0. Newest(t) \in OpenRun
      BY <1>0, <1>5, <1>8, NewestType
    <2>1. LastState(t)' = run.state /\ Newest(t)' = run
      <3>1. Len(wf'[t]) \in DOMAIN wf'[t] /\ wf'[t][Len(wf'[t])] = run
        BY <1>0, <1>5, <1>8, NewestRuns
      <3> QED BY <1>5, <3>1, LastRun
    <2>2. CASE LastState(t) = "active"
      <3>1. effects'[t] \in {effects[t], effects[t] + 1}
        BY <1>0, <1>2, <1>8, <2>2 DEF ServerSets, ToolCalled, RunsOK
      <3>2. AttemptsLeft(t) >= 1 /\ AttemptsLeft(t) = MaxAttempts - Newest(t).attempts
        BY <1>0, <2>2, AttemptsLeftType DEF AttemptsLeft
      <3>3. CASE run.state \in {"completed", "failed"}
        <4>1. AttemptsLeft(t)' = 0
          BY <2>1, <3>3 DEF AttemptsLeft
        <4> QED BY <1>4, <3>1, <3>2, <4>1
      <3>4. CASE run = Retried(Newest(t))
        <4>1. run.attempts = Newest(t).attempts + 1 /\ run.state = "active"
          BY <1>0, <2>0, <2>2, <3>4, EndedRuns, NewestType
        <4>2. AttemptsLeft(t)' = MaxAttempts - run.attempts
          BY <2>1, <4>1 DEF AttemptsLeft
        <4>3. Newest(t).attempts \in 0..(MaxAttempts - 1)
          BY <2>0 DEF OpenRun
        <4> QED BY <1>4, <3>1, <3>2, <4>1, <4>2, <4>3
      <3>5. run.state \in {"completed", "failed"} \/ run = Retried(Newest(t))
        BY <1>2, <1>8, <2>0, <2>2, EndedRuns DEF ServerSets
      <3> QED BY <3>3, <3>4, <3>5
    <2>3. CASE LastState(t) # "active"
      <3>1. effects' = effects /\ run = Ended(Newest(t), "failed")
        BY <1>2, <1>8, <2>3 DEF ServerSets
      <3>2. run.state = "failed"
        BY <2>0, <3>1, EndedRuns
      <3>3. AttemptsLeft(t)' = 0 /\ AttemptsLeft(t) = 0
        BY <2>1, <2>3, <3>2 DEF AttemptsLeft
      <3> QED BY <1>4, <3>1, <3>3
    <2> QED BY <2>2, <2>3
  <1> QED BY <1>7, <1>8

LEMMA CallsHold == TSpec => []CallsInv
  <1>1. TInit => CallsInv
    <2> SUFFICES ASSUME TInit, NEW t \in Tasks PROVE CallsOK(t)
      BY DEF CallsInv
    <2>1. Unsubmitted(t) = {}
      BY DEF TInit, Init, Unsubmitted, IdleWorker
    <2>2. execs[t] = 0 /\ effects[t] = 0 /\ LastState(t) = "none"
      BY DEF TInit, Init, LastState
    <2>3. AttemptsLeft(t) = 0
      BY <2>2 DEF AttemptsLeft
    <2> QED BY <2>1, <2>2, <2>3, FS_EmptySet DEF CallsOK
  <1>2. TypeOK /\ HandsInv /\ TInv /\ TInv' /\ CallsInv /\ [TNext]_tvars => CallsInv'
    <2> SUFFICES ASSUME TypeOK, HandsInv, TInv, TInv', CallsInv, [TNext]_tvars
                 PROVE  CallsInv'
      OBVIOUS
    <2>1. CASE UNCHANGED tvars
      <3>1. UNCHANGED <<worker, attached, wf, effects, execs>>
        BY <2>1 DEF tvars, vars, temporal
      <3> QED BY <3>1 DEF CallsInv, CallsOK, Unsubmitted, AttemptsLeft, LastState, Newest
    <2> QED BY <2>1, CallsClient, CallsWorker, CallsServer DEF TNext
  <1> QED BY <1>1, <1>2, TasksInvariants, RunsHold, PTL DEF TSpec

\* The tool of a task is called at most MaximumAttempts times per decision to
\* run it, over all the runs its task ever has: for any number of concurrent
\* operators and workers, whichever answers are lost, runs time out, attempts
\* are repeated and workers crash.
THEOREM ToolCallsBounded == TSpec => []ToolCallsWithinDecisions
  <1>1. TypeOK /\ TInv /\ CallsInv /\ ExecutionsWithinDecisions => ToolCallsWithinDecisions
    <2> SUFFICES ASSUME TypeOK, TInv, CallsInv, ExecutionsWithinDecisions, NEW t \in Tasks
                 PROVE  effects[t] <= MaxAttempts * Decisions(t)
      BY DEF ToolCallsWithinDecisions
    <2>1. execs[t] \in Nat /\ Decisions(t) \in Nat /\ execs[t] <= Decisions(t)
      <3>1. /\ log[t]["created"] \in Nat /\ log[t]["approved"] \in Nat
            /\ log[t]["retried"] \in Nat /\ execs[t] \in Nat
        <4>1. log \in [Tasks -> [Actions -> Nat]] /\ execs \in [Tasks -> Nat]
          BY DEF TypeOK
        <4> QED BY <4>1 DEF Actions
      <3>2. Decisions(t) \in Nat
        BY <3>1 DEF Decisions
      <3> QED BY <3>1, <3>2 DEF ExecutionsWithinDecisions
    <2>2. effects[t] \in Nat /\ RunsOK
      BY DEF TInv, RunsOK
    <2> DEFINE k == Cardinality(Unsubmitted(t))
    <2>3. k \in Nat /\ effects[t] + AttemptsLeft(t) + MaxAttempts * k <= MaxAttempts * execs[t]
      BY FS_CardinalityType DEF CallsInv, CallsOK
    <2>4. AttemptsLeft(t) \in 0..MaxAttempts
      BY <2>2, AttemptsLeftType
    <2>5. /\ MaxAttempts * k \in Nat /\ MaxAttempts * execs[t] \in Nat
          /\ MaxAttempts * Decisions(t) \in Nat
          /\ MaxAttempts * execs[t] <= MaxAttempts * Decisions(t)
      BY <2>1, <2>3, Multiples, MultiplesGrow
    <2> DEFINE mk == MaxAttempts * k
               me == MaxAttempts * execs[t]
               md == MaxAttempts * Decisions(t)
    <2>6. /\ effects[t] + AttemptsLeft(t) + mk <= me /\ me <= md
          /\ mk \in Nat /\ me \in Nat /\ md \in Nat
      BY <2>3, <2>5
    <2> HIDE DEF mk, me, md
    <2>7. effects[t] <= md
      BY <2>2, <2>4, <2>6
    <2> QED BY <2>7 DEF md
  <1> QED BY <1>1, TasksInvariants, RunsHold, CallsHold, ExecutionsBounded,
             TemporalImplementsTasks, PTL
=============================================================================
