----------------------- MODULE WorkflowTasks_proofs -----------------------
(***************************************************************************)
(* Proofs about WorkflowTasks, for every set of handlers and workers, every *)
(* bound, every set of faults and both kinds of report store.  The second  *)
(* part is about what the workers hold: a running task is in some worker's *)
(* hands, executions never outnumber decisions, and, for one operator at a *)
(* time, a task has one holder.                                            *)
(***************************************************************************)
EXTENDS WorkflowTasks, FiniteSetTheorems, TLAPS

USE ConstantsAssumption DEF Tasks

\* The idle states and the absent row have their types.
LEMMA IdleTypes ==
    /\ NoRow \in Row
    /\ IdleClient \in ClientState /\ ClientOK(IdleClient)
    /\ IdleWorker \in WorkerState /\ WorkerOK(IdleWorker)
  BY DEF ClientOK, WorkerOK, NoRow, Row, IdleClient, ClientState, IdleWorker, WorkerState,
         TaskTypes, Statuses, AuditRefs

\* What a worker holds after it is done with a task has its type.
LEMMA AdvancedType ==
    ASSUME TypeOK, NEW w \in Workers, worker[w].cur \in worker[w].batch
    PROVE  Advanced(w) \in WorkerState /\ WorkerOK(Advanced(w))
  <1>1. worker[w] \in WorkerState
    BY DEF TypeOK
  <1>2. worker[w].cur \in Tasks /\ worker[w].batch \subseteq Tasks
    BY <1>1 DEF WorkerState
  <1>3. [worker[w].snap EXCEPT ![worker[w].cur] = NoRow] \in [Tasks -> Row]
    BY <1>1, <1>2, IdleTypes DEF WorkerState
  <1>4. CASE worker[w].batch \ {worker[w].cur} = {}
    BY <1>4, IdleTypes DEF Advanced
  <1>5. CASE worker[w].batch \ {worker[w].cur} # {}
    BY <1>1, <1>2, <1>3, <1>5 DEF Advanced, WorkerState, WorkerOK
  <1> QED BY <1>4, <1>5

\* Overwriting the mutable columns of a row keeps its type.
LEMMA WrittenType ==
    ASSUME NEW row \in Row, NEW status \in Statuses, NEW ref \in AuditRefs,
           NEW version \in BOOLEAN
    PROVE  Written(row, status, ref, version) \in Row
  BY DEF Written, Row

\* So does appending an event to an audit log.
LEMMA AppendType ==
    ASSUME log \in [Tasks -> [Actions -> Nat]],
           NEW t \in Tasks, NEW action \in Actions, AppendTaskEvent(t, action)
    PROVE  log' \in [Tasks -> [Actions -> Nat]]
  <1>1. log[t] \in [Actions -> Nat]
    OBVIOUS
  <1>2. Counted(log[t], action) \in [Actions -> Nat]
    BY <1>1 DEF Counted
  <1> QED BY <1>2 DEF AppendTaskEvent

LEMMA UpdateType ==
    ASSUME TypeOK, NEW t \in Tasks, NEW status \in Statuses, NEW ref \in AuditRefs,
           NEW version \in BOOLEAN, NEW action \in Actions,
           UpdateTaskWithEvent(t, status, ref, version, action)
    PROVE  /\ task' \in [Tasks -> Row]
           /\ log' \in [Tasks -> [Actions -> Nat]]
  <1>1. Written(task[t], status, ref, version) \in Row
    BY WrittenType DEF TypeOK
  <1>2. task' \in [Tasks -> Row]
    BY <1>1 DEF TypeOK, UpdateTaskWithEvent
  <1> QED BY <1>2, AppendType DEF TypeOK, UpdateTaskWithEvent

\* A claim keeps the types of the tables.
LEMMA ClaimType ==
    ASSUME TypeOK, NEW ids, ClaimRows(ids)
    PROVE  /\ task' \in [Tasks -> Row]
           /\ log' \in [Tasks -> [Actions -> Nat]]
  <1>1. ASSUME NEW t \in Tasks PROVE [task[t] EXCEPT !.status = "running"] \in Row
    <2>1. task[t] \in Row
      BY DEF TypeOK
    <2> QED BY <2>1 DEF Row, Statuses
  <1>2. ASSUME NEW t \in Tasks PROVE Counted(log[t], "claimed") \in [Actions -> Nat]
    <2>1. log[t] \in [Actions -> Nat] /\ "claimed" \in Actions
      BY DEF TypeOK, Actions
    <2> QED BY <2>1 DEF Counted
  <1>3. task' \in [Tasks -> Row]
    BY <1>1 DEF TypeOK, ClaimRows
  <1>4. log' \in [Tasks -> [Actions -> Nat]]
    BY <1>2 DEF TypeOK, ClaimRows
  <1> QED BY <1>3, <1>4

LEMMA TypeInit == Init => TypeOK
  <1> SUFFICES ASSUME Init PROVE TypeOK
    OBVIOUS
  <1>1. task \in [Tasks -> Row]
    <2>1. [NoRow EXCEPT !.status = "queued"] \in Row
      BY DEF NoRow, Row, Statuses, TaskTypes, AuditRefs
    <2> QED BY <2>1, IdleTypes DEF Init
  <1>2. log \in [Tasks -> [Actions -> Nat]]
    BY DEF Init
  <1>4. /\ api \in [Clients -> ClientState]
        /\ \A c \in Clients : ClientOK(api[c])
    BY IdleTypes DEF Init
  <1>5. /\ worker \in [Workers -> WorkerState]
        /\ \A w \in Workers : WorkerOK(worker[w])
    BY IdleTypes DEF Init
  <1>6. /\ report \in [Tasks -> BOOLEAN] /\ execs \in [Tasks -> Nat]
        /\ ops \in 0..MaxOps /\ faults \in 0..MaxFaults
    BY DEF Init
  <1> QED BY <1>1, <1>2, <1>4, <1>5, <1>6 DEF TypeOK

\* A step that moves one handler to a well-typed state, or one worker.
LEMMA ClientMoves ==
    ASSUME TypeOK, NEW c \in Clients, NEW s \in ClientState,
           ClientOK(s), api' = [api EXCEPT ![c] = s]
    PROVE  /\ api' \in [Clients -> ClientState]
           /\ \A d \in Clients : ClientOK(api'[d])
  BY DEF TypeOK

LEMMA WorkerMoves ==
    ASSUME TypeOK, NEW w \in Workers, NEW s \in WorkerState,
           WorkerOK(s),
           worker' = [worker EXCEPT ![w] = s]
    PROVE  /\ worker' \in [Workers -> WorkerState]
           /\ \A v \in Workers : WorkerOK(worker'[v])
  BY DEF TypeOK

\* One handler's steps preserve the types.
LEMMA TypeClient ==
    ASSUME TypeOK, NEW c \in Clients, ClientStep(c) PROVE TypeOK'
  <1>0. api[c] \in ClientState
    BY DEF TypeOK
  <1>1. CASE Promote(c)
    <2> PICK t \in Tasks, type \in TaskTypes, ra \in BOOLEAN :
          /\ CreateTaskWithEvent(t, NewRow(type, ra))
          /\ api' = IF ShouldStartTaskOnPromote(NewRow(type, ra))
                    THEN [api EXCEPT ![c] = [pc |-> "starting", id |-> t,
                                             snap |-> NewRow(type, ra)]]
                    ELSE api
      BY <1>1 DEF Promote
    <2>1. NewRow(type, ra) \in Row
      BY DEF NewRow, Row, Statuses, AuditRefs
    <2>2. /\ [pc |-> "starting", id |-> t, snap |-> NewRow(type, ra)] \in ClientState
          /\ ClientOK([pc |-> "starting", id |-> t, snap |-> NewRow(type, ra)])
      BY <2>1 DEF ClientState, ClientOK
    <2>3. /\ api' \in [Clients -> ClientState]
          /\ \A d \in Clients : ClientOK(api'[d])
      BY <2>2, ClientMoves DEF TypeOK
    <2>4. task' \in [Tasks -> Row]
      BY <2>1 DEF CreateTaskWithEvent, TypeOK
    <2>5. /\ log' \in [Tasks -> [Actions -> Nat]]
      <3>1. "created" \in Actions
        BY DEF Actions
      <3> QED BY <3>1, AppendType DEF CreateTaskWithEvent, TypeOK
    <2> QED BY <1>1, <2>3, <2>4, <2>5 DEF Promote, CreateTaskWithEvent, TypeOK
  <1>2. CASE StartSucceeds(c)
    <2>1. /\ api' \in [Clients -> ClientState]
          /\ \A d \in Clients : ClientOK(api'[d])
      BY <1>2, IdleTypes, ClientMoves DEF StartSucceeds
    <2> QED BY <1>2, <2>1 DEF StartSucceeds, TypeOK, store
  <1>3. CASE StartFails(c)
    <2>1. /\ api' \in [Clients -> ClientState]
          /\ \A d \in Clients : ClientOK(api'[d])
      BY <1>3, IdleTypes, ClientMoves DEF StartFails
    <2>2. /\ api[c].id \in Tasks /\ api[c].snap.version \in BOOLEAN
          /\ "failed" \in Statuses /\ "failed" \in Actions /\ "start_failed" \in AuditRefs
      BY <1>0, <1>3 DEF StartFails, TypeOK, ClientOK, ClientState, Row, Statuses, Actions, AuditRefs
    <2>3. /\ task' \in [Tasks -> Row]
          /\ log' \in [Tasks -> [Actions -> Nat]]
      BY <1>3, <2>2, UpdateType DEF StartFails
    <2> QED BY <1>3, <2>1, <2>3 DEF StartFails, TypeOK, Fault
  <1>4. ASSUME NEW t \in Tasks, ApproveRead(c, t) \/ RetryRead(c, t) PROVE TypeOK'
    <2>1. PICK p \in {"approving", "retrying"} :
             api' = [api EXCEPT ![c] = [pc |-> p, id |-> t, snap |-> task[t]]]
      BY <1>4 DEF ApproveRead, RetryRead
    <2>2. /\ [pc |-> p, id |-> t, snap |-> task[t]] \in ClientState
          /\ ClientOK([pc |-> p, id |-> t, snap |-> task[t]])
      BY DEF ClientState, ClientOK, TypeOK
    <2>3. /\ api' \in [Clients -> ClientState]
          /\ \A d \in Clients : ClientOK(api'[d])
      BY <2>1, <2>2, ClientMoves
    <2> QED BY <1>4, <2>3 DEF ApproveRead, RetryRead, TypeOK, store
  <1>5. CASE ApproveWrite(c) \/ RetryWrite(c)
    <2>1. /\ api' \in [Clients -> ClientState]
          /\ \A d \in Clients : ClientOK(api'[d])
      BY <1>5, IdleTypes, ClientMoves DEF ApproveWrite, RetryWrite
    <2>2. /\ api[c].id \in Tasks /\ api[c].snap.version \in BOOLEAN
          /\ "queued" \in Statuses /\ {"approved", "retried"} \subseteq Actions
          /\ {"approval", "retry"} \subseteq AuditRefs
      BY <1>0, <1>5 DEF ApproveWrite, RetryWrite, TypeOK, ClientOK, ClientState, Row, Statuses,
                        Actions, AuditRefs
    <2>3. /\ task' \in [Tasks -> Row]
          /\ log' \in [Tasks -> [Actions -> Nat]]
      BY <1>5, <2>2, UpdateType DEF ApproveWrite, RetryWrite
    <2> QED BY <1>5, <2>1, <2>3 DEF ApproveWrite, RetryWrite, TypeOK
  <1>6. CASE DecisionFails(c)
    <2>1. /\ api' \in [Clients -> ClientState]
          /\ \A d \in Clients : ClientOK(api'[d])
      BY <1>6, IdleTypes, ClientMoves DEF DecisionFails
    <2> QED BY <1>6, <2>1 DEF DecisionFails, TypeOK, store, Fault
  <1> QED BY <1>1, <1>2, <1>3, <1>4, <1>5, <1>6 DEF ClientStep

\* The tables keep their types when a worker finalises or writes an outcome.
LEMMA CommitType ==
    ASSUME TypeOK, NEW w \in Workers, worker[w].pc \in {"finalizing", "updating"},
           FinalizeCommit(w) \/ OutcomeCommit(w)
    PROVE  /\ task' \in [Tasks -> Row]
           /\ log' \in [Tasks -> [Actions -> Nat]]
           /\ report' \in [Tasks -> BOOLEAN]
  <1>1. worker[w] \in WorkerState /\ WorkerOK(worker[w])
    BY DEF TypeOK
  <1>2. /\ worker[w].cur \in Tasks
        /\ worker[w].status \in {"succeeded", "failed"}
        /\ worker[w].snap[worker[w].cur] \in Row
    BY <1>1 DEF WorkerState, WorkerOK
  <1>3. worker[w].snap[worker[w].cur].version \in BOOLEAN
    BY <1>2 DEF Row
  <1>4. /\ worker[w].status \in Statuses /\ worker[w].status \in Actions
        /\ "worker" \in AuditRefs /\ "succeeded" \in Actions
    BY <1>2 DEF Statuses, Actions, AuditRefs
  <1>5. report' \in [Tasks -> BOOLEAN]
    BY <1>2 DEF TypeOK, FinalizeCommit, OutcomeCommit
  <1>6. CASE FinalizeCommit(w)
    BY <1>2, <1>4, <1>5, <1>6, UpdateType DEF FinalizeCommit
  <1>7. CASE OutcomeCommit(w)
    BY <1>2, <1>3, <1>4, <1>5, <1>7, UpdateType DEF OutcomeCommit
  <1> QED BY <1>6, <1>7

\* One worker's steps preserve the types.
LEMMA TypeWorker ==
    ASSUME TypeOK, NEW w \in Workers, WorkerStep(w) \/ WorkerFault(w) PROVE TypeOK'
  <1> DEFINE WorkersOK == /\ worker' \in [Workers -> WorkerState]
                          /\ \A v \in Workers : WorkerOK(worker'[v])
  <1>0. worker[w] \in WorkerState /\ WorkerOK(worker[w])
    BY DEF TypeOK
  <1>a. worker[w].pc \notin {"idle", "next"} => worker[w].cur \in worker[w].batch /\ worker[w].cur \in Tasks
    BY <1>0 DEF WorkerState, WorkerOK
  <1>b. ASSUME NEW p \in {"versioning", "finalizing", "updating"},
               NEW st \in {"succeeded", "failed"},
               worker[w].pc \notin {"idle", "next"},
               worker' = [worker EXCEPT ![w] = [worker[w] EXCEPT !.pc = p, !.status = st]]
        PROVE  WorkersOK
    <2> DEFINE s == [worker[w] EXCEPT !.pc = p, !.status = st]
    <2>1. s \in WorkerState /\ WorkerOK(s)
      BY <1>0, <1>a, <1>b DEF WorkerState, WorkerOK
    <2> HIDE DEF s
    <2>2. worker' = [worker EXCEPT ![w] = s]
      BY <1>b DEF s
    <2> QED BY <2>1, <2>2, WorkerMoves
  <1>1. CASE ClaimQueuedTasks(w)
    <2> DEFINE Snap(ids) == [t \in Tasks |-> IF t \in ids THEN task'[t] ELSE NoRow]
               s(ids) == [IdleWorker EXCEPT !.pc = "next", !.batch = ids, !.snap = Snap(ids)]
    <2>1. PICK ids : /\ ids \subseteq Tasks
                     /\ ClaimRows(ids)
                     /\ worker' = [worker EXCEPT ![w] = s(ids)]
      BY <1>1 DEF ClaimQueuedTasks, Claimable, Queued
    <2>2. /\ task' \in [Tasks -> Row]
          /\ log' \in [Tasks -> [Actions -> Nat]]
      BY <2>1, ClaimType
    <2>3. Snap(ids) \in [Tasks -> Row]
      BY <2>2, IdleTypes
    <2> HIDE DEF Snap
    <2>4. s(ids) \in WorkerState /\ WorkerOK(s(ids))
      BY <2>1, <2>3 DEF IdleWorker, WorkerState, WorkerOK
    <2> HIDE DEF s
    <2>5. WorkersOK
      BY <2>1, <2>4, WorkerMoves
    <2>6. report' = report
      BY <2>1 DEF ClaimRows
    <2> QED BY <1>1, <2>2, <2>5, <2>6 DEF ClaimQueuedTasks, TypeOK
  <1>2. CASE ClaimLost(w)
    <2>1. PICK ids : ClaimRows(ids)
      BY <1>2 DEF ClaimLost
    <2>2. /\ task' \in [Tasks -> Row]
          /\ log' \in [Tasks -> [Actions -> Nat]]
      BY <2>1, ClaimType
    <2>3. report' = report
      BY <2>1 DEF ClaimRows
    <2> QED BY <1>2, <2>2, <2>3 DEF ClaimLost, TypeOK, Fault
  <1>3. CASE ExecuteStart(w)
    <2> DEFINE s(t) == [worker[w] EXCEPT !.pc = "executing", !.cur = t]
    <2>1. PICK t \in worker[w].batch : /\ worker' = [worker EXCEPT ![w] = s(t)]
                                       /\ execs' = [execs EXCEPT ![t] = @ + 1]
      BY <1>3 DEF ExecuteStart
    <2>2. t \in Tasks
      BY <1>0 DEF WorkerState
    <2>3. s(t) \in WorkerState /\ WorkerOK(s(t))
      BY <1>0, <2>2 DEF WorkerState, WorkerOK
    <2> HIDE DEF s
    <2>4. WorkersOK
      BY <2>1, <2>3, WorkerMoves
    <2>5. execs' \in [Tasks -> Nat]
      BY <2>1, <2>2 DEF TypeOK
    <2> QED BY <1>3, <2>4, <2>5 DEF ExecuteStart, TypeOK, store
  <1>4. CASE ExecuteSucceeds(w) \/ ExecuteFails(w)
    <2>1. PICK p \in {"versioning", "finalizing", "updating"}, st \in {"succeeded", "failed"} :
             worker' = [worker EXCEPT ![w] = [worker[w] EXCEPT !.pc = p, !.status = st]]
      BY <1>4 DEF ExecuteSucceeds, ExecuteFails, Failed
    <2>2. WorkersOK
      BY <1>4, <1>b, <2>1 DEF ExecuteSucceeds, ExecuteFails
    <2> QED BY <1>4, <2>2 DEF ExecuteSucceeds, ExecuteFails, TypeOK, store
  <1>5. CASE VersionFound(w)
    <2> DEFINE s == [worker[w] EXCEPT !.pc = "finalizing", !.snap = Versioned(w)]
    <2>0. worker[w].cur \in Tasks /\ worker[w].pc = "versioning"
      BY <1>5, <1>a DEF VersionFound
    <2>1. ASSUME NEW t \in Tasks PROVE [worker[w].snap[t] EXCEPT !.version = TRUE] \in Row
      <3>1. worker[w].snap[t] \in Row
        BY <1>0 DEF WorkerState
      <3> QED BY <3>1 DEF Row
    <2>2. Versioned(w) \in [Tasks -> Row]
      BY <1>0, <2>1 DEF Versioned, WorkerState
    <2>3. worker' = [worker EXCEPT ![w] = s]
      BY <1>5 DEF VersionFound
    <2>4. s \in WorkerState /\ WorkerOK(s)
      BY <1>0, <2>0, <2>2 DEF WorkerState, WorkerOK
    <2> HIDE DEF s
    <2>5. WorkersOK
      BY <2>3, <2>4, WorkerMoves
    <2> QED BY <1>5, <2>5 DEF VersionFound, TypeOK, store
  <1>6. CASE VersionError(w)
    <2>1. WorkersOK
      BY <1>6, <1>b DEF VersionError
    <2> QED BY <1>6, <2>1 DEF VersionError, TypeOK, store, Fault
  <1>7. CASE FinalizeReport(w) \/ WriteOutcome(w)
    <2>1. WorkersOK
      BY <1>7, <1>a, AdvancedType, WorkerMoves DEF FinalizeReport, WriteOutcome
    <2> QED BY <1>7, <2>1, CommitType DEF FinalizeReport, WriteOutcome, TypeOK
  <1>8. CASE FinalizeRolledBack(w)
    <2>1. WorkersOK
      BY <1>8, <1>b DEF FinalizeRolledBack, Failed
    <2> QED BY <1>8, <2>1 DEF FinalizeRolledBack, TypeOK, store, Fault
  <1>9. CASE FinalizeLost(w)
    <2>1. WorkersOK
      BY <1>9, <1>b DEF FinalizeLost, Failed
    <2> QED BY <1>9, <2>1, CommitType DEF FinalizeLost, TypeOK, Fault
  <1>10. CASE RecordGeneratedReport(w)
    <2> DEFINE s == [worker[w] EXCEPT !.pc = "updating"]
    <2>1. s \in WorkerState /\ WorkerOK(s)
      BY <1>0, <1>10, <1>a DEF RecordGeneratedReport, WorkerState, WorkerOK
    <2>2. worker' = [worker EXCEPT ![w] = s]
      BY <1>10 DEF RecordGeneratedReport
    <2> HIDE DEF s
    <2>3. WorkersOK
      BY <2>1, <2>2, WorkerMoves
    <2>4. report' \in [Tasks -> BOOLEAN]
      BY <1>10, <1>a DEF RecordGeneratedReport, TypeOK
    <2> QED BY <1>10, <2>3, <2>4 DEF RecordGeneratedReport, TypeOK
  <1>11. CASE OutcomeRolledBack(w) \/ OutcomeLost(w) \/ Crash(w)
    <2>1. WorkersOK
      BY <1>11, IdleTypes, WorkerMoves DEF OutcomeRolledBack, OutcomeLost, Crash
    <2>2. CASE OutcomeLost(w)
      BY <2>1, <2>2, CommitType DEF OutcomeLost, TypeOK, Fault
    <2>3. CASE OutcomeRolledBack(w) \/ Crash(w)
      BY <2>1, <2>3 DEF OutcomeRolledBack, Crash, TypeOK, store, Fault
    <2> QED BY <1>11, <2>2, <2>3
  <1> QED BY <1>1, <1>2, <1>3, <1>4, <1>5, <1>6, <1>7, <1>8, <1>9, <1>10, <1>11
          DEF WorkerStep, WorkerFault

\* Every reachable state is well typed, and no handler or worker ever refers
\* to a task it does not have.
THEOREM TypeCorrect == Spec => []TypeOK
  <1>1. Init => TypeOK
    BY TypeInit
  <1>2. TypeOK /\ [Next]_vars => TypeOK'
    <2> SUFFICES ASSUME TypeOK, [Next]_vars PROVE TypeOK'
      OBVIOUS
    <2>1. CASE UNCHANGED vars
      BY <2>1 DEF TypeOK, vars
    <2> QED BY <2>1, TypeClient, TypeWorker DEF Next
  <1> QED BY <1>1, <1>2, PTL DEF Spec

----------------------------------------------------------------------------
(* Claims never outnumber decisions.                                       *)

\* A row that does not exist yet has not been claimed.
AbsentUnclaimed ==
    \A t \in Tasks : task[t].status = "absent" => log[t]["claimed"] = 0

ClaimInv == ClaimsWithinDecisions /\ AbsentUnclaimed

\* An update that keeps the row in existence, and puts it in the queue only
\* with the event of a decision, preserves ClaimInv.
LEMMA UpdateClaims ==
    ASSUME TypeOK, ClaimInv, NEW t \in Tasks, NEW status, NEW ref, NEW version,
           NEW action \in Actions, status # "absent", action # "claimed",
           status = "queued" => action \in {"approved", "retried"},
           UpdateTaskWithEvent(t, status, ref, version, action)
    PROVE  ClaimInv'
  <1>1. ASSUME NEW u \in Tasks
        PROVE  /\ log[u] \in [Actions -> Nat] /\ log'[u] \in [Actions -> Nat]
               /\ log'[u]["claimed"] = log[u]["claimed"]
               /\ \A a \in Actions : log'[u][a] = log[u][a] + IF u = t /\ a = action THEN 1 ELSE 0
    <2>1. log[u] \in [Actions -> Nat]
      BY DEF TypeOK
    <2>2. log'[u] = IF u = t THEN Counted(log[u], action) ELSE log[u]
      BY DEF UpdateTaskWithEvent, AppendTaskEvent, TypeOK
    <2> QED BY <2>1, <2>2 DEF Counted, Actions
  <1>2. ASSUME NEW u \in Tasks
        PROVE  /\ task'[u].requiresApproval = task[u].requiresApproval
               /\ task'[u].status = IF u = t THEN status ELSE task[u].status
    <2>1. task[u] \in Row
      BY DEF TypeOK
    <2>2. task'[u] = IF u = t THEN Written(task[u], status, ref, version) ELSE task[u]
      BY DEF UpdateTaskWithEvent, TypeOK
    <2> QED BY <2>1, <2>2 DEF Written, Row
  <1>3. ASSUME NEW u \in Tasks
        PROVE  log'[u]["claimed"] + (IF task'[u].status = "queued" THEN 1 ELSE 0) <= Decisions(u)'
    <2>1. log[u]["claimed"] + (IF task[u].status = "queued" THEN 1 ELSE 0) <= Decisions(u)
      BY DEF ClaimInv, ClaimsWithinDecisions
    <2> QED BY <1>1, <1>2, <2>1 DEF Decisions, Actions
  <1>4. AbsentUnclaimed'
    BY <1>1, <1>2 DEF ClaimInv, AbsentUnclaimed
  <1> QED BY <1>3, <1>4 DEF ClaimInv, ClaimsWithinDecisions

\* A claim uses up one queued row for each claim event it writes.
LEMMA ClaimClaims ==
    ASSUME TypeOK, ClaimInv, NEW ids, ids \subseteq Queued, ClaimRows(ids)
    PROVE  ClaimInv'
  <1>1. ASSUME NEW u \in Tasks
        PROVE  /\ log[u] \in [Actions -> Nat]
               /\ \A a \in Actions : log'[u][a] = log[u][a] + IF u \in ids /\ a = "claimed" THEN 1 ELSE 0
    <2>1. log[u] \in [Actions -> Nat]
      BY DEF TypeOK
    <2>2. log'[u] = IF u \in ids THEN Counted(log[u], "claimed") ELSE log[u]
      BY DEF ClaimRows
    <2> QED BY <2>1, <2>2 DEF Counted, Actions
  <1>2. ASSUME NEW u \in Tasks
        PROVE  /\ task'[u].requiresApproval = task[u].requiresApproval
               /\ task'[u].status = IF u \in ids THEN "running" ELSE task[u].status
    <2>1. task[u] \in Row
      BY DEF TypeOK
    <2>2. task'[u] = IF u \in ids THEN [task[u] EXCEPT !.status = "running"] ELSE task[u]
      BY DEF ClaimRows
    <2> QED BY <2>1, <2>2 DEF Row
  <1>3. ASSUME NEW u \in Tasks, u \in ids PROVE task[u].status = "queued"
    BY <1>3 DEF Queued
  <1>4. ASSUME NEW u \in Tasks
        PROVE  log'[u]["claimed"] + (IF task'[u].status = "queued" THEN 1 ELSE 0) <= Decisions(u)'
    <2>1. log[u]["claimed"] + (IF task[u].status = "queued" THEN 1 ELSE 0) <= Decisions(u)
      BY DEF ClaimInv, ClaimsWithinDecisions
    <2> QED BY <1>1, <1>2, <1>3, <2>1 DEF Decisions, Actions
  <1>5. AbsentUnclaimed'
    BY <1>1, <1>2, <1>3 DEF ClaimInv, AbsentUnclaimed, Actions
  <1> QED BY <1>4, <1>5 DEF ClaimInv, ClaimsWithinDecisions

\* A new row enters the queue only if it needs no approval.
LEMMA CreateClaims ==
    ASSUME TypeOK, ClaimInv, NEW t \in Tasks, ~Exists(t), NEW type \in TaskTypes,
           NEW ra \in BOOLEAN, CreateTaskWithEvent(t, NewRow(type, ra))
    PROVE  ClaimInv'
  <1>1. ASSUME NEW u \in Tasks
        PROVE  /\ log[u] \in [Actions -> Nat]
               /\ \A a \in Actions : log'[u][a] = log[u][a] + IF u = t /\ a = "created" THEN 1 ELSE 0
    <2>1. log[u] \in [Actions -> Nat]
      BY DEF TypeOK
    <2>2. log'[u] = IF u = t THEN Counted(log[u], "created") ELSE log[u]
      BY DEF CreateTaskWithEvent, AppendTaskEvent, TypeOK
    <2> QED BY <2>1, <2>2 DEF Counted, Actions
  <1>2. ASSUME NEW u \in Tasks, u # t PROVE task'[u] = task[u]
    BY <1>2 DEF CreateTaskWithEvent, TypeOK
  <1>3. /\ task'[t].requiresApproval = ra
        /\ task'[t].status = IF ra THEN "waiting_approval" ELSE "queued"
    BY DEF CreateTaskWithEvent, NewRow, TypeOK
  <1>4. log[t]["claimed"] = 0
    BY DEF Exists, ClaimInv, AbsentUnclaimed
  <1>5. ASSUME NEW u \in Tasks
        PROVE  log'[u]["claimed"] + (IF task'[u].status = "queued" THEN 1 ELSE 0) <= Decisions(u)'
    <2>1. log[u]["claimed"] + (IF task[u].status = "queued" THEN 1 ELSE 0) <= Decisions(u)
      BY DEF ClaimInv, ClaimsWithinDecisions
    <2>2. CASE u = t
      <3>1. /\ log'[t]["claimed"] = 0 /\ log'[t]["created"] = log[t]["created"] + 1
            /\ log'[t]["approved"] = log[t]["approved"] /\ log'[t]["retried"] = log[t]["retried"]
            /\ {log[t]["created"], log[t]["approved"], log[t]["retried"]} \subseteq Nat
        BY <1>1, <1>4 DEF Actions
      <3>2. CASE ra
        BY <1>3, <2>2, <3>1, <3>2 DEF Decisions
      <3>3. CASE ~ra
        BY <1>3, <2>2, <3>1, <3>3 DEF Decisions
      <3> QED BY <3>2, <3>3
    <2>3. CASE u # t
      BY <1>1, <1>2, <2>1, <2>3 DEF Decisions, Actions
    <2> QED BY <2>2, <2>3
  <1>6. AbsentUnclaimed'
    BY <1>1, <1>2, <1>3 DEF ClaimInv, AbsentUnclaimed, Actions
  <1> QED BY <1>5, <1>6 DEF ClaimInv, ClaimsWithinDecisions

\* A step that leaves rows and audit log alone preserves ClaimInv.
LEMMA StutterClaims ==
    ASSUME ClaimInv, task' = task, log' = log PROVE ClaimInv'
  BY DEF ClaimInv, ClaimsWithinDecisions, AbsentUnclaimed, Decisions

\* No task is claimed more often than somebody decided that it should run:
\* claims race with stale approvals and retries, acknowledgements are lost and
\* workers crash, but a queued row is used up by the claim that takes it.
THEOREM ClaimsBounded == Spec => []ClaimsWithinDecisions
  <1>1. Init => ClaimInv
    <2> SUFFICES ASSUME Init, NEW t \in Tasks
                 PROVE  /\ log[t]["claimed"] = 0
                        /\ log[t]["claimed"] + (IF task[t].status = "queued" THEN 1 ELSE 0)
                              <= Decisions(t)
      BY DEF ClaimInv, ClaimsWithinDecisions, AbsentUnclaimed
    <2>1. log[t] = [a \in Actions |-> IF t \in Legacy /\ a = "created" THEN 1 ELSE 0]
      BY DEF Init
    <2>2. /\ task[t].requiresApproval = FALSE
          /\ task[t].status = IF t \in Legacy THEN "queued" ELSE "absent"
      BY DEF Init, NoRow
    <2> QED BY <2>1, <2>2 DEF Decisions, Actions
  <1>2. TypeOK /\ ClaimInv /\ [Next]_vars => ClaimInv'
    <2> SUFFICES ASSUME TypeOK, ClaimInv, [Next]_vars PROVE ClaimInv'
      OBVIOUS
    <2>1. CASE UNCHANGED vars
      BY <2>1, StutterClaims DEF vars
    <2>2. ASSUME NEW c \in Clients, ClientStep(c) PROVE ClaimInv'
      <3>1. CASE Promote(c)
        BY <3>1, CreateClaims DEF Promote
      <3>2. CASE StartFails(c)
        <4>1. api[c].id \in Tasks
          BY <3>2 DEF StartFails, TypeOK, ClientOK
        <4> QED BY <3>2, <4>1, UpdateClaims DEF StartFails, Actions
      <3>3. CASE ApproveWrite(c) \/ RetryWrite(c)
        <4>1. api[c].id \in Tasks
          BY <3>3 DEF ApproveWrite, RetryWrite, TypeOK, ClientOK
        <4> QED BY <3>3, <4>1, UpdateClaims DEF ApproveWrite, RetryWrite, Actions
      <3>4. CASE \/ StartSucceeds(c) \/ DecisionFails(c)
                 \/ \E t \in Tasks : ApproveRead(c, t) \/ RetryRead(c, t)
        BY <3>4, StutterClaims DEF StartSucceeds, DecisionFails, ApproveRead, RetryRead, store
      <3> QED BY <2>2, <3>1, <3>2, <3>3, <3>4 DEF ClientStep
    <2>3. ASSUME NEW w \in Workers, WorkerStep(w) \/ WorkerFault(w) PROVE ClaimInv'
      <3>1. CASE ClaimQueuedTasks(w) \/ ClaimLost(w)
        BY <3>1, ClaimClaims DEF ClaimQueuedTasks, ClaimLost, Claimable
      <3>2. CASE FinalizeReport(w) \/ FinalizeLost(w) \/ WriteOutcome(w) \/ OutcomeLost(w)
        <4>1. /\ worker[w] \in WorkerState /\ WorkerOK(worker[w])
              /\ worker[w].pc \in {"finalizing", "updating"}
          BY <3>2 DEF TypeOK, FinalizeReport, FinalizeLost, WriteOutcome, OutcomeLost
        <4>2. worker[w].cur \in Tasks /\ worker[w].status \in {"succeeded", "failed"}
          BY <4>1 DEF WorkerState, WorkerOK
        <4>3. FinalizeCommit(w) \/ OutcomeCommit(w)
          BY <3>2 DEF FinalizeReport, FinalizeLost, WriteOutcome, OutcomeLost
        <4> QED BY <4>2, <4>3, UpdateClaims DEF FinalizeCommit, OutcomeCommit, Actions
      <3>3. CASE \/ ExecuteStart(w) \/ ExecuteSucceeds(w) \/ ExecuteFails(w) \/ VersionFound(w)
                 \/ RecordGeneratedReport(w) \/ VersionError(w) \/ FinalizeRolledBack(w)
                 \/ OutcomeRolledBack(w) \/ Crash(w)
        BY <3>3, StutterClaims
           DEF ExecuteStart, ExecuteSucceeds, ExecuteFails, VersionFound, RecordGeneratedReport,
               VersionError, FinalizeRolledBack, OutcomeRolledBack, Crash, store
      <3> QED BY <2>3, <3>1, <3>2, <3>3 DEF WorkerStep, WorkerFault
    <2> QED BY <2>1, <2>2, <2>3 DEF Next
  <1>3. ClaimInv => ClaimsWithinDecisions
    BY DEF ClaimInv
  <1> QED BY <1>1, <1>2, <1>3, TypeCorrect, PTL DEF Spec

----------------------------------------------------------------------------
(* What one step of a worker does to its hands and to the tables.          *)

\* A worker between batches holds nothing; it has a current task only while
\* it executes or settles it.
HandsOK(s) ==
    /\ s.pc = "idle" => s.batch = {}
    /\ s.pc \in {"idle", "next"} => s.cur = 0

HandsInv == \A w \in Workers : HandsOK(worker[w])

\* The kinds of steps, by what they do: w moves to state s and ...
\* ... takes a batch of queued rows,
TakesBatch(w, s) ==
    /\ worker[w].batch = {} /\ worker[w].cur = 0
    /\ s.cur = 0
    /\ s.batch \subseteq Queued
    /\ ClaimRows(s.batch)
    /\ UNCHANGED <<execs, faults>>

\* ... loses the batch that the store has claimed for it,
LosesBatch(w, s) ==
    /\ s = worker[w]
    /\ \E ids \in SUBSET Queued : ClaimRows(ids)
    /\ "lostack" \in FaultKinds
    /\ UNCHANGED execs /\ faults' = faults + 1

\* ... takes a task of its batch,
TakesTask(w, s) ==
    /\ worker[w].cur = 0
    /\ s.batch = worker[w].batch /\ s.cur \in s.batch
    /\ execs' = [execs EXCEPT ![s.cur] = @ + 1]
    /\ UNCHANGED <<task, log, faults>>

\* ... goes on with its task,
Keeps(w, s) == s.batch = worker[w].batch /\ s.cur = worker[w].cur

WorksOn(w, s) ==
    /\ Keeps(w, s)
    /\ UNCHANGED <<task, log, execs>> /\ faults' \in {faults, faults + 1}

\* ... writes the outcome of its task, and lets go of the task unless the
\* acknowledgement is lost,
Settles(w, s) ==
    /\ worker[w].cur \in worker[w].batch
    /\ worker[w].pc \in {"finalizing", "updating"}
    /\ worker[w].status \in {"succeeded", "failed"}
    /\ \E version \in BOOLEAN, action \in {"succeeded", "failed"} :
          UpdateTaskWithEvent(worker[w].cur, worker[w].status, "worker", version, action)
    /\ UNCHANGED execs
    /\ \/ s.batch = worker[w].batch \ {worker[w].cur} /\ s.cur = 0 /\ UNCHANGED faults
       \/ /\ Keeps(w, s) \/ s = IdleWorker
          /\ "lostack" \in FaultKinds
          /\ faults' = faults + 1

\* ... or drops everything.
Drops(w, s) == s = IdleWorker /\ UNCHANGED <<task, log, execs>> /\ faults' = faults + 1

Kinds(w, s) ==
    \/ TakesBatch(w, s) \/ LosesBatch(w, s) \/ TakesTask(w, s)
    \/ WorksOn(w, s) \/ Settles(w, s) \/ Drops(w, s)

\* A worker that is done with a task lets go of that task only.
LEMMA AdvancedHands ==
    ASSUME TypeOK, NEW w \in Workers
    PROVE  /\ HandsOK(Advanced(w))
           /\ Advanced(w).batch = worker[w].batch \ {worker[w].cur} /\ Advanced(w).cur = 0
  <1>1. worker[w] \in WorkerState
    BY DEF TypeOK
  <1>2. CASE worker[w].batch \ {worker[w].cur} = {}
    BY <1>2 DEF Advanced, IdleWorker, HandsOK
  <1>3. CASE worker[w].batch \ {worker[w].cur} # {}
    BY <1>1, <1>3 DEF Advanced, WorkerState, HandsOK
  <1> QED BY <1>2, <1>3

\* A worker that goes on with its task, in another phase of it.
LEMMA MovesOn ==
    ASSUME TypeOK, NEW w \in Workers, HandsOK(worker[w]),
           worker[w].pc \notin {"idle", "next"},
           NEW s, s.pc \notin {"idle", "next"}, s.batch = worker[w].batch, s.cur = worker[w].cur
    PROVE  HandsOK(s) /\ Keeps(w, s)
  BY DEF HandsOK, Keeps

\* Every step of a worker is of one of the kinds above, and keeps HandsOK.
LEMMA WorkerKinds ==
    ASSUME TypeOK, HandsInv, NEW w \in Workers, WorkerStep(w) \/ WorkerFault(w)
    PROVE  /\ api' = api
           /\ \E s : worker' = [worker EXCEPT ![w] = s] /\ HandsOK(s) /\ Kinds(w, s)
  <1>0. HandsOK(IdleWorker)
    BY DEF HandsOK, IdleWorker
  <1>1. /\ worker[w] \in WorkerState /\ WorkerOK(worker[w]) /\ HandsOK(worker[w])
        /\ worker = [worker EXCEPT ![w] = worker[w]]
    BY DEF HandsInv, TypeOK
  <1>2. worker[w].pc \notin {"idle", "next"} =>
            worker[w].cur \in Tasks /\ worker[w].cur \in worker[w].batch
    BY <1>1 DEF WorkerState, WorkerOK
  <1>3. worker[w].pc \in {"finalizing", "updating"} => worker[w].status \in {"succeeded", "failed"}
    BY <1>1 DEF WorkerState, WorkerOK
  <1>a. api' = api
    BY DEF WorkerStep, WorkerFault, ClaimQueuedTasks, ExecuteStart, ExecuteSucceeds, ExecuteFails,
           VersionFound, FinalizeReport, RecordGeneratedReport, WriteOutcome, ClaimLost,
           VersionError, FinalizeRolledBack, FinalizeLost, OutcomeRolledBack, OutcomeLost, Crash
  <1> DEFINE Goal == \E s : worker' = [worker EXCEPT ![w] = s] /\ HandsOK(s) /\ Kinds(w, s)
  <1>b. SUFFICES Goal
    BY <1>a
  <1>4. CASE ClaimQueuedTasks(w)
    <2> DEFINE s(ids) == [IdleWorker EXCEPT !.pc = "next", !.batch = ids,
                             !.snap = [t \in Tasks |-> IF t \in ids THEN task'[t] ELSE NoRow]]
    <2>1. PICK ids : /\ ids \subseteq Queued
                     /\ ClaimRows(ids)
                     /\ worker' = [worker EXCEPT ![w] = s(ids)]
      BY <1>4 DEF ClaimQueuedTasks, Claimable
    <2>2. s(ids).batch = ids /\ s(ids).cur = 0 /\ s(ids).pc = "next"
      BY DEF IdleWorker
    <2> HIDE DEF s
    <2>3. TakesBatch(w, s(ids))
      BY <1>1, <1>4, <2>1, <2>2 DEF TakesBatch, ClaimQueuedTasks, HandsOK
    <2>4. HandsOK(s(ids))
      BY <2>2 DEF HandsOK
    <2> QED BY <2>1, <2>3, <2>4 DEF Kinds
  <1>5. CASE ClaimLost(w)
    <2>1. LosesBatch(w, worker[w]) /\ worker' = worker
      BY <1>5 DEF LosesBatch, ClaimLost, Claimable, Fault
    <2> QED BY <1>1, <2>1 DEF Kinds
  <1>6. CASE ExecuteStart(w)
    <2> DEFINE s(t) == [worker[w] EXCEPT !.pc = "executing", !.cur = t]
    <2>1. PICK t \in worker[w].batch : /\ worker' = [worker EXCEPT ![w] = s(t)]
                                       /\ execs' = [execs EXCEPT ![t] = @ + 1]
      BY <1>6 DEF ExecuteStart
    <2>2. s(t).batch = worker[w].batch /\ s(t).cur = t /\ s(t).pc = "executing"
      BY <1>1 DEF WorkerState
    <2> HIDE DEF s
    <2>3. TakesTask(w, s(t)) /\ HandsOK(s(t))
      BY <1>1, <1>6, <2>1, <2>2 DEF TakesTask, HandsOK, ExecuteStart, store
    <2> QED BY <2>1, <2>3 DEF Kinds
  <1>7. ASSUME NEW s, worker' = [worker EXCEPT ![w] = s],
               worker[w].pc \notin {"idle", "next"}, s.pc \notin {"idle", "next"},
               s.batch = worker[w].batch, s.cur = worker[w].cur,
               UNCHANGED <<task, log, execs>>, faults' \in {faults, faults + 1}
        PROVE  Goal
    BY <1>1, <1>7, MovesOn DEF Kinds, WorksOn
  <1>8. CASE ExecuteSucceeds(w)
    <2> DEFINE row == worker[w].snap[worker[w].cur]
               p == IF row.type # "report_generation" THEN "updating"
                    ELSE IF row.version THEN "finalizing" ELSE "versioning"
               s == [worker[w] EXCEPT !.pc = p, !.status = "succeeded"]
    <2>1. p \notin {"idle", "next"}
      OBVIOUS
    <2>2. worker' = [worker EXCEPT ![w] = s]
      BY <1>8 DEF ExecuteSucceeds
    <2> HIDE DEF p
    <2>3. s.pc = p /\ s.batch = worker[w].batch /\ s.cur = worker[w].cur
      BY <1>1 DEF WorkerState
    <2> HIDE DEF s
    <2> QED BY <1>7, <1>8, <2>1, <2>2, <2>3 DEF ExecuteSucceeds, store
  <1>9. /\ Failed(w).pc = "updating"
        /\ Failed(w).batch = worker[w].batch /\ Failed(w).cur = worker[w].cur
    BY <1>1 DEF Failed, WorkerState
  <1>10. CASE ExecuteFails(w) \/ FinalizeRolledBack(w)
    BY <1>7, <1>9, <1>10 DEF ExecuteFails, FinalizeRolledBack, Fault, store
  <1>11. CASE VersionFound(w)
    <2> DEFINE s == [worker[w] EXCEPT !.pc = "finalizing", !.snap = Versioned(w)]
    <2>1. s.pc = "finalizing" /\ s.batch = worker[w].batch /\ s.cur = worker[w].cur
      BY <1>1 DEF WorkerState
    <2>2. worker' = [worker EXCEPT ![w] = s]
      BY <1>11 DEF VersionFound
    <2> HIDE DEF s
    <2> QED BY <1>7, <1>11, <2>1, <2>2 DEF VersionFound, store
  <1>12. CASE VersionError(w)
    <2> DEFINE s == [worker[w] EXCEPT !.pc = "finalizing", !.status = "failed"]
    <2>1. s.pc = "finalizing" /\ s.batch = worker[w].batch /\ s.cur = worker[w].cur
      BY <1>1 DEF WorkerState
    <2>2. worker' = [worker EXCEPT ![w] = s]
      BY <1>12 DEF VersionError
    <2> HIDE DEF s
    <2> QED BY <1>7, <1>12, <2>1, <2>2 DEF VersionError, Fault, store
  <1>13. CASE RecordGeneratedReport(w)
    <2> DEFINE s == [worker[w] EXCEPT !.pc = "updating"]
    <2>1. s.pc = "updating" /\ s.batch = worker[w].batch /\ s.cur = worker[w].cur
      BY <1>1 DEF WorkerState
    <2>2. worker' = [worker EXCEPT ![w] = s]
      BY <1>13 DEF RecordGeneratedReport
    <2> HIDE DEF s
    <2> QED BY <1>7, <1>13, <2>1, <2>2 DEF RecordGeneratedReport
  <1>14. CASE FinalizeReport(w) \/ FinalizeLost(w) \/ WriteOutcome(w) \/ OutcomeLost(w)
    <2>0. worker[w].pc \in {"finalizing", "updating"}
      BY <1>14 DEF FinalizeReport, FinalizeLost, WriteOutcome, OutcomeLost
    <2>1. /\ worker[w].cur \in worker[w].batch
          /\ worker[w].status \in {"succeeded", "failed"}
          /\ worker[w].snap[worker[w].cur].version \in BOOLEAN
      BY <1>1, <1>2, <1>3, <2>0 DEF WorkerState, Row
    <2>2. /\ UNCHANGED execs
          /\ \E version \in BOOLEAN, action \in {"succeeded", "failed"} :
                UpdateTaskWithEvent(worker[w].cur, worker[w].status, "worker", version, action)
      BY <1>14, <2>1 DEF FinalizeReport, FinalizeLost, WriteOutcome, OutcomeLost, FinalizeCommit, OutcomeCommit
    <2>3. CASE FinalizeReport(w) \/ WriteOutcome(w)
      <3>1. Settles(w, Advanced(w)) /\ HandsOK(Advanced(w))
        BY <2>1, <2>2, <2>3, AdvancedHands DEF Settles, FinalizeReport, WriteOutcome
      <3> QED BY <2>3, <3>1 DEF Kinds, FinalizeReport, WriteOutcome
    <2>4. CASE FinalizeLost(w)
      <3>1. Settles(w, Failed(w)) /\ HandsOK(Failed(w))
        BY <1>1, <1>9, <2>0, <2>1, <2>2, <2>4, MovesOn DEF Settles, FinalizeLost, Fault
      <3> QED BY <2>4, <3>1 DEF Kinds, FinalizeLost
    <2>5. CASE OutcomeLost(w)
      <3>1. Settles(w, IdleWorker)
        BY <2>1, <2>2, <2>5 DEF Settles, OutcomeLost, Fault
      <3> QED BY <1>0, <2>5, <3>1 DEF Kinds, OutcomeLost
    <2> QED BY <1>14, <2>3, <2>4, <2>5
  <1>15. CASE OutcomeRolledBack(w) \/ Crash(w)
    <2>1. Drops(w, IdleWorker)
      BY <1>15 DEF Drops, OutcomeRolledBack, Crash, Fault, store
    <2> QED BY <1>0, <1>15, <2>1 DEF Kinds, OutcomeRolledBack, Crash
  <1> QED BY <1>4, <1>5, <1>6, <1>8, <1>10, <1>11, <1>12, <1>13, <1>14, <1>15
          DEF WorkerStep, WorkerFault

----------------------------------------------------------------------------
(* What a step does to one row and its events.                             *)

\* UpdateTaskWithEvent changes the mutable columns of one row only, and adds
\* one event.
LEMMA UpdateRow ==
    ASSUME TypeOK, NEW t \in Tasks, NEW status, NEW ref, NEW version, NEW action \in Actions,
           UpdateTaskWithEvent(t, status, ref, version, action), NEW u \in Tasks
    PROVE  /\ task'[u].type = task[u].type
           /\ task'[u].requiresApproval = task[u].requiresApproval
           /\ task'[u].status = IF u = t THEN status ELSE task[u].status
           /\ task'[u].auditRef = IF u = t THEN ref ELSE task[u].auditRef
           /\ \A a \in Actions : log'[u][a] = log[u][a] + IF u = t /\ a = action THEN 1 ELSE 0
  <1>1. task[u] \in Row /\ log[u] \in [Actions -> Nat]
    BY DEF TypeOK
  <1>2. /\ task'[u] = IF u = t THEN Written(task[u], status, ref, version) ELSE task[u]
        /\ log'[u] = IF u = t THEN Counted(log[u], action) ELSE log[u]
    BY DEF UpdateTaskWithEvent, AppendTaskEvent, TypeOK
  <1>3. /\ task'[u].type = task[u].type
        /\ task'[u].requiresApproval = task[u].requiresApproval
        /\ task'[u].status = IF u = t THEN status ELSE task[u].status
        /\ task'[u].auditRef = IF u = t THEN ref ELSE task[u].auditRef
    BY <1>1, <1>2 DEF Written, Row
  <1>4. \A a \in Actions : log'[u][a] = log[u][a] + IF u = t /\ a = action THEN 1 ELSE 0
    BY <1>1, <1>2 DEF Counted
  <1> QED BY <1>3, <1>4

\* A claim changes the status of the claimed rows, and adds their events.
LEMMA ClaimRow ==
    ASSUME TypeOK, NEW ids, ClaimRows(ids), NEW u \in Tasks
    PROVE  /\ task'[u].type = task[u].type
           /\ task'[u].requiresApproval = task[u].requiresApproval
           /\ task'[u].status = IF u \in ids THEN "running" ELSE task[u].status
           /\ task'[u].auditRef = task[u].auditRef
           /\ \A a \in Actions : log'[u][a] = log[u][a] + IF u \in ids /\ a = "claimed" THEN 1 ELSE 0
  <1>1. task[u] \in Row /\ log[u] \in [Actions -> Nat]
    BY DEF TypeOK
  <1>2. /\ task'[u] = IF u \in ids THEN [task[u] EXCEPT !.status = "running"] ELSE task[u]
        /\ log'[u] = IF u \in ids THEN Counted(log[u], "claimed") ELSE log[u]
    BY DEF ClaimRows
  <1>3. /\ task'[u].type = task[u].type
        /\ task'[u].requiresApproval = task[u].requiresApproval
        /\ task'[u].status = IF u \in ids THEN "running" ELSE task[u].status
        /\ task'[u].auditRef = task[u].auditRef
    BY <1>1, <1>2 DEF Row
  <1>4. \A a \in Actions : log'[u][a] = log[u][a] + IF u \in ids /\ a = "claimed" THEN 1 ELSE 0
    BY <1>1, <1>2 DEF Counted
  <1> QED BY <1>3, <1>4

\* An insert touches one row.
LEMMA CreateRow ==
    ASSUME TypeOK, NEW t \in Tasks, NEW type \in TaskTypes, NEW ra \in BOOLEAN,
           CreateTaskWithEvent(t, NewRow(type, ra)), NEW u \in Tasks
    PROVE  /\ u # t => task'[u] = task[u]
           /\ task'[t].type = type /\ task'[t].requiresApproval = ra
           /\ task'[t].status = IF ra THEN "waiting_approval" ELSE "queued"
           /\ task'[t].auditRef = "none"
           /\ \A a \in Actions : log'[u][a] = log[u][a] + IF u = t /\ a = "created" THEN 1 ELSE 0
  <1>1. log[u] \in [Actions -> Nat]
    BY DEF TypeOK
  <1>2. /\ task'[u] = IF u = t THEN NewRow(type, ra) ELSE task[u]
        /\ task'[t] = NewRow(type, ra)
        /\ log'[u] = IF u = t THEN Counted(log[u], "created") ELSE log[u]
    BY DEF CreateTaskWithEvent, AppendTaskEvent, TypeOK
  <1>3. \A a \in Actions : log'[u][a] = log[u][a] + IF u = t /\ a = "created" THEN 1 ELSE 0
    BY <1>1, <1>2 DEF Counted
  <1> QED BY <1>2, <1>3 DEF NewRow

\* The kinds of steps of a handler, by what they do to the store: it inserts
\* a row, writes the row it has read, or leaves the store alone.
Inserts(c) ==
    /\ api[c].pc = "idle"
    /\ \E t \in Tasks, type \in TaskTypes, ra \in BOOLEAN :
          ~Exists(t) /\ CreateTaskWithEvent(t, NewRow(type, ra))

Decision(c, status, ref, action) ==
    \/ status = "queued" /\ ref = "approval" /\ action = "approved" /\ api[c].pc = "approving"
    \/ status = "queued" /\ ref = "retry" /\ action = "retried" /\ api[c].pc = "retrying"
    \/ status = "failed" /\ ref = "start_failed" /\ action = "failed" /\ api[c].pc = "starting"

Decides(c) ==
    /\ api[c].pc # "idle" /\ api[c].id \in Tasks
    /\ \E status \in {"queued", "failed"}, ref \in AuditRefs, version \in BOOLEAN,
          action \in {"approved", "retried", "failed"} :
             /\ UpdateTaskWithEvent(api[c].id, status, ref, version, action)
             /\ Decision(c, status, ref, action)
    /\ UNCHANGED report

LEMMA ClientKinds ==
    ASSUME TypeOK, NEW c \in Clients, ClientStep(c)
    PROVE  /\ worker' = worker /\ execs' = execs /\ faults' \in {faults, faults + 1}
           /\ Inserts(c) \/ Decides(c) \/ UNCHANGED store
           /\ report' = report
  <1>1. worker' = worker /\ execs' = execs /\ faults' \in {faults, faults + 1}
    BY DEF ClientStep, Promote, StartSucceeds, StartFails, ApproveRead, RetryRead, ApproveWrite,
           RetryWrite, DecisionFails, Fault
  <1>2. CASE Promote(c)
    BY <1>1, <1>2 DEF Promote, Inserts, CreateTaskWithEvent
  <1>3. CASE StartFails(c) \/ ApproveWrite(c) \/ RetryWrite(c)
    <2>1. api[c].id \in Tasks /\ api[c].snap.version \in BOOLEAN /\ api[c].pc # "idle"
      <3>1. api[c] \in ClientState /\ ClientOK(api[c])
        BY DEF TypeOK
      <3> QED BY <1>3, <3>1 DEF ClientState, ClientOK, Row, StartFails, ApproveWrite, RetryWrite
    <2>2. Decides(c) /\ report' = report
      BY <1>3, <2>1 DEF Decides, Decision, StartFails, ApproveWrite, RetryWrite, AuditRefs
    <2> QED BY <1>1, <2>2
  <1>4. CASE \/ StartSucceeds(c) \/ DecisionFails(c)
             \/ \E t \in Tasks : ApproveRead(c, t) \/ RetryRead(c, t)
    BY <1>1, <1>4 DEF StartSucceeds, DecisionFails, ApproveRead, RetryRead, store
  <1> QED BY <1>2, <1>3, <1>4 DEF ClientStep

----------------------------------------------------------------------------
(* Running tasks are held, and executions stay within the decisions.       *)

LEMMA HandsInit == Init => HandsInv
  BY DEF Init, HandsInv, HandsOK, IdleWorker

LEMMA HandsNext == TypeOK /\ HandsInv /\ [Next]_vars => HandsInv'
  <1> SUFFICES ASSUME TypeOK, HandsInv, [Next]_vars PROVE HandsInv'
    OBVIOUS
  <1>1. CASE UNCHANGED vars
    BY <1>1 DEF vars, HandsInv
  <1>2. ASSUME NEW c \in Clients, ClientStep(c) PROVE HandsInv'
    BY <1>2, ClientKinds DEF HandsInv
  <1>3. ASSUME NEW w \in Workers, WorkerStep(w) \/ WorkerFault(w) PROVE HandsInv'
    <2>1. PICK s : worker' = [worker EXCEPT ![w] = s] /\ HandsOK(s)
      BY <1>3, WorkerKinds
    <2> QED BY <2>1 DEF HandsInv, TypeOK
  <1> QED BY <1>1, <1>2, <1>3 DEF Next

\* A worker between batches holds nothing, and has no current task before it
\* executes one.
LEMMA HandsHold == Spec => []HandsInv
  BY HandsInit, HandsNext, TypeCorrect, PTL DEF Spec

\* One step of a worker keeps running tasks held.
LEMMA HeldWorker ==
    ASSUME TypeOK, HandsInv, RunningIsHeld, NEW w \in Workers, NEW s,
           worker' = [worker EXCEPT ![w] = s], Kinds(w, s)
    PROVE  RunningIsHeld'
  <1> SUFFICES ASSUME faults' = 0, NEW t \in Tasks, task'[t].status = "running"
               PROVE  \E v \in Workers : t \in worker'[v].batch
    BY DEF RunningIsHeld, Holds
  <1>0. faults \in Nat /\ faults + 1 # 0
    BY DEF TypeOK
  <1>1. worker'[w] = s /\ \A v \in Workers \ {w} : worker'[v] = worker[v]
    BY DEF TypeOK
  <1>2. ASSUME faults = 0, task[t].status = "running" PROVE \E v \in Workers : t \in worker[v].batch
    BY <1>2 DEF RunningIsHeld, Holds
  <1>3. CASE TakesBatch(w, s)
    <2>1. t \in s.batch \/ task[t].status = "running"
      BY <1>3, ClaimRow DEF TakesBatch
    <2> QED BY <1>1, <1>2, <1>3, <2>1 DEF TakesBatch
  <1>4. CASE TakesTask(w, s)
    BY <1>1, <1>2, <1>4 DEF TakesTask
  <1>5. CASE WorksOn(w, s)
    BY <1>0, <1>1, <1>2, <1>5 DEF WorksOn, Keeps
  <1>6. CASE Settles(w, s)
    <2>1. worker[w].cur \in Tasks
      BY <1>6 DEF Settles, TypeOK, WorkerState
    <2>2. t # worker[w].cur /\ task[t].status = "running"
      BY <1>6, <2>1, UpdateRow DEF Settles, Actions
    <2> QED BY <1>0, <1>1, <1>2, <1>6, <2>2 DEF Settles
  <1>7. CASE LosesBatch(w, s) \/ Drops(w, s)
    BY <1>0, <1>7 DEF LosesBatch, Drops
  <1> QED BY <1>3, <1>4, <1>5, <1>6, <1>7 DEF Kinds

\* Without faults no task is stranded: a row marked running is in the batch of
\* some worker, for any number of workers, batches of any size and any
\* interleaving with approvals and retries.
THEOREM NothingStranded == Spec => []RunningIsHeld
  <1>1. Init => RunningIsHeld
    BY DEF Init, RunningIsHeld, NoRow
  <1>2. TypeOK /\ HandsInv /\ RunningIsHeld /\ [Next]_vars => RunningIsHeld'
    <2> SUFFICES ASSUME TypeOK, HandsInv, RunningIsHeld, [Next]_vars PROVE RunningIsHeld'
      OBVIOUS
    <2>1. CASE UNCHANGED vars
      BY <2>1 DEF vars, RunningIsHeld, Holds
    <2>2. ASSUME NEW c \in Clients, ClientStep(c) PROVE RunningIsHeld'
      <3>1. ASSUME NEW t \in Tasks, task'[t].status = "running" PROVE task[t].status = "running"
        <4>1. CASE Inserts(c)
          BY <3>1, <4>1, CreateRow DEF Inserts
        <4>2. CASE Decides(c)
          BY <3>1, <4>2, UpdateRow DEF Decides, Actions
        <4>3. CASE UNCHANGED store
          BY <3>1, <4>3 DEF store
        <4> QED BY <2>2, <4>1, <4>2, <4>3, ClientKinds
      <3>2. worker' = worker /\ (faults' = 0 => faults = 0)
        <4>1. worker' = worker /\ faults' \in {faults, faults + 1}
          BY <2>2, ClientKinds
        <4>2. faults \in Nat
          BY DEF TypeOK
        <4> QED BY <4>1, <4>2
      <3> QED BY <3>1, <3>2 DEF RunningIsHeld, Holds
    <2>3. ASSUME NEW w \in Workers, WorkerStep(w) \/ WorkerFault(w) PROVE RunningIsHeld'
      BY <2>3, WorkerKinds, HeldWorker
    <2> QED BY <2>1, <2>2, <2>3 DEF Next
  <1> QED BY <1>1, <1>2, TypeCorrect, HandsHold, PTL DEF Spec

\* The workers that have claimed t and not executed it yet.
Pending(t) == {w \in Workers : t \in worker[w].batch /\ worker[w].cur # t}

\* Every claim that is not used up by an execution is pending with at most one
\* worker.
ExecutionsWithinClaims ==
    \A t \in Tasks : /\ IsFiniteSet(Pending(t))
                     /\ execs[t] + Cardinality(Pending(t)) <= log[t]["claimed"]

\* The bound survives when the pending workers become fewer.
LEMMA PendingShrinks ==
    ASSUME TypeOK, NEW t \in Tasks, IsFiniteSet(Pending(t)),
           execs[t] + Cardinality(Pending(t)) <= log[t]["claimed"],
           Pending(t)' \subseteq Pending(t), execs'[t] = execs[t],
           log'[t]["claimed"] = log[t]["claimed"]
    PROVE  /\ IsFiniteSet(Pending(t)')
           /\ execs'[t] + Cardinality(Pending(t)') <= log'[t]["claimed"]
  <1>1. execs[t] \in Nat /\ log[t]["claimed"] \in Nat
    BY DEF TypeOK, Actions
  <1>2. /\ IsFiniteSet(Pending(t)') /\ Cardinality(Pending(t)') <= Cardinality(Pending(t))
        /\ Cardinality(Pending(t)) \in Nat /\ Cardinality(Pending(t)') \in Nat
    BY FS_Subset, FS_CardinalityType
  <1> QED BY <1>1, <1>2

LEMMA PendingWorker ==
    ASSUME TypeOK, HandsInv, ExecutionsWithinClaims, NEW w \in Workers, NEW s,
           worker' = [worker EXCEPT ![w] = s], Kinds(w, s)
    PROVE  ExecutionsWithinClaims'
  <1> SUFFICES ASSUME NEW t \in Tasks
               PROVE  /\ IsFiniteSet(Pending(t)')
                      /\ execs'[t] + Cardinality(Pending(t)') <= log'[t]["claimed"]
    BY DEF ExecutionsWithinClaims
  <1>0. /\ IsFiniteSet(Pending(t)) /\ execs[t] + Cardinality(Pending(t)) <= log[t]["claimed"]
        /\ execs[t] \in Nat /\ log[t]["claimed"] \in Nat /\ Cardinality(Pending(t)) \in Nat
    BY FS_CardinalityType DEF ExecutionsWithinClaims, TypeOK, Actions
  <1>1. worker'[w] = s /\ \A v \in Workers \ {w} : worker'[v] = worker[v]
    BY DEF TypeOK
  <1>2. CASE TakesBatch(w, s)
    <2>1. log'[t]["claimed"] = log[t]["claimed"] + IF t \in s.batch THEN 1 ELSE 0
      BY <1>2, ClaimRow DEF TakesBatch, Actions
    <2>2. execs'[t] = execs[t]
      BY <1>2 DEF TakesBatch
    <2>3. CASE t \in s.batch
      <3>1. w \notin Pending(t) /\ Pending(t)' = Pending(t) \cup {w}
        BY <1>1, <1>2, <2>3 DEF TakesBatch, Pending
      <3>2. IsFiniteSet(Pending(t)') /\ Cardinality(Pending(t)') = Cardinality(Pending(t)) + 1
        BY <1>0, <3>1, FS_AddElement
      <3> QED BY <1>0, <2>1, <2>2, <2>3, <3>2
    <2>4. CASE t \notin s.batch
      <3>1. Pending(t)' \subseteq Pending(t)
        BY <1>1, <2>4 DEF Pending
      <3> QED BY <1>0, <2>1, <2>2, <2>4, <3>1, PendingShrinks
    <2> QED BY <2>3, <2>4
  <1>3. CASE TakesTask(w, s)
    <2>1. log'[t]["claimed"] = log[t]["claimed"]
      BY <1>3 DEF TakesTask
    <2>2. CASE t = s.cur
      <3>1. w \in Pending(t) /\ Pending(t)' = Pending(t) \ {w}
        BY <1>1, <1>3, <2>2 DEF TakesTask, Pending
      <3>2. IsFiniteSet(Pending(t)') /\ Cardinality(Pending(t)') = Cardinality(Pending(t)) - 1
        BY <1>0, <3>1, FS_RemoveElement
      <3>3. execs'[t] = execs[t] + 1
        BY <1>3, <2>2 DEF TakesTask, TypeOK
      <3> QED BY <1>0, <2>1, <3>2, <3>3
    <2>3. CASE t # s.cur
      <3>1. Pending(t)' \subseteq Pending(t)
        BY <1>1, <1>3, <2>3 DEF TakesTask, Pending
      <3>2. execs'[t] = execs[t]
        BY <1>3, <2>3 DEF TakesTask, TypeOK
      <3> QED BY <1>0, <2>1, <3>1, <3>2, PendingShrinks
    <2> QED BY <2>2, <2>3
  <1>4. CASE LosesBatch(w, s)
    <2>1. Pending(t)' \subseteq Pending(t) /\ execs'[t] = execs[t]
      BY <1>1, <1>4 DEF LosesBatch, Pending
    <2>2. PICK ids : ClaimRows(ids)
      BY <1>4 DEF LosesBatch
    <2>3. log'[t]["claimed"] \in Nat /\ log'[t]["claimed"] >= log[t]["claimed"]
      BY <1>0, <2>2, ClaimRow DEF Actions
    <2>4. /\ IsFiniteSet(Pending(t)') /\ Cardinality(Pending(t)') <= Cardinality(Pending(t))
          /\ Cardinality(Pending(t)') \in Nat
      BY <1>0, <2>1, FS_Subset, FS_CardinalityType
    <2> QED BY <1>0, <2>1, <2>3, <2>4
  <1>5. CASE WorksOn(w, s) \/ Settles(w, s) \/ Drops(w, s)
    <2>1. Pending(t)' \subseteq Pending(t)
      BY <1>1, <1>5 DEF WorksOn, Settles, Drops, Keeps, Pending, IdleWorker
    <2>2. execs'[t] = execs[t]
      BY <1>5 DEF WorksOn, Settles, Drops
    <2>3. log'[t]["claimed"] = log[t]["claimed"]
      <3>1. CASE Settles(w, s)
        <4>1. worker[w].cur \in Tasks
          BY <3>1 DEF Settles, TypeOK, WorkerState
        <4> QED BY <1>0, <3>1, <4>1, UpdateRow DEF Settles, Actions
      <3> QED BY <1>5, <3>1 DEF WorksOn, Drops
    <2> QED BY <1>0, <2>1, <2>2, <2>3, PendingShrinks
  <1> QED BY <1>2, <1>3, <1>4, <1>5 DEF Kinds

\* A task is executed at most as often as it was claimed.
LEMMA ExecutionsClaimed == Spec => []ExecutionsWithinClaims
  <1>1. Init => ExecutionsWithinClaims
    <2> SUFFICES ASSUME Init, NEW t \in Tasks
                 PROVE  /\ IsFiniteSet(Pending(t))
                        /\ execs[t] + Cardinality(Pending(t)) <= log[t]["claimed"]
      BY DEF ExecutionsWithinClaims
    <2>1. Pending(t) = {}
      BY DEF Init, Pending, IdleWorker
    <2>2. execs[t] = 0 /\ log[t]["claimed"] = 0
      BY DEF Init, Actions
    <2> QED BY <2>1, <2>2, FS_EmptySet
  <1>2. TypeOK /\ HandsInv /\ ExecutionsWithinClaims /\ [Next]_vars => ExecutionsWithinClaims'
    <2> SUFFICES ASSUME TypeOK, HandsInv, ExecutionsWithinClaims, [Next]_vars
                 PROVE  ExecutionsWithinClaims'
      OBVIOUS
    <2>1. CASE UNCHANGED vars
      BY <2>1 DEF vars, ExecutionsWithinClaims, Pending
    <2>2. ASSUME NEW c \in Clients, ClientStep(c) PROVE ExecutionsWithinClaims'
      <3>1. worker' = worker /\ execs' = execs
        BY <2>2, ClientKinds
      <3>2. ASSUME NEW t \in Tasks PROVE log'[t]["claimed"] = log[t]["claimed"]
        <4>0. log[t]["claimed"] \in Nat
          BY DEF TypeOK, Actions
        <4>1. CASE Inserts(c)
          BY <4>0, <4>1, CreateRow DEF Inserts, Actions
        <4>2. CASE Decides(c)
          BY <4>0, <4>2, UpdateRow DEF Decides, Actions
        <4>3. CASE UNCHANGED store
          BY <4>3 DEF store
        <4> QED BY <2>2, <4>1, <4>2, <4>3, ClientKinds
      <3> QED BY <3>1, <3>2 DEF ExecutionsWithinClaims, Pending
    <2>3. ASSUME NEW w \in Workers, WorkerStep(w) \/ WorkerFault(w) PROVE ExecutionsWithinClaims'
      BY <2>3, WorkerKinds, PendingWorker
    <2> QED BY <2>1, <2>2, <2>3 DEF Next
  <1> QED BY <1>1, <1>2, TypeCorrect, HandsHold, PTL DEF Spec

\* A task body runs at most once per decision to run it, however claims, stale
\* approvals, crashes and lost acknowledgements interleave: an execution uses
\* up a claim, and a claim uses up a decision.
THEOREM ExecutionsBounded == Spec => []ExecutionsWithinDecisions
  <1>1. TypeOK /\ ExecutionsWithinClaims /\ ClaimsWithinDecisions => ExecutionsWithinDecisions
    <2> SUFFICES ASSUME TypeOK, ExecutionsWithinClaims, ClaimsWithinDecisions, NEW t \in Tasks
                 PROVE  execs[t] <= Decisions(t)
      BY DEF ExecutionsWithinDecisions
    <2>1. /\ execs[t] + Cardinality(Pending(t)) <= log[t]["claimed"]
          /\ Cardinality(Pending(t)) \in Nat
      BY FS_CardinalityType DEF ExecutionsWithinClaims
    <2>2. log[t]["claimed"] + (IF task[t].status = "queued" THEN 1 ELSE 0) <= Decisions(t)
      BY DEF ClaimsWithinDecisions
    <2>3. execs[t] \in Nat /\ log[t] \in [Actions -> Nat]
      BY DEF TypeOK
    <2>4. Decisions(t) \in Nat /\ log[t]["claimed"] \in Nat
      BY <2>3 DEF Decisions, Actions
    <2> QED BY <2>1, <2>2, <2>3, <2>4
  <1> QED BY <1>1, ExecutionsClaimed, ClaimsBounded, TypeCorrect, PTL

----------------------------------------------------------------------------
(* A report task that is shown as succeeded has its report.                *)

\* What w holds is a row that exists, of the type its snapshot has; and when
\* w is about to write a report task as succeeded, the report is saved.
ReadyToWrite(w) ==
    /\ \A t \in worker[w].batch : Exists(t) /\ worker[w].snap[t].type = task[t].type
    /\ worker[w].pc = "updating" /\ worker[w].status = "succeeded"
          /\ task[worker[w].cur].type = "report_generation" => report[worker[w].cur]

ReportInv == SucceededReportIsReady /\ \A w \in Workers : ReadyToWrite(w)

\* No step deletes a row or a report, or changes what kind of task a row is.
RowsPersist ==
    \A t \in Tasks : /\ Exists(t) => /\ task'[t].status # "absent"
                                     /\ task'[t].type = task[t].type
                                     /\ task'[t].requiresApproval = task[t].requiresApproval
                     /\ report[t] => report'[t]

LEMMA ClientPersists ==
    ASSUME TypeOK, NEW c \in Clients, ClientStep(c) PROVE RowsPersist
  <1> SUFFICES ASSUME NEW t \in Tasks
               PROVE  /\ Exists(t) => /\ task'[t].status # "absent"
                                      /\ task'[t].type = task[t].type
                                      /\ task'[t].requiresApproval = task[t].requiresApproval
                      /\ report[t] => report'[t]
    BY DEF RowsPersist
  <1>1. report' = report
    BY ClientKinds
  <1>2. CASE Inserts(c)
    BY <1>1, <1>2, CreateRow DEF Inserts, Exists
  <1>3. CASE Decides(c)
    BY <1>1, <1>3, UpdateRow DEF Decides, Exists, Actions
  <1>4. CASE UNCHANGED store
    BY <1>4 DEF store, Exists
  <1> QED BY <1>2, <1>3, <1>4, ClientKinds

LEMMA WorkerPersists ==
    ASSUME TypeOK, HandsInv, NEW w \in Workers, WorkerStep(w) \/ WorkerFault(w)
    PROVE  RowsPersist
  <1> SUFFICES ASSUME NEW t \in Tasks
               PROVE  /\ Exists(t) => /\ task'[t].status # "absent"
                                      /\ task'[t].type = task[t].type
                                      /\ task'[t].requiresApproval = task[t].requiresApproval
                      /\ report[t] => report'[t]
    BY DEF RowsPersist
  <1>1. report[t] => report'[t]
    <2>1. report' = report \/ report' = [report EXCEPT ![worker[w].cur] = TRUE]
      BY DEF WorkerStep, WorkerFault, ClaimQueuedTasks, ExecuteStart, ExecuteSucceeds, ExecuteFails,
             VersionFound, FinalizeReport, RecordGeneratedReport, WriteOutcome, ClaimLost,
             VersionError, FinalizeRolledBack, FinalizeLost, OutcomeRolledBack, OutcomeLost, Crash,
             ClaimRows, FinalizeCommit, OutcomeCommit, store
    <2> QED BY <2>1 DEF TypeOK
  <1>2. PICK s : Kinds(w, s)
    BY WorkerKinds
  <1>3. CASE TakesBatch(w, s) \/ LosesBatch(w, s)
    <2>1. PICK ids : ClaimRows(ids)
      BY <1>3 DEF TakesBatch, LosesBatch
    <2> QED BY <1>1, <2>1, ClaimRow DEF Exists
  <1>4. CASE TakesTask(w, s) \/ WorksOn(w, s) \/ Drops(w, s)
    BY <1>1, <1>4 DEF TakesTask, WorksOn, Drops, Exists
  <1>5. CASE Settles(w, s)
    <2>1. worker[w].cur \in Tasks
      BY <1>5 DEF Settles, TypeOK, WorkerState
    <2> QED BY <1>1, <1>5, <2>1, UpdateRow DEF Settles, Actions, Exists
  <1> QED BY <1>2, <1>3, <1>4, <1>5 DEF Kinds

\* A worker that moves stays ready if its rows persist.
LEMMA ReadyMoves ==
    ASSUME TypeOK, RowsPersist, NEW w \in Workers, ReadyToWrite(w), NEW s, worker'[w] = s,
           s.batch \subseteq worker[w].batch,
           \A t \in s.batch : s.snap[t].type = worker[w].snap[t].type,
           s.pc = "updating" /\ s.status = "succeeded" /\ task'[s.cur].type = "report_generation"
              => report'[s.cur]
    PROVE  ReadyToWrite(w)'
  <1>1. worker[w].batch \subseteq Tasks
    BY DEF TypeOK, WorkerState
  <1> QED BY <1>1 DEF ReadyToWrite, RowsPersist, Exists

LEMMA ReadyStays ==
    ASSUME TypeOK, RowsPersist, NEW w \in Workers, ReadyToWrite(w), worker'[w] = worker[w]
    PROVE  ReadyToWrite(w)'
  <1>1. worker[w] \in WorkerState /\ WorkerOK(worker[w])
    BY DEF TypeOK
  <1>2. worker[w].pc = "updating" => worker[w].cur \in worker[w].batch /\ worker[w].cur \in Tasks
    BY <1>1 DEF WorkerState, WorkerOK
  <1>3. worker[w].pc = "updating" /\ worker[w].status = "succeeded"
           /\ task'[worker[w].cur].type = "report_generation" => report'[worker[w].cur]
    BY <1>2 DEF ReadyToWrite, RowsPersist
  <1> QED BY <1>3, ReadyMoves

\* The step of a worker leaves it ready to write.
LEMMA ReadyWorker ==
    ASSUME TypeOK, HandsInv, RowsPersist, NEW w \in Workers, ReadyToWrite(w),
           WorkerStep(w) \/ WorkerFault(w)
    PROVE  ReadyToWrite(w)'
  <1>1. worker[w] \in WorkerState /\ WorkerOK(worker[w])
    BY DEF TypeOK
  <1>2. worker[w].pc \notin {"idle", "next"} => worker[w].cur \in worker[w].batch /\ worker[w].cur \in Tasks
    BY <1>1 DEF WorkerState, WorkerOK
  <1>3. ASSUME worker'[w] = IdleWorker PROVE ReadyToWrite(w)'
    BY <1>3 DEF ReadyToWrite, IdleWorker
  <1>4. ASSUME NEW s, worker' = [worker EXCEPT ![w] = s] PROVE worker'[w] = s
    BY <1>4 DEF TypeOK
  <1>5. CASE ClaimQueuedTasks(w)
    <2> DEFINE Snap(ids) == [t \in Tasks |-> IF t \in ids THEN task'[t] ELSE NoRow]
               s(ids) == [IdleWorker EXCEPT !.pc = "next", !.batch = ids, !.snap = Snap(ids)]
    <2>1. PICK ids : /\ ids \subseteq Queued
                     /\ ClaimRows(ids)
                     /\ worker' = [worker EXCEPT ![w] = s(ids)]
      BY <1>5 DEF ClaimQueuedTasks, Claimable
    <2>2. /\ s(ids).batch = ids /\ s(ids).pc = "next"
          /\ \A t \in ids : s(ids).snap[t] = task'[t]
      BY <2>1 DEF IdleWorker, Queued
    <2> HIDE DEF s
    <2>3. worker'[w] = s(ids)
      BY <1>4, <2>1
    <2>4. ASSUME NEW t \in ids PROVE task'[t].status = "running"
      BY <2>1, ClaimRow DEF Queued
    <2> QED BY <2>2, <2>3, <2>4 DEF ReadyToWrite, Exists
  <1>6. CASE ClaimLost(w)
    BY <1>6, ReadyStays DEF ClaimLost
  <1>7. ASSUME NEW s, worker' = [worker EXCEPT ![w] = s], s.batch = worker[w].batch,
               s.snap = worker[w].snap, s.pc # "updating" \/ s.status # "succeeded"
        PROVE  ReadyToWrite(w)'
    BY <1>4, <1>7, ReadyMoves
  <1>8. CASE ExecuteStart(w)
    <2> DEFINE s(t) == [worker[w] EXCEPT !.pc = "executing", !.cur = t]
    <2>1. PICK t : worker' = [worker EXCEPT ![w] = s(t)]
      BY <1>8 DEF ExecuteStart
    <2>2. s(t).batch = worker[w].batch /\ s(t).snap = worker[w].snap /\ s(t).pc # "updating"
      BY <1>1 DEF WorkerState
    <2> HIDE DEF s
    <2> QED BY <1>7, <2>1, <2>2
  <1>9. CASE ExecuteSucceeds(w)
    <2> DEFINE row == worker[w].snap[worker[w].cur]
               p == IF row.type # "report_generation" THEN "updating"
                    ELSE IF row.version THEN "finalizing" ELSE "versioning"
               s == [worker[w] EXCEPT !.pc = p, !.status = "succeeded"]
    <2>1. worker' = [worker EXCEPT ![w] = s]
      BY <1>9 DEF ExecuteSucceeds
    <2>2. p = "updating" => row.type # "report_generation"
      OBVIOUS
    <2> HIDE DEF p
    <2>3. /\ s.batch = worker[w].batch /\ s.snap = worker[w].snap
          /\ s.pc = p /\ s.cur = worker[w].cur
      BY <1>1 DEF WorkerState
    <2>4. worker[w].cur \in worker[w].batch /\ worker[w].cur \in Tasks
      BY <1>2, <1>9 DEF ExecuteSucceeds
    <2>5. task'[worker[w].cur].type = row.type
      BY <2>4 DEF ReadyToWrite, RowsPersist
    <2> HIDE DEF s, row
    <2>6. worker'[w] = s
      BY <1>4, <2>1
    <2> QED BY <2>2, <2>3, <2>5, <2>6, ReadyMoves
  <1>10. CASE ExecuteFails(w) \/ FinalizeRolledBack(w) \/ FinalizeLost(w)
    <2>1. worker' = [worker EXCEPT ![w] = Failed(w)]
      BY <1>10 DEF ExecuteFails, FinalizeRolledBack, FinalizeLost
    <2>2. /\ Failed(w).batch = worker[w].batch /\ Failed(w).snap = worker[w].snap
          /\ Failed(w).status # "succeeded"
      BY <1>1 DEF Failed, WorkerState
    <2> QED BY <1>7, <2>1, <2>2
  <1>11. CASE VersionFound(w)
    <2> DEFINE s == [worker[w] EXCEPT !.pc = "finalizing", !.snap = Versioned(w)]
    <2>1. worker' = [worker EXCEPT ![w] = s]
      BY <1>11 DEF VersionFound
    <2>2. s.batch = worker[w].batch /\ s.pc = "finalizing" /\ s.snap = Versioned(w)
      BY <1>1 DEF WorkerState
    <2>3. ASSUME NEW t \in Tasks PROVE Versioned(w)[t].type = worker[w].snap[t].type
      <3>1. worker[w].snap[t] \in Row
        BY <1>1 DEF WorkerState
      <3> QED BY <3>1 DEF Versioned, Row
    <2>4. worker[w].batch \subseteq Tasks
      BY <1>1 DEF WorkerState
    <2> HIDE DEF s
    <2>5. worker'[w] = s
      BY <1>4, <2>1
    <2> QED BY <2>2, <2>3, <2>4, <2>5, ReadyMoves
  <1>12. CASE VersionError(w)
    <2> DEFINE s == [worker[w] EXCEPT !.pc = "finalizing", !.status = "failed"]
    <2>1. worker' = [worker EXCEPT ![w] = s]
      BY <1>12 DEF VersionError
    <2>2. s.batch = worker[w].batch /\ s.snap = worker[w].snap /\ s.pc # "updating"
      BY <1>1 DEF WorkerState
    <2> HIDE DEF s
    <2> QED BY <1>7, <2>1, <2>2
  <1>13. CASE RecordGeneratedReport(w)
    <2> DEFINE s == [worker[w] EXCEPT !.pc = "updating"]
    <2>1. worker' = [worker EXCEPT ![w] = s]
      BY <1>13 DEF RecordGeneratedReport
    <2>2. s.batch = worker[w].batch /\ s.snap = worker[w].snap /\ s.cur = worker[w].cur
      BY <1>1 DEF WorkerState
    <2>3. worker[w].cur \in Tasks
      BY <1>2, <1>13 DEF RecordGeneratedReport
    <2>4. report'[worker[w].cur]
      BY <1>13, <2>3 DEF RecordGeneratedReport, TypeOK
    <2> HIDE DEF s
    <2>5. worker'[w] = s
      BY <1>4, <2>1
    <2> QED BY <2>2, <2>4, <2>5, ReadyMoves
  <1>14. CASE FinalizeReport(w) \/ WriteOutcome(w)
    <2>1. worker'[w] = Advanced(w)
      BY <1>4, <1>14 DEF FinalizeReport, WriteOutcome
    <2>2. CASE worker[w].batch \ {worker[w].cur} = {}
      BY <1>3, <2>1, <2>2 DEF Advanced
    <2>3. CASE worker[w].batch \ {worker[w].cur} # {}
      <3>1. /\ Advanced(w).batch = worker[w].batch \ {worker[w].cur}
            /\ Advanced(w).pc = "next"
            /\ Advanced(w).snap = [worker[w].snap EXCEPT ![worker[w].cur] = NoRow]
        BY <1>1, <2>3 DEF Advanced, WorkerState
      <3>2. ASSUME NEW t \in Advanced(w).batch
            PROVE  Advanced(w).snap[t].type = worker[w].snap[t].type
        BY <1>1, <3>1 DEF WorkerState
      <3> QED BY <2>1, <3>1, <3>2, ReadyMoves
    <2> QED BY <2>2, <2>3
  <1>15. CASE OutcomeRolledBack(w) \/ OutcomeLost(w) \/ Crash(w)
    BY <1>3, <1>4, <1>15 DEF OutcomeRolledBack, OutcomeLost, Crash
  <1> QED BY <1>5, <1>6, <1>8, <1>9, <1>10, <1>11, <1>12, <1>13, <1>14, <1>15
          DEF WorkerStep, WorkerFault

\* The step of a worker shows no report task as succeeded without its report.
LEMMA ReportWorker ==
    ASSUME TypeOK, HandsInv, ReportInv, NEW w \in Workers, WorkerStep(w) \/ WorkerFault(w)
    PROVE  SucceededReportIsReady'
  <1> SUFFICES ASSUME NEW t \in Tasks, task'[t].status = "succeeded",
                      task'[t].type = "report_generation"
               PROVE  report'[t]
    BY DEF SucceededReportIsReady
  <1>0. RowsPersist
    BY WorkerPersists
  <1>1. ASSUME task[t].status = "succeeded", task[t].type = "report_generation" PROVE report'[t]
    BY <1>0, <1>1 DEF ReportInv, SucceededReportIsReady, RowsPersist
  <1>2. CASE FinalizeReport(w) \/ FinalizeLost(w) \/ WriteOutcome(w) \/ OutcomeLost(w)
    <2>1. /\ worker[w] \in WorkerState /\ WorkerOK(worker[w]) /\ ReadyToWrite(w)
          /\ worker[w].pc \in {"finalizing", "updating"}
      BY <1>2 DEF TypeOK, ReportInv, FinalizeReport, FinalizeLost, WriteOutcome, OutcomeLost
    <2>2. worker[w].cur \in Tasks /\ worker[w].status \in {"succeeded", "failed"}
      BY <2>1 DEF WorkerState, WorkerOK
    <2>3. CASE FinalizeReport(w) \/ FinalizeLost(w)
      <3>1. FinalizeCommit(w)
        BY <2>3 DEF FinalizeReport, FinalizeLost
      <3>2. CASE t = worker[w].cur
        BY <3>1, <3>2 DEF FinalizeCommit, TypeOK
      <3>3. CASE t # worker[w].cur
        <4>1. PICK version \in BOOLEAN :
                 UpdateTaskWithEvent(worker[w].cur, worker[w].status, "worker", version, "succeeded")
          BY <3>1 DEF FinalizeCommit
        <4>2. task'[t].type = task[t].type /\ task'[t].status = task[t].status
          BY <2>2, <3>3, <4>1, UpdateRow DEF Actions
        <4> QED BY <1>1, <4>2
      <3> QED BY <3>2, <3>3
    <2>4. CASE WriteOutcome(w) \/ OutcomeLost(w)
      <3>1. OutcomeCommit(w) /\ worker[w].pc = "updating"
        BY <2>4 DEF WriteOutcome, OutcomeLost
      <3>2. CASE t = worker[w].cur
        <4>1. task[t].type = "report_generation" /\ worker[w].status = "succeeded"
          BY <2>2, <3>1, <3>2, UpdateRow DEF OutcomeCommit, Actions
        <4> QED BY <2>1, <3>1, <3>2, <4>1 DEF ReadyToWrite, OutcomeCommit
      <3>3. CASE t # worker[w].cur
        BY <1>1, <2>2, <3>1, <3>3, UpdateRow DEF OutcomeCommit, Actions
      <3> QED BY <3>2, <3>3
    <2> QED BY <1>2, <2>3, <2>4
  <1>3. CASE ClaimQueuedTasks(w) \/ ClaimLost(w)
    <2>1. PICK ids : ClaimRows(ids)
      BY <1>3 DEF ClaimQueuedTasks, ClaimLost
    <2> QED BY <1>1, <2>1, ClaimRow
  <1>4. CASE \/ ExecuteStart(w) \/ ExecuteSucceeds(w) \/ ExecuteFails(w) \/ VersionFound(w)
             \/ RecordGeneratedReport(w) \/ VersionError(w) \/ FinalizeRolledBack(w)
             \/ OutcomeRolledBack(w) \/ Crash(w)
    BY <1>1, <1>4
       DEF ExecuteStart, ExecuteSucceeds, ExecuteFails, VersionFound, RecordGeneratedReport,
           VersionError, FinalizeRolledBack, OutcomeRolledBack, Crash, store
  <1> QED BY <1>2, <1>3, <1>4 DEF WorkerStep, WorkerFault

LEMMA ReportNext == TypeOK /\ HandsInv /\ ReportInv /\ [Next]_vars => ReportInv'
  <1> SUFFICES ASSUME TypeOK, HandsInv, ReportInv, [Next]_vars PROVE ReportInv'
    OBVIOUS
  <1>1. CASE UNCHANGED vars
    BY <1>1 DEF vars, ReportInv, SucceededReportIsReady, ReadyToWrite, Exists
  <1>2. ASSUME NEW c \in Clients, ClientStep(c) PROVE ReportInv'
    <2>1. RowsPersist /\ worker' = worker /\ report' = report
      BY <1>2, ClientPersists, ClientKinds
    <2>2. ASSUME NEW v \in Workers PROVE ReadyToWrite(v)'
      BY <2>1, ReadyStays DEF ReportInv
    <2>3. ASSUME NEW t \in Tasks, task'[t].status = "succeeded", task'[t].type = "report_generation"
          PROVE  task[t].status = "succeeded" /\ task[t].type = "report_generation"
      <3>1. CASE Inserts(c)
        BY <2>3, <3>1, CreateRow DEF Inserts
      <3>2. CASE Decides(c)
        BY <2>3, <3>2, UpdateRow DEF Decides, Actions
      <3>3. CASE UNCHANGED store
        BY <2>3, <3>3 DEF store
      <3> QED BY <1>2, <3>1, <3>2, <3>3, ClientKinds
    <2> QED BY <2>1, <2>2, <2>3 DEF ReportInv, SucceededReportIsReady
  <1>3. ASSUME NEW w \in Workers, WorkerStep(w) \/ WorkerFault(w) PROVE ReportInv'
    <2>1. RowsPersist /\ ReadyToWrite(w)
      BY <1>3, WorkerPersists DEF ReportInv
    <2>2. ReadyToWrite(w)'
      BY <1>3, <2>1, ReadyWorker
    <2>3. ASSUME NEW v \in Workers, v # w PROVE ReadyToWrite(v)'
      <3>1. PICK s : worker' = [worker EXCEPT ![w] = s]
        BY <1>3, WorkerKinds
      <3>2. worker'[v] = worker[v]
        BY <2>3, <3>1 DEF TypeOK
      <3> QED BY <2>1, <3>2, ReadyStays DEF ReportInv
    <2>4. SucceededReportIsReady'
      BY <1>3, ReportWorker
    <2> QED BY <2>2, <2>3, <2>4 DEF ReportInv
  <1> QED BY <1>1, <1>2, <1>3 DEF Next

\* A report task shown as succeeded has its ready report, with either kind of
\* report store, whatever interleaves and whichever writes fail or lose their
\* acknowledgement: the runner saves the report before, or with, the status.
THEOREM SucceededReportsReady == Spec => []SucceededReportIsReady
  <1>1. Init => ReportInv
    BY DEF Init, ReportInv, SucceededReportIsReady, ReadyToWrite, IdleWorker, NoRow
  <1>2. ReportInv => SucceededReportIsReady
    BY DEF ReportInv
  <1> QED BY <1>1, <1>2, ReportNext, TypeCorrect, HandsHold, PTL DEF Spec

----------------------------------------------------------------------------
(* One operator at a time.                                                 *)

\* Requests do not overlap, and no answer of the store is lost.
OneAtATime == (\A c, d \in Clients : c = d) /\ "lostack" \notin FaultKinds

\* The status of a row about which a request is in flight.
Awaited(pc) == IF pc = "retrying" THEN "failed" ELSE "waiting_approval"

HeldRowsRun == \A w \in Workers : \A t \in worker[w].batch : task[t].status = "running"

RequestsCurrent ==
    \A c \in Clients : api[c].pc # "idle" => task[api[c].id].status = Awaited(api[c].pc)

\* What a worker holds is running, nobody else holds it, and what a request
\* has read is still so.
SerialInv == HeldRowsRun /\ ClaimIsExclusive /\ RequestsCurrent

LEMMA SerialInit == Init => SerialInv
  BY DEF Init, SerialInv, HeldRowsRun, ClaimIsExclusive, RequestsCurrent, Holds, IdleWorker, IdleClient

\* A handler's step leaves the rows in the workers' hands alone.
LEMMA HeldRowsClient ==
    ASSUME TypeOK, SerialInv, NEW c \in Clients, ClientStep(c)
    PROVE  HeldRowsRun' /\ ClaimIsExclusive'
  <1>1. worker' = worker
    BY ClientKinds
  <1>2. ASSUME NEW t \in Tasks, task[t].status = "running" PROVE task'[t].status = "running"
    <2>1. CASE Inserts(c)
      BY <1>2, <2>1, CreateRow DEF Inserts, Exists
    <2>2. CASE Decides(c)
      <3>1. t # api[c].id
        BY <1>2, <2>2 DEF Decides, SerialInv, RequestsCurrent, Awaited
      <3> QED BY <1>2, <2>2, <3>1, UpdateRow DEF Decides, Actions
    <2>3. CASE UNCHANGED store
      BY <1>2, <2>3 DEF store
    <2> QED BY <2>1, <2>2, <2>3, ClientKinds
  <1>3. \A w \in Workers : worker[w].batch \subseteq Tasks
    BY DEF TypeOK, WorkerState
  <1> QED BY <1>1, <1>2, <1>3 DEF SerialInv, HeldRowsRun, ClaimIsExclusive, Holds

\* With no other request about, what a request reads stays so until it writes.
LEMMA RequestsClient ==
    ASSUME OneAtATime, TypeOK, SerialInv, NEW c \in Clients, ClientStep(c)
    PROVE  RequestsCurrent'
  <1> SUFFICES ASSUME api'[c].pc # "idle" PROVE task'[api'[c].id].status = Awaited(api'[c].pc)
    BY DEF OneAtATime, RequestsCurrent
  <1>0. ASSUME NEW s, api' = [api EXCEPT ![c] = s] PROVE api'[c] = s
    BY <1>0 DEF TypeOK
  <1>1. CASE Promote(c)
    <2> DEFINE s(t, type, ra) == [pc |-> "starting", id |-> t, snap |-> NewRow(type, ra)]
    <2>1. PICK t \in Tasks, type \in TaskTypes, ra \in BOOLEAN :
          /\ CreateTaskWithEvent(t, NewRow(type, ra))
          /\ api' = IF ShouldStartTaskOnPromote(NewRow(type, ra))
                    THEN [api EXCEPT ![c] = s(t, type, ra)]
                    ELSE api
      BY <1>1 DEF Promote
    <2>2. api[c].pc = "idle"
      BY <1>1 DEF Promote
    <2>3. api' = [api EXCEPT ![c] = s(t, type, ra)] /\ ShouldStartTaskOnPromote(NewRow(type, ra))
      BY <2>1, <2>2
    <2>4. ra
      BY <2>3 DEF ShouldStartTaskOnPromote, NewRow
    <2>5. api'[c].pc = "starting" /\ api'[c].id = t
      BY <1>0, <2>3
    <2>6. task'[t].status = "waiting_approval"
      BY <2>1, <2>4, CreateRow
    <2> QED BY <2>5, <2>6 DEF Awaited
  <1>2. CASE \/ StartSucceeds(c) \/ StartFails(c) \/ ApproveWrite(c) \/ RetryWrite(c)
             \/ DecisionFails(c)
    <2>1. api'[c] = IdleClient
      BY <1>0, <1>2 DEF StartSucceeds, StartFails, ApproveWrite, RetryWrite, DecisionFails
    <2> QED BY <2>1 DEF IdleClient
  <1>3. ASSUME NEW t \in Tasks, ApproveRead(c, t) \/ RetryRead(c, t)
        PROVE  task'[api'[c].id].status = Awaited(api'[c].pc)
    <2>1. CASE ApproveRead(c, t)
      <3>1. api'[c] = [pc |-> "approving", id |-> t, snap |-> task[t]]
        BY <1>0, <2>1 DEF ApproveRead
      <3> QED BY <2>1, <3>1 DEF ApproveRead, store, Awaited
    <2>2. CASE RetryRead(c, t)
      <3>1. api'[c] = [pc |-> "retrying", id |-> t, snap |-> task[t]]
        BY <1>0, <2>2 DEF RetryRead
      <3> QED BY <2>2, <3>1 DEF RetryRead, store, Awaited
    <2> QED BY <1>3, <2>1, <2>2
  <1> QED BY <1>1, <1>2, <1>3 DEF ClientStep

\* A worker's step.
LEMMA SerialWorker ==
    ASSUME OneAtATime, TypeOK, SerialInv, NEW w \in Workers, NEW s, api' = api,
           worker' = [worker EXCEPT ![w] = s], Kinds(w, s)
    PROVE  SerialInv'
  <1>0. worker'[w] = s /\ \A v \in Workers \ {w} : worker'[v] = worker[v]
    BY DEF TypeOK
  <1>1. \A v \in Workers : worker[v].batch \subseteq Tasks
    BY DEF TypeOK, WorkerState
  <1>2. ASSUME NEW c \in Clients, api[c].pc # "idle"
        PROVE  /\ api[c].id \in Tasks
               /\ task[api[c].id].status = Awaited(api[c].pc)
               /\ task[api[c].id].status \notin {"queued", "running"}
    BY <1>2 DEF SerialInv, RequestsCurrent, Awaited, TypeOK, ClientOK
  <1>3. CASE TakesBatch(w, s)
    <2>1. /\ s.batch \subseteq Tasks /\ \A t \in s.batch : task[t].status = "queued"
          /\ \A u \in Tasks : task'[u].status = IF u \in s.batch THEN "running" ELSE task[u].status
      BY <1>3, ClaimRow DEF TakesBatch, Queued
    <2>2. \A v \in Workers : \A t \in s.batch : t \notin worker[v].batch
      BY <2>1 DEF SerialInv, HeldRowsRun
    <2>3. HeldRowsRun'
      BY <1>0, <1>1, <2>1, <2>2 DEF SerialInv, HeldRowsRun
    <2>4. ClaimIsExclusive'
      BY <1>0, <2>2 DEF SerialInv, ClaimIsExclusive, Holds
    <2>5. RequestsCurrent'
      BY <1>2, <2>1 DEF RequestsCurrent
    <2> QED BY <2>3, <2>4, <2>5 DEF SerialInv
  <1>4. CASE Settles(w, s)
    <2>1. /\ worker[w].cur \in Tasks /\ worker[w].cur \in worker[w].batch
          /\ s.batch = worker[w].batch \ {worker[w].cur}
      BY <1>1, <1>4 DEF Settles, OneAtATime
    <2>2. \A u \in Tasks \ {worker[w].cur} : task'[u].status = task[u].status
      BY <1>4, <2>1, UpdateRow DEF Settles, Actions
    <2>3. task[worker[w].cur].status = "running"
      BY <2>1 DEF SerialInv, HeldRowsRun
    <2>4. \A v \in Workers \ {w} : worker[w].cur \notin worker[v].batch
      BY <2>1 DEF SerialInv, ClaimIsExclusive, Holds
    <2>5. HeldRowsRun'
      BY <1>0, <1>1, <2>1, <2>2, <2>4 DEF SerialInv, HeldRowsRun
    <2>6. ClaimIsExclusive'
      BY <1>0, <2>1 DEF SerialInv, ClaimIsExclusive, Holds
    <2>7. RequestsCurrent'
      BY <1>2, <2>2, <2>3 DEF RequestsCurrent
    <2> QED BY <2>5, <2>6, <2>7 DEF SerialInv
  <1>5. CASE TakesTask(w, s) \/ WorksOn(w, s) \/ Drops(w, s)
    <2>1. task' = task /\ s.batch \subseteq worker[w].batch
      BY <1>5 DEF TakesTask, WorksOn, Drops, Keeps, IdleWorker
    <2> QED BY <1>0, <2>1 DEF SerialInv, HeldRowsRun, ClaimIsExclusive, Holds, RequestsCurrent
  <1> QED BY <1>3, <1>4, <1>5 DEF Kinds, LosesBatch, OneAtATime

LEMMA SerialNext ==
    ASSUME OneAtATime PROVE TypeOK /\ HandsInv /\ SerialInv /\ [Next]_vars => SerialInv'
  <1> SUFFICES ASSUME TypeOK, HandsInv, SerialInv, [Next]_vars PROVE SerialInv'
    OBVIOUS
  <1>1. CASE UNCHANGED vars
    BY <1>1 DEF vars, SerialInv, HeldRowsRun, ClaimIsExclusive, Holds, RequestsCurrent
  <1>2. ASSUME NEW c \in Clients, ClientStep(c) PROVE SerialInv'
    BY <1>2, HeldRowsClient, RequestsClient DEF SerialInv
  <1>3. ASSUME NEW w \in Workers, WorkerStep(w) \/ WorkerFault(w) PROVE SerialInv'
    BY <1>3, WorkerKinds, SerialWorker
  <1> QED BY <1>1, <1>2, <1>3 DEF Next

LEMMA SerialHolds ==
    ASSUME OneAtATime PROVE Spec => []SerialInv
  BY SerialInit, SerialNext, TypeCorrect, HandsHold, PTL DEF Spec

\* With one operator at a time and no lost acknowledgements, no two workers
\* have the same task, however many there are and whichever of them crash or
\* fail to write: the claim marks its rows in the transaction that picks them.
THEOREM Exclusive ==
    ASSUME OneAtATime PROVE Spec => []ClaimIsExclusive
  <1>1. SerialInv => ClaimIsExclusive
    BY DEF SerialInv
  <1> QED BY <1>1, SerialHolds, PTL
===========================================================================
