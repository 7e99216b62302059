------------------------ MODULE ToolApproval_proofs ------------------------
(***************************************************************************)
(* The proof that TemporalTasks implements ToolApproval when operators     *)
(* decide one at a time and no acknowledgement of the store is lost.       *)
(***************************************************************************)
EXTENDS TemporalTasks_proofs

USE ConstantsAssumption, TemporalAssumption DEF Tasks

Granted(t) == log[t]["approved"] + log[t]["retried"] > 0

----------------------------------------------------------------------------
(* What a step does to one row.                                            *)

KindStays(t) ==
    /\ task'[t].type = task[t].type
    /\ task'[t].requiresApproval = task[t].requiresApproval

DecisionsStay(t) ==
    /\ log'[t]["approved"] = log[t]["approved"]
    /\ log'[t]["retried"] = log[t]["retried"]

RowStays(t) ==
    /\ KindStays(t) /\ DecisionsStay(t)
    /\ task'[t].status = task[t].status /\ task'[t].auditRef = task[t].auditRef

\* The row is inserted, ...
RowCreated(t) ==
    /\ ~Exists(t)
    /\ DecisionsStay(t)
    /\ task'[t].status = IF task'[t].requiresApproval THEN "waiting_approval" ELSE "queued"

\* ... put in the queue by an operator, ...
RowQueued(c, t) ==
    /\ t = api[c].id /\ KindStays(t)
    /\ task'[t].status = "queued"
    /\ \/ /\ api[c].pc = "approving" /\ task'[t].auditRef = "approval"
          /\ log'[t]["approved"] = log[t]["approved"] + 1
          /\ log'[t]["retried"] = log[t]["retried"]
       \/ /\ api[c].pc = "retrying" /\ task'[t].auditRef = "retry"
          /\ log'[t]["approved"] = log[t]["approved"]
          /\ log'[t]["retried"] = log[t]["retried"] + 1

\* ... given up because its workflow could not be started, ...
RowGivenUp(c, t) ==
    /\ t = api[c].id /\ api[c].pc = "starting"
    /\ KindStays(t) /\ DecisionsStay(t)
    /\ task'[t].status = "failed" /\ task'[t].auditRef = "start_failed"

\* ... claimed, ...
RowClaimed(t) ==
    /\ KindStays(t) /\ DecisionsStay(t)
    /\ task[t].status = "queued"
    /\ task'[t].status = "running" /\ task'[t].auditRef = task[t].auditRef

\* ... or written back with the outcome.
RowSettled(w, t) ==
    /\ t = worker[w].cur /\ t \in worker[w].batch
    /\ worker[w].pc \in {"finalizing", "updating"}
    /\ KindStays(t) /\ DecisionsStay(t)
    /\ worker[w].status \in {"succeeded", "failed"}
    /\ task'[t].status = worker[w].status /\ task'[t].auditRef = "worker"

LEMMA LogType ==
    ASSUME TypeOK, NEW t \in Tasks
    PROVE  log[t]["approved"] \in Nat /\ log[t]["retried"] \in Nat
  <1>1. log \in [Tasks -> [Actions -> Nat]]
    BY DEF TypeOK
  <1> QED BY <1>1 DEF Actions

LEMMA ClientRows ==
    ASSUME TypeOK, NEW c \in Clients, ClientStep(c), NEW t \in Tasks
    PROVE  RowStays(t) \/ RowCreated(t) \/ RowQueued(c, t) \/ RowGivenUp(c, t)
  <1>0. log[t]["approved"] \in Nat /\ log[t]["retried"] \in Nat
    BY LogType
  <1>1. CASE Inserts(c)
    <2>1. PICK u \in Tasks, type \in TaskTypes, ra \in BOOLEAN :
            ~Exists(u) /\ CreateTaskWithEvent(u, NewRow(type, ra))
      BY <1>1 DEF Inserts
    <2>2. /\ t # u => task'[t] = task[t]
          /\ task'[u].requiresApproval = ra
          /\ task'[u].status = IF ra THEN "waiting_approval" ELSE "queued"
          /\ DecisionsStay(t)
      BY <1>0, <2>1, CreateRow DEF DecisionsStay, Actions
    <2>3. CASE t = u
      BY <2>1, <2>2, <2>3 DEF RowCreated
    <2>4. CASE t # u
      BY <2>2, <2>4 DEF RowStays, KindStays
    <2> QED BY <2>3, <2>4
  <1>2. CASE Decides(c)
    <2>1. api[c].id \in Tasks
      BY <1>2 DEF Decides
    <2>2. PICK status \in {"queued", "failed"}, ref \in AuditRefs, version \in BOOLEAN,
               action \in {"approved", "retried", "failed"} :
             /\ UpdateTaskWithEvent(api[c].id, status, ref, version, action)
             /\ Decision(c, status, ref, action)
      BY <1>2 DEF Decides
    <2>3. /\ KindStays(t)
          /\ task'[t].status = IF t = api[c].id THEN status ELSE task[t].status
          /\ task'[t].auditRef = IF t = api[c].id THEN ref ELSE task[t].auditRef
          /\ \A a \in Actions :
                log'[t][a] = log[t][a] + IF t = api[c].id /\ a = action THEN 1 ELSE 0
      BY <2>1, <2>2, UpdateRow DEF KindStays, Actions
    <2>4. /\ log'[t]["approved"] =
                log[t]["approved"] + IF t = api[c].id /\ action = "approved" THEN 1 ELSE 0
          /\ log'[t]["retried"] =
                log[t]["retried"] + IF t = api[c].id /\ action = "retried" THEN 1 ELSE 0
      BY <2>3 DEF Actions
    <2>5. CASE t # api[c].id
      BY <1>0, <2>3, <2>4, <2>5 DEF RowStays, DecisionsStay
    <2>6. CASE t = api[c].id
      BY <1>0, <2>2, <2>3, <2>4, <2>6 DEF Decision, RowQueued, RowGivenUp, DecisionsStay
    <2> QED BY <2>5, <2>6
  <1>3. CASE UNCHANGED store
    BY <1>3 DEF store, RowStays, KindStays, DecisionsStay
  <1> QED BY <1>1, <1>2, <1>3, ClientKinds

LEMMA WorkerRows ==
    ASSUME TypeOK, NEW w \in Workers, NEW s, Kinds(w, s), NEW t \in Tasks
    PROVE  RowStays(t) \/ RowClaimed(t) \/ RowSettled(w, t)
  <1>0. log[t]["approved"] \in Nat /\ log[t]["retried"] \in Nat
    BY LogType
  <1>1. CASE TakesBatch(w, s) \/ LosesBatch(w, s)
    <2>1. PICK ids \in SUBSET Queued : ClaimRows(ids)
      BY <1>1 DEF TakesBatch, LosesBatch
    <2>2. /\ KindStays(t) /\ DecisionsStay(t)
          /\ task'[t].status = IF t \in ids THEN "running" ELSE task[t].status
          /\ task'[t].auditRef = task[t].auditRef
      BY <1>0, <2>1, ClaimRow DEF KindStays, DecisionsStay, Actions
    <2> QED BY <2>1, <2>2 DEF RowStays, RowClaimed, Queued
  <1>2. CASE TakesTask(w, s) \/ WorksOn(w, s) \/ Drops(w, s)
    BY <1>2 DEF TakesTask, WorksOn, Drops, RowStays, KindStays, DecisionsStay
  <1>3. CASE Settles(w, s)
    <2>1. worker[w].cur \in Tasks
      BY <1>3 DEF Settles, TypeOK, WorkerState
    <2>2. PICK version \in BOOLEAN, action \in {"succeeded", "failed"} :
            UpdateTaskWithEvent(worker[w].cur, worker[w].status, "worker", version, action)
      BY <1>3 DEF Settles
    <2>3. /\ KindStays(t)
          /\ task'[t].status = IF t = worker[w].cur THEN worker[w].status ELSE task[t].status
          /\ task'[t].auditRef = IF t = worker[w].cur THEN "worker" ELSE task[t].auditRef
          /\ DecisionsStay(t)
      BY <1>0, <2>1, <2>2, UpdateRow DEF KindStays, DecisionsStay, Actions
    <2> QED BY <1>3, <2>3 DEF RowStays, RowSettled, Settles
  <1> QED BY <1>1, <1>2, <1>3 DEF Kinds

----------------------------------------------------------------------------
(* What the rows tell of decisions.                                        *)

\* Nobody has decided about a row that is not there, and a gated row is queued
\* and runs because somebody approved or retried it.
NoEarlyDecision == \A t \in Tasks : ~Exists(t) => log[t]["approved"] = 0 /\ log[t]["retried"] = 0

QueuedByDecision ==
    \A t \in Tasks : Gated(t) /\ task[t].status \in {"queued", "running"} =>
        task[t].auditRef \in {"approval", "retry"} /\ Granted(t)

RowsInv == NoEarlyDecision /\ QueuedByDecision

LEMMA RowsInit == Init => RowsInv
  <1> SUFFICES ASSUME Init PROVE RowsInv
    OBVIOUS
  <1>1. ASSUME NEW t \in Tasks
        PROVE  ~Gated(t) /\ log[t]["approved"] = 0 /\ log[t]["retried"] = 0
    <2>1. task[t] = IF t \in Legacy THEN [NoRow EXCEPT !.status = "queued"] ELSE NoRow
      BY DEF Init
    <2>2. task[t].type = "report_generation"
      BY <2>1 DEF NoRow
    <2> QED BY <2>2 DEF Init, Gated, Actions
  <1> QED BY <1>1 DEF RowsInv, NoEarlyDecision, QueuedByDecision

\* A decision once made stays made.
LEMMA GrantedStays ==
    ASSUME TypeOK, NEW t \in Tasks, Granted(t),
           \/ RowStays(t) \/ RowCreated(t) \/ RowClaimed(t)
           \/ \E c \in Clients : RowQueued(c, t) \/ RowGivenUp(c, t)
           \/ \E w \in Workers : RowSettled(w, t)
    PROVE  Granted(t)'
  <1>0. log[t]["approved"] \in Nat /\ log[t]["retried"] \in Nat
    BY LogType
  <1> QED BY <1>0 DEF Granted, RowStays, RowCreated, RowClaimed, RowQueued, RowGivenUp, RowSettled,
                  DecisionsStay

LEMMA RowsNext == TypeOK /\ HandsInv /\ RowsInv /\ [Next]_vars => RowsInv'
  <1> SUFFICES ASSUME TypeOK, HandsInv, RowsInv, [Next]_vars PROVE RowsInv'
    OBVIOUS
  <1>1. SUFFICES ASSUME NEW t \in Tasks
        PROVE  /\ ~Exists(t)' => log'[t]["approved"] = 0 /\ log'[t]["retried"] = 0
               /\ Gated(t)' /\ task'[t].status \in {"queued", "running"} =>
                    task'[t].auditRef \in {"approval", "retry"} /\ Granted(t)'
    BY DEF RowsInv, NoEarlyDecision, QueuedByDecision
  <1>2. log[t]["approved"] \in Nat /\ log[t]["retried"] \in Nat
    BY LogType
  <1>3. CASE RowStays(t)
    BY <1>3 DEF RowsInv, NoEarlyDecision, QueuedByDecision, RowStays, KindStays, DecisionsStay,
                Exists, Gated, Granted
  <1>4. CASE RowCreated(t)
    BY <1>4 DEF RowCreated, Exists, Gated
  <1>5. CASE RowClaimed(t)
    BY <1>5 DEF RowsInv, QueuedByDecision, RowClaimed, KindStays, DecisionsStay, Exists, Gated,
                Granted
  <1>6. ASSUME NEW w \in Workers, RowSettled(w, t)
        PROVE  Exists(t)' /\ task'[t].status \notin {"queued", "running"}
    BY <1>6 DEF RowSettled, Exists
  <1>7. ASSUME NEW c \in Clients, RowQueued(c, t)
        PROVE  Exists(t)' /\ task'[t].auditRef \in {"approval", "retry"} /\ Granted(t)'
    BY <1>2, <1>7 DEF RowQueued, Exists, Granted
  <1>8. ASSUME NEW c \in Clients, RowGivenUp(c, t)
        PROVE  Exists(t)' /\ task'[t].status \notin {"queued", "running"}
    BY <1>8 DEF RowGivenUp, Exists
  <1>9. \/ RowStays(t) \/ RowCreated(t) \/ RowClaimed(t)
        \/ \E c \in Clients : RowQueued(c, t) \/ RowGivenUp(c, t)
        \/ \E w \in Workers : RowSettled(w, t)
    <2>1. CASE UNCHANGED vars
      BY <2>1 DEF vars, RowStays, KindStays, DecisionsStay
    <2>2. ASSUME NEW c \in Clients, ClientStep(c)
          PROVE  RowStays(t) \/ RowCreated(t) \/ RowQueued(c, t) \/ RowGivenUp(c, t)
      BY <2>2, ClientRows
    <2>3. ASSUME NEW w \in Workers, WorkerStep(w) \/ WorkerFault(w)
          PROVE  RowStays(t) \/ RowClaimed(t) \/ RowSettled(w, t)
      BY <2>3, WorkerKinds, WorkerRows
    <2> QED BY <2>1, <2>2, <2>3 DEF Next
  <1> QED BY <1>3, <1>4, <1>5, <1>6, <1>7, <1>8, <1>9

LEMMA RowsHold == TSpec => []RowsInv
  <1>1. Spec => []RowsInv
    BY RowsInit, RowsNext, TypeCorrect, HandsHold, PTL DEF Spec
  <1> QED BY <1>1, TemporalImplementsTasks, PTL

----------------------------------------------------------------------------
(* The snapshots of the workers.                                           *)

\* What a worker knows of a task that it holds is what the row says.
SnapsCurrent ==
    \A w \in Workers : \A t \in worker[w].batch :
        /\ worker[w].snap[t].type = task[t].type
        /\ worker[w].snap[t].auditRef = task[t].auditRef

\* A snapshot is taken with the claim, and kept but for the version.
SnapKept(w, t) ==
    \/ worker'[w].snap[t] = task'[t] /\ worker[w].batch = {}
    \/ /\ t \in worker[w].batch
       /\ worker'[w].snap[t].type = worker[w].snap[t].type
       /\ worker'[w].snap[t].auditRef = worker[w].snap[t].auditRef

LEMMA SnapsKept ==
    ASSUME TypeOK, HandsInv, NEW w \in Workers, WorkerStep(w) \/ WorkerFault(w),
           NEW t \in Tasks, t \in worker'[w].batch
    PROVE  SnapKept(w, t)
  <1>0. worker[w] \in WorkerState /\ HandsOK(worker[w])
    BY DEF TypeOK, HandsInv
  <1>1. ASSUME NEW s, worker' = [worker EXCEPT ![w] = s] PROVE worker'[w] = s
    BY <1>1 DEF TypeOK
  <1>2. ASSUME worker'[w].batch = worker[w].batch, worker'[w].snap = worker[w].snap
        PROVE  SnapKept(w, t)
    BY <1>2 DEF SnapKept
  <1>3. CASE ClaimQueuedTasks(w)
    <2> DEFINE s(ids) == [IdleWorker EXCEPT !.pc = "next", !.batch = ids,
                             !.snap = [u \in Tasks |-> IF u \in ids THEN task'[u] ELSE NoRow]]
    <2>1. PICK ids : worker' = [worker EXCEPT ![w] = s(ids)]
      BY <1>3 DEF ClaimQueuedTasks
    <2>2. s(ids).batch = ids /\ (t \in ids => s(ids).snap[t] = task'[t])
      BY DEF IdleWorker
    <2> HIDE DEF s
    <2>3. worker[w].batch = {}
      BY <1>0, <1>3 DEF ClaimQueuedTasks, HandsOK
    <2> QED BY <1>1, <2>1, <2>2, <2>3 DEF SnapKept
  <1>4. CASE ExecuteStart(w)
    <2> DEFINE s(u) == [worker[w] EXCEPT !.pc = "executing", !.cur = u]
    <2>1. PICK u : worker' = [worker EXCEPT ![w] = s(u)]
      BY <1>4 DEF ExecuteStart
    <2>2. s(u).batch = worker[w].batch /\ s(u).snap = worker[w].snap
      BY <1>0 DEF WorkerState
    <2> HIDE DEF s
    <2> QED BY <1>1, <1>2, <2>1, <2>2
  <1>5. CASE ExecuteSucceeds(w)
    <2> DEFINE row == worker[w].snap[worker[w].cur]
               p == IF row.type # "report_generation" THEN "updating"
                    ELSE IF row.version THEN "finalizing" ELSE "versioning"
               s == [worker[w] EXCEPT !.pc = p, !.status = "succeeded"]
    <2>1. worker' = [worker EXCEPT ![w] = s]
      BY <1>5 DEF ExecuteSucceeds
    <2> HIDE DEF p
    <2>2. s.batch = worker[w].batch /\ s.snap = worker[w].snap
      BY <1>0 DEF WorkerState
    <2> HIDE DEF s
    <2> QED BY <1>1, <1>2, <2>1, <2>2
  <1>6. Failed(w).batch = worker[w].batch /\ Failed(w).snap = worker[w].snap
    BY <1>0 DEF Failed, WorkerState
  <1>7. CASE ExecuteFails(w) \/ FinalizeRolledBack(w) \/ FinalizeLost(w)
    <2>1. worker'[w] = Failed(w)
      BY <1>1, <1>7 DEF ExecuteFails, FinalizeRolledBack, FinalizeLost
    <2> QED BY <1>2, <1>6, <2>1
  <1>8. CASE VersionFound(w)
    <2> DEFINE s == [worker[w] EXCEPT !.pc = "finalizing", !.snap = Versioned(w)]
    <2>1. s.batch = worker[w].batch /\ s.snap = Versioned(w)
      BY <1>0 DEF WorkerState
    <2>2. worker' = [worker EXCEPT ![w] = s]
      BY <1>8 DEF VersionFound
    <2> HIDE DEF s
    <2>3. worker[w].snap[t] \in Row
      BY <1>0 DEF WorkerState
    <2>4. /\ Versioned(w)[t].type = worker[w].snap[t].type
          /\ Versioned(w)[t].auditRef = worker[w].snap[t].auditRef
      BY <2>3 DEF Versioned, Row
    <2> QED BY <1>1, <2>1, <2>2, <2>4 DEF SnapKept
  <1>9. CASE VersionError(w)
    <2> DEFINE s == [worker[w] EXCEPT !.pc = "finalizing", !.status = "failed"]
    <2>1. s.batch = worker[w].batch /\ s.snap = worker[w].snap
      BY <1>0 DEF WorkerState
    <2>2. worker' = [worker EXCEPT ![w] = s]
      BY <1>9 DEF VersionError
    <2> HIDE DEF s
    <2> QED BY <1>1, <1>2, <2>1, <2>2
  <1>10. CASE RecordGeneratedReport(w)
    <2> DEFINE s == [worker[w] EXCEPT !.pc = "updating"]
    <2>1. s.batch = worker[w].batch /\ s.snap = worker[w].snap
      BY <1>0 DEF WorkerState
    <2>2. worker' = [worker EXCEPT ![w] = s]
      BY <1>10 DEF RecordGeneratedReport
    <2> HIDE DEF s
    <2> QED BY <1>1, <1>2, <2>1, <2>2
  <1>11. CASE FinalizeReport(w) \/ WriteOutcome(w)
    <2>1. worker'[w] = Advanced(w)
      BY <1>1, <1>11 DEF FinalizeReport, WriteOutcome
    <2>2. Advanced(w).batch = worker[w].batch \ {worker[w].cur}
      BY AdvancedHands
    <2>3. worker[w].batch \ {worker[w].cur} # {} /\ t # worker[w].cur
      BY <2>1, <2>2
    <2>4. Advanced(w).snap[t] = worker[w].snap[t]
      BY <1>0, <2>3 DEF Advanced, WorkerState
    <2> QED BY <2>1, <2>2, <2>4 DEF SnapKept
  <1>12. CASE OutcomeRolledBack(w) \/ OutcomeLost(w) \/ Crash(w)
    <2>1. worker'[w] = IdleWorker
      BY <1>1, <1>12 DEF OutcomeRolledBack, OutcomeLost, Crash
    <2> QED BY <2>1 DEF IdleWorker
  <1>13. CASE ClaimLost(w)
    BY <1>2, <1>13 DEF ClaimLost
  <1> QED BY <1>3, <1>4, <1>5, <1>7, <1>8, <1>9, <1>10, <1>11, <1>12, <1>13
          DEF WorkerStep, WorkerFault

\* Nobody writes a row that a worker holds, before it lets go of it.
LEMMA HeldRowStays ==
    ASSUME OneAtATime, TypeOK, HandsInv, SerialInv, [Next]_vars, NEW v \in Workers,
           NEW t \in worker[v].batch, t \in worker'[v].batch
    PROVE  task'[t].type = task[t].type /\ task'[t].auditRef = task[t].auditRef
  <1>0. t \in Tasks /\ task[t].status = "running"
    BY DEF TypeOK, WorkerState, SerialInv, HeldRowsRun
  <1>1. CASE UNCHANGED vars
    BY <1>1 DEF vars
  <1>2. ASSUME NEW c \in Clients, ClientStep(c) PROVE RowStays(t)
    <2>1. api[c].pc # "idle" => task[api[c].id].status # "running"
      BY DEF SerialInv, RequestsCurrent, Awaited
    <2> QED BY <1>0, <1>2, <2>1, ClientRows DEF RowCreated, RowQueued, RowGivenUp, Exists
  <1>3. ASSUME NEW w \in Workers, WorkerStep(w) \/ WorkerFault(w) PROVE RowStays(t) \/ RowClaimed(t)
    <2>1. PICK s : worker' = [worker EXCEPT ![w] = s] /\ Kinds(w, s)
      BY <1>3, WorkerKinds
    <2>2. ASSUME RowSettled(w, t) PROVE FALSE
      <3>1. v = w
        BY <1>0, <2>2 DEF RowSettled, SerialInv, ClaimIsExclusive, Holds
      <3>2. worker'[w] = s
        BY <2>1 DEF TypeOK
      <3>3. t = worker[w].cur /\ t \in s.batch /\ ~RowStays(t) /\ ~RowClaimed(t)
        BY <1>0, <2>2, <3>1, <3>2 DEF RowSettled, RowStays, RowClaimed
      <3>4. CASE Settles(w, s)
        BY <3>3, <3>4 DEF Settles, OneAtATime
      <3>5. CASE TakesBatch(w, s) \/ LosesBatch(w, s)
        BY <3>1, <3>5 DEF TakesBatch, LosesBatch, OneAtATime
      <3>6. CASE TakesTask(w, s) \/ WorksOn(w, s) \/ Drops(w, s)
        BY <3>3, <3>6 DEF TakesTask, WorksOn, Drops, RowStays, KindStays, DecisionsStay
      <3> QED BY <2>1, <3>4, <3>5, <3>6 DEF Kinds
    <2> QED BY <1>0, <2>1, <2>2, WorkerRows
  <1> QED BY <1>1, <1>2, <1>3 DEF Next, RowStays, RowClaimed, KindStays

LEMMA SnapsNext ==
    ASSUME OneAtATime
    PROVE  TypeOK /\ HandsInv /\ SerialInv /\ TypeOK' /\ SnapsCurrent /\ [Next]_vars => SnapsCurrent'
  <1> SUFFICES ASSUME TypeOK, HandsInv, SerialInv, TypeOK', SnapsCurrent, [Next]_vars,
                      NEW v \in Workers, NEW t \in worker'[v].batch
               PROVE  /\ worker'[v].snap[t].type = task'[t].type
                      /\ worker'[v].snap[t].auditRef = task'[t].auditRef
    BY DEF SnapsCurrent
  <1>0. t \in Tasks
    BY DEF TypeOK, WorkerState
  <1>1. CASE worker'[v] = worker[v]
    BY <1>1, HeldRowStays DEF SnapsCurrent
  <1>2. CASE worker'[v] # worker[v]
    <2>1. ASSUME NEW c \in Clients, ClientStep(c) PROVE worker' = worker
      BY <2>1, ClientKinds
    <2>2. ASSUME NEW w \in Workers, WorkerStep(w) \/ WorkerFault(w), v # w
          PROVE  worker'[v] = worker[v]
      BY <2>2, WorkerKinds DEF TypeOK
    <2>3. WorkerStep(v) \/ WorkerFault(v)
      BY <1>2, <2>1, <2>2 DEF Next, vars
    <2>4. SnapKept(v, t)
      BY <1>0, <2>3, SnapsKept
    <2> QED BY <2>4, HeldRowStays DEF SnapKept, SnapsCurrent
  <1> QED BY <1>1, <1>2

LEMMA SerialTemporal ==
    ASSUME OneAtATime PROVE TSpec => [](SerialInv /\ SnapsCurrent)
  <1>1. Init => SnapsCurrent
    BY DEF Init, SnapsCurrent, IdleWorker
  <1>2. Spec => []SnapsCurrent
    BY <1>1, SnapsNext, SerialHolds, TypeCorrect, HandsHold, PTL DEF Spec
  <1> QED BY <1>2, SerialHolds, TemporalImplementsTasks, PTL

----------------------------------------------------------------------------
(* Approvals that have not reached Temporal yet.                           *)

\* Worker w has claimed t and not submitted it.
HeldBack(w, t) ==
    /\ t \in worker[w].batch
    /\ worker[w].cur # t \/ (worker[w].pc = "executing" /\ attached[w] = 0)

\* Task t waits for its approval, or the approval for its submission.
Fresh(t) ==
    \/ task[t].status = "waiting_approval"
    \/ /\ task[t].auditRef = "approval"
       /\ task[t].status = "queued" \/ \E w \in Workers : HeldBack(w, t)

AnyClientStep(c) == StartTaskReturns(c) \/ StartTaskErrs(c) \/ OtherClientStep(c) \/ DecisionErrs(c)

AnyWorkerStep(w) ==
    TemporalWorkerStep(w) \/ SubmitErrs(w) \/ ResultLost(w) \/ OtherWorkerFault(w)

\* What is known of tasks and runs so far.
Known == TypeOK /\ HandsInv /\ TInv /\ RowsInv /\ SerialInv /\ SnapsCurrent

LEMMA WorkerImplements ==
    ASSUME NEW w \in Workers, AnyWorkerStep(w)
    PROVE  WorkerStep(w) \/ WorkerFault(w) \/ (SubmitWorkflow(w) /\ UNCHANGED vars)
  BY GetResultSteps
     DEF AnyWorkerStep, TemporalWorkerStep, SubmitWorkflow, SubmitRefused, ResultArrives,
         FallbackExecutes, OtherWorkerStep, SubmitErrs, ResultLost, OtherWorkerFault, WorkerStep

\* A worker that has taken up a task of its batch and not submitted it, had
\* not done so before.
LEMMA HeldBackBefore ==
    ASSUME OneAtATime, Known, NEW w \in Workers, AnyWorkerStep(w), NEW t \in Tasks,
           HeldBack(w, t)', task'[t].auditRef = "approval"
    PROVE  Fresh(t)
  <1>0. TypeOK /\ HandsInv /\ TInv /\ SerialInv /\ RunsOK
    BY DEF Known, TInv
  <1>1. Begins(w) \/ Submits(w) \/ Ends(w)
    BY <1>0, WorkerEffects DEF AnyWorkerStep
  <1>2. ASSUME worker'[w].cur = t, worker[w].cur = t PROVE FALSE
    <2>1. worker'[w].pc = "executing" /\ attached'[w] = 0
      BY <1>2 DEF HeldBack
    <2>2. CASE Begins(w)
      BY <1>0, <1>2, <2>2 DEF Begins, HandsInv, HandsOK
    <2>3. CASE Submits(w)
      <3>1. Len(wf'[t]) # 0 /\ worker[w].cur \in Tasks
        BY <1>0, <1>2, <2>1, <2>3, OpenLast, ActivatesGrow DEF Submits
      <3> QED BY <1>2, <2>1, <2>3, <3>1 DEF Submits
    <2>4. CASE Ends(w)
      BY <2>1, <2>4 DEF Ends
    <2> QED BY <1>1, <2>2, <2>3, <2>4
  <1>3. CASE SubmitWorkflow(w) /\ UNCHANGED vars
    <2>1. worker' = worker /\ task' = task
      BY <1>3 DEF vars
    <2>2. worker[w].cur # t /\ t \in worker[w].batch
      BY <1>2, <2>1 DEF HeldBack
    <2> QED BY <2>1, <2>2 DEF Fresh, HeldBack
  <1>4. CASE WorkerStep(w) \/ WorkerFault(w)
    <2>1. PICK s : worker' = [worker EXCEPT ![w] = s] /\ HandsOK(s) /\ Kinds(w, s)
      BY <1>0, <1>4, WorkerKinds
    <2>2. worker'[w] = s /\ t \in s.batch
      BY <1>0, <2>1 DEF TypeOK, HeldBack
    <2>3. ASSUME t \in worker[w].batch, worker[w].cur # t, task'[t].auditRef = task[t].auditRef
          PROVE  Fresh(t)
      BY <2>3 DEF Fresh, HeldBack
    <2>4. CASE TakesBatch(w, s)
      <3>1. task[t].status = "queued" /\ task'[t].auditRef = task[t].auditRef
        BY <1>0, <2>2, <2>4, ClaimRow DEF TakesBatch, Queued
      <3> QED BY <3>1 DEF Fresh
    <2>5. CASE LosesBatch(w, s)
      BY <2>5 DEF LosesBatch, OneAtATime
    <2>6. CASE TakesTask(w, s)
      BY <2>2, <2>3, <2>6 DEF TakesTask
    <2>7. CASE WorksOn(w, s)
      BY <1>2, <2>2, <2>3, <2>7 DEF WorksOn, Keeps
    <2>8. CASE Settles(w, s)
      <3>1. t \in worker[w].batch /\ worker[w].cur # t /\ worker[w].cur \in Tasks
        BY <1>0, <2>2, <2>8 DEF Settles, OneAtATime, TypeOK, WorkerState
      <3>2. task'[t].auditRef = task[t].auditRef
        BY <1>0, <2>8, <3>1, UpdateRow DEF Settles, Actions
      <3> QED BY <2>3, <3>1, <3>2
    <2>9. CASE Drops(w, s)
      BY <2>2, <2>9 DEF Drops, IdleWorker
    <2> QED BY <2>1, <2>4, <2>5, <2>6, <2>7, <2>8, <2>9 DEF Kinds
  <1> QED BY <1>3, <1>4, WorkerImplements

\* A task that was submitted once is never fresh again.
LEMMA FreshWorker ==
    ASSUME OneAtATime, Known, NEW w \in Workers, AnyWorkerStep(w), NEW t \in Tasks, Fresh(t)'
    PROVE  Fresh(t)
  <1>0. TypeOK /\ HandsInv /\ TInv
    BY DEF Known
  <1>1. RowStays(t) \/ RowClaimed(t) \/ RowSettled(w, t)
    <2>1. CASE SubmitWorkflow(w) /\ UNCHANGED vars
      BY <2>1 DEF vars, RowStays, KindStays, DecisionsStay
    <2>2. CASE WorkerStep(w) \/ WorkerFault(w)
      BY <1>0, <2>2, WorkerKinds, WorkerRows
    <2> QED BY <2>1, <2>2, WorkerImplements
  <1>2. CASE task'[t].status \in {"waiting_approval", "queued"}
    BY <1>1, <1>2 DEF Fresh, RowStays, RowClaimed, RowSettled
  <1>3. CASE task'[t].status \notin {"waiting_approval", "queued"}
    <2>1. task'[t].auditRef = "approval"
      BY <1>3 DEF Fresh
    <2>2. PICK v \in Workers : HeldBack(v, t)'
      BY <1>3 DEF Fresh
    <2>3. CASE v = w
      BY <2>1, <2>2, <2>3, HeldBackBefore
    <2>4. CASE v # w
      <3>1. worker'[v] = worker[v] /\ attached'[v] = attached[v]
        BY <1>0, <2>4, WorkerEffects DEF AnyWorkerStep
      <3>2. HeldBack(v, t)
        BY <2>2, <3>1 DEF HeldBack
      <3>3. task[t].auditRef = "approval"
        BY <1>1, <2>1 DEF RowStays, RowClaimed, RowSettled
      <3> QED BY <3>2, <3>3 DEF Fresh
    <2> QED BY <2>3, <2>4
  <1> QED BY <1>2, <1>3

LEMMA FreshClient ==
    ASSUME Known, NEW c \in Clients, AnyClientStep(c), NEW t \in Tasks, Exists(t), Fresh(t)'
    PROVE  Fresh(t)
  <1>0. TypeOK /\ RunsOK /\ SerialInv
    BY DEF Known, TInv
  <1>1. ClientStep(c) /\ worker' = worker /\ attached' = attached
    BY <1>0, ClientEffects DEF AnyClientStep
  <1>2. RowStays(t) \/ RowQueued(c, t) \/ RowGivenUp(c, t)
    BY <1>0, <1>1, ClientRows DEF RowCreated
  <1>3. CASE RowStays(t)
    <2>1. \A w \in Workers : HeldBack(w, t)' => HeldBack(w, t)
      BY <1>1 DEF HeldBack
    <2> QED BY <1>3, <2>1 DEF Fresh, RowStays
  <1>4. CASE RowQueued(c, t)
    <2>1. api[c].pc = "approving"
      BY <1>4 DEF RowQueued, Fresh
    <2>2. task[t].status = "waiting_approval"
      BY <1>0, <1>4, <2>1 DEF SerialInv, RequestsCurrent, Awaited, RowQueued
    <2> QED BY <2>2 DEF Fresh
  <1>5. CASE RowGivenUp(c, t)
    BY <1>5 DEF RowGivenUp, Fresh
  <1> QED BY <1>2, <1>3, <1>4, <1>5

----------------------------------------------------------------------------
(* What a step does to the runs of one task.                               *)

\* The runs of t that completed.
Done(t) == {i \in DOMAIN wf[t] : wf[t][i].state = "completed"}

\* The newest run of t, a new one or one that was open, gets to a state.
NewestGets(t, state) ==
    /\ Len(wf'[t]) \in DOMAIN wf'[t] /\ wf'[t][Len(wf'[t])].state = state
    /\ \A i \in DOMAIN wf'[t] : i # Len(wf'[t]) => i \in DOMAIN wf[t] /\ wf'[t][i] = wf[t][i]
    /\ \A i \in Done(t) : i \in DOMAIN wf'[t] /\ i # Len(wf'[t])

LEMMA StartedNewest ==
    ASSUME RunsOK, NEW t \in Tasks, NEW state \in {"waiting", "active"}, wf' = Started(t, state)
    PROVE  NewestGets(t, state) /\ \A u \in Tasks \ {t} : wf'[u] = wf[u]
  <1>1. /\ wf'[t] \in Seq(OpenRun) /\ wf[t] \in Seq(OpenRun)
        /\ Len(wf'[t]) = Len(wf[t]) + 1
        /\ \A i \in DOMAIN wf[t] : i \in DOMAIN wf'[t] /\ wf'[t][i] = wf[t][i]
        /\ wf'[t][Len(wf'[t])] = NewRun(state)
        /\ \A u \in Tasks \ {t} : wf'[u] = wf[u]
    BY StartedRuns DEF RunsOK
  <1>2. /\ DOMAIN wf[t] = 1..Len(wf[t]) /\ DOMAIN wf'[t] = 1..Len(wf'[t])
        /\ Len(wf[t]) \in Nat
    BY <1>1
  <1> QED BY <1>1, <1>2 DEF NewestGets, Done, NewRun

LEMMA SetNewest ==
    ASSUME RunsOK, NEW t \in Tasks, NEW run \in OpenRun, Open(t), wf' = NewestSet(t, run)
    PROVE  NewestGets(t, run.state) /\ \A u \in Tasks \ {t} : wf'[u] = wf[u]
  <1>1. LastState(t) # "none" /\ LastState(t) # "completed"
    BY DEF Open
  <1>2. /\ DOMAIN wf'[t] = DOMAIN wf[t] /\ Len(wf'[t]) = Len(wf[t])
        /\ Len(wf[t]) \in DOMAIN wf[t]
        /\ \A i \in DOMAIN wf[t] : wf'[t][i] = IF i = Len(wf[t]) THEN run ELSE wf[t][i]
        /\ \A u \in Tasks \ {t} : wf'[u] = wf[u]
    BY <1>1, NewestRuns
  <1>3. wf[t][Len(wf[t])].state # "completed"
    BY <1>1, NewestType DEF Newest
  <1> QED BY <1>2, <1>3 DEF NewestGets, Done

LEMMA ActivatesNewest ==
    ASSUME RunsOK, NEW t \in Tasks, Activates(t)
    PROVE  NewestGets(t, "active") /\ \A u \in Tasks \ {t} : wf'[u] = wf[u]
  <1>1. CASE wf' = Started(t, "active")
    BY <1>1, StartedNewest
  <1>2. CASE LastState(t) = "waiting" /\ wf' = NewestSet(t, NewRun("active"))
    <2>1. NewRun("active") \in OpenRun /\ NewRun("active").state = "active"
      BY DEF NewRun, OpenRun
    <2> QED BY <1>2, <2>1, SetNewest DEF Open
  <1> QED BY <1>1, <1>2 DEF Activates

LEMMA ServerNewest ==
    ASSUME RunsOK, NEW t \in Tasks, ServerStep(t)
    PROVE  /\ Open(t)
           /\ \A u \in Tasks \ {t} : wf'[u] = wf[u]
           /\ \E state \in {"active", "completed", "failed"} :
                 /\ NewestGets(t, state)
                 /\ state # "failed" => LastState(t) = "active"
  <1>1. PICK run : ServerSets(t, run)
    BY ServerKinds
  <1>2. run \in OpenRun /\ Open(t) /\ wf' = NewestSet(t, run)
    BY <1>1, ServerGrows DEF ServerSets, Open
  <1>3. NewestGets(t, run.state) /\ \A u \in Tasks \ {t} : wf'[u] = wf[u]
    BY <1>2, SetNewest
  <1>4. Newest(t) \in OpenRun /\ Newest(t).state = LastState(t)
    BY <1>2, NewestType DEF Open
  <1>5. run.state \in {"active", "completed", "failed"} /\ (run.state # "failed" => LastState(t) = "active")
    BY <1>1, <1>4, EndedRuns DEF ServerSets
  <1> QED BY <1>2, <1>3, <1>5

\* Completed runs stay completed, and only a run that gets there joins them.
LEMMA DoneChanges ==
    ASSUME NEW t \in Tasks, NEW state, NewestGets(t, state)
    PROVE  /\ state # "completed" => Done(t)' = Done(t)
           /\ state = "completed" => Done(t)' = Done(t) \cup {Len(wf'[t])}
           /\ Done(t) \subseteq Done(t)'
  BY DEF NewestGets, Done

----------------------------------------------------------------------------
(* The invariant behind the promise.                                       *)

\* There is no run before its task, nor while Promote is about to start it.
NoEarlyRun ==
    /\ \A t \in Tasks : ~Exists(t) => wf[t] = <<>>
    /\ \A c \in Clients : api[c].pc = "starting" => wf[api[c].id] = <<>>

\* No run follows one that completed, a fresh task has no run that works or
\* has completed, and there is such a run only of a task that was granted.
GatedRuns(t) ==
    /\ \A i \in Done(t) : i = Len(wf[t])
    /\ Fresh(t) => \A i \in DOMAIN wf[t] : wf[t][i].state \in {"waiting", "failed"}
    /\ \A i \in DOMAIN wf[t] : wf[t][i].state \in {"active", "completed"} => Granted(t)

\* A worker is about to report a success only of a tool that did complete.
OutcomeTrue(w) ==
    worker[w].pc \in {"versioning", "finalizing", "updating"} /\ worker[w].status = "succeeded"
      /\ Gated(worker[w].cur) => Done(worker[w].cur) # {}

ApprovalInv ==
    /\ NoEarlyRun
    /\ \A t \in Tasks : Gated(t) => GatedRuns(t)
    /\ \A w \in Workers : OutcomeTrue(w)

\* What a step may do to the runs of t: nothing, or bring the newest one of a
\* task without completed runs to a state that its rows allow.
RunsStep(t) ==
    \/ wf'[t] = wf[t]
    \/ \E state \in {"waiting", "active", "completed", "failed"} :
         /\ Exists(t) /\ NewestGets(t, state)
         /\ Gated(t) => /\ Done(t) = {}
                        /\ Fresh(t)' => state \in {"waiting", "failed"}
                        /\ state \in {"active", "completed"} => Granted(t)

LEMMA GatedStep ==
    ASSUME ApprovalInv, NEW t \in Tasks, RunsStep(t), Gated(t)',
           Exists(t) => /\ Gated(t) /\ (Fresh(t)' => Fresh(t)) /\ (Granted(t) => Granted(t)')
    PROVE  GatedRuns(t)'
  <1>1. CASE ~Exists(t)
    <2>1. wf[t] = <<>> /\ wf'[t] = wf[t]
      BY <1>1 DEF ApprovalInv, NoEarlyRun, RunsStep
    <2>2. DOMAIN wf'[t] = {}
      BY <2>1
    <2> QED BY <2>2 DEF GatedRuns, Done
  <1>2. CASE Exists(t)
    <2>0. GatedRuns(t) /\ (Fresh(t)' => Fresh(t)) /\ (Granted(t) => Granted(t)') /\ Gated(t)
      BY <1>2 DEF ApprovalInv
    <2>1. CASE wf'[t] = wf[t]
      BY <2>0, <2>1 DEF GatedRuns, Done
    <2>2. CASE wf'[t] # wf[t]
      <3>1. PICK state : /\ NewestGets(t, state) /\ Done(t) = {}
                         /\ Fresh(t)' => state \in {"waiting", "failed"}
                         /\ state \in {"active", "completed"} => Granted(t)
        BY <2>0, <2>2 DEF RunsStep
      <3>2. \A i \in Done(t)' : i = Len(wf'[t])
        BY <3>1 DEF NewestGets, Done
      <3>3. Fresh(t)' => \A i \in DOMAIN wf'[t] : wf'[t][i].state \in {"waiting", "failed"}
        BY <2>0, <3>1 DEF GatedRuns, NewestGets
      <3>4. \A i \in DOMAIN wf'[t] : wf'[t][i].state \in {"active", "completed"} => Granted(t)'
        BY <2>0, <3>1 DEF GatedRuns, NewestGets
      <3> QED BY <3>2, <3>3, <3>4 DEF GatedRuns
    <2> QED BY <2>1, <2>2
  <1> QED BY <1>1, <1>2

----------------------------------------------------------------------------
(* The runs change as the rows allow.                                      *)

LEMMA ClientRuns ==
    ASSUME Known, ApprovalInv, NEW c \in Clients, AnyClientStep(c), NEW t \in Tasks
    PROVE  RunsStep(t)
  <1>0. TypeOK /\ RunsOK /\ SerialInv /\ NoEarlyRun
    BY DEF Known, TInv, ApprovalInv
  <1>1. wf' = wf \/ (api[c].pc = "starting" /\ api[c].id \in Tasks /\ StartTask(api[c].id))
    BY <1>0, ClientEffects DEF AnyClientStep
  <1>2. CASE wf'[t] = wf[t]
    BY <1>2 DEF RunsStep
  <1>3. CASE wf'[t] # wf[t]
    <2>1. api[c].pc = "starting" /\ api[c].id \in Tasks /\ wf' = Started(api[c].id, "waiting")
      BY <1>1, <1>3 DEF StartTask
    <2>2. t = api[c].id /\ NewestGets(t, "waiting")
      BY <1>0, <1>3, <2>1, StartedNewest
    <2>3. wf[t] = <<>> /\ task[t].status = "waiting_approval"
      BY <1>0, <2>1, <2>2 DEF NoEarlyRun, SerialInv, RequestsCurrent, Awaited
    <2>4. Done(t) = {}
      BY <2>3 DEF Done
    <2> QED BY <2>2, <2>3, <2>4 DEF RunsStep, Exists
  <1> QED BY <1>2, <1>3

\* A worker changes the runs only by submitting the task that it executes.
LEMMA SubmitsOnly ==
    ASSUME NEW w \in Workers, AnyWorkerStep(w), wf' # wf
    PROVE  /\ Submitting(w) /\ Submit(worker[w].cur, Current(w)) /\ task' = task
           /\ SubmitWorkflow(w) \/ SubmitErrs(w)
  <1>1. SubmitWorkflow(w) \/ SubmitErrs(w)
    BY DEF AnyWorkerStep, TemporalWorkerStep, SubmitRefused, ResultArrives, FallbackExecutes,
           OtherWorkerStep, ResultLost, OtherWorkerFault, temporal
  <1>2. CASE SubmitWorkflow(w)
    BY <1>2 DEF SubmitWorkflow, vars
  <1>3. CASE SubmitErrs(w)
    BY <1>3 DEF SubmitErrs, ExecuteFails, store
  <1> QED BY <1>1, <1>2, <1>3

\* What is known of a task that a worker executes.
LEMMA ExecutedTask ==
    ASSUME Known, NEW w \in Workers, worker[w].pc \notin {"idle", "next"}
    PROVE  /\ worker[w].cur \in Tasks /\ worker[w].cur \in worker[w].batch
           /\ task[worker[w].cur].status = "running"
           /\ Current(w).type = task[worker[w].cur].type
           /\ Current(w).auditRef = task[worker[w].cur].auditRef
           /\ Gated(worker[w].cur) =>
                /\ Granted(worker[w].cur)
                /\ Current(w).auditRef \in {"approval", "retry"}
                /\ Current(w).type = "approved_tool_execution"
                /\ UsesTemporal(Current(w))
  <1>1. worker[w].cur \in worker[w].batch /\ worker[w].batch \subseteq Tasks
    <2>1. worker[w] \in WorkerState /\ WorkerOK(worker[w])
      BY DEF Known, TypeOK
    <2> QED BY <2>1 DEF WorkerState, WorkerOK
  <1>2. task[worker[w].cur].status = "running"
    BY <1>1 DEF Known, SerialInv, HeldRowsRun
  <1>3. /\ Current(w).type = task[worker[w].cur].type
        /\ Current(w).auditRef = task[worker[w].cur].auditRef
    BY <1>1 DEF Known, SnapsCurrent, Current
  <1>4. ASSUME Gated(worker[w].cur)
        PROVE  /\ Granted(worker[w].cur)
               /\ task[worker[w].cur].auditRef \in {"approval", "retry"}
    BY <1>1, <1>2, <1>4 DEF Known, RowsInv, QueuedByDecision
  <1> QED BY <1>1, <1>2, <1>3, <1>4 DEF Gated, UsesTemporal

\* A gated task that is submitted has no completed run.
LEMMA SubmitFindsNone ==
    ASSUME Known, ApprovalInv, NEW w \in Workers, Submitting(w),
           Submit(worker[w].cur, Current(w)), Gated(worker[w].cur)
    PROVE  Done(worker[w].cur) = {}
  <1> DEFINE t == worker[w].cur
  <1>0. /\ t \in Tasks /\ t \in worker[w].batch /\ worker[w].pc = "executing" /\ attached[w] = 0
        /\ Current(w).auditRef \in {"approval", "retry"}
        /\ Current(w).type = "approved_tool_execution"
        /\ Current(w).auditRef = task[t].auditRef
    BY ExecutedTask DEF Submitting
  <1>1. RunsOK /\ GatedRuns(t)
    BY <1>0 DEF Known, TInv, ApprovalInv
  <1> HIDE DEF t
  <1>2. ASSUME NEW i \in Done(t), LastState(t) # "completed" PROVE FALSE
    <2>1. i = Len(wf[t]) /\ wf[t][i].state = "completed" /\ i \in DOMAIN wf[t]
      BY <1>1, <1>2 DEF GatedRuns, Done
    <2>2. wf[t] # <<>>
      BY <2>1
    <2> QED BY <1>2, <2>1, <2>2 DEF LastState, Newest
  <1>3. CASE Open(t) \/ Current(w).auditRef = "retry"
    <2>1. LastState(t) # "completed"
      BY <1>0, <1>3 DEF Submit, ReuseAllowed, Open, t
    <2> QED BY <1>2, <2>1 DEF t
  <1>4. CASE Current(w).auditRef = "approval"
    <2>1. HeldBack(w, t)
      BY <1>0 DEF HeldBack
    <2>2. Fresh(t)
      BY <1>0, <1>4, <2>1 DEF Fresh
    <2> QED BY <1>1, <2>2 DEF GatedRuns, Done, t
  <1> QED BY <1>0, <1>3, <1>4

LEMMA WorkerRuns ==
    ASSUME Known, ApprovalInv, NEW w \in Workers, AnyWorkerStep(w), NEW t \in Tasks
    PROVE  RunsStep(t)
  <1>0. TypeOK /\ HandsInv /\ TInv /\ RunsOK /\ SerialInv
    BY DEF Known, TInv
  <1>1. CASE wf'[t] = wf[t]
    BY <1>1 DEF RunsStep
  <1>2. CASE wf'[t] # wf[t]
    <2>0. wf' # wf
      BY <1>2
    <2>1. /\ Submitting(w) /\ Submit(worker[w].cur, Current(w)) /\ task' = task
          /\ SubmitWorkflow(w) \/ SubmitErrs(w)
      BY <2>0, SubmitsOnly
    <2>2. /\ worker[w].cur \in Tasks /\ worker[w].cur \in worker[w].batch
          /\ task[worker[w].cur].status = "running"
          /\ Gated(worker[w].cur) => Granted(worker[w].cur)
      BY <2>1, ExecutedTask DEF Submitting
    <2>3. Activates(worker[w].cur)
      BY <2>0, <2>1, SubmitRuns
    <2>4. t = worker[w].cur /\ NewestGets(t, "active")
      BY <1>0, <1>2, <2>2, <2>3, ActivatesNewest
    <2>5. Gated(t) => Done(t) = {} /\ Granted(t)
      BY <2>1, <2>2, <2>4, SubmitFindsNone
    <2>6. ~HeldBack(w, t)'
      <3>1. CASE SubmitWorkflow(w)
        <4>1. worker' = worker /\ attached'[w] = Len(wf'[t])
          BY <1>0, <2>4, <3>1 DEF SubmitWorkflow, vars, TInv
        <4>2. Len(wf'[t]) # 0
          BY <1>0, <2>2, <2>3, <2>4, ActivatesGrow
        <4> QED BY <2>4, <4>1, <4>2 DEF HeldBack
      <3>2. CASE SubmitErrs(w)
        <4>1. worker'[w] = Failed(w)
          BY <1>0, <3>2 DEF SubmitErrs, ExecuteFails, TypeOK
        <4>2. worker[w] \in WorkerState
          BY <1>0 DEF TypeOK
        <4>3. Failed(w).pc = "updating" /\ Failed(w).cur = worker[w].cur
          BY <4>2 DEF Failed, WorkerState
        <4> QED BY <2>4, <4>1, <4>3 DEF HeldBack
      <3> QED BY <2>1, <3>1, <3>2
    <2>7. ASSUME NEW v \in Workers, v # w PROVE ~HeldBack(v, t)'
      <3>1. worker'[v] = worker[v]
        BY <1>0, <2>7, WorkerEffects DEF AnyWorkerStep
      <3>2. t \notin worker[v].batch
        BY <1>0, <2>2, <2>4, <2>7 DEF SerialInv, ClaimIsExclusive, Holds
      <3> QED BY <3>1, <3>2 DEF HeldBack
    <2>8. ~Fresh(t)'
      BY <2>1, <2>2, <2>4, <2>6, <2>7 DEF Fresh
    <2>9. Exists(t)
      BY <2>2, <2>4 DEF Exists
    <2> QED BY <2>4, <2>5, <2>8, <2>9 DEF RunsStep
  <1> QED BY <1>1, <1>2

LEMMA ServerRuns ==
    ASSUME Known, ApprovalInv, NEW u \in Tasks, ServerStep(u), NEW t \in Tasks
    PROVE  RunsStep(t)
  <1>0. RunsOK
    BY DEF Known, TInv
  <1>1. CASE t # u
    BY <1>0, <1>1, ServerNewest DEF RunsStep
  <1>2. CASE t = u
    <2>1. PICK state \in {"active", "completed", "failed"} :
             NewestGets(t, state) /\ (state # "failed" => LastState(t) = "active")
      BY <1>0, <1>2, ServerNewest
    <2>2. Open(t)
      BY <1>0, <1>2, ServerNewest
    <2>3. Exists(t)
      BY <2>2 DEF ApprovalInv, NoEarlyRun, Open, LastState
    <2>4. Len(wf[t]) \in DOMAIN wf[t] /\ wf[t][Len(wf[t])].state = LastState(t)
      BY <1>0, <2>2, OpenLast, NewestType DEF Open, Newest
    <2>5. ASSUME Gated(t)
          PROVE  /\ Done(t) = {}
                 /\ Fresh(t) => state = "failed"
                 /\ state \in {"active", "completed"} => Granted(t)
      <3>1. GatedRuns(t)
        BY <2>5 DEF ApprovalInv
      <3> QED BY <2>1, <2>2, <2>4, <3>1 DEF GatedRuns, Done, Open
    <2>6. Fresh(t)' => Fresh(t)
      <3>1. UNCHANGED <<task, worker, attached>>
        BY ServerKinds DEF vars
      <3> QED BY <3>1 DEF Fresh, HeldBack
    <2> QED BY <2>1, <2>3, <2>5, <2>6 DEF RunsStep
  <1> QED BY <1>1, <1>2

----------------------------------------------------------------------------
(* The invariant is inductive.                                             *)

LEMMA DoneGrows == ASSUME NEW t \in Tasks, RunsStep(t) PROVE Done(t) \subseteq Done(t)'
  <1>1. CASE wf'[t] = wf[t]
    BY <1>1 DEF Done
  <1>2. CASE wf'[t] # wf[t]
    BY <1>2, DoneChanges DEF RunsStep
  <1> QED BY <1>1, <1>2

\* What a worker is about to report stays true while it does not move.
LEMMA OutcomeStays ==
    ASSUME Known, NEW w \in Workers, OutcomeTrue(w), worker'[w] = worker[w],
           \A t \in Tasks : RunsStep(t) /\ (Exists(t) => KindStays(t))
    PROVE  OutcomeTrue(w)'
  <1> SUFFICES ASSUME worker[w].pc \in {"versioning", "finalizing", "updating"},
                      worker[w].status = "succeeded", Gated(worker[w].cur)'
               PROVE  Done(worker[w].cur)' # {}
    BY DEF OutcomeTrue
  <1>1. PICK t \in Tasks : t = worker[w].cur /\ task[t].status = "running"
    BY ExecutedTask
  <1>2. Gated(t)'
    BY <1>1 DEF Gated
  <1>3. Gated(t)
    BY <1>1, <1>2 DEF Gated, KindStays, Exists
  <1>4. Done(t) # {}
    BY <1>1, <1>3 DEF OutcomeTrue
  <1>5. Done(t)' # {}
    BY <1>4, DoneGrows
  <1> QED BY <1>1, <1>5 DEF Done

\* In a step that has nothing to do with Temporal, a worker that is about to
\* report a success was so before.
LEMMA OutcomeBefore ==
    ASSUME TypeOK, NEW w \in Workers, OtherWorkerStep(w) \/ WorkerFault(w),
           worker'[w].pc \in {"versioning", "finalizing", "updating"},
           worker'[w].status = "succeeded"
    PROVE  /\ worker[w].pc \in {"versioning", "finalizing", "updating"}
           /\ worker[w].status = "succeeded" /\ worker'[w].cur = worker[w].cur
  <1>0. worker[w] \in WorkerState
    BY DEF TypeOK
  <1>1. ASSUME NEW s, worker' = [worker EXCEPT ![w] = s] PROVE worker'[w] = s
    BY <1>1 DEF TypeOK
  <1>2. /\ IdleWorker.pc = "idle" /\ Failed(w).status = "failed"
        /\ Advanced(w).pc \in {"idle", "next"}
    BY <1>0 DEF IdleWorker, Failed, Advanced, WorkerState
  <1>3. ASSUME ClaimQueuedTasks(w) PROVE FALSE
    <2> DEFINE s(ids) == [IdleWorker EXCEPT !.pc = "next", !.batch = ids,
                             !.snap = [t \in Tasks |-> IF t \in ids THEN task'[t] ELSE NoRow]]
    <2>1. PICK ids : worker' = [worker EXCEPT ![w] = s(ids)]
      BY <1>3 DEF ClaimQueuedTasks
    <2>2. s(ids).pc = "next"
      BY DEF IdleWorker
    <2> HIDE DEF s
    <2> QED BY <1>1, <2>1, <2>2
  <1>4. ASSUME ExecuteStart(w) PROVE FALSE
    <2> DEFINE s(t) == [worker[w] EXCEPT !.pc = "executing", !.cur = t]
    <2>1. PICK t : worker' = [worker EXCEPT ![w] = s(t)]
      BY <1>4 DEF ExecuteStart
    <2>2. s(t).pc = "executing"
      BY <1>0 DEF WorkerState
    <2> HIDE DEF s
    <2> QED BY <1>1, <2>1, <2>2
  <1>5. ASSUME NEW p, NEW x
        PROVE  /\ [worker[w] EXCEPT !.pc = p].status = worker[w].status
               /\ [worker[w] EXCEPT !.pc = p].cur = worker[w].cur
               /\ [worker[w] EXCEPT !.pc = p, !.snap = x].status = worker[w].status
               /\ [worker[w] EXCEPT !.pc = p, !.snap = x].cur = worker[w].cur
               /\ [worker[w] EXCEPT !.pc = p, !.status = x].status = x
    BY <1>0 DEF WorkerState
  <1>6. CASE VersionFound(w)
    <2>1. worker'[w] = [worker[w] EXCEPT !.pc = "finalizing", !.snap = Versioned(w)]
      BY <1>1, <1>6 DEF VersionFound
    <2>2. worker'[w].status = worker[w].status /\ worker'[w].cur = worker[w].cur
      BY <1>5, <2>1
    <2> QED BY <1>6, <2>2 DEF VersionFound
  <1>7. CASE RecordGeneratedReport(w)
    <2>1. worker'[w] = [worker[w] EXCEPT !.pc = "updating"]
      BY <1>1, <1>7 DEF RecordGeneratedReport
    <2>2. worker'[w].status = worker[w].status /\ worker'[w].cur = worker[w].cur
      BY <1>5, <2>1
    <2> QED BY <1>7, <2>2 DEF RecordGeneratedReport
  <1>8. ASSUME VersionError(w) PROVE FALSE
    <2>1. worker'[w] = [worker[w] EXCEPT !.pc = "finalizing", !.status = "failed"]
      BY <1>1, <1>8 DEF VersionError
    <2> QED BY <1>5, <2>1
  <1>9. ASSUME FinalizeReport(w) \/ WriteOutcome(w) PROVE FALSE
    BY <1>1, <1>2, <1>9 DEF FinalizeReport, WriteOutcome
  <1>10. ASSUME \/ FinalizeRolledBack(w) \/ FinalizeLost(w) \/ OutcomeRolledBack(w)
                \/ OutcomeLost(w) \/ Crash(w) \/ ClaimLost(w)
         PROVE  FALSE
    BY <1>1, <1>2, <1>10 DEF FinalizeRolledBack, FinalizeLost, OutcomeRolledBack, OutcomeLost,
       Crash, ClaimLost
  <1> QED BY <1>3, <1>4, <1>6, <1>7, <1>8, <1>9, <1>10 DEF OtherWorkerStep, WorkerFault

LEMMA OutcomeWorker ==
    ASSUME Known, ApprovalInv, NEW w \in Workers, AnyWorkerStep(w),
           \A t \in Tasks : RunsStep(t) /\ KindStays(t)
    PROVE  OutcomeTrue(w)'
  <1> SUFFICES ASSUME worker'[w].pc \in {"versioning", "finalizing", "updating"},
                      worker'[w].status = "succeeded", Gated(worker[w].cur)'
               PROVE  Done(worker[w].cur)' # {}
    BY DEF OutcomeTrue
  <1>0. TypeOK /\ TInv /\ worker[w] \in WorkerState
    BY DEF Known, TypeOK
  <1>1. ASSUME NEW t \in Tasks, worker'[w].cur = t, Done(t) # {} PROVE Done(worker[w].cur)' # {}
    <2>1. Done(t)' # {}
      BY <1>1, DoneGrows
    <2> QED BY <1>1, <2>1 DEF Done
  <1>2. ASSUME ExecuteFails(w) PROVE FALSE
    <2>1. worker'[w] = Failed(w)
      BY <1>0, <1>2 DEF ExecuteFails, TypeOK
    <2> QED BY <1>0, <2>1 DEF Failed, WorkerState
  <1>3. ASSUME ExecuteSucceeds(w)
        PROVE  worker[w].pc = "executing" /\ worker'[w].cur = worker[w].cur
    <2> DEFINE row == worker[w].snap[worker[w].cur]
               p == IF row.type # "report_generation" THEN "updating"
                    ELSE IF row.version THEN "finalizing" ELSE "versioning"
               s == [worker[w] EXCEPT !.pc = p, !.status = "succeeded"]
    <2>1. worker' = [worker EXCEPT ![w] = s]
      BY <1>3 DEF ExecuteSucceeds
    <2> HIDE DEF p
    <2>2. s.cur = worker[w].cur
      BY <1>0 DEF WorkerState
    <2> HIDE DEF s
    <2>3. worker'[w] = s
      BY <1>0, <2>1 DEF TypeOK
    <2> QED BY <1>3, <2>2, <2>3 DEF ExecuteSucceeds
  <1>4. CASE SubmitWorkflow(w)
    BY <1>4 DEF SubmitWorkflow, Submitting, vars
  <1>5. CASE SubmitRefused(w) \/ SubmitErrs(w) \/ ResultLost(w)
    BY <1>2, <1>5 DEF SubmitRefused, SubmitErrs, ResultLost
  <1>6. CASE FallbackExecutes(w)
    <2>1. ExecuteSucceeds(w) /\ ~UsesTemporal(Current(w))
      BY <1>6 DEF FallbackExecutes
    <2>2. PICK t \in Tasks : t = worker[w].cur /\ t = worker'[w].cur
      BY <1>3, <2>1, ExecutedTask
    <2>3. Gated(t)
      BY <2>2 DEF Gated, KindStays
    <2> QED BY <1>3, <2>1, <2>2, <2>3, ExecutedTask
  <1>7. CASE ResultArrives(w)
    <2>1. ExecuteSucceeds(w) /\ AttachedRun(w) = "completed" /\ attached[w] # 0
      BY <1>2, <1>7 DEF ResultArrives, GetResult
    <2>2. PICK t \in Tasks : t = worker[w].cur /\ t = worker'[w].cur
      BY <1>3, <2>1, ExecutedTask
    <2>3. attached[w] \in DOMAIN wf[t]
      BY <1>0, <2>1, <2>2 DEF TInv, Waiting
    <2>4. attached[w] \in Done(t)
      BY <2>1, <2>2, <2>3 DEF Done, AttachedRun
    <2> QED BY <1>1, <2>2, <2>4
  <1>8. CASE OtherWorkerStep(w) \/ OtherWorkerFault(w)
    <2>1. /\ worker[w].pc \in {"versioning", "finalizing", "updating"}
          /\ worker[w].status = "succeeded" /\ worker'[w].cur = worker[w].cur
      BY <1>0, <1>8, OutcomeBefore DEF OtherWorkerFault
    <2>2. PICK t \in Tasks : t = worker[w].cur /\ t = worker'[w].cur
      BY <2>1, ExecutedTask
    <2>3. Gated(t)
      BY <2>2 DEF Gated, KindStays
    <2>4. Done(t) # {}
      BY <2>1, <2>2, <2>3 DEF ApprovalInv, OutcomeTrue
    <2> QED BY <1>1, <2>2, <2>4
  <1> QED BY <1>4, <1>5, <1>6, <1>7, <1>8 DEF AnyWorkerStep, TemporalWorkerStep

LEMMA EarlyClient ==
    ASSUME OneAtATime, Known, ApprovalInv, NEW c \in Clients, AnyClientStep(c)
    PROVE  \A d \in Clients : api'[d].pc = "starting" => wf'[api'[d].id] = <<>>
  <1> SUFFICES ASSUME api'[c].pc = "starting" PROVE wf'[api'[c].id] = <<>>
    BY DEF OneAtATime
  <1>0. ASSUME NEW s, api' = [api EXCEPT ![c] = s] PROVE api'[c] = s
    BY <1>0 DEF Known, TypeOK
  <1>1. ASSUME api'[c] = IdleClient PROVE FALSE
    BY <1>1 DEF IdleClient
  <1>2. CASE StartTaskReturns(c) \/ StartTaskErrs(c) \/ DecisionErrs(c)
    BY <1>0, <1>1, <1>2 DEF StartTaskReturns, StartTaskErrs, DecisionErrs, StartSucceeds,
       StartFails, DecisionFails
  <1>3. CASE OtherClientStep(c)
    <2>0. wf' = wf
      BY <1>3 DEF OtherClientStep, temporal
    <2>1. CASE Promote(c)
      <3> DEFINE s(t, type, ra) == [pc |-> "starting", id |-> t, snap |-> NewRow(type, ra)]
      <3>1. PICK t \in Tasks, type \in TaskTypes, ra \in BOOLEAN :
              ~Exists(t) /\ (api' = [api EXCEPT ![c] = s(t, type, ra)] \/ api' = api)
        BY <2>1 DEF Promote
      <3>2. api[c].pc = "idle"
        BY <2>1 DEF Promote
      <3>3. api'[c] = s(t, type, ra)
        BY <1>0, <3>1, <3>2
      <3> QED BY <2>0, <3>1, <3>3 DEF ApprovalInv, NoEarlyRun
    <2>2. ASSUME NEW t \in Tasks, ApproveRead(c, t) \/ RetryRead(c, t) PROVE FALSE
      <3>1. \/ api'[c] = [pc |-> "approving", id |-> t, snap |-> task[t]]
            \/ api'[c] = [pc |-> "retrying", id |-> t, snap |-> task[t]]
        BY <1>0, <2>2 DEF ApproveRead, RetryRead
      <3> QED BY <3>1
    <2>3. ASSUME ApproveWrite(c) \/ RetryWrite(c) PROVE FALSE
      BY <1>0, <1>1, <2>3 DEF ApproveWrite, RetryWrite
    <2> QED BY <1>3, <2>1, <2>2, <2>3 DEF OtherClientStep
  <1> QED BY <1>2, <1>3 DEF AnyClientStep

LEMMA EarlyWorker ==
    ASSUME Known, ApprovalInv, NEW w \in Workers, AnyWorkerStep(w), NEW c \in Clients,
           api[c].pc = "starting"
    PROVE  wf'[api[c].id] = <<>>
  <1>0. /\ TypeOK /\ RunsOK /\ api[c].id \in Tasks /\ task[api[c].id].status = "waiting_approval"
        /\ wf[api[c].id] = <<>>
    BY DEF Known, TInv, TypeOK, ClientOK, SerialInv, RequestsCurrent, Awaited, ApprovalInv, NoEarlyRun
  <1>1. CASE wf' = wf
    BY <1>0, <1>1
  <1>2. CASE wf' # wf
    <2>1. Submitting(w) /\ Submit(worker[w].cur, Current(w))
      BY <1>2, SubmitsOnly
    <2>2. worker[w].cur \in Tasks /\ task[worker[w].cur].status = "running"
      BY <2>1, ExecutedTask DEF Submitting
    <2>3. Activates(worker[w].cur)
      BY <1>2, <2>1, SubmitRuns
    <2> QED BY <1>0, <2>2, <2>3, ActivatesNewest
  <1> QED BY <1>1, <1>2

LEMMA EarlyServer ==
    ASSUME Known, ApprovalInv, NEW u \in Tasks, ServerStep(u), NEW c \in Clients,
           api[c].pc = "starting"
    PROVE  wf'[api[c].id] = <<>>
  <1>0. RunsOK /\ api[c].id \in Tasks /\ wf[api[c].id] = <<>>
    BY DEF Known, TInv, TypeOK, ClientOK, ApprovalInv, NoEarlyRun
  <1>1. Open(u) /\ \A t \in Tasks \ {u} : wf'[t] = wf[t]
    BY <1>0, ServerNewest
  <1>2. u # api[c].id
    BY <1>0, <1>1 DEF Open, LastState
  <1> QED BY <1>0, <1>1, <1>2

\* What every step does for every task.
TaskStep(t) ==
    /\ RunsStep(t)
    /\ Exists(t) => /\ Exists(t)' /\ KindStays(t)
                    /\ (Fresh(t)' => Fresh(t)) /\ (Granted(t) => Granted(t)')

LEMMA ClientTask ==
    ASSUME Known, ApprovalInv, NEW c \in Clients, AnyClientStep(c), NEW t \in Tasks
    PROVE  TaskStep(t)
  <1>0. TypeOK /\ RunsOK
    BY DEF Known, TInv
  <1>1. ClientStep(c)
    BY <1>0, ClientEffects DEF AnyClientStep
  <1>2. RowStays(t) \/ RowCreated(t) \/ RowQueued(c, t) \/ RowGivenUp(c, t)
    BY <1>0, <1>1, ClientRows
  <1>3. Granted(t) => Granted(t)'
    BY <1>0, <1>2, GrantedStays
  <1>4. Exists(t) => Exists(t)' /\ KindStays(t)
    BY <1>2 DEF RowStays, RowCreated, RowQueued, RowGivenUp, Exists
  <1>5. Exists(t) => (Fresh(t)' => Fresh(t))
    BY FreshClient
  <1>6. RunsStep(t)
    BY ClientRuns
  <1> QED BY <1>3, <1>4, <1>5, <1>6 DEF TaskStep

LEMMA WorkerTask ==
    ASSUME OneAtATime, Known, ApprovalInv, NEW w \in Workers, AnyWorkerStep(w), NEW t \in Tasks
    PROVE  TaskStep(t) /\ KindStays(t) /\ (RowStays(t) \/ RowClaimed(t) \/ RowSettled(w, t))
  <1>0. TypeOK /\ HandsInv
    BY DEF Known
  <1>1. RowStays(t) \/ RowClaimed(t) \/ RowSettled(w, t)
    <2>1. CASE SubmitWorkflow(w) /\ UNCHANGED vars
      BY <2>1 DEF vars, RowStays, KindStays, DecisionsStay
    <2>2. CASE WorkerStep(w) \/ WorkerFault(w)
      BY <1>0, <2>2, WorkerKinds, WorkerRows
    <2> QED BY <2>1, <2>2, WorkerImplements
  <1>2. Granted(t) => Granted(t)'
    BY <1>0, <1>1, GrantedStays
  <1>3. KindStays(t) /\ (Exists(t) => Exists(t)')
    BY <1>1 DEF RowStays, RowClaimed, RowSettled, Exists
  <1>4. Fresh(t)' => Fresh(t)
    BY FreshWorker
  <1>5. RunsStep(t)
    BY WorkerRuns
  <1> QED BY <1>1, <1>2, <1>3, <1>4, <1>5 DEF TaskStep

LEMMA ServerTask ==
    ASSUME Known, ApprovalInv, NEW u \in Tasks, ServerStep(u), NEW t \in Tasks
    PROVE  TaskStep(t) /\ RowStays(t)
  <1>1. UNCHANGED <<task, log, worker, attached>>
    BY ServerKinds DEF vars
  <1>2. Fresh(t)' => Fresh(t)
    BY <1>1 DEF Fresh, HeldBack
  <1>3. RunsStep(t)
    BY ServerRuns
  <1> QED BY <1>1, <1>2, <1>3 DEF TaskStep, RowStays, KindStays, DecisionsStay, Exists, Granted

LEMMA GatedTask ==
    ASSUME ApprovalInv, NEW t \in Tasks, TaskStep(t), Gated(t)' PROVE GatedRuns(t)'
  <1>1. Exists(t) => Gated(t)
    BY DEF TaskStep, KindStays, Gated
  <1> QED BY <1>1, GatedStep DEF TaskStep

LEMMA EarlyTask ==
    ASSUME ApprovalInv, NEW t \in Tasks, TaskStep(t), ~Exists(t)' PROVE wf'[t] = <<>>
  BY DEF ApprovalInv, NoEarlyRun, TaskStep, RunsStep

LEMMA ApprovalNext ==
    ASSUME OneAtATime PROVE Known /\ ApprovalInv /\ [TNext]_tvars => ApprovalInv'
  <1> SUFFICES ASSUME Known, ApprovalInv, [TNext]_tvars PROVE ApprovalInv'
    OBVIOUS
  <1>0. TypeOK /\ HandsInv /\ TInv /\ RunsOK /\ \A w \in Workers : OutcomeTrue(w)
    BY DEF Known, TInv, ApprovalInv
  <1>1. ASSUME \A t \in Tasks : TaskStep(t),
               \A c \in Clients : api'[c].pc = "starting" => wf'[api'[c].id] = <<>>,
               \A w \in Workers : OutcomeTrue(w)'
        PROVE  ApprovalInv'
    <2>1. NoEarlyRun'
      BY <1>1, EarlyTask DEF NoEarlyRun
    <2>2. \A t \in Tasks : Gated(t)' => GatedRuns(t)'
      BY <1>1, GatedTask
    <2> QED BY <1>1, <2>1, <2>2 DEF ApprovalInv
  <1>2. ASSUME \A t \in Tasks : TaskStep(t)
        PROVE  /\ \A t \in Tasks : RunsStep(t) /\ (Exists(t) => KindStays(t))
               /\ \A w \in Workers : worker'[w] = worker[w] => OutcomeTrue(w)'
    <2>1. \A t \in Tasks : RunsStep(t) /\ (Exists(t) => KindStays(t))
      BY <1>2 DEF TaskStep
    <2> QED BY <1>0, <2>1, OutcomeStays
  <1>3. CASE UNCHANGED tvars
    <2>1. UNCHANGED <<task, log, api, worker, wf, attached>>
      BY <1>3 DEF tvars, vars, temporal
    <2> QED BY <2>1 DEF ApprovalInv, NoEarlyRun, GatedRuns, OutcomeTrue, Gated, Exists, Done, Fresh,
               HeldBack, Granted
  <1>4. ASSUME NEW c \in Clients, AnyClientStep(c) PROVE ApprovalInv'
    <2>1. \A t \in Tasks : TaskStep(t)
      BY <1>4, ClientTask
    <2>2. worker' = worker
      BY <1>0, <1>4, ClientEffects DEF AnyClientStep
    <2>3. \A w \in Workers : OutcomeTrue(w)'
      BY <1>2, <2>1, <2>2
    <2> QED BY <1>1, <1>4, <2>1, <2>3, EarlyClient
  <1>5. ASSUME NEW w \in Workers, AnyWorkerStep(w) PROVE ApprovalInv'
    <2>1. \A t \in Tasks : TaskStep(t) /\ KindStays(t)
      BY <1>5, WorkerTask
    <2>2. \A v \in Workers \ {w} : worker'[v] = worker[v]
      BY <1>0, <1>5, WorkerEffects DEF AnyWorkerStep
    <2>3. OutcomeTrue(w)'
      BY <1>2, <1>5, <2>1, OutcomeWorker
    <2>4. \A v \in Workers : OutcomeTrue(v)'
      BY <1>2, <2>1, <2>2, <2>3
    <2>5. api' = api
      <3>1. CASE UNCHANGED vars
        BY <3>1 DEF vars
      <3> QED BY <1>0, <1>5, <3>1, WorkerImplements, WorkerKinds
    <2>6. \A c \in Clients : api'[c].pc = "starting" => wf'[api'[c].id] = <<>>
      BY <1>5, <2>5, EarlyWorker
    <2> QED BY <1>1, <2>1, <2>4, <2>6
  <1>6. ASSUME NEW u \in Tasks, ServerStep(u) PROVE ApprovalInv'
    <2>1. \A t \in Tasks : TaskStep(t)
      BY <1>6, ServerTask
    <2>2. worker' = worker /\ api' = api
      BY <1>6, ServerKinds DEF vars
    <2>3. \A w \in Workers : OutcomeTrue(w)'
      BY <1>2, <2>1, <2>2
    <2>4. \A c \in Clients : api'[c].pc = "starting" => wf'[api'[c].id] = <<>>
      BY <1>6, <2>2, EarlyServer
    <2> QED BY <1>1, <2>1, <2>3, <2>4
  <1> QED BY <1>3, <1>4, <1>5, <1>6 DEF TNext, AnyClientStep, AnyWorkerStep

LEMMA ApprovalInit == TInit => ApprovalInv
  <1> SUFFICES ASSUME TInit PROVE ApprovalInv
    OBVIOUS
  <1>1. \A t \in Tasks : wf[t] = <<>> /\ Done(t) = {} /\ DOMAIN wf[t] = {}
    BY DEF TInit, Done
  <1>2. \A c \in Clients : api[c].pc = "idle"
    BY DEF TInit, Init, IdleClient
  <1>3. \A w \in Workers : worker[w].pc = "idle"
    BY DEF TInit, Init, IdleWorker
  <1> QED BY <1>1, <1>2, <1>3 DEF ApprovalInv, NoEarlyRun, GatedRuns, OutcomeTrue

LEMMA ApprovalHolds ==
    ASSUME OneAtATime PROVE TSpec => [](Known /\ ApprovalInv)
  <1>1. TSpec => []Known
    BY TasksInvariants, RunsHold, RowsHold, SerialTemporal, PTL DEF Known
  <1>2. TSpec => []ApprovalInv
    BY <1>1, ApprovalInit, ApprovalNext, PTL DEF TSpec
  <1> QED BY <1>1, <1>2, PTL

----------------------------------------------------------------------------
(* The refinement.  What ToolApproval sees of a task:                      *)

SeenGranted(t) == Gated(t) /\ log[t]["approved"] + log[t]["retried"] > 0
SeenCompleted(t) == IF Gated(t) THEN Completions(t) ELSE 0

SeenStays(t) ==
    /\ PhaseOf(t)' = PhaseOf(t)
    /\ SeenGranted(t)' = SeenGranted(t)
    /\ SeenCompleted(t)' = SeenCompleted(t)

LEMMA SeenStutter ==
    ASSUME \A t \in Tasks : SeenStays(t) PROVE UNCHANGED Approval!vars
  <1>1. [t \in Tasks |-> PhaseOf(t)]' = [t \in Tasks |-> PhaseOf(t)]
    BY DEF SeenStays
  <1>2. [t \in Tasks |-> SeenGranted(t)]' = [t \in Tasks |-> SeenGranted(t)]
    BY DEF SeenStays
  <1>3. [t \in Tasks |-> SeenCompleted(t)]' = [t \in Tasks |-> SeenCompleted(t)]
    BY DEF SeenStays
  <1> QED BY <1>1, <1>2, <1>3 DEF Approval!vars, SeenGranted, SeenCompleted

\* What it sees of steps that change nothing but the phase, that grant, and
\* that complete.
SeenKeeps(r) == SeenCompleted(r)' = SeenCompleted(r) /\ SeenGranted(r)' = SeenGranted(r)

SeenGrant(r) ==
    /\ SeenCompleted(r)' = SeenCompleted(r) /\ SeenGranted(r)' = TRUE
    /\ PhaseOf(r) \in {"proposed", "failed"} /\ PhaseOf(r)' = "authorised"

SeenComplete(r) ==
    /\ SeenCompleted(r) = 0 /\ SeenCompleted(r)' = 1
    /\ SeenGranted(r) = TRUE /\ SeenGranted(r)' = SeenGranted(r) /\ PhaseOf(r)' = PhaseOf(r)

\* A step that shows for one task only.
LEMMA SeenOne ==
    ASSUME NEW r \in Tasks, \A t \in Tasks \ {r} : SeenStays(t)
    PROVE  /\ SeenKeeps(r) /\ PhaseOf(r) = "none" /\ PhaseOf(r)' = "proposed" => Approval!Propose(r)
           /\ SeenKeeps(r) /\ PhaseOf(r) \in {"proposed", "authorised"} /\ PhaseOf(r)' = "failed"
                => Approval!Fail(r)
           /\ SeenKeeps(r) /\ PhaseOf(r) = "authorised" /\ PhaseOf(r)' = "succeeded"
                /\ SeenCompleted(r) = 1 => Approval!Succeed(r)
           /\ SeenGrant(r) => Approval!Grant(r)
           /\ SeenComplete(r) => Approval!Complete(r)
  <1> DEFINE P == [t \in Tasks |-> PhaseOf(t)]
             G == [t \in Tasks |-> SeenGranted(t)]
             C == [t \in Tasks |-> SeenCompleted(t)]
  <1>1. P[r] = PhaseOf(r) /\ C[r] = SeenCompleted(r) /\ G[r] = SeenGranted(r)
    OBVIOUS
  <1>2. P' = [P EXCEPT ![r] = PhaseOf(r)']
    BY DEF SeenStays
  <1>3. G' = [G EXCEPT ![r] = SeenGranted(r)']
    BY DEF SeenStays
  <1>4. C' = [C EXCEPT ![r] = SeenCompleted(r)']
    BY DEF SeenStays
  <1>5. /\ PhaseOf(r)' = PhaseOf(r) => P' = P
        /\ SeenGranted(r)' = SeenGranted(r) => G' = G
        /\ SeenCompleted(r)' = SeenCompleted(r) => C' = C
    BY <1>2, <1>3, <1>4
  <1>6. /\ G = [t \in Tasks |-> Gated(t) /\ log[t]["approved"] + log[t]["retried"] > 0]
        /\ C = [t \in Tasks |-> IF Gated(t) THEN Completions(t) ELSE 0]
    BY DEF SeenGranted, SeenCompleted
  <1>7. /\ G' = [t \in Tasks |-> Gated(t) /\ log[t]["approved"] + log[t]["retried"] > 0]'
        /\ C' = [t \in Tasks |-> IF Gated(t) THEN Completions(t) ELSE 0]'
    BY DEF SeenGranted, SeenCompleted
  <1> DEFINE g == [t \in Tasks |-> Gated(t) /\ log[t]["approved"] + log[t]["retried"] > 0]
             d == [t \in Tasks |-> IF Gated(t) THEN Completions(t) ELSE 0]
  <1>8. G = g /\ C = d /\ G' = g' /\ C' = d'
    BY <1>6, <1>7
  <1>9. /\ P[r] = PhaseOf(r) /\ d[r] = SeenCompleted(r) /\ g[r] = SeenGranted(r)
        /\ P' = [P EXCEPT ![r] = PhaseOf(r)']
        /\ g' = [g EXCEPT ![r] = SeenGranted(r)']
        /\ d' = [d EXCEPT ![r] = SeenCompleted(r)']
        /\ PhaseOf(r)' = PhaseOf(r) => P' = P
        /\ SeenGranted(r)' = SeenGranted(r) => g' = g
        /\ SeenCompleted(r)' = SeenCompleted(r) => d' = d
    BY <1>1, <1>2, <1>3, <1>4, <1>5, <1>8
  <1>10. /\ Approval!Propose(r) <=> /\ P[r] \in {"none"} /\ P' = [P EXCEPT ![r] = "proposed"]
                                    /\ g' = g /\ d' = d
         /\ Approval!Fail(r) <=> /\ P[r] \in {"proposed", "authorised"}
                                 /\ P' = [P EXCEPT ![r] = "failed"]
                                 /\ g' = g /\ d' = d
         /\ Approval!Succeed(r) <=> /\ d[r] = 1 /\ P[r] \in {"authorised"}
                                    /\ P' = [P EXCEPT ![r] = "succeeded"]
                                    /\ g' = g /\ d' = d
         /\ Approval!Grant(r) <=> /\ P[r] \in {"proposed", "failed"}
                                  /\ P' = [P EXCEPT ![r] = "authorised"]
                                  /\ g' = [g EXCEPT ![r] = TRUE] /\ d' = d
         /\ Approval!Complete(r) <=> /\ g[r] /\ d[r] = 0
                                     /\ d' = [d EXCEPT ![r] = 1]
                                     /\ P' = P /\ g' = g
    BY DEF Approval!Propose, Approval!Fail, Approval!Succeed, Approval!Grant, Approval!Complete,
           Approval!Shown
  <1> HIDE DEF P, G, C, g, d
  <1>11. ASSUME SeenKeeps(r) PROVE g' = g /\ d' = d
    BY <1>9, <1>11 DEF SeenKeeps
  <1>12. SeenKeeps(r) /\ PhaseOf(r) = "none" /\ PhaseOf(r)' = "proposed" => Approval!Propose(r)
    BY <1>9, <1>10, <1>11
  <1>13. SeenKeeps(r) /\ PhaseOf(r) \in {"proposed", "authorised"} /\ PhaseOf(r)' = "failed"
           => Approval!Fail(r)
    BY <1>9, <1>10, <1>11
  <1>14. SeenKeeps(r) /\ PhaseOf(r) = "authorised" /\ PhaseOf(r)' = "succeeded" /\ SeenCompleted(r) = 1
           => Approval!Succeed(r)
    BY <1>9, <1>10, <1>11
  <1>15. ASSUME SeenGrant(r) PROVE Approval!Grant(r)
    <2>1. d' = d
      BY <1>9, <1>15 DEF SeenGrant
    <2>2. g' = [g EXCEPT ![r] = TRUE]
      BY <1>9, <1>15 DEF SeenGrant
    <2>3. P[r] \in {"proposed", "failed"} /\ P' = [P EXCEPT ![r] = "authorised"]
      BY <1>9, <1>15 DEF SeenGrant
    <2> QED BY <1>10, <2>1, <2>2, <2>3
  <1>16. ASSUME SeenComplete(r) PROVE Approval!Complete(r)
    <2>1. g' = g /\ P' = P
      BY <1>9, <1>16 DEF SeenComplete
    <2>2. d[r] = 0 /\ d' = [d EXCEPT ![r] = 1]
      BY <1>9, <1>16 DEF SeenComplete
    <2>3. g[r]
      BY <1>9, <1>16 DEF SeenComplete
    <2> QED BY <1>10, <2>1, <2>2, <2>3
  <1> QED BY <1>12, <1>13, <1>14, <1>15, <1>16

\* The phase of a task, by its row.
PhasesTold ==
    \A t \in Tasks :
        /\ ~Gated(t) \/ ~Exists(t) => PhaseOf(t) = "none"
        /\ Gated(t) /\ task[t].status = "waiting_approval" => PhaseOf(t) = "proposed"
        /\ Gated(t) /\ task[t].status \in {"queued", "running"} => PhaseOf(t) = "authorised"
        /\ Gated(t) /\ task[t].status = "failed" => PhaseOf(t) = "failed"
        /\ Gated(t) /\ task[t].status = "succeeded" => PhaseOf(t) = "succeeded"

LEMMA Phases == PhasesTold
  <1> SUFFICES ASSUME NEW t \in Tasks
               PROVE  /\ ~Gated(t) \/ ~Exists(t) => PhaseOf(t) = "none"
                      /\ Gated(t) /\ task[t].status = "waiting_approval" => PhaseOf(t) = "proposed"
                      /\ Gated(t) /\ task[t].status \in {"queued", "running"}
                            => PhaseOf(t) = "authorised"
                      /\ Gated(t) /\ task[t].status = "failed" => PhaseOf(t) = "failed"
                      /\ Gated(t) /\ task[t].status = "succeeded" => PhaseOf(t) = "succeeded"
    BY DEF PhasesTold
  <1>1. ~Gated(t) => PhaseOf(t) = "none"
    BY DEF PhaseOf
  <1>2. Gated(t) /\ ~Exists(t) => PhaseOf(t) = "none"
    BY DEF PhaseOf, Exists
  <1>3. Gated(t) /\ task[t].status = "waiting_approval" => PhaseOf(t) = "proposed"
    BY DEF PhaseOf
  <1>4. Gated(t) /\ task[t].status \in {"queued", "running"} => PhaseOf(t) = "authorised"
    BY DEF PhaseOf
  <1>5. Gated(t) /\ task[t].status = "failed" => PhaseOf(t) = "failed"
    BY DEF PhaseOf
  <1>6. Gated(t) /\ task[t].status = "succeeded" => PhaseOf(t) = "succeeded"
    BY DEF PhaseOf
  <1> QED BY <1>1, <1>2, <1>3, <1>4, <1>5, <1>6

LEMMA PhasesNext == PhasesTold'
  BY Phases, PTL

LEMMA CompletedOf ==
    ASSUME NEW t \in Tasks
    PROVE  /\ Done(t) = {} => SeenCompleted(t) = 0
           /\ Gated(t) => SeenCompleted(t) = Cardinality(Done(t))
           /\ ~Gated(t) => SeenCompleted(t) = 0
  BY FS_EmptySet DEF SeenCompleted, Completions, Done

LEMMA CompletedNext ==
    ASSUME NEW t \in Tasks
    PROVE  /\ Done(t)' = {} => SeenCompleted(t)' = 0
           /\ Gated(t)' => SeenCompleted(t)' = Cardinality(Done(t)')
           /\ ~Gated(t)' => SeenCompleted(t)' = 0
  BY FS_EmptySet DEF SeenCompleted, Completions, Done

LEMMA CompletedStays ==
    ASSUME NEW t \in Tasks, KindStays(t), Done(t)' = Done(t)
    PROVE  SeenCompleted(t)' = SeenCompleted(t)
  <1>1. Gated(t)' = Gated(t)
    BY DEF Gated, KindStays
  <1> QED BY <1>1, CompletedOf, CompletedNext

\* A row that stays, or is claimed, looks as before.
LEMMA RowSeen ==
    ASSUME NEW t \in Tasks, RowStays(t) \/ RowClaimed(t)
    PROVE  PhaseOf(t)' = PhaseOf(t) /\ SeenGranted(t)' = SeenGranted(t)
  <1>1. KindStays(t) /\ DecisionsStay(t)
    BY DEF RowStays, RowClaimed
  <1>2. Gated(t)' = Gated(t)
    BY <1>1 DEF Gated, KindStays
  <1>3. SeenGranted(t)' = SeenGranted(t)
    BY <1>1, <1>2 DEF SeenGranted, DecisionsStay
  <1>4. PhaseOf(t)' = PhaseOf(t)
    <2>1. CASE RowStays(t)
      BY <1>2, <2>1 DEF PhaseOf, RowStays
    <2>2. CASE RowClaimed(t)
      BY <1>2, <2>2, Phases, PhasesNext DEF RowClaimed, PhasesTold
    <2> QED BY <2>1, <2>2
  <1> QED BY <1>3, <1>4

\* Only the server completes runs.
LEMMA ClientDone ==
    ASSUME Known, NEW c \in Clients, AnyClientStep(c), NEW t \in Tasks PROVE Done(t)' = Done(t)
  <1>0. TypeOK /\ RunsOK
    BY DEF Known, TInv
  <1>1. wf' = wf \/ (api[c].id \in Tasks /\ StartTask(api[c].id))
    BY <1>0, ClientEffects DEF AnyClientStep
  <1>2. CASE wf'[t] = wf[t]
    BY <1>2 DEF Done
  <1>3. CASE wf'[t] # wf[t]
    <2>1. api[c].id \in Tasks /\ wf' = Started(api[c].id, "waiting")
      BY <1>1, <1>3 DEF StartTask
    <2>2. NewestGets(t, "waiting")
      BY <1>0, <1>3, <2>1, StartedNewest
    <2> QED BY <2>2, DoneChanges
  <1> QED BY <1>2, <1>3

LEMMA WorkerDone ==
    ASSUME Known, NEW w \in Workers, AnyWorkerStep(w), NEW t \in Tasks PROVE Done(t)' = Done(t)
  <1>0. TypeOK /\ RunsOK
    BY DEF Known, TInv
  <1>1. CASE wf'[t] = wf[t]
    BY <1>1 DEF Done
  <1>2. CASE wf'[t] # wf[t]
    <2>0. wf' # wf
      BY <1>2
    <2>1. Submitting(w) /\ Submit(worker[w].cur, Current(w))
      BY <2>0, SubmitsOnly
    <2>2. worker[w].cur \in Tasks
      BY <2>1, ExecutedTask DEF Submitting
    <2>3. Activates(worker[w].cur)
      BY <2>0, <2>1, SubmitRuns
    <2>4. NewestGets(t, "active")
      BY <1>0, <1>2, <2>2, <2>3, ActivatesNewest
    <2> QED BY <2>4, DoneChanges
  <1> QED BY <1>1, <1>2

\* A handler changes one row.
LEMMA ClientOneRow ==
    ASSUME TypeOK, NEW c \in Clients, ClientStep(c)
    PROVE  \/ \A t \in Tasks : RowStays(t)
           \/ \E r \in Tasks : \A t \in Tasks \ {r} : RowStays(t)
  <1>1. CASE Inserts(c)
    <2>1. PICK r \in Tasks, type \in TaskTypes, ra \in BOOLEAN :
            CreateTaskWithEvent(r, NewRow(type, ra))
      BY <1>1 DEF Inserts
    <2>2. ASSUME NEW t \in Tasks \ {r} PROVE RowStays(t)
      <3>1. log[t]["approved"] \in Nat /\ log[t]["retried"] \in Nat
        BY LogType
      <3> QED BY <2>1, <3>1, CreateRow DEF RowStays, KindStays, DecisionsStay, Actions
    <2> QED BY <2>2
  <1>2. CASE Decides(c)
    <2>1. api[c].id \in Tasks
      BY <1>2 DEF Decides
    <2>2. ASSUME NEW t \in Tasks \ {api[c].id} PROVE RowStays(t)
      <3>1. log[t]["approved"] \in Nat /\ log[t]["retried"] \in Nat
        BY LogType
      <3>2. PICK status \in {"queued", "failed"}, ref \in AuditRefs, version \in BOOLEAN,
                 action \in {"approved", "retried", "failed"} :
               UpdateTaskWithEvent(api[c].id, status, ref, version, action)
        BY <1>2 DEF Decides
      <3> QED BY <2>1, <3>1, <3>2, UpdateRow DEF RowStays, KindStays, DecisionsStay, Actions
    <2> QED BY <2>1, <2>2
  <1>3. CASE UNCHANGED store
    BY <1>3 DEF store, RowStays, KindStays, DecisionsStay
  <1> QED BY <1>1, <1>2, <1>3, ClientKinds

\* A task without an approval gate shows nothing.
LEMMA UngatedSeen ==
    ASSUME NEW t \in Tasks, KindStays(t), ~Gated(t) PROVE SeenStays(t)
  <1>1. ~Gated(t)'
    BY DEF KindStays, Gated
  <1>2. SeenGranted(t) = FALSE /\ SeenGranted(t)' = FALSE
    BY <1>1 DEF SeenGranted
  <1>3. PhaseOf(t) = "none" /\ PhaseOf(t)' = "none"
    BY <1>1, Phases, PhasesNext DEF PhasesTold
  <1>4. SeenCompleted(t) = 0 /\ SeenCompleted(t)' = 0
    BY <1>1, CompletedOf, CompletedNext
  <1> QED BY <1>2, <1>3, <1>4 DEF SeenStays

LEMMA ClientRefines ==
    ASSUME Known, ApprovalInv, NEW c \in Clients, AnyClientStep(c)
    PROVE  [Approval!Next]_(Approval!vars)
  <1>0. TypeOK /\ RunsOK /\ SerialInv /\ RowsInv
    BY DEF Known, TInv
  <1>1. ClientStep(c)
    BY <1>0, ClientEffects DEF AnyClientStep
  <1>2. ASSUME NEW t \in Tasks, RowStays(t) PROVE SeenStays(t)
    <2>1. KindStays(t)
      BY <1>2 DEF RowStays
    <2> QED BY <1>2, <2>1, RowSeen, ClientDone, CompletedStays DEF SeenStays
  <1>3. CASE \A t \in Tasks : RowStays(t)
    BY <1>2, <1>3, SeenStutter
  <1>4. ASSUME NEW r \in Tasks, \A t \in Tasks \ {r} : RowStays(t)
        PROVE  [Approval!Next]_(Approval!vars)
    <2>0. \A t \in Tasks \ {r} : SeenStays(t)
      BY <1>2, <1>4
    <2>1. ASSUME SeenStays(r) PROVE [Approval!Next]_(Approval!vars)
      <3>1. \A t \in Tasks : SeenStays(t)
        BY <2>0, <2>1
      <3> QED BY <3>1, SeenStutter
    <2>2. log[r]["approved"] \in Nat /\ log[r]["retried"] \in Nat
      BY <1>0, LogType
    <2>3. CASE RowStays(r)
      BY <1>2, <2>1, <2>3
    <2>4. CASE RowCreated(r)
      <3>1. wf[r] = <<>> /\ log[r]["approved"] = 0 /\ log[r]["retried"] = 0
        BY <1>0, <2>4 DEF RowCreated, ApprovalInv, NoEarlyRun, RowsInv, NoEarlyDecision
      <3>2. Done(r) = {}
        BY <3>1 DEF Done
      <3>3. SeenCompleted(r)' = SeenCompleted(r)
        BY <3>2, ClientDone, CompletedOf, CompletedNext
      <3>4. SeenGranted(r) = FALSE /\ SeenGranted(r)' = FALSE
        BY <2>4, <3>1 DEF SeenGranted, RowCreated, DecisionsStay
      <3>5. PhaseOf(r) = "none"
        BY <2>4, Phases DEF RowCreated, PhasesTold
      <3>6. CASE Gated(r)'
        <4>1. task'[r].status = "waiting_approval"
          BY <2>4, <3>6 DEF RowCreated, Gated
        <4>2. PhaseOf(r)' = "proposed"
          BY <3>6, <4>1, PhasesNext DEF PhasesTold
        <4>3. Approval!Propose(r)
          BY <2>0, <3>3, <3>4, <3>5, <4>2, SeenOne DEF SeenKeeps
        <4> QED BY <4>3 DEF Approval!Next
      <3>7. CASE ~Gated(r)'
        <4>1. PhaseOf(r)' = "none"
          BY <3>7, PhasesNext DEF PhasesTold
        <4> QED BY <2>1, <3>3, <3>4, <3>5, <4>1 DEF SeenStays
      <3> QED BY <3>6, <3>7
    <2>5. ASSUME KindStays(r), ~Gated(r) PROVE SeenStays(r)
      BY <2>5, UngatedSeen
    <2>6. ASSUME KindStays(r)
          PROVE  Gated(r)' = Gated(r) /\ SeenCompleted(r)' = SeenCompleted(r)
      BY <2>6, ClientDone, CompletedStays DEF Gated, KindStays
    <2>7. CASE RowQueued(c, r) /\ Gated(r)
      <3>1. /\ task[r].status \in {"waiting_approval", "failed"} /\ task'[r].status = "queued"
            /\ KindStays(r)
        BY <1>0, <2>7 DEF RowQueued, SerialInv, RequestsCurrent, Awaited
      <3>2. PhaseOf(r) \in {"proposed", "failed"} /\ PhaseOf(r)' = "authorised"
        BY <2>6, <2>7, <3>1, Phases, PhasesNext DEF PhasesTold
      <3>3. log'[r]["approved"] + log'[r]["retried"] > 0
        BY <2>2, <2>7 DEF RowQueued
      <3>4. SeenGranted(r)' = TRUE
        BY <2>6, <2>7, <3>1, <3>3 DEF SeenGranted
      <3>5. Approval!Grant(r)
        BY <2>0, <2>6, <3>1, <3>2, <3>4, SeenOne DEF SeenGrant
      <3> QED BY <3>5 DEF Approval!Next
    <2>8. CASE RowGivenUp(c, r) /\ Gated(r)
      <3>1. /\ task[r].status = "waiting_approval" /\ task'[r].status = "failed"
            /\ KindStays(r) /\ DecisionsStay(r)
        BY <1>0, <2>8 DEF RowGivenUp, SerialInv, RequestsCurrent, Awaited
      <3>2. PhaseOf(r) = "proposed" /\ PhaseOf(r)' = "failed"
        BY <2>6, <2>8, <3>1, Phases, PhasesNext DEF PhasesTold
      <3>3. SeenGranted(r)' = SeenGranted(r)
        BY <2>6, <3>1 DEF SeenGranted, DecisionsStay
      <3>4. Approval!Fail(r)
        BY <2>0, <2>6, <3>1, <3>2, <3>3, SeenOne DEF SeenKeeps
      <3> QED BY <3>4 DEF Approval!Next
    <2>9. CASE (RowQueued(c, r) \/ RowGivenUp(c, r)) /\ ~Gated(r)
      BY <2>1, <2>5, <2>9 DEF RowQueued, RowGivenUp
    <2> QED BY <1>0, <1>1, <2>3, <2>4, <2>7, <2>8, <2>9, ClientRows
  <1> QED BY <1>0, <1>1, <1>3, <1>4, ClientOneRow

\* A gated task has completed once or not at all.
LEMMA CompletedOnce ==
    ASSUME NEW t \in Tasks, Gated(t), GatedRuns(t), Done(t) # {} PROVE SeenCompleted(t) = 1
  <1>1. Done(t) = {Len(wf[t])}
    BY DEF GatedRuns
  <1>2. Cardinality(Done(t)) = 1
    BY <1>1, FS_Singleton
  <1> QED BY <1>2, CompletedOf

LEMMA WorkerRefines ==
    ASSUME OneAtATime, Known, ApprovalInv, NEW w \in Workers, AnyWorkerStep(w)
    PROVE  [Approval!Next]_(Approval!vars)
  <1>0. \A t \in Tasks : KindStays(t) /\ (RowStays(t) \/ RowClaimed(t) \/ RowSettled(w, t))
    BY WorkerTask
  <1>1. ASSUME NEW t \in Tasks, ~RowSettled(w, t) PROVE SeenStays(t)
    <2>1. PhaseOf(t)' = PhaseOf(t) /\ SeenGranted(t)' = SeenGranted(t)
      BY <1>0, <1>1, RowSeen
    <2>2. SeenCompleted(t)' = SeenCompleted(t)
      BY <1>0, WorkerDone, CompletedStays
    <2> QED BY <2>1, <2>2 DEF SeenStays
  <1>2. CASE \A t \in Tasks : ~RowSettled(w, t)
    BY <1>1, <1>2, SeenStutter
  <1>3. ASSUME NEW r \in Tasks, RowSettled(w, r)
        PROVE  [Approval!Next]_(Approval!vars)
    <2>0. \A t \in Tasks \ {r} : SeenStays(t)
      BY <1>1, <1>3 DEF RowSettled
    <2>1. ASSUME SeenStays(r) PROVE [Approval!Next]_(Approval!vars)
      <3>1. \A t \in Tasks : SeenStays(t)
        BY <2>0, <2>1
      <3> QED BY <3>1, SeenStutter
    <2>2. KindStays(r) /\ DecisionsStay(r) /\ r = worker[w].cur
      BY <1>3 DEF RowSettled
    <2>3. CASE ~Gated(r)
      BY <2>1, <2>2, <2>3, UngatedSeen
    <2>4. CASE Gated(r)
      <3>1. Gated(r)' = Gated(r)
        BY <2>2 DEF Gated, KindStays
      <3>2. SeenKeeps(r)
        <4>1. SeenGranted(r)' = SeenGranted(r)
          BY <2>2, <3>1 DEF SeenGranted, DecisionsStay
        <4>2. SeenCompleted(r)' = SeenCompleted(r)
          BY <2>2, WorkerDone, CompletedStays
        <4> QED BY <4>1, <4>2 DEF SeenKeeps
      <3>3. task[r].status = "running"
        BY <1>3, ExecutedTask DEF RowSettled
      <3>4. PhaseOf(r) = "authorised"
        BY <2>4, <3>3, Phases DEF PhasesTold
      <3>5. CASE task'[r].status = "failed"
        <4>1. PhaseOf(r)' = "failed"
          BY <2>4, <3>1, <3>5, PhasesNext DEF PhasesTold
        <4>2. Approval!Fail(r)
          BY <2>0, <3>2, <3>4, <4>1, SeenOne
        <4> QED BY <4>2 DEF Approval!Next
      <3>6. CASE task'[r].status = "succeeded"
        <4>1. PhaseOf(r)' = "succeeded"
          BY <2>4, <3>1, <3>6, PhasesNext DEF PhasesTold
        <4>2. worker[w].pc \in {"finalizing", "updating"} /\ worker[w].status = "succeeded"
          BY <1>3, <3>6 DEF RowSettled
        <4>3. Done(r) # {}
          BY <2>2, <2>4, <4>2 DEF ApprovalInv, OutcomeTrue
        <4>4. SeenCompleted(r) = 1
          BY <2>4, <4>3, CompletedOnce DEF ApprovalInv
        <4>5. Approval!Succeed(r)
          BY <2>0, <3>2, <3>4, <4>1, <4>4, SeenOne
        <4> QED BY <4>5 DEF Approval!Next
      <3> QED BY <1>3, <3>5, <3>6 DEF RowSettled
    <2> QED BY <2>3, <2>4
  <1> QED BY <1>2, <1>3

LEMMA ServerRefines ==
    ASSUME Known, ApprovalInv, NEW u \in Tasks, ServerStep(u)
    PROVE  [Approval!Next]_(Approval!vars)
  <1>0. \A t \in Tasks : RowStays(t) /\ KindStays(t)
    BY ServerTask DEF RowStays
  <1>1. RunsOK
    BY DEF Known, TInv
  <1>2. ASSUME NEW t \in Tasks, Done(t)' = Done(t) PROVE SeenStays(t)
    BY <1>0, <1>2, RowSeen, CompletedStays DEF SeenStays
  <1>3. \A t \in Tasks \ {u} : SeenStays(t)
    <2>1. \A t \in Tasks \ {u} : Done(t)' = Done(t)
      BY <1>1, ServerNewest DEF Done
    <2> QED BY <1>2, <2>1
  <1>4. ASSUME SeenStays(u) PROVE [Approval!Next]_(Approval!vars)
    <2>1. \A t \in Tasks : SeenStays(t)
      BY <1>3, <1>4
    <2> QED BY <2>1, SeenStutter
  <1>5. CASE ~Gated(u)
    BY <1>0, <1>4, <1>5, UngatedSeen
  <1>6. CASE Done(u)' = Done(u)
    BY <1>2, <1>4, <1>6
  <1>7. CASE Gated(u) /\ Done(u)' # Done(u)
    <2>1. PICK state \in {"active", "completed", "failed"} :
             NewestGets(u, state) /\ (state # "failed" => LastState(u) = "active")
      BY <1>1, ServerNewest
    <2>2. state = "completed" /\ Done(u)' = Done(u) \cup {Len(wf'[u])}
      BY <1>7, <2>1, DoneChanges
    <2>3. Len(wf[u]) \in DOMAIN wf[u] /\ wf[u][Len(wf[u])].state = "active"
      <3>1. LastState(u) = "active"
        BY <2>1, <2>2
      <3> QED BY <1>1, <3>1, OpenLast, NewestType DEF Open, Newest
    <2>4. Done(u) = {} /\ Granted(u)
      <3>1. GatedRuns(u)
        BY <1>7 DEF ApprovalInv
      <3> QED BY <2>3, <3>1 DEF GatedRuns, Done
    <2>5. SeenCompleted(u) = 0
      BY <2>4, CompletedOf
    <2>6. SeenCompleted(u)' = 1
      <3>1. Done(u)' = {Len(wf'[u])}
        BY <2>2, <2>4
      <3>2. Cardinality(Done(u)') = 1
        BY <3>1, FS_Singleton
      <3>3. Gated(u)'
        BY <1>0, <1>7 DEF KindStays, Gated
      <3> QED BY <3>2, <3>3, CompletedNext
    <2>7. SeenGranted(u) = TRUE
      BY <1>7, <2>4 DEF SeenGranted, Granted
    <2>8. SeenComplete(u)
      BY <1>0, <2>5, <2>6, <2>7, RowSeen DEF SeenComplete
    <2>9. Approval!Complete(u)
      BY <1>3, <2>8, SeenOne
    <2> QED BY <2>9 DEF Approval!Next
  <1> QED BY <1>5, <1>6, <1>7

LEMMA ApprovalSteps ==
    ASSUME OneAtATime
    PROVE  Known /\ ApprovalInv /\ [TNext]_tvars => [Approval!Next]_(Approval!vars)
  <1> SUFFICES ASSUME Known, ApprovalInv, [TNext]_tvars PROVE [Approval!Next]_(Approval!vars)
    OBVIOUS
  <1>1. CASE UNCHANGED tvars
    <2>1. UNCHANGED <<task, log, wf>>
      BY <1>1 DEF tvars, vars, temporal
    <2>2. ASSUME NEW t \in Tasks PROVE SeenStays(t)
      <3>1. RowStays(t) /\ KindStays(t) /\ Done(t)' = Done(t)
        BY <2>1 DEF RowStays, KindStays, DecisionsStay, Done
      <3> QED BY <3>1, RowSeen, CompletedStays DEF SeenStays
    <2> QED BY <2>2, SeenStutter
  <1>2. ASSUME NEW c \in Clients, AnyClientStep(c) PROVE [Approval!Next]_(Approval!vars)
    BY <1>2, ClientRefines
  <1>3. ASSUME NEW w \in Workers, AnyWorkerStep(w) PROVE [Approval!Next]_(Approval!vars)
    BY <1>3, WorkerRefines
  <1>4. ASSUME NEW u \in Tasks, ServerStep(u) PROVE [Approval!Next]_(Approval!vars)
    BY <1>4, ServerRefines
  <1> QED BY <1>1, <1>2, <1>3, <1>4 DEF TNext, AnyClientStep, AnyWorkerStep

LEMMA ApprovalStart == TInit => Approval!Init
  <1> SUFFICES ASSUME TInit PROVE Approval!Init
    OBVIOUS
  <1>1. ASSUME NEW t \in Tasks PROVE ~Gated(t)
    <2>1. task[t] = IF t \in Legacy THEN [NoRow EXCEPT !.status = "queued"] ELSE NoRow
      BY DEF TInit, Init
    <2>2. task[t].type = "report_generation"
      BY <2>1 DEF NoRow
    <2> QED BY <2>2 DEF Gated
  <1>2. \A t \in Tasks : PhaseOf(t) = "none"
    BY <1>1, Phases DEF PhasesTold
  <1> QED BY <1>1, <1>2 DEF Approval!Init

\* Tasks, workers and Temporal together keep what ToolApproval promises of a
\* gated tool, for any number of tasks, workers, attempts and lost answers:
\* the refinement that temporal_fair checks.  The hypothesis is that run's
\* configuration: one operator, and a store that does not commit a claim or an
\* outcome whose acknowledgement is lost.
THEOREM ApprovalKept == ASSUME OneAtATime PROVE TSpec => ToolApprovalIsKept
  <1>1. TSpec => [][Approval!Next]_(Approval!vars)
    BY ApprovalHolds, ApprovalSteps, PTL DEF TSpec
  <1>2. TSpec => Approval!Init
    BY ApprovalStart DEF TSpec
  <1> QED BY <1>1, <1>2, PTL DEF ToolApprovalIsKept, Approval!Spec
=============================================================================
