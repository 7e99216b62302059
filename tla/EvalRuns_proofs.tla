-------------------------- MODULE EvalRuns_proofs --------------------------
(***************************************************************************)
(* Proofs about EvalRuns, for every number of workers, runs and retries,   *)
(* every batch limit and every set of faults.                              *)
(***************************************************************************)
EXTENDS EvalRuns, TLAPS

USE ConstantsAssumption DEF Runs

----------------------------------------------------------------------------
(* Types.                                                                  *)

Tables ==
    /\ status \in [Runs -> Statuses]
    /\ results \in [Runs -> Outcomes \cup {"none"}]
    /\ events \in [Runs -> [Events -> Nat]]
    /\ last \in [Runs -> Events \cup {"none"}]

LEMMA IdleType == Idle \in WorkerState /\ WorkerOK(Idle)
  BY DEF Idle, WorkerState, WorkerOK

\* The newest event and the counts keep their types.
LEMMA AppendType ==
    ASSUME TypeOK, NEW r \in Runs, NEW event \in Events, AppendRunEvent(r, event)
    PROVE  /\ events' \in [Runs -> [Events -> Nat]]
           /\ last' \in [Runs -> Events \cup {"none"}]
  <1>1. Counted(events[r], event) \in [Events -> Nat]
    <2>1. events[r] \in [Events -> Nat]
      BY DEF TypeOK
    <2> QED BY <2>1 DEF Counted
  <1> QED BY <1>1 DEF AppendRunEvent, TypeOK

LEMMA TransitionType ==
    ASSUME TypeOK, NEW r \in Runs, NEW from, NEW to \in Statuses, NEW event \in Events,
           NEW res \in Outcomes \cup {"none"}, TransitionRun(r, from, to, event, res)
    PROVE  Tables'
  BY AppendType DEF TransitionRun, Tables, TypeOK

LEMMA ClaimType ==
    ASSUME TypeOK, NEW ids, ClaimRows(ids) PROVE Tables'
  <1>1. ASSUME NEW r \in Runs PROVE Counted(events[r], "claimed") \in [Events -> Nat]
    <2>1. events[r] \in [Events -> Nat] /\ "claimed" \in Events
      BY DEF TypeOK, Events
    <2> QED BY <2>1 DEF Counted
  <1>2. events' \in [Runs -> [Events -> Nat]]
    BY <1>1 DEF ClaimRows, TypeOK
  <1>3. /\ status' \in [Runs -> Statuses]
        /\ results' \in [Runs -> Outcomes \cup {"none"}]
        /\ last' \in [Runs -> Events \cup {"none"}]
    BY DEF ClaimRows, TypeOK, Statuses, Events
  <1> QED BY <1>2, <1>3 DEF Tables

LEMMA FaultType ==
    ASSUME TypeOK, NEW k, Fault(k) PROVE faults' \in [Kinds -> 0..MaxFaults]
  BY DEF TypeOK, Fault

\* One worker moves to a well-typed state.
LEMMA WorkerMoves ==
    ASSUME TypeOK, NEW w \in Workers, NEW s \in WorkerState, WorkerOK(s),
           worker' = [worker EXCEPT ![w] = s]
    PROVE  worker' \in [Workers -> WorkerState] /\ \A v \in Workers : WorkerOK(worker'[v])
  BY DEF TypeOK

\* What a worker can be after a step of its own is well typed.
LEMMA StateTypes ==
    ASSUME TypeOK, NEW w \in Workers, worker[w].pc # "idle"
    PROVE  /\ \A r \in Runs, pc \in {"succeeding", "failing"} : r \in worker[w].batch =>
                 Executed(w, r, pc) \in WorkerState /\ WorkerOK(Executed(w, r, pc))
           /\ worker[w].pc # "next" =>
                 /\ worker[w].cur \in Runs
                 /\ Marked(w) \in WorkerState /\ WorkerOK(Marked(w))
                 /\ MarkRejected(w) \in WorkerState /\ WorkerOK(MarkRejected(w))
                 /\ Advanced(w) \in WorkerState /\ WorkerOK(Advanced(w))
  <1>1. worker[w] \in WorkerState /\ WorkerOK(worker[w])
    BY DEF TypeOK
  <1>2. ASSUME NEW r \in Runs, r \in worker[w].batch, NEW pc \in {"succeeding", "failing"}
        PROVE  Executed(w, r, pc) \in WorkerState /\ WorkerOK(Executed(w, r, pc))
    BY <1>1, <1>2 DEF Executed, WorkerState, WorkerOK
  <1>3. ASSUME worker[w].pc # "next"
        PROVE  worker[w].cur \in worker[w].batch /\ worker[w].cur \in Runs
    BY <1>1, <1>3 DEF WorkerState, WorkerOK
  <1>4. ASSUME worker[w].pc # "next" PROVE Marked(w) \in WorkerState /\ WorkerOK(Marked(w))
    BY <1>1, <1>3, <1>4 DEF Marked, WorkerState, WorkerOK
  <1>5. ASSUME worker[w].pc # "next"
        PROVE  MarkRejected(w) \in WorkerState /\ WorkerOK(MarkRejected(w))
    BY <1>1, <1>3, <1>5, IdleType DEF MarkRejected, WorkerState, WorkerOK
  <1>6. ASSUME worker[w].pc # "next" PROVE Advanced(w) \in WorkerState /\ WorkerOK(Advanced(w))
    BY <1>1, <1>3, <1>6, IdleType DEF Advanced, Idle, WorkerState, WorkerOK
  <1> QED BY <1>2, <1>3, <1>4, <1>5, <1>6

LEMMA TypeInit == Init => TypeOK
  BY IdleType DEF Init, TypeOK, Statuses

LEMMA TypeRequest ==
    ASSUME TypeOK, NEW r \in Runs, CreateRun(r) \/ RetryRun(r) PROVE TypeOK'
  <1>1. Tables'
    <2>1. CASE CreateRun(r)
      <3>1. "created" \in Events /\ "queued" \in Statuses
        BY DEF Events, Statuses
      <3> QED BY <2>1, <3>1, AppendType DEF CreateRun, Tables, TypeOK
    <2>2. CASE RetryRun(r)
      BY <2>2, TransitionType DEF RetryRun, Events, Statuses
    <2> QED BY <2>1, <2>2
  <1> QED BY <1>1 DEF CreateRun, RetryRun, Tables, TypeOK

\* The transactions of a mark keep the tables well typed.
LEMMA MarkType ==
    ASSUME TypeOK, NEW w \in Workers, worker[w].cur \in Runs, MarkCommit(w) PROVE Tables'
  <1>1. OutcomeOf(worker[w].pc) \in Outcomes /\ Outcomes \subseteq Statuses \cap Events
    BY DEF OutcomeOf, Outcomes, Statuses, Events
  <1> QED BY <1>1, TransitionType DEF MarkCommit

LEMMA TypeWorker ==
    ASSUME TypeOK, NEW w \in Workers, WorkerStep(w) \/ WorkerFault(w) PROVE TypeOK'
  <1> DEFINE WorkersOK == /\ worker' \in [Workers -> WorkerState]
                          /\ \A v \in Workers : WorkerOK(worker'[v])
  <1>0. worker[w] \in WorkerState /\ WorkerOK(worker[w])
    BY DEF TypeOK
  <1>a. ASSUME UNCHANGED rows PROVE Tables'
    BY <1>a DEF rows, Tables, TypeOK
  <1>1. CASE ClaimQueuedRuns(w)
    <2>1. Claimable \subseteq Runs
      BY DEF Claimable, Queued
    <2> DEFINE s == [Idle EXCEPT !.pc = "next", !.batch = Claimable]
    <2>2. s \in WorkerState /\ WorkerOK(s)
      BY <1>1, <2>1 DEF ClaimQueuedRuns, Idle, WorkerState, WorkerOK
    <2> HIDE DEF s
    <2>3. WorkersOK
      BY <1>1, <2>2, WorkerMoves DEF ClaimQueuedRuns, s
    <2>4. Tables'
      BY <1>1, ClaimType DEF ClaimQueuedRuns
    <2> QED BY <1>1, <2>3, <2>4 DEF ClaimQueuedRuns, Tables, TypeOK
  <1>2. CASE ClaimLost(w)
    <2>1. Tables' /\ faults' \in [Kinds -> 0..MaxFaults]
      BY <1>2, ClaimType, FaultType DEF ClaimLost
    <2> QED BY <1>2, <2>1 DEF ClaimLost, Tables, TypeOK
  <1>3. CASE ExecuteSucceeds(w) \/ ExecuteFails(w)
    <2>1. PICK r \in Runs, pc \in {"succeeding", "failing"} :
             /\ r \in worker[w].batch
             /\ worker' = [worker EXCEPT ![w] = Executed(w, r, pc)]
      BY <1>3 DEF ExecuteSucceeds, ExecuteFails, Oldest
    <2>2. WorkersOK
      BY <1>3, <2>1, StateTypes, WorkerMoves DEF ExecuteSucceeds, ExecuteFails
    <2>3. faults' \in [Kinds -> 0..MaxFaults]
      BY <1>3, FaultType DEF ExecuteSucceeds, ExecuteFails, TypeOK
    <2>4. Tables' /\ report' = report
      BY <1>3, <1>a DEF ExecuteSucceeds, ExecuteFails
    <2> QED BY <2>2, <2>3, <2>4 DEF Tables, TypeOK
  <1>4. CASE MarkRun(w) \/ MarkLost(w)
    <2>1. worker[w].pc \notin {"idle", "next"} /\ MarkCommit(w) /\ report' = report
      BY <1>4 DEF MarkRun, MarkLost
    <2>2. Tables'
      BY <2>1, StateTypes, MarkType
    <2>3. WorkersOK
      BY <1>4, <2>1, StateTypes, WorkerMoves DEF MarkRun, MarkLost
    <2>4. faults' \in [Kinds -> 0..MaxFaults]
      BY <1>4, FaultType DEF MarkRun, MarkLost, TypeOK
    <2> QED BY <2>1, <2>2, <2>3, <2>4 DEF Tables, TypeOK
  <1>5. CASE MarkMissed(w) \/ JudgeFails(w) \/ MarkRolledBack(w)
    <2>1. /\ worker[w].pc \notin {"idle", "next"} /\ report' = report
          /\ worker' = [worker EXCEPT ![w] = MarkRejected(w)]
      BY <1>5 DEF MarkMissed, JudgeFails, MarkRolledBack
    <2>2. WorkersOK
      BY <2>1, StateTypes, WorkerMoves
    <2>3. faults' \in [Kinds -> 0..MaxFaults]
      BY <1>5, FaultType DEF MarkMissed, JudgeFails, MarkRolledBack, TypeOK
    <2>4. Tables'
      BY <1>5, <1>a DEF MarkMissed, JudgeFails, MarkRolledBack
    <2> QED BY <2>1, <2>2, <2>3, <2>4 DEF Tables, TypeOK
  <1>6. CASE ContextExpires(w)
    <2> DEFINE s == [worker[w] EXCEPT !.live = FALSE]
    <2>1. s \in WorkerState /\ WorkerOK(s)
      BY <1>0, <1>6 DEF ContextExpires, WorkerState, WorkerOK
    <2> HIDE DEF s
    <2>2. WorkersOK
      BY <1>6, <2>1, WorkerMoves DEF ContextExpires, s
    <2>3. Tables' /\ report' = report /\ faults' \in [Kinds -> 0..MaxFaults]
      BY <1>6, <1>a, FaultType DEF ContextExpires
    <2> QED BY <2>2, <2>3 DEF Tables, TypeOK
  <1>7. CASE MaterializeRead(w)
    <2> DEFINE s == [worker[w] EXCEPT !.pc = "saving", !.snap = status[worker[w].cur]]
    <2>1. s \in WorkerState /\ WorkerOK(s)
      BY <1>0, <1>7 DEF MaterializeRead, WorkerState, WorkerOK, Outcomes
    <2> HIDE DEF s
    <2>2. WorkersOK
      BY <1>7, <2>1, WorkerMoves DEF MaterializeRead, s
    <2>3. Tables' /\ UNCHANGED <<report, faults>>
      BY <1>7, <1>a DEF MaterializeRead
    <2> QED BY <2>2, <2>3 DEF Tables, TypeOK
  <1>8. CASE SaveEvalReport(w) \/ SaveLost(w)
    <2>1. worker[w].pc = "saving"
      BY <1>8 DEF SaveEvalReport, SaveLost
    <2>2. worker[w].cur \in Runs /\ worker[w].snap \in Outcomes
      BY <1>0, <2>1, StateTypes DEF WorkerState, WorkerOK
    <2>3. report' \in [Runs -> Outcomes \cup {"none"}]
      BY <1>8, <2>2 DEF SaveEvalReport, SaveLost, TypeOK
    <2>4. WorkersOK
      BY <1>8, <2>1, IdleType, StateTypes, WorkerMoves DEF SaveEvalReport, SaveLost
    <2>5. faults' \in [Kinds -> 0..MaxFaults]
      BY <1>8, FaultType DEF SaveEvalReport, SaveLost, TypeOK
    <2>6. Tables'
      BY <1>8, <1>a DEF SaveEvalReport, SaveLost
    <2> QED BY <2>3, <2>4, <2>5, <2>6 DEF Tables, TypeOK
  <1>9. CASE MaterializeMissed(w) \/ MaterializeRolledBack(w) \/ Crash(w)
    <2>1. WorkersOK
      BY <1>9, IdleType, WorkerMoves DEF MaterializeMissed, MaterializeRolledBack, Crash
    <2>2. faults' \in [Kinds -> 0..MaxFaults]
      BY <1>9, FaultType DEF MaterializeMissed, MaterializeRolledBack, Crash, TypeOK
    <2>3. Tables' /\ report' = report
      BY <1>9, <1>a DEF MaterializeMissed, MaterializeRolledBack, Crash
    <2> QED BY <2>1, <2>2, <2>3 DEF Tables, TypeOK
  <1> QED BY <1>1, <1>2, <1>3, <1>4, <1>5, <1>6, <1>7, <1>8, <1>9 DEF WorkerStep, WorkerFault

\* Every reachable state is well typed; in particular a worker that finalises
\* a run finalises one of its batch, and has read an outcome before it saves
\* a report.
THEOREM TypeCorrect == Spec => []TypeOK
  <1>1. TypeOK /\ [Next]_vars => TypeOK'
    <2> SUFFICES ASSUME TypeOK, [Next]_vars PROVE TypeOK'
      OBVIOUS
    <2>1. CASE UNCHANGED vars
      BY <2>1 DEF TypeOK, vars
    <2> QED BY <2>1, TypeRequest, TypeWorker DEF Next
  <1> QED BY <1>1, TypeInit, PTL DEF Spec

----------------------------------------------------------------------------
(* What a step can do to the rows.                                         *)

Created(r) ==
    /\ status[r] = "absent"
    /\ status' = [status EXCEPT ![r] = "queued"]
    /\ results' = results
    /\ AppendRunEvent(r, "created")

Retried(r) == TransitionRun(r, "failed", "queued", "retried", "none")

Finished(r, outcome) == TransitionRun(r, "running", outcome, outcome, outcome)

\* Whatever the workers are in the middle of, a step inserts a run, retries a
\* failed one, finishes a running one, claims queued ones or leaves the
\* tables alone.
LEMMA StepKinds ==
    ASSUME TypeOK, [Next]_vars
    PROVE  \/ UNCHANGED rows
           \/ \E r \in Runs : Created(r) \/ Retried(r)
           \/ \E r \in Runs, outcome \in Outcomes : Finished(r, outcome)
           \/ ClaimRows(Claimable)
  <1>1. CASE UNCHANGED vars
    BY <1>1 DEF vars, rows
  <1>2. ASSUME NEW r \in Runs, CreateRun(r) \/ RetryRun(r)
        PROVE  Created(r) \/ Retried(r)
    BY <1>2 DEF CreateRun, RetryRun, Created, Retried
  <1>3. ASSUME NEW w \in Workers, WorkerStep(w) \/ WorkerFault(w)
        PROVE  \/ UNCHANGED rows
               \/ \E r \in Runs, outcome \in Outcomes : Finished(r, outcome)
               \/ ClaimRows(Claimable)
    <2>1. CASE MarkRun(w) \/ MarkLost(w)
      <3>1. worker[w].cur \in Runs /\ MarkCommit(w)
        BY <2>1, StateTypes DEF MarkRun, MarkLost
      <3>2. OutcomeOf(worker[w].pc) \in Outcomes
        BY DEF OutcomeOf, Outcomes
      <3> QED BY <3>1, <3>2 DEF MarkCommit, Finished
    <2>2. CASE ClaimQueuedRuns(w) \/ ClaimLost(w)
      BY <2>2 DEF ClaimQueuedRuns, ClaimLost
    <2>3. CASE ~(MarkRun(w) \/ MarkLost(w) \/ ClaimQueuedRuns(w) \/ ClaimLost(w))
      BY <1>3, <2>3 DEF WorkerStep, WorkerFault, ExecuteSucceeds, ExecuteFails, MarkMissed,
         JudgeFails, ContextExpires, MarkRolledBack, MaterializeRead, MaterializeMissed,
         MaterializeRolledBack, SaveEvalReport, SaveLost, Crash
    <2> QED BY <2>1, <2>2, <2>3
  <1> QED BY <1>1, <1>2, <1>3 DEF Next

\* The counts after one more event.
LEMMA Appended ==
    ASSUME TypeOK, NEW r \in Runs, NEW event \in Events, AppendRunEvent(r, event), NEW q \in Runs
    PROVE  /\ last'[q] = IF q = r THEN event ELSE last[q]
           /\ events[q] \in [Events -> Nat]
           /\ \A e \in Events : events'[q][e] = events[q][e] + IF q = r /\ e = event THEN 1 ELSE 0
  <1>1. events[q] \in [Events -> Nat]
    BY DEF TypeOK
  <1>2. /\ events'[q] = IF q = r THEN Counted(events[q], event) ELSE events[q]
        /\ last'[q] = IF q = r THEN event ELSE last[q]
    BY DEF AppendRunEvent, TypeOK
  <1> QED BY <1>1, <1>2 DEF Counted

\* The counts after a claim.
LEMMA Claimed ==
    ASSUME TypeOK, ClaimRows(Claimable), NEW q \in Runs
    PROVE  /\ status'[q] = IF q \in Claimable THEN "running" ELSE status[q]
           /\ last'[q] = IF q \in Claimable THEN "claimed" ELSE last[q]
           /\ results'[q] = results[q]
           /\ q \in Claimable => status[q] = "queued"
           /\ events[q] \in [Events -> Nat]
           /\ \A e \in Events :
                 events'[q][e] = events[q][e] + IF q \in Claimable /\ e = "claimed" THEN 1 ELSE 0
  <1>1. events[q] \in [Events -> Nat]
    BY DEF TypeOK
  <1>2. events'[q] = IF q \in Claimable THEN Counted(events[q], "claimed") ELSE events[q]
    BY DEF ClaimRows
  <1>3. \A e \in Events :
          events'[q][e] = events[q][e] + IF q \in Claimable /\ e = "claimed" THEN 1 ELSE 0
    BY <1>1, <1>2 DEF Counted, Events
  <1>4. q \in Claimable => status[q] = "queued"
    BY DEF Claimable, Queued
  <1> QED BY <1>1, <1>3, <1>4 DEF ClaimRows

\* One row's part of the two invariants.
History(r) ==
    /\ status[r] = StatusAfter(last[r])
    /\ results[r] = IF status[r] \in Outcomes THEN status[r] ELSE "none"

Flow(r) ==
    /\ events[r]["created"] + events[r]["retried"]
          = events[r]["claimed"] + One(status[r] = "queued")
    /\ events[r]["claimed"]
          = events[r]["succeeded"] + events[r]["failed"] + One(status[r] = "running")

\* A step keeps the history, the item results and the row of a run in step.
LEMMA HistoryStep ==
    ASSUME TypeOK, HistoryMatchesRun, [Next]_vars, NEW q \in Runs PROVE History(q)'
  <1>0. History(q)
    BY DEF HistoryMatchesRun, History
  <1>1. CASE UNCHANGED rows
    BY <1>0, <1>1 DEF rows, History
  <1>2. ASSUME NEW r \in Runs, Created(r) PROVE History(q)'
    <2>1. "created" \in Events
      BY DEF Events
    <2>2. last'[q] = IF q = r THEN "created" ELSE last[q]
      BY <1>2, <2>1, Appended DEF Created
    <2>3. status'[q] = (IF q = r THEN "queued" ELSE status[q]) /\ results'[q] = results[q]
      BY <1>2 DEF Created, TypeOK
    <2>4. q = r => status[q] = "absent"
      BY <1>2 DEF Created
    <2> QED BY <1>0, <2>2, <2>3, <2>4 DEF History, StatusAfter, Outcomes
  <1>3. ASSUME NEW r \in Runs, Retried(r) PROVE History(q)'
    <2>1. "retried" \in Events
      BY DEF Events
    <2>2. last'[q] = IF q = r THEN "retried" ELSE last[q]
      BY <1>3, <2>1, Appended DEF Retried, TransitionRun
    <2>3. /\ status'[q] = IF q = r THEN "queued" ELSE status[q]
          /\ results'[q] = IF q = r THEN "none" ELSE results[q]
      BY <1>3 DEF Retried, TransitionRun, TypeOK
    <2> QED BY <1>0, <2>2, <2>3 DEF History, StatusAfter, Outcomes
  <1>4. ASSUME NEW r \in Runs, NEW o \in Outcomes, Finished(r, o) PROVE History(q)'
    <2>1. o \in Events
      BY DEF Events, Outcomes
    <2>2. last'[q] = IF q = r THEN o ELSE last[q]
      BY <1>4, <2>1, Appended DEF Finished, TransitionRun
    <2>3. /\ status'[q] = IF q = r THEN o ELSE status[q]
          /\ results'[q] = IF q = r THEN o ELSE results[q]
      BY <1>4 DEF Finished, TransitionRun, TypeOK
    <2> QED BY <1>0, <2>2, <2>3 DEF History, StatusAfter, Outcomes
  <1>5. CASE ClaimRows(Claimable)
    BY <1>0, <1>5, Claimed DEF History, StatusAfter, Outcomes
  <1> QED BY <1>1, <1>2, <1>3, <1>4, <1>5, StepKinds

\* The history, the item results and the row of every run agree in every
\* reachable state: each transaction of eval_runs.go writes all three.
THEOREM HistoryTrue == Spec => []HistoryMatchesRun
  <1>1. Init => HistoryMatchesRun
    BY DEF Init, HistoryMatchesRun, StatusAfter, Outcomes
  <1>2. TypeOK /\ HistoryMatchesRun /\ [Next]_vars => HistoryMatchesRun'
    BY HistoryStep DEF HistoryMatchesRun, History
  <1> QED BY <1>1, <1>2, TypeCorrect, PTL DEF Spec

\* A step takes a run from one queue entry, claim or outcome to the next.
LEMMA FlowStep ==
    ASSUME TypeOK, FlowConserved, [Next]_vars, NEW q \in Runs PROVE Flow(q)'
  <1>0. Flow(q) /\ events[q] \in [Events -> Nat]
    BY DEF FlowConserved, Flow, TypeOK
  <1>a. {"created", "retried", "claimed", "succeeded", "failed"} = Events
    BY DEF Events
  <1>1. CASE UNCHANGED rows
    BY <1>0, <1>1 DEF rows, Flow
  <1>2. ASSUME NEW r \in Runs, Created(r) PROVE Flow(q)'
    <2>1. \A e \in Events :
             events'[q][e] = events[q][e] + IF q = r /\ e = "created" THEN 1 ELSE 0
      BY <1>2, <1>a, Appended DEF Created
    <2>2. /\ status'[q] = IF q = r THEN "queued" ELSE status[q]
          /\ q = r => status[q] = "absent"
      BY <1>2 DEF Created, TypeOK
    <2> QED BY <1>0, <1>a, <2>1, <2>2 DEF Flow, One
  <1>3. ASSUME NEW r \in Runs, Retried(r) PROVE Flow(q)'
    <2>1. \A e \in Events :
             events'[q][e] = events[q][e] + IF q = r /\ e = "retried" THEN 1 ELSE 0
      BY <1>3, <1>a, Appended DEF Retried, TransitionRun
    <2>2. /\ status'[q] = IF q = r THEN "queued" ELSE status[q]
          /\ q = r => status[q] = "failed"
      BY <1>3 DEF Retried, TransitionRun, TypeOK
    <2> QED BY <1>0, <1>a, <2>1, <2>2 DEF Flow, One
  <1>4. ASSUME NEW r \in Runs, NEW o \in Outcomes, Finished(r, o) PROVE Flow(q)'
    <2>1. o \in {"succeeded", "failed"}
      BY DEF Outcomes
    <2>2. \A e \in Events :
             events'[q][e] = events[q][e] + IF q = r /\ e = o THEN 1 ELSE 0
      BY <1>4, <1>a, <2>1, Appended DEF Finished, TransitionRun
    <2>3. /\ status'[q] = IF q = r THEN o ELSE status[q]
          /\ q = r => status[q] = "running"
      BY <1>4 DEF Finished, TransitionRun, TypeOK
    <2> QED BY <1>0, <1>a, <2>1, <2>2, <2>3 DEF Flow, One
  <1>5. CASE ClaimRows(Claimable)
    <2>1. \A e \in Events :
             events'[q][e] = events[q][e] + IF q \in Claimable /\ e = "claimed" THEN 1 ELSE 0
      BY <1>5, Claimed
    <2>2. /\ status'[q] = IF q \in Claimable THEN "running" ELSE status[q]
          /\ q \in Claimable => status[q] = "queued"
      BY <1>5, Claimed
    <2> QED BY <1>0, <1>a, <2>1, <2>2 DEF Flow, One
  <1> QED BY <1>1, <1>2, <1>3, <1>4, <1>5, StepKinds

\* Between two events nothing is lost or done twice: every queue entry of a
\* run is claimed once and every claim ends in one outcome, even when a
\* worker whose mark was lost marks a run that is another's by now.
THEOREM FlowHolds == Spec => []FlowConserved
  <1>1. Init => FlowConserved
    BY DEF Init, FlowConserved, One, Events
  <1>2. TypeOK /\ FlowConserved /\ [Next]_vars => FlowConserved'
    BY FlowStep DEF FlowConserved, Flow
  <1> QED BY <1>1, <1>2, TypeCorrect, PTL DEF Spec

\* No step takes a run out of succeeded.
LEMMA SuccessStays ==
    ASSUME TypeOK, [Next]_vars, NEW q \in Runs, status[q] = "succeeded"
    PROVE  status'[q] = "succeeded"
  <1>1. CASE UNCHANGED rows
    BY <1>1 DEF rows
  <1>2. ASSUME NEW r \in Runs, Created(r) \/ Retried(r) PROVE status'[q] = "succeeded"
    BY <1>2 DEF Created, Retried, TransitionRun, TypeOK
  <1>3. ASSUME NEW r \in Runs, NEW o \in Outcomes, Finished(r, o)
        PROVE  status'[q] = "succeeded"
    BY <1>3 DEF Finished, TransitionRun, TypeOK
  <1>4. CASE ClaimRows(Claimable)
    BY <1>4, Claimed
  <1> QED BY <1>1, <1>2, <1>3, <1>4, StepKinds

\* Success is final: the compare-and-set of transitionRun stops the fallback
\* that follows a success whose acknowledgement was lost.
THEOREM SuccessIsFinal == Spec => SucceededIsFinal
  <1>1. TypeOK /\ [Next]_vars =>
           [\A r \in Runs : status[r] = "succeeded" => status'[r] = "succeeded"]_vars
    BY SuccessStays
  <1> QED BY <1>1, TypeCorrect, PTL DEF Spec, SucceededIsFinal

----------------------------------------------------------------------------
(* Reports of success.                                                     *)

\* A worker between batches has none; one that goes on to the report of a run
\* with a live context has a run that succeeded, and saves what it read of it.
SaverOK(s, st) ==
    /\ s.pc = "idle" => s.batch = {}
    /\ s.pc = "reporting" /\ s.live => st[s.cur] = "succeeded"
    /\ s.pc = "saving" => s.snap = "succeeded" /\ st[s.cur] = "succeeded"

SaverInv == SuccessReportIsTrue /\ \A w \in Workers : SaverOK(worker[w], status)

\* What has been said of a worker stays true while it does not move.
LEMMA SaverStays ==
    ASSUME TypeOK, [Next]_vars, NEW w \in Workers, SaverOK(worker[w], status)
    PROVE  SaverOK(worker[w], status')
  <1>1. worker[w] \in WorkerState /\ WorkerOK(worker[w])
    BY DEF TypeOK
  <1>2. worker[w].pc \in {"reporting", "saving"} => worker[w].cur \in Runs
    BY <1>1 DEF WorkerState, WorkerOK
  <1> QED BY <1>2, SuccessStays DEF SaverOK

\* The states a worker moves to.
LEMMA SaverStates ==
    ASSUME TypeOK, NEW w \in Workers, NEW st
    PROVE  /\ SaverOK(Idle, st) /\ SaverOK(Advanced(w), st) /\ SaverOK(MarkRejected(w), st)
           /\ \A r, pc : pc \in {"succeeding", "failing"} => SaverOK(Executed(w, r, pc), st)
  <1>1. worker[w] \in WorkerState
    BY DEF TypeOK
  <1>2. SaverOK(Idle, st) /\ SaverOK(Advanced(w), st)
    BY DEF Idle, Advanced, SaverOK
  <1>3. SaverOK(MarkRejected(w), st)
    BY <1>1, <1>2 DEF MarkRejected, SaverOK, WorkerState
  <1>4. ASSUME NEW r, NEW pc \in {"succeeding", "failing"} PROVE SaverOK(Executed(w, r, pc), st)
    BY <1>1 DEF Executed, SaverOK, WorkerState
  <1> QED BY <1>2, <1>3, <1>4

\* The mark of a worker writes its outcome to the row of its current run.
LEMMA MarkWrites ==
    ASSUME TypeOK, NEW w \in Workers, worker[w].pc \in {"succeeding", "failing", "fallback"},
           MarkCommit(w)
    PROVE  /\ worker[w].cur \in Runs /\ worker[w].cur \in worker[w].batch
           /\ status[worker[w].cur] = "running"
           /\ \A r \in Runs : status'[r] = IF r = worker[w].cur THEN OutcomeOf(worker[w].pc)
                                           ELSE status[r]
  <1>1. worker[w] \in WorkerState /\ WorkerOK(worker[w])
    BY DEF TypeOK
  <1>2. worker[w].cur \in Runs /\ worker[w].cur \in worker[w].batch
    BY <1>1 DEF WorkerState, WorkerOK
  <1> QED BY <1>2 DEF MarkCommit, TransitionRun, TypeOK

LEMMA SaverWorker ==
    ASSUME TypeOK, SaverInv, NEW w \in Workers, WorkerStep(w) \/ WorkerFault(w)
    PROVE  SaverInv'
  <1>0. worker[w] \in WorkerState /\ WorkerOK(worker[w]) /\ SaverOK(worker[w], status) /\ Next
    BY DEF TypeOK, SaverInv, Next
  <1>1. ASSUME NEW v \in Workers PROVE SaverOK(worker[v], status')
    BY <1>0, <1>1, SaverStays DEF SaverInv
  <1>2. SUFFICES /\ SuccessReportIsTrue'
                 /\ \/ worker' = worker
                    \/ \E s : SaverOK(s, status') /\ worker' = [worker EXCEPT ![w] = s]
    BY <1>1 DEF SaverInv, TypeOK
  <1>3. ASSUME report' = report PROVE SuccessReportIsTrue'
    BY <1>0, <1>3, SuccessStays DEF SaverInv, SuccessReportIsTrue
  <1>4. CASE ClaimQueuedRuns(w)
    <2> DEFINE s == [Idle EXCEPT !.pc = "next", !.batch = Claimable]
    <2>1. SaverOK(s, status')
      BY DEF Idle, SaverOK
    <2> HIDE DEF s
    <2> QED BY <1>3, <1>4, <2>1 DEF ClaimQueuedRuns, s
  <1>5. CASE ClaimLost(w)
    BY <1>3, <1>5 DEF ClaimLost
  <1>6. CASE ExecuteSucceeds(w) \/ ExecuteFails(w)
    <2>1. PICK r, pc : /\ pc \in {"succeeding", "failing"} /\ report' = report
                       /\ worker' = [worker EXCEPT ![w] = Executed(w, r, pc)]
      BY <1>6 DEF ExecuteSucceeds, ExecuteFails
    <2> QED BY <1>3, <2>1, SaverStates
  <1>7. CASE MarkRun(w)
    <2>1. worker[w].pc = "succeeding" => status'[worker[w].cur] = "succeeded"
      BY <1>7, MarkWrites DEF MarkRun, OutcomeOf
    <2>2. SaverOK(Marked(w), status')
      BY <1>0, <2>1 DEF Marked, SaverOK, WorkerState
    <2> QED BY <1>3, <1>7, <2>2 DEF MarkRun
  <1>8. CASE MarkLost(w) \/ MarkMissed(w) \/ JudgeFails(w) \/ MarkRolledBack(w)
    BY <1>3, <1>8, SaverStates DEF MarkLost, MarkMissed, JudgeFails, MarkRolledBack
  <1>9. CASE ContextExpires(w)
    <2> DEFINE s == [worker[w] EXCEPT !.live = FALSE]
    <2>1. SaverOK(s, status')
      BY <1>0, <1>9 DEF ContextExpires, SaverOK, WorkerState, rows
    <2> HIDE DEF s
    <2> QED BY <1>3, <1>9, <2>1 DEF ContextExpires, s
  <1>10. CASE MaterializeRead(w)
    <2> DEFINE s == [worker[w] EXCEPT !.pc = "saving", !.snap = status[worker[w].cur]]
    <2>1. status[worker[w].cur] = "succeeded" /\ worker[w].live /\ status' = status
      BY <1>0, <1>10 DEF MaterializeRead, SaverOK, rows
    <2>2. SaverOK(s, status')
      BY <1>0, <2>1 DEF SaverOK, WorkerState
    <2> HIDE DEF s
    <2> QED BY <1>3, <1>10, <2>2 DEF MaterializeRead, s
  <1>11. CASE SaveEvalReport(w) \/ SaveLost(w)
    <2>1. worker[w].cur \in Runs /\ worker[w].snap = "succeeded" /\ status[worker[w].cur] = "succeeded"
      BY <1>0, <1>11 DEF SaveEvalReport, SaveLost, SaverOK, WorkerState, WorkerOK
    <2>2. status' = status /\ report' = [report EXCEPT ![worker[w].cur] = "succeeded"]
      BY <1>11, <2>1 DEF SaveEvalReport, SaveLost, rows
    <2>3. SuccessReportIsTrue'
      BY <2>1, <2>2 DEF SaverInv, SuccessReportIsTrue, TypeOK
    <2> QED BY <1>11, <2>3, SaverStates DEF SaveEvalReport, SaveLost
  <1>12. CASE MaterializeMissed(w) \/ MaterializeRolledBack(w) \/ Crash(w)
    BY <1>3, <1>12, SaverStates DEF MaterializeMissed, MaterializeRolledBack, Crash
  <1> QED BY <1>4, <1>5, <1>6, <1>7, <1>8, <1>9, <1>10, <1>11, <1>12 DEF WorkerStep, WorkerFault

LEMMA SaverNext == TypeOK /\ SaverInv /\ [Next]_vars => SaverInv'
  <1> SUFFICES ASSUME TypeOK, SaverInv, [Next]_vars PROVE SaverInv'
    OBVIOUS
  <1>1. CASE UNCHANGED vars
    BY <1>1 DEF vars, SaverInv, SuccessReportIsTrue
  <1>2. ASSUME NEW r \in Runs, CreateRun(r) \/ RetryRun(r) PROVE SaverInv'
    <2>1. worker' = worker /\ report' = report
      BY <1>2 DEF CreateRun, RetryRun
    <2>2. SuccessReportIsTrue'
      BY <2>1, SuccessStays DEF SaverInv, SuccessReportIsTrue
    <2>3. \A w \in Workers : SaverOK(worker[w], status')
      BY SaverStays DEF SaverInv
    <2> QED BY <2>1, <2>2, <2>3 DEF SaverInv
  <1> QED BY <1>1, <1>2, SaverWorker DEF Next

LEMMA SaverHolds == Spec => []SaverInv
  <1>1. Init => SaverInv
    BY DEF Init, SaverInv, SuccessReportIsTrue, SaverOK, Idle
  <1> QED BY <1>1, SaverNext, TypeCorrect, PTL DEF Spec

\* An eval report never says of a run that it succeeded when it did not, after
\* any number of retries, with any fault: a worker comes to save a report only
\* with the context of a success it has marked itself, and success is final.
THEOREM ReportsTrue == Spec => []SuccessReportIsTrue
  <1>1. SaverInv => SuccessReportIsTrue
    BY DEF SaverInv
  <1> QED BY <1>1, SaverHolds, PTL

\* There is a report of r, or a worker about to save one.
Reported(r) ==
    \/ report[r] = "succeeded"
    \/ \E w \in Workers : /\ worker[w].cur = r /\ worker[w].live
                          /\ worker[w].pc \in {"reporting", "saving"}

NoStoreFault == \A k \in {"deadline", "rollback", "lostack", "crash"} : faults[k] = 0

\* A fault is remembered.
LEMMA FaultShows ==
    ASSUME TypeOK, NEW k \in Kinds, Fault(k) PROVE faults'[k] # 0
  BY DEF TypeOK, Fault

\* A step forgets no fault.
LEMMA FaultsGrow ==
    ASSUME TypeOK, [Next]_vars, NEW k \in Kinds, faults'[k] = 0 PROVE faults[k] = 0
  <1>1. faults' = faults \/ \E j \in Kinds : faults' = [faults EXCEPT ![j] = @ + 1]
    BY DEF Next, vars, CreateRun, RetryRun, WorkerStep, WorkerFault, ClaimQueuedRuns,
           ExecuteSucceeds, MarkRun, MarkMissed, MaterializeRead, MaterializeMissed, SaveEvalReport,
           ClaimLost, ExecuteFails, JudgeFails, ContextExpires, MarkRolledBack, MarkLost,
           MaterializeRolledBack, SaveLost, Crash, Fault
  <1>2. faults \in [Kinds -> Nat]
    BY DEF TypeOK
  <1> QED BY <1>1, <1>2

\* A worker's step keeps the report of a success, or brings it nearer.
LEMMA ReportedWorker ==
    ASSUME TypeOK, SaverInv, NEW w \in Workers, WorkerStep(w) \/ WorkerFault(w),
           NoStoreFault', NEW r \in Runs, status'[r] = "succeeded",
           status[r] = "succeeded" => Reported(r)
    PROVE  Reported(r)'
  <1>0. worker[w] \in WorkerState /\ WorkerOK(worker[w]) /\ SaverOK(worker[w], status)
    BY DEF TypeOK, SaverInv
  <1>1. {"deadline", "rollback", "lostack", "crash"} \subseteq Kinds
    BY DEF Kinds
  <1>2. /\ ~Fault("deadline") /\ ~Fault("rollback") /\ ~Fault("lostack") /\ ~Fault("crash")
    BY <1>1, FaultShows DEF NoStoreFault
  <1>3. ASSUME NEW s, worker' = [worker EXCEPT ![w] = s] 
        PROVE  worker'[w] = s /\ \A v \in Workers \ {w} : worker'[v] = worker[v]
    BY <1>3 DEF TypeOK
  <1>4. ASSUME NEW s, worker' = [worker EXCEPT ![w] = s], status[r] = "succeeded", report' = report,
               worker[w].cur # r \/ worker[w].pc \notin {"reporting", "saving"}
                 \/ ~worker[w].live
        PROVE  Reported(r)'
    BY <1>3, <1>4 DEF Reported
  <1>5. CASE ClaimQueuedRuns(w)
    <2>1. status[r] = "succeeded"
      BY <1>5, Claimed DEF ClaimQueuedRuns
    <2> QED BY <1>4, <1>5, <2>1 DEF ClaimQueuedRuns
  <1>6. CASE ExecuteSucceeds(w) \/ ExecuteFails(w) \/ MarkMissed(w) \/ JudgeFails(w)
    <2>1. status' = status /\ report' = report /\ \E s : worker' = [worker EXCEPT ![w] = s]
      BY <1>6 DEF ExecuteSucceeds, ExecuteFails, MarkMissed, JudgeFails, rows
    <2>2. worker[w].pc \notin {"reporting", "saving"}
      BY <1>6 DEF ExecuteSucceeds, ExecuteFails, MarkMissed, JudgeFails
    <2> QED BY <1>4, <2>1, <2>2
  <1>7. CASE MarkRun(w)
    <2>1. worker[w].pc \in {"succeeding", "failing", "fallback"} /\ MarkCommit(w)
      BY <1>7 DEF MarkRun
    <2>2. CASE status[r] = "succeeded"
      BY <1>4, <1>7, <2>1, <2>2 DEF MarkRun
    <2>3. CASE status[r] # "succeeded"
      <3>1. r = worker[w].cur /\ worker[w].pc = "succeeding"
        BY <2>1, <2>3, MarkWrites DEF OutcomeOf
      <3>2. Marked(w).cur = r /\ Marked(w).live /\ Marked(w).pc = "reporting"
        BY <1>0, <3>1 DEF Marked, WorkerState
      <3>3. worker'[w] = Marked(w)
        BY <1>3, <1>7 DEF MarkRun
      <3> QED BY <3>2, <3>3 DEF Reported
    <2> QED BY <2>2, <2>3
  <1>8. CASE MaterializeRead(w)
    <2> DEFINE s == [worker[w] EXCEPT !.pc = "saving", !.snap = status[worker[w].cur]]
    <2>1. /\ worker' = [worker EXCEPT ![w] = s] /\ status' = status /\ report' = report
          /\ worker[w].live /\ worker[w].pc = "reporting"
      BY <1>8 DEF MaterializeRead, rows
    <2>2. s.cur = worker[w].cur /\ s.live = worker[w].live /\ s.pc = "saving"
      BY <1>0 DEF WorkerState
    <2> HIDE DEF s
    <2>3. CASE worker[w].cur = r
      BY <1>3, <2>1, <2>2, <2>3 DEF Reported
    <2>4. CASE worker[w].cur # r
      BY <1>4, <2>1, <2>4
    <2> QED BY <2>3, <2>4
  <1>9. CASE MaterializeMissed(w)
    <2>1. status' = status /\ report' = report /\ worker[w].pc \in {"reporting", "saving"}
      BY <1>9 DEF MaterializeMissed, rows
    <2>2. ~worker[w].live
      BY <1>0, <1>9, <2>1 DEF MaterializeMissed, SaverOK, Outcomes
    <2> QED BY <1>4, <1>9, <2>1, <2>2 DEF MaterializeMissed
  <1>10. CASE SaveEvalReport(w)
    <2>1. worker[w].snap = "succeeded" /\ status' = status
      BY <1>0, <1>10 DEF SaveEvalReport, SaverOK, rows
    <2>2. worker[w].cur = r => report'[r] = "succeeded"
      BY <1>10, <2>1 DEF SaveEvalReport, TypeOK
    <2>3. report[r] = "succeeded" => report'[r] = "succeeded"
      BY <1>10, <2>1 DEF SaveEvalReport, TypeOK
    <2>4. \A v \in Workers \ {w} : worker'[v] = worker[v]
      BY <1>3, <1>10 DEF SaveEvalReport
    <2> QED BY <2>1, <2>2, <2>3, <2>4 DEF Reported
  <1> QED BY <1>2, <1>5, <1>6, <1>7, <1>8, <1>9, <1>10
          DEF WorkerStep, WorkerFault, ClaimLost, ContextExpires, MarkRolledBack, MarkLost,
              MaterializeRolledBack, SaveLost, Crash

\* Whatever executions and the judge's provider fail with, a success does not
\* go unreported: its report exists, or a worker holds a live context for it,
\* as long as no transaction fails, no process dies and no context expires.
THEOREM SuccessReported == Spec => []SuccessIsReported
  <1>1. SuccessIsReported <=> (NoStoreFault => \A r \in Runs : status[r] = "succeeded" => Reported(r))
    BY DEF SuccessIsReported, NoStoreFault, Reported
  <1>2. Init => SuccessIsReported
    BY <1>1 DEF Init
  <1>3. TypeOK /\ SaverInv /\ SuccessIsReported /\ [Next]_vars => SuccessIsReported'
    <2> SUFFICES ASSUME TypeOK, SaverInv, SuccessIsReported, [Next]_vars, NoStoreFault',
                        NEW r \in Runs, status'[r] = "succeeded"
                 PROVE  Reported(r)'
      BY DEF SuccessIsReported, NoStoreFault, Reported
    <2>0. {"deadline", "rollback", "lostack", "crash"} \subseteq Kinds
      BY DEF Kinds
    <2>1. status[r] = "succeeded" => Reported(r)
      BY <1>1, <2>0, FaultsGrow DEF NoStoreFault
    <2>2. CASE UNCHANGED vars
      BY <2>1, <2>2 DEF vars, Reported
    <2>3. ASSUME NEW q \in Runs, CreateRun(q) \/ RetryRun(q) PROVE Reported(r)'
      <3>1. status[r] = "succeeded"
        BY <2>3 DEF CreateRun, RetryRun, TransitionRun, TypeOK
      <3> QED BY <2>1, <2>3, <3>1 DEF CreateRun, RetryRun, Reported
    <2> QED BY <2>1, <2>2, <2>3, ReportedWorker DEF Next
  <1> QED BY <1>2, <1>3, SaverHolds, TypeCorrect, PTL DEF Spec

----------------------------------------------------------------------------
(* Owners.                                                                 *)

\* What a worker owns is running, and nobody else owns it.
OwnedRunsRun == \A w \in Workers, r \in Runs : Owns(w, r) => status[r] = "running"

OneOwner == \A r \in Runs : \A v, w \in Workers : Owns(v, r) /\ Owns(w, r) => v = w

OwnerInv == faults["lostack"] = 0 => OwnedRunsRun /\ OneOwner

\* Letting go of runs, or moving on with them, disturbs nobody.
LEMMA OwnsLess ==
    ASSUME OwnedRunsRun, OneOwner, NEW w \in Workers, status' = status,
           \A v \in Workers \ {w} : worker'[v] = worker[v],
           \A r \in Runs : Owns(w, r)' => Owns(w, r)
    PROVE  OwnedRunsRun' /\ OneOwner'
  <1>1. \A v \in Workers, r \in Runs : Owns(v, r)' => Owns(v, r)
    BY DEF Owns
  <1> HIDE DEF Owns
  <1> QED BY <1>1 DEF OwnedRunsRun, OneOwner

LEMMA OwnerWorker ==
    ASSUME TypeOK, SaverInv, OwnedRunsRun, OneOwner, NEW w \in Workers,
           WorkerStep(w) \/ WorkerFault(w), ~Fault("lostack")
    PROVE  OwnedRunsRun' /\ OneOwner'
  <1>0. worker[w] \in WorkerState /\ WorkerOK(worker[w]) /\ SaverOK(worker[w], status)
    BY DEF TypeOK, SaverInv
  <1>1. ASSUME NEW s, worker' = [worker EXCEPT ![w] = s]
        PROVE  worker'[w] = s /\ \A v \in Workers \ {w} : worker'[v] = worker[v]
    BY <1>1 DEF TypeOK
  <1>2. ASSUME NEW s, worker' = [worker EXCEPT ![w] = s], status' = status,
               s.batch \subseteq worker[w].batch,
               worker[w].pc \in {"reporting", "saving"} =>
                  \/ worker[w].cur \notin s.batch
                  \/ s.cur = worker[w].cur /\ s.pc \in {"reporting", "saving"}
        PROVE  OwnedRunsRun' /\ OneOwner'
    <2>1. \A r \in Runs : Owns(w, r)' => Owns(w, r)
      BY <1>1, <1>2 DEF Owns
    <2> QED BY <1>1, <1>2, <2>1, OwnsLess
  <1>3. Idle.batch = {}
    BY DEF Idle
  <1>4. CASE ClaimQueuedRuns(w)
    <2> DEFINE s == [Idle EXCEPT !.pc = "next", !.batch = Claimable]
    <2>1. s.batch = Claimable /\ s.pc = "next"
      BY DEF Idle
    <2>2. worker' = [worker EXCEPT ![w] = s] /\ worker[w].batch = {}
      BY <1>0, <1>4 DEF ClaimQueuedRuns, SaverOK
    <2> HIDE DEF s
    <2>3. \A r \in Runs : Owns(w, r)' <=> r \in Claimable
      BY <1>1, <2>1, <2>2 DEF Owns
    <2>4. \A v \in Workers \ {w}, r \in Runs : Owns(v, r)' <=> Owns(v, r)
      BY <1>1, <2>2 DEF Owns
    <2>5. \A r \in Runs : /\ status'[r] = IF r \in Claimable THEN "running" ELSE status[r]
                          /\ r \in Claimable => status[r] = "queued"
      BY <1>4, Claimed DEF ClaimQueuedRuns
    <2>6. \A v \in Workers, r \in Runs : Owns(v, r) => r \notin Claimable
      BY <2>5 DEF OwnedRunsRun
    <2>7. OwnedRunsRun'
      BY <2>3, <2>4, <2>5 DEF OwnedRunsRun
    <2>8. OneOwner'
      BY <2>3, <2>4, <2>6 DEF OneOwner
    <2> QED BY <2>7, <2>8
  <1>5. CASE ExecuteSucceeds(w) \/ ExecuteFails(w)
    <2>1. PICK r, pc : worker' = [worker EXCEPT ![w] = Executed(w, r, pc)]
      BY <1>5 DEF ExecuteSucceeds, ExecuteFails
    <2>2. Executed(w, r, pc).batch = worker[w].batch
      BY <1>0 DEF Executed, WorkerState
    <2>3. worker[w].pc = "next" /\ status' = status
      BY <1>5 DEF ExecuteSucceeds, ExecuteFails, rows
    <2> QED BY <1>2, <2>1, <2>2, <2>3
  <1>6. CASE MarkRun(w)
    <2>1. worker[w].pc \in {"succeeding", "failing", "fallback"} /\ MarkCommit(w)
      BY <1>6 DEF MarkRun
    <2>2. /\ Marked(w).cur = worker[w].cur /\ Marked(w).batch = worker[w].batch
          /\ Marked(w).pc = "reporting"
      BY <1>0 DEF Marked, WorkerState
    <2>3. worker'[w] = Marked(w) /\ \A v \in Workers \ {w} : worker'[v] = worker[v]
      BY <1>1, <1>6 DEF MarkRun
    <2>4. PICK cur \in Runs : cur = worker[w].cur
      BY <2>1, MarkWrites
    <2>5. cur \in worker[w].batch /\ \A r \in Runs \ {cur} : status'[r] = status[r]
      BY <2>1, <2>4, MarkWrites
    <2>6. \A v \in Workers, r \in Runs : Owns(v, r)' => Owns(v, r)
      BY <2>1, <2>2, <2>3 DEF Owns
    <2>7. ASSUME NEW v \in Workers PROVE ~Owns(v, cur)'
      <3>1. CASE v = w
        BY <2>2, <2>3, <2>4, <3>1 DEF Owns
      <3>2. CASE v # w
        <4>1. Owns(w, cur)
          BY <2>1, <2>4, <2>5 DEF Owns
        <4>2. ~Owns(v, cur)
          BY <3>2, <4>1 DEF OneOwner
        <4> QED BY <2>6, <4>2
      <3> QED BY <3>1, <3>2
    <2>8. OwnedRunsRun'
      <3> SUFFICES ASSUME NEW v \in Workers, NEW r \in Runs, Owns(v, r)'
                   PROVE  status'[r] = "running"
        BY DEF OwnedRunsRun
      <3>1. r # cur
        BY <2>7
      <3>2. status[r] = "running"
        BY <2>6 DEF OwnedRunsRun
      <3> QED BY <2>5, <3>1, <3>2
    <2>9. OneOwner'
      BY <2>6 DEF OneOwner
    <2> QED BY <2>8, <2>9
  <1>7. CASE MarkMissed(w) \/ JudgeFails(w) \/ MarkRolledBack(w)
    <2>1. /\ worker' = [worker EXCEPT ![w] = MarkRejected(w)] /\ status' = status
          /\ worker[w].pc \notin {"reporting", "saving"}
      BY <1>7 DEF MarkMissed, JudgeFails, MarkRolledBack, rows
    <2>2. MarkRejected(w).batch \subseteq worker[w].batch
      BY <1>0, <1>3 DEF MarkRejected, WorkerState
    <2> QED BY <1>2, <2>1, <2>2
  <1>8. CASE ContextExpires(w)
    <2> DEFINE s == [worker[w] EXCEPT !.live = FALSE]
    <2>1. s.batch = worker[w].batch /\ s.cur = worker[w].cur /\ s.pc = worker[w].pc
      BY <1>0 DEF WorkerState
    <2>2. worker' = [worker EXCEPT ![w] = s] /\ status' = status
      BY <1>8 DEF ContextExpires, rows
    <2> HIDE DEF s
    <2> QED BY <1>2, <2>1, <2>2
  <1>9. CASE MaterializeRead(w)
    <2> DEFINE s == [worker[w] EXCEPT !.pc = "saving", !.snap = status[worker[w].cur]]
    <2>1. s.batch = worker[w].batch /\ s.cur = worker[w].cur /\ s.pc = "saving"
      BY <1>0 DEF WorkerState
    <2>2. worker' = [worker EXCEPT ![w] = s] /\ status' = status
      BY <1>9 DEF MaterializeRead, rows
    <2> HIDE DEF s
    <2> QED BY <1>2, <2>1, <2>2
  <1>10. CASE SaveEvalReport(w)
    <2>1. Advanced(w).batch = worker[w].batch \ {worker[w].cur}
      BY DEF Advanced, Idle
    <2>2. worker' = [worker EXCEPT ![w] = Advanced(w)] /\ status' = status
      BY <1>10 DEF SaveEvalReport, rows
    <2> QED BY <1>2, <2>1, <2>2
  <1>11. CASE MaterializeMissed(w) \/ MaterializeRolledBack(w) \/ Crash(w)
    <2>1. worker' = [worker EXCEPT ![w] = Idle] /\ status' = status
      BY <1>11 DEF MaterializeMissed, MaterializeRolledBack, Crash, rows
    <2> QED BY <1>2, <1>3, <2>1
  <1> QED BY <1>4, <1>5, <1>6, <1>7, <1>8, <1>9, <1>10, <1>11
          DEF WorkerStep, WorkerFault, ClaimLost, MarkLost, SaveLost

\* As long as no acknowledgement was lost, a run has one owner at most: only
\* the claim that marks a queued run hands it out, and a worker that has
\* marked its run, or was told that it cannot, does not come back to it.
THEOREM OwnersUnique == Spec => []OwnerIsUnique
  <1>1. Init => OwnerInv
    BY DEF Init, OwnerInv, OwnedRunsRun, OneOwner, Owns, Idle
  <1>2. TypeOK /\ SaverInv /\ OwnerInv /\ [Next]_vars => OwnerInv'
    <2> SUFFICES ASSUME TypeOK, SaverInv, OwnerInv, [Next]_vars, faults'["lostack"] = 0
                 PROVE  OwnedRunsRun' /\ OneOwner'
      BY DEF OwnerInv
    <2>0. "lostack" \in Kinds
      BY DEF Kinds
    <2>1. ~Fault("lostack")
      <3> SUFFICES ASSUME Fault("lostack") PROVE FALSE
        OBVIOUS
      <3> QED BY <2>0, FaultShows
    <2>2. OwnedRunsRun /\ OneOwner
      BY <2>0, FaultsGrow DEF OwnerInv
    <2>3. CASE UNCHANGED vars
      BY <2>2, <2>3 DEF vars, OwnedRunsRun, OneOwner, Owns
    <2>4. ASSUME NEW r \in Runs, CreateRun(r) \/ RetryRun(r) PROVE OwnedRunsRun' /\ OneOwner'
      <3>1. /\ worker' = worker /\ status[r] \in {"absent", "failed"}
            /\ \A q \in Runs \ {r} : status'[q] = status[q]
        BY <2>4 DEF CreateRun, RetryRun, TransitionRun, TypeOK
      <3>2. \A w \in Workers, q \in Runs : Owns(w, q)' <=> Owns(w, q)
        BY <3>1 DEF Owns
      <3> QED BY <2>2, <3>1, <3>2 DEF OwnedRunsRun, OneOwner
    <2> QED BY <2>1, <2>2, <2>3, <2>4, OwnerWorker DEF Next
  <1>3. OwnerInv => OwnerIsUnique
    BY DEF OwnerInv, OwnerIsUnique, OneOwner
  <1> QED BY <1>1, <1>2, <1>3, SaverHolds, TypeCorrect, PTL DEF Spec
=============================================================================
