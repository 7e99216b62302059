-------------------------------- MODULE Cases --------------------------------
(***************************************************************************)
(* The operator case queue of internal/case over its PostgreSQL store: how *)
(* API requests create cases with a de-duplication by source, close and    *)
(* reopen them, assign them under optimistic concurrency, and add notes.   *)
(*                                                                         *)
(* Each store operation is one transaction.  A creation is two steps of    *)
(* the handler, the lookup of an open case with the same source and the    *)
(* save; an assignment is two as well, the read of the case and an UPDATE  *)
(* that names the updated_at which was read.  All cases are of one tenant. *)
(***************************************************************************)
EXTENDS Integers

CONSTANTS
    Clients,      \* API request handlers that may run concurrently
    Operators,    \* names an operator may sign with
    EvalCases,    \* ids of eval cases a case may come from
    EvalReports,  \* ids of eval reports
    EvalRuns,     \* ids of eval runs
    Compares,     \* compare origins: left and right report and selected side
    MaxCases,     \* case ids are 1..MaxCases
    MaxOps        \* bound: requests accepted in one behaviour

ASSUME ConstantsAssumption ==
    /\ MaxCases \in Nat
    /\ MaxOps \in Nat
    /\ "none" \notin Operators \cup EvalRuns

CaseIds == 1..MaxCases

\* A compare origin comes with the report of its selected side and with no
\* other source.
CompareOriginOK(s) ==
    s.compare # "none" => s.evalReport # "none" /\ s.evalCase = "none" /\ s.evalRun = "none"

\* Where a case comes from, as a request may state it; the empty string of the
\* code is "none" here and below.  The ids exist and belong together.
Sources ==
    {s \in [evalCase : EvalCases \cup {"none"}, evalReport : EvalReports \cup {"none"},
            evalRun : EvalRuns \cup {"none"}, compare : Compares \cup {"none"}] :
        CompareOriginOK(s)}

\* assignee stands for assigned_to and assigned_at, which are written together.
\* updatedAt counts the writes: only its equality is ever asked for, and no two
\* writes of a case are taken to fall into the same microsecond.
Row == [status : {"absent", "open", "closed"}, source : Sources,
        assignee : Operators \cup {"none"}, closedBy : Operators \cup {"none"}, updatedAt : Nat]

NoSource == [evalCase |-> "none", evalReport |-> "none", evalRun |-> "none", compare |-> "none"]

NoRow == [status |-> "absent", source |-> NoSource, assignee |-> "none",
          closedBy |-> "none", updatedAt |-> 0]

Notes == {"added", "reopened", "returned"}

VARIABLES
    cases,   \* [CaseIds -> Row]: the cases table
    notes,   \* notes[i][k]: how many notes of kind k the case i has
    api,     \* what each handler is in the middle of
    ops      \* requests accepted so far

vars == <<cases, notes, api, ops>>

IdleClient == [pc |-> "idle", id |-> 0, snap |-> NoRow, source |-> NoSource]

NewCase(s) == [NoRow EXCEPT !.status = "open", !.source = s]

\* Compare origins were stored before creations looked for them: there may be
\* cases of them from that time.
CompareCases == {NewCase(s) : s \in {x \in Sources : x.compare # "none"}}

Init ==
    /\ cases \in [CaseIds -> {NoRow} \cup CompareCases]
    /\ notes = [i \in CaseIds |-> [k \in Notes |-> 0]]
    /\ api = [c \in Clients |-> IdleClient]
    /\ ops = 0

Accept == ops < MaxOps /\ ops' = ops + 1

\* The note counts of a case after one more note.
Counted(counts, kind) == [counts EXCEPT ![kind] = @ + 1]

Noted(i, kind) == [notes EXCEPT ![i] = Counted(notes[i], kind)]

\* A row after an UPDATE: every one of them sets updated_at.
Updated(row, status, assignee, closedBy) ==
    [status |-> status, source |-> row.source, assignee |-> assignee,
     closedBy |-> closedBy, updatedAt |-> row.updatedAt + 1]

\* A handler is done with its request.
Return(c) == api' = [api EXCEPT ![c] = IdleClient]

----------------------------------------------------------------------------
(* Creation.                                                               *)

IsOpen(i) == cases[i].status = "open"

FindOpenCaseBySourceEvalCase(s) ==
    {i \in CaseIds : /\ IsOpen(i)
                     /\ cases[i].source.evalCase = s.evalCase
                     /\ cases[i].source.compare = "none"}

FindOpenByCompareOrigin(s) ==
    {i \in CaseIds : /\ IsOpen(i)
                     /\ cases[i].source.evalReport = s.evalReport
                     /\ cases[i].source.compare = s.compare}

FindOpenCaseBySourceEvalReport(s) ==
    {i \in CaseIds : /\ IsOpen(i)
                     /\ cases[i].source.evalReport = s.evalReport
                     /\ cases[i].source.evalCase = "none"
                     /\ cases[i].source.compare = "none"}

\* The open cases that the handler's lookup for a source finds.  A source
\* calls for one lookup at most; one of a run or of nothing calls for none.
OpenCasesFor(s) ==
    CASE s.evalCase # "none" -> FindOpenCaseBySourceEvalCase(s)
      [] s.compare # "none" -> FindOpenByCompareOrigin(s)
      [] s.evalReport # "none" /\ s.evalCase = "none" /\ s.compare = "none" ->
            FindOpenCaseBySourceEvalReport(s)
      [] OTHER -> {}

\* The lookup finds nothing.  The handler goes on to save, except for a compare
\* origin: there scanCase has turned the empty result into ErrCaseNotFound,
\* which FindOpenByCompareOrigin, testing for pgx.ErrNoRows, returns as an error
\* of the lookup, and the request ends with it.  A request whose lookup finds a
\* case returns that case and changes nothing.
CreateLookup(c, s) ==
    /\ api[c].pc = "idle"
    /\ Accept
    /\ OpenCasesFor(s) = {}
    /\ \E pc \in {"saving", "refused"} :
          /\ pc = "refused" <=> s.compare # "none"
          /\ api' = [api EXCEPT ![c] = [IdleClient EXCEPT !.pc = pc, !.source = s]]
    /\ UNCHANGED <<cases, notes>>

OpenCasesOfRun(run) == {i \in CaseIds : IsOpen(i) /\ cases[i].source.evalRun = run}

\* Mutant: a run-backed case is saved without looking under the table lock.
SaveCaseUnlocked(c, i) ==
    /\ api[c].pc = "saving"
    /\ cases[i].status = "absent"
    /\ cases' = [cases EXCEPT ![i] = NewCase(api[c].source)]
    /\ Return(c)
    /\ UNCHANGED <<notes, ops>>

\* Save, or SaveOrReuseOpenEvalRunCase when the source names a run: that one
\* looks and inserts under a lock of the whole table.
SaveCase(c, i) ==
    /\ api[c].pc = "saving"
    /\ api[c].source.evalRun # "none" => OpenCasesOfRun(api[c].source.evalRun) = {}
    /\ cases[i].status = "absent"
    /\ cases' = [cases EXCEPT ![i] = NewCase(api[c].source)]
    /\ Return(c)
    /\ UNCHANGED <<notes, ops>>

ReuseOpenEvalRunCase(c) ==
    /\ api[c].pc = "saving"
    /\ api[c].source.evalRun # "none"
    /\ OpenCasesOfRun(api[c].source.evalRun) # {}
    /\ Return(c)
    /\ UNCHANGED <<cases, notes, ops>>

----------------------------------------------------------------------------
(* Close, reopen, note: one transaction each.                              *)

\* Mutant: the close leaves updated_at alone.
CloseSilently(i, op) ==
    /\ Accept
    /\ IsOpen(i)
    /\ cases' = [cases EXCEPT ![i] = [@ EXCEPT !.status = "closed", !.closedBy = op]]
    /\ UNCHANGED <<notes, api>>

\* Close asks for any status but closed, and for no updated_at.
CloseCase(i, op) ==
    /\ Accept
    /\ IsOpen(i)
    /\ cases' = [cases EXCEPT ![i] =
                    Updated(cases[i], "closed", cases[i].assignee, op)]
    /\ UNCHANGED <<notes, api>>

\* Mutant: the signature of the close stays on the reopened case.
ReopenKeepsClosedBy(i) ==
    /\ Accept
    /\ cases[i].status = "closed"
    /\ cases' = [cases EXCEPT ![i] =
                    Updated(cases[i], "open", cases[i].assignee, cases[i].closedBy)]
    /\ notes' = Noted(i, "reopened")
    /\ UNCHANGED api

\* The assignee stays; an audit note is added in the same transaction.
ReopenCase(i) ==
    /\ Accept
    /\ cases[i].status = "closed"
    /\ cases' = [cases EXCEPT ![i] =
                    Updated(cases[i], "open", cases[i].assignee, "none")]
    /\ notes' = Noted(i, "reopened")
    /\ UNCHANGED api

AddNote(i) ==
    /\ Accept
    /\ cases[i].status # "absent"
    /\ cases' = [cases EXCEPT ![i] = Updated(cases[i], cases[i].status, cases[i].assignee,
                                             cases[i].closedBy)]
    /\ notes' = Noted(i, "added")
    /\ UNCHANGED api

----------------------------------------------------------------------------
(* Assignment under optimistic concurrency.                                *)

AssignRead(c, i) ==
    /\ api[c].pc = "idle"
    /\ Accept
    /\ cases[i].status # "absent"
    /\ api' = [api EXCEPT ![c] =
                  [IdleClient EXCEPT !.pc = "assigning", !.id = i, !.snap = cases[i]]]
    /\ UNCHANGED <<cases, notes>>

\* UnassignCase checks the case it was given before it goes to the store.
UnassignRead(c, i) ==
    /\ api[c].pc = "idle"
    /\ Accept
    /\ IsOpen(i)
    /\ cases[i].assignee # "none"
    /\ api' = [api EXCEPT ![c] =
                  [IdleClient EXCEPT !.pc = "unassigning", !.id = i, !.snap = cases[i]]]
    /\ UNCHANGED <<cases, notes>>

\* Mutant: the UPDATE does not name the updated_at it expects.
MatchesStatusOnly(c) == IsOpen(api[c].id)

\* The WHERE clause: the case is open and as the handler read it.
Matches(c) == IsOpen(api[c].id) /\ cases[api[c].id].updatedAt = api[c].snap.updatedAt

AssignWrite(c, op) ==
    /\ api[c].pc = "assigning"
    /\ Matches(c)
    /\ cases' = [cases EXCEPT ![api[c].id] =
                    Updated(cases[api[c].id], "open", op, cases[api[c].id].closedBy)]
    /\ Return(c)
    /\ UNCHANGED <<notes, ops>>

UnassignWrite(c) ==
    /\ api[c].pc = "unassigning"
    /\ Matches(c)
    /\ cases[api[c].id].assignee # "none"
    /\ cases' = [cases EXCEPT ![api[c].id] =
                    Updated(cases[api[c].id], "open", "none", cases[api[c].id].closedBy)]
    /\ notes' = Noted(api[c].id, "returned")
    /\ Return(c)
    /\ UNCHANGED ops

\* ErrCaseConflict or ErrInvalidCaseState: nothing changes.
AssignmentRejected(c) ==
    /\ api[c].pc \in {"assigning", "unassigning"}
    /\ ~Matches(c)
    /\ Return(c)
    /\ UNCHANGED <<cases, notes, ops>>

\* The transaction of any request in flight may fail; one that was refused has
\* been answered.
RequestFails(c) ==
    /\ api[c].pc # "idle"
    /\ Return(c)
    /\ UNCHANGED <<cases, notes, ops>>

----------------------------------------------------------------------------
ClientStep(c) ==
    \/ \E s \in Sources : CreateLookup(c, s)
    \/ \E i \in CaseIds : SaveCase(c, i) \/ AssignRead(c, i) \/ UnassignRead(c, i)
    \/ ReuseOpenEvalRunCase(c)
    \/ \E op \in Operators : AssignWrite(c, op)
    \/ UnassignWrite(c)
    \/ AssignmentRejected(c)
    \/ RequestFails(c)

CaseStep(i) ==
    \/ \E op \in Operators : CloseCase(i, op)
    \/ ReopenCase(i)
    \/ AddNote(i)

Next ==
    \/ \E c \in Clients : ClientStep(c)
    \/ \E i \in CaseIds : CaseStep(i)

Spec == Init /\ [][Next]_vars

----------------------------------------------------------------------------
(* Properties.                                                             *)

ClientState == [pc : {"idle", "saving", "refused", "assigning", "unassigning"},
                id : CaseIds \cup {0}, snap : Row, source : Sources]

TypeOK ==
    /\ cases \in [CaseIds -> Row]
    /\ notes \in [CaseIds -> [Notes -> Nat]]
    /\ api \in [Clients -> ClientState]
    /\ ops \in 0..MaxOps
    /\ \A c \in Clients : api[c].pc \in {"assigning", "unassigning"} => api[c].id \in CaseIds
    /\ \A i \in CaseIds : cases[i].status = "closed" <=> cases[i].closedBy # "none"

\* A request that could still change an assignee.
Assigning(c, i) == api[c].pc \in {"assigning", "unassigning"} /\ api[c].id = i

\* Whoever changes the assignee of a case has seen the case as it is: it is
\* open, and neither an assignment, nor a close, nor a close and a reopen came
\* in between the read and the write.
AssignmentIsInformed ==
    [][\A i \in CaseIds : cases'[i].assignee # cases[i].assignee =>
          \E c \in Clients :
             /\ Assigning(c, i)
             /\ api[c].snap = cases[i] /\ IsOpen(i)
             /\ api'[c] = IdleClient]_vars

\* The optimistic-concurrency token identifies the row: a snapshot with the
\* updated_at of the row is the row, however many requests of whatever kind
\* came in between.
TokenIdentifiesCase ==
    \A c \in Clients, i \in CaseIds :
        Assigning(c, i) /\ api[c].snap.updatedAt = cases[i].updatedAt => api[c].snap = cases[i]

\* One open case per eval run, whatever requests race to create one: of two
\* open cases of a run, an operator has reopened one.
OneOpenCasePerRun ==
    \A i, j \in CaseIds :
        /\ i # j /\ IsOpen(i) /\ IsOpen(j)
        /\ cases[i].source.evalRun # "none"
        /\ cases[i].source.evalRun = cases[j].source.evalRun
        => notes[i]["reopened"] + notes[j]["reopened"] > 0

\* Whether the case is a follow-up to an eval report as a whole.
PlainFollowUp(i) ==
    /\ cases[i].source.evalReport # "none" /\ cases[i].source.evalCase = "none"
    /\ cases[i].source.compare = "none"

\* "repeated Create case actions do not generate duplicate open regression
\* cases for the same tenant and source eval report": of two such open cases,
\* an operator has reopened one.
OneOpenCasePerEvalReport ==
    \A i, j \in CaseIds :
        /\ i # j /\ IsOpen(i) /\ IsOpen(j)
        /\ PlainFollowUp(i) /\ PlainFollowUp(j)
        /\ cases[i].source.evalReport = cases[j].source.evalReport
        => notes[i]["reopened"] + notes[j]["reopened"] > 0
=============================================================================
