---------------------------- MODULE Cases_proofs ----------------------------
(***************************************************************************)
(* Proofs about Cases, for every set of handlers, operators and sources    *)
(* and every number of cases and requests.                                 *)
(***************************************************************************)
EXTENDS Cases, TLAPS

USE ConstantsAssumption DEF CaseIds

----------------------------------------------------------------------------
(* Types.                                                                  *)

LEMMA NothingTyped == NoSource \in Sources /\ NoRow \in Row /\ IdleClient \in ClientState
  <1>1. NoSource \in Sources
    BY DEF NoSource, Sources, CompareOriginOK
  <1>2. NoRow \in Row
    BY <1>1 DEF NoRow, Row
  <1> QED BY <1>1, <1>2 DEF IdleClient, ClientState

\* A case that is there from the start is open, comes from a compare origin and
\* from no run, and nobody has signed it.
LEMMA InitialRows ==
    \A row \in {NoRow} \cup CompareCases :
        /\ row \in Row /\ row.status # "closed" /\ row.closedBy = "none"
        /\ row.assignee = "none" /\ row.source.evalRun = "none"
  <1>1. ASSUME NEW s \in Sources, s.compare # "none"
        PROVE  /\ NewCase(s) \in Row /\ NewCase(s).status = "open" /\ NewCase(s).closedBy = "none"
               /\ NewCase(s).assignee = "none" /\ NewCase(s).source.evalRun = "none"
    <2>1. s.evalRun = "none"
      BY <1>1 DEF Sources, CompareOriginOK
    <2>2. /\ NewCase(s).status = "open" /\ NewCase(s).closedBy = "none"
          /\ NewCase(s).assignee = "none" /\ NewCase(s).source = s
      BY DEF NewCase, NoRow
    <2>3. NewCase(s) \in Row
      BY NothingTyped DEF NewCase, Row, NoRow
    <2> QED BY <2>1, <2>2, <2>3
  <1>2. /\ NoRow \in Row /\ NoRow.status # "closed" /\ NoRow.closedBy = "none"
        /\ NoRow.assignee = "none" /\ NoRow.source.evalRun = "none"
    BY NothingTyped DEF NoRow, NoSource
  <1> QED BY <1>1, <1>2 DEF CompareCases

LEMMA NotedType ==
    ASSUME TypeOK, NEW i \in CaseIds, NEW k \in Notes
    PROVE  /\ Noted(i, k) \in [CaseIds -> [Notes -> Nat]]
           /\ \A j \in CaseIds, m \in Notes : Noted(i, k)[j][m] >= notes[j][m]
           /\ Noted(i, k)[i][k] > 0
  <1>1. notes \in [CaseIds -> [Notes -> Nat]]
    BY DEF TypeOK
  <1> DEFINE counts == Counted(notes[i], k)
  <1>2. notes[i] \in [Notes -> Nat]
    BY <1>1
  <1>3. counts \in [Notes -> Nat]
    BY <1>2 DEF Counted
  <1>4. \A m \in Notes : counts[m] >= notes[i][m]
    BY <1>2 DEF Counted
  <1>5. counts[k] > 0
    BY <1>2 DEF Counted
  <1>6. Noted(i, k) = [notes EXCEPT ![i] = counts]
    BY DEF Noted
  <1> HIDE DEF counts
  <1>7. Noted(i, k) \in [CaseIds -> [Notes -> Nat]] /\ Noted(i, k)[i] = counts
    BY <1>1, <1>3, <1>6
  <1>8. ASSUME NEW j \in CaseIds, NEW m \in Notes PROVE Noted(i, k)[j][m] >= notes[j][m]
    <2>1. CASE j = i
      BY <2>1, <1>4, <1>7
    <2>2. CASE j # i
      <3>1. Noted(i, k)[j] = notes[j]
        BY <1>1, <1>6, <2>2
      <3>2. notes[j][m] \in Nat
        BY <1>1
      <3> QED BY <3>1, <3>2
    <2> QED BY <2>1, <2>2
  <1> QED BY <1>5, <1>7, <1>8

Signed(row) == row.status = "closed" <=> row.closedBy # "none"

\* One case changes to a row whose signature agrees with its status.
LEMMA CaseMoves ==
    ASSUME TypeOK, NEW i \in CaseIds, NEW row \in Row, Signed(row),
           cases' = [cases EXCEPT ![i] = row]
    PROVE  cases' \in [CaseIds -> Row] /\ \A j \in CaseIds : Signed(cases'[j])
  BY DEF TypeOK, Signed

\* What a write of a case that exists does to the table.
Rewrites(i, status, assignee, closedBy) ==
    /\ cases[i].status # "absent"
    /\ status \in {"open", "closed"}
    /\ assignee \in Operators \cup {"none"}
    /\ closedBy \in Operators \cup {"none"}
    /\ status = "closed" <=> closedBy # "none"
    /\ cases' = [cases EXCEPT ![i] = Updated(cases[i], status, assignee, closedBy)]

LEMMA RewritesType ==
    ASSUME TypeOK, NEW i \in CaseIds, NEW status, NEW assignee, NEW closedBy,
           Rewrites(i, status, assignee, closedBy)
    PROVE  cases' \in [CaseIds -> Row] /\ \A j \in CaseIds : Signed(cases'[j])
  <1> DEFINE row == Updated(cases[i], status, assignee, closedBy)
  <1>1. cases[i] \in Row
    BY DEF TypeOK
  <1>a. /\ status \in {"open", "closed"} /\ assignee \in Operators \cup {"none"}
        /\ closedBy \in Operators \cup {"none"}
    BY DEF Rewrites
  <1>2. row \in Row /\ row.status = status /\ row.closedBy = closedBy
    BY <1>1, <1>a DEF Updated, Row
  <1>3. cases' = [cases EXCEPT ![i] = row]
    BY DEF Rewrites
  <1> HIDE DEF row
  <1> QED BY <1>2, <1>3, CaseMoves DEF Rewrites, Signed

\* The steps that write a case that exists.
LEMMA Writers ==
    ASSUME TypeOK
    PROVE  /\ \A i \in CaseIds, op \in Operators : CloseCase(i, op) =>
                  Rewrites(i, "closed", cases[i].assignee, op)
           /\ \A i \in CaseIds : ReopenCase(i) =>
                  Rewrites(i, "open", cases[i].assignee, "none")
           /\ \A i \in CaseIds : AddNote(i) =>
                  Rewrites(i, cases[i].status, cases[i].assignee, cases[i].closedBy)
           /\ \A c \in Clients, op \in Operators : AssignWrite(c, op) =>
                  /\ api[c].id \in CaseIds
                  /\ Rewrites(api[c].id, "open", op, cases[api[c].id].closedBy)
           /\ \A c \in Clients : UnassignWrite(c) =>
                  /\ api[c].id \in CaseIds
                  /\ Rewrites(api[c].id, "open", "none", cases[api[c].id].closedBy)
  <1>1. ASSUME NEW i \in CaseIds
        PROVE  /\ cases[i].status \in {"absent", "open", "closed"}
               /\ cases[i].assignee \in Operators \cup {"none"}
               /\ cases[i].closedBy \in Operators \cup {"none"}
               /\ cases[i].status = "closed" <=> cases[i].closedBy # "none"
    BY DEF TypeOK, Row
  <1>2. ASSUME NEW i \in CaseIds, NEW op \in Operators, CloseCase(i, op)
        PROVE  Rewrites(i, "closed", cases[i].assignee, op)
    BY <1>1, <1>2 DEF CloseCase, Rewrites, IsOpen
  <1>3. ASSUME NEW i \in CaseIds, ReopenCase(i)
        PROVE  Rewrites(i, "open", cases[i].assignee, "none")
    BY <1>1, <1>3 DEF ReopenCase, Rewrites
  <1>4. ASSUME NEW i \in CaseIds, AddNote(i)
        PROVE  Rewrites(i, cases[i].status, cases[i].assignee, cases[i].closedBy)
    BY <1>1, <1>4 DEF AddNote, Rewrites
  <1>5. ASSUME NEW c \in Clients, api[c].pc \in {"assigning", "unassigning"}, Matches(c)
        PROVE  /\ api[c].id \in CaseIds /\ cases[api[c].id].status = "open"
               /\ cases[api[c].id].closedBy = "none"
    <2>1. api[c].id \in CaseIds
      BY <1>5 DEF TypeOK
    <2> QED BY <1>1, <1>5, <2>1 DEF Matches, IsOpen
  <1>6. ASSUME NEW c \in Clients, NEW op \in Operators, AssignWrite(c, op)
        PROVE  /\ api[c].id \in CaseIds
               /\ Rewrites(api[c].id, "open", op, cases[api[c].id].closedBy)
    BY <1>5, <1>6 DEF AssignWrite, Rewrites
  <1>7. ASSUME NEW c \in Clients, UnassignWrite(c)
        PROVE  /\ api[c].id \in CaseIds
               /\ Rewrites(api[c].id, "open", "none", cases[api[c].id].closedBy)
    BY <1>5, <1>7 DEF UnassignWrite, Rewrites
  <1> QED BY <1>2, <1>3, <1>4, <1>6, <1>7

\* One handler moves on.
LEMMA ClientMoves ==
    ASSUME TypeOK, NEW c \in Clients, NEW s \in ClientState,
           s.pc \in {"assigning", "unassigning"} => s.id \in CaseIds,
           api' = [api EXCEPT ![c] = s]
    PROVE  /\ api' \in [Clients -> ClientState]
           /\ \A d \in Clients :
                api'[d].pc \in {"assigning", "unassigning"} => api'[d].id \in CaseIds
  BY DEF TypeOK

LEMMA ReturnType ==
    ASSUME TypeOK, NEW c \in Clients, Return(c)
    PROVE  /\ api' \in [Clients -> ClientState]
           /\ \A d \in Clients :
                api'[d].pc \in {"assigning", "unassigning"} => api'[d].id \in CaseIds
  <1>1. IdleClient.pc = "idle"
    BY DEF IdleClient
  <1> QED BY <1>1, NothingTyped, ClientMoves DEF Return

LEMMA TypeStep == TypeOK /\ [Next]_vars => TypeOK'
  <1> SUFFICES ASSUME TypeOK, [Next]_vars PROVE TypeOK'
    OBVIOUS
  <1>t. /\ cases \in [CaseIds -> Row] /\ notes \in [CaseIds -> [Notes -> Nat]]
        /\ api \in [Clients -> ClientState] /\ ops \in 0..MaxOps
    BY DEF TypeOK
  <1>n. "added" \in Notes /\ "reopened" \in Notes /\ "returned" \in Notes
    BY DEF Notes
  <1>a. Accept => ops' \in 0..MaxOps
    BY <1>t DEF Accept
  <1>1. ASSUME NEW c \in Clients, NEW s \in Sources, CreateLookup(c, s) PROVE TypeOK'
    <2>0. PICK pc \in {"saving", "refused"} :
             api' = [api EXCEPT ![c] = [IdleClient EXCEPT !.pc = pc, !.source = s]]
      BY <1>1 DEF CreateLookup
    <2> DEFINE new == [IdleClient EXCEPT !.pc = pc, !.source = s]
    <2>1. new \in ClientState /\ new.pc = pc
      BY NothingTyped DEF ClientState, IdleClient
    <2>2. api' = [api EXCEPT ![c] = new]
      BY <2>0
    <2> HIDE DEF new
    <2> QED BY <1>1, <1>a, <2>1, <2>2, ClientMoves DEF CreateLookup, TypeOK
  <1>2. ASSUME NEW c \in Clients, NEW i \in CaseIds, SaveCase(c, i) PROVE TypeOK'
    <2>1. api[c].source \in Sources
      BY <1>t DEF ClientState
    <2>2. /\ NewCase(api[c].source) \in Row
          /\ NewCase(api[c].source).status = "open" /\ NewCase(api[c].source).closedBy = "none"
      BY <2>1, NothingTyped DEF NewCase, Row, NoRow
    <2> QED BY <1>2, <2>2, CaseMoves, ReturnType DEF SaveCase, TypeOK, Signed
  <1>3. ASSUME NEW c \in Clients, NEW i \in CaseIds, AssignRead(c, i) \/ UnassignRead(c, i)
        PROVE  TypeOK'
    <2>1. PICK pc \in {"assigning", "unassigning"} :
             api' = [api EXCEPT ![c] = [IdleClient EXCEPT !.pc = pc, !.id = i, !.snap = cases[i]]]
      BY <1>3 DEF AssignRead, UnassignRead
    <2> DEFINE new == [IdleClient EXCEPT !.pc = pc, !.id = i, !.snap = cases[i]]
    <2>2. new \in ClientState /\ new.id = i
      BY NothingTyped, <1>t DEF ClientState, IdleClient
    <2> HIDE DEF new
    <2>3. api' \in [Clients -> ClientState]
          /\ \A d \in Clients :
                api'[d].pc \in {"assigning", "unassigning"} => api'[d].id \in CaseIds
      BY <2>1, <2>2, ClientMoves DEF new
    <2>4. UNCHANGED <<cases, notes>> /\ Accept
      BY <1>3 DEF AssignRead, UnassignRead
    <2> QED BY <1>a, <2>3, <2>4 DEF TypeOK
  <1>4. ASSUME NEW c \in Clients,
               ReuseOpenEvalRunCase(c) \/ AssignmentRejected(c) \/ RequestFails(c)
        PROVE  TypeOK'
    <2>1. Return(c) /\ UNCHANGED <<cases, notes, ops>>
      BY <1>4 DEF ReuseOpenEvalRunCase, AssignmentRejected, RequestFails
    <2> QED BY <2>1, ReturnType DEF TypeOK
  <1>5. ASSUME NEW c \in Clients, NEW op \in Operators, AssignWrite(c, op) PROVE TypeOK'
    <2>1. /\ api[c].id \in CaseIds
          /\ Rewrites(api[c].id, "open", op, cases[api[c].id].closedBy)
      BY <1>5, Writers
    <2>2. cases' \in [CaseIds -> Row] /\ \A j \in CaseIds : Signed(cases'[j])
      BY <2>1, RewritesType
    <2>3. Return(c) /\ UNCHANGED <<notes, ops>>
      BY <1>5 DEF AssignWrite
    <2> QED BY <2>2, <2>3, ReturnType DEF TypeOK, Signed
  <1>6. ASSUME NEW c \in Clients, UnassignWrite(c) PROVE TypeOK'
    <2>1. /\ api[c].id \in CaseIds
          /\ Rewrites(api[c].id, "open", "none", cases[api[c].id].closedBy)
      BY <1>6, Writers
    <2>2. cases' \in [CaseIds -> Row] /\ \A j \in CaseIds : Signed(cases'[j])
      BY <2>1, RewritesType
    <2>3. Return(c) /\ UNCHANGED ops /\ notes' = Noted(api[c].id, "returned")
      BY <1>6 DEF UnassignWrite
    <2>4. notes' \in [CaseIds -> [Notes -> Nat]]
      BY <1>n, <2>1, <2>3, NotedType
    <2> QED BY <2>2, <2>3, <2>4, ReturnType DEF TypeOK, Signed
  <1>7. ASSUME NEW i \in CaseIds, NEW op \in Operators, CloseCase(i, op) PROVE TypeOK'
    BY <1>7, <1>a, Writers, RewritesType DEF CloseCase, TypeOK, Signed
  <1>8. ASSUME NEW i \in CaseIds, ReopenCase(i) PROVE TypeOK'
    BY <1>8, <1>a, <1>n, Writers, RewritesType, NotedType DEF ReopenCase, TypeOK, Signed
  <1>9. ASSUME NEW i \in CaseIds, AddNote(i) PROVE TypeOK'
    BY <1>9, <1>a, <1>n, Writers, RewritesType, NotedType DEF AddNote, TypeOK, Signed
  <1>10. ASSUME UNCHANGED vars PROVE TypeOK'
    BY <1>10 DEF TypeOK, vars
  <1> QED BY <1>1, <1>2, <1>3, <1>4, <1>5, <1>6, <1>7, <1>8, <1>9, <1>10
          DEF Next, ClientStep, CaseStep

\* Every request leaves the tables and the handlers well typed, and a case
\* signed as closed exactly while it is closed.
THEOREM TypeCorrect == Spec => []TypeOK
  <1>1. Init => TypeOK
    <2> SUFFICES ASSUME Init PROVE TypeOK
      OBVIOUS
    <2>1. IdleClient.pc = "idle"
      BY DEF IdleClient
    <2>2. cases \in [CaseIds -> Row]
      BY InitialRows DEF Init
    <2>3. \A i \in CaseIds : cases[i].status = "closed" <=> cases[i].closedBy # "none"
      BY InitialRows DEF Init
    <2> QED BY <2>1, <2>2, <2>3, NothingTyped DEF Init, TypeOK
  <1> QED BY <1>1, TypeStep, PTL DEF Spec

----------------------------------------------------------------------------
(* Optimistic concurrency.                                                 *)

\* The token a handler has read is not ahead of the row, and equal only if
\* the snapshot is the row.
SnapOK(s, row) ==
    /\ row.status # "absent"
    /\ s.updatedAt <= row.updatedAt
    /\ s.updatedAt = row.updatedAt => s = row

TokenInv == \A c \in Clients, i \in CaseIds : Assigning(c, i) => SnapOK(api[c].snap, cases[i])

\* A handler's request is the one it was, or one that cannot assign any more,
\* or a new one whose snapshot is the row it has just read.
Kept(c) ==
    \/ api'[c] = api[c]
    \/ api'[c].pc \notin {"assigning", "unassigning"}
    \/ UNCHANGED cases /\ api'[c].id \in CaseIds /\ api'[c].snap = cases[api'[c].id]
          /\ cases[api'[c].id].status # "absent"

\* The row of a case is the one it was, or new, or has a later updated_at.
Grown(i) ==
    \/ cases'[i] = cases[i]
    \/ /\ cases[i].status = "absent"
       /\ cases'[i].status = "open" /\ cases'[i].assignee = "none"
    \/ cases'[i].status # "absent" /\ cases'[i].updatedAt = cases[i].updatedAt + 1

LEMMA RewritesGrow ==
    ASSUME TypeOK, NEW i \in CaseIds, NEW status, NEW assignee, NEW closedBy,
           Rewrites(i, status, assignee, closedBy)
    PROVE  /\ \A j \in CaseIds : Grown(j)
           /\ \A j \in CaseIds : cases'[j].source = cases[j].source
           /\ \A j \in CaseIds : j # i => cases'[j] = cases[j]
           /\ cases'[i].status = status /\ cases'[i].assignee = assignee
  <1> DEFINE row == Updated(cases[i], status, assignee, closedBy)
  <1>1. cases \in [CaseIds -> Row] /\ cases[i] \in Row
    BY DEF TypeOK
  <1>2. /\ status \in {"open", "closed"} /\ assignee \in Operators \cup {"none"}
        /\ closedBy \in Operators \cup {"none"}
    BY DEF Rewrites
  <1>3. /\ row.status = status /\ row.assignee = assignee /\ row.source = cases[i].source
        /\ row.updatedAt = cases[i].updatedAt + 1
    BY <1>1, <1>2 DEF Updated, Row
  <1>4. cases' = [cases EXCEPT ![i] = row]
    BY DEF Rewrites
  <1> HIDE DEF row
  <1>5. cases'[i] = row /\ \A j \in CaseIds : j # i => cases'[j] = cases[j]
    BY <1>1, <1>4
  <1> QED BY <1>2, <1>3, <1>5 DEF Grown

\* A step writes one case, which exists, or changes no row but a new one.
LEMMA Steps ==
    ASSUME TypeOK, Next
    PROVE  /\ \A c \in Clients : Kept(c)
           /\ \A i \in CaseIds : Grown(i)
  <1>t. cases \in [CaseIds -> Row] /\ api \in [Clients -> ClientState]
    BY DEF TypeOK
  <1>r. ASSUME NEW c \in Clients, Return(c) PROVE \A d \in Clients : Kept(d)
    BY <1>t, <1>r DEF Return, Kept, IdleClient
  <1>u. UNCHANGED cases => \A i \in CaseIds : Grown(i)
    BY DEF Grown
  <1>v. UNCHANGED api => \A c \in Clients : Kept(c)
    BY DEF Kept
  <1> USE DEF CaseIds
  <1>1. ASSUME NEW c \in Clients, NEW s \in Sources, CreateLookup(c, s)
        PROVE  (\A d \in Clients : Kept(d)) /\ \A i \in CaseIds : Grown(i)
    <2>0. PICK pc \in {"saving", "refused"} :
             api' = [api EXCEPT ![c] = [IdleClient EXCEPT !.pc = pc, !.source = s]]
      BY <1>1 DEF CreateLookup
    <2>1. \A d \in Clients : Kept(d)
      BY <1>t, <2>0 DEF Kept, IdleClient
    <2> QED BY <1>1, <1>u, <2>1 DEF CreateLookup
  <1>2. ASSUME NEW c \in Clients, NEW i \in CaseIds, SaveCase(c, i)
        PROVE  (\A d \in Clients : Kept(d)) /\ \A j \in CaseIds : Grown(j)
    <2>1. \A j \in CaseIds : Grown(j)
      BY <1>2, <1>t DEF SaveCase, Grown, NewCase, NoRow
    <2> QED BY <1>2, <1>r, <2>1 DEF SaveCase
  <1>3. ASSUME NEW c \in Clients, NEW i \in CaseIds, AssignRead(c, i) \/ UnassignRead(c, i)
        PROVE  (\A d \in Clients : Kept(d)) /\ \A j \in CaseIds : Grown(j)
    <2>1. PICK pc \in {"assigning", "unassigning"} :
             api' = [api EXCEPT ![c] = [IdleClient EXCEPT !.pc = pc, !.id = i, !.snap = cases[i]]]
      BY <1>3 DEF AssignRead, UnassignRead
    <2>2. UNCHANGED cases /\ cases[i].status # "absent"
      BY <1>3 DEF AssignRead, UnassignRead, IsOpen
    <2>3. api'[c].id = i /\ api'[c].snap = cases[i]
      BY <1>t, <2>1 DEF IdleClient
    <2>4. Kept(c)
      BY <2>2, <2>3 DEF Kept
    <2>5. \A d \in Clients : d # c => api'[d] = api[d]
      BY <1>t, <2>1
    <2> QED BY <1>u, <2>2, <2>4, <2>5 DEF Kept
  <1>4. ASSUME NEW c \in Clients,
               ReuseOpenEvalRunCase(c) \/ AssignmentRejected(c) \/ RequestFails(c)
        PROVE  (\A d \in Clients : Kept(d)) /\ \A j \in CaseIds : Grown(j)
    BY <1>4, <1>r, <1>u DEF ReuseOpenEvalRunCase, AssignmentRejected, RequestFails
  <1>5. ASSUME NEW c \in Clients, UnassignWrite(c) \/ \E op \in Operators : AssignWrite(c, op)
        PROVE  (\A d \in Clients : Kept(d)) /\ \A j \in CaseIds : Grown(j)
    <2>1. \E op : api[c].id \in CaseIds /\
                  Rewrites(api[c].id, "open", op, cases[api[c].id].closedBy)
      BY <1>5, Writers
    <2>2. Return(c)
      BY <1>5 DEF UnassignWrite, AssignWrite
    <2> QED BY <1>r, <2>1, <2>2, RewritesGrow
  <1>6. ASSUME NEW i \in CaseIds, CaseStep(i)
        PROVE  (\A d \in Clients : Kept(d)) /\ \A j \in CaseIds : Grown(j)
    <2>1. \E status, assignee, closedBy : Rewrites(i, status, assignee, closedBy)
      BY <1>6, Writers DEF CaseStep
    <2>2. UNCHANGED api
      BY <1>6 DEF CaseStep, CloseCase, ReopenCase, AddNote
    <2> QED BY <1>v, <2>1, <2>2, RewritesGrow
  <1> QED BY <1>1, <1>2, <1>3, <1>4, <1>5, <1>6 DEF Next, ClientStep

\* A row that does not exist yet has no assignee.
Unborn == \A i \in CaseIds : cases[i].status = "absent" => cases[i].assignee = "none"

LEMMA UnbornStep == TypeOK /\ Unborn /\ [Next]_vars => Unborn'
  BY Steps DEF Unborn, Grown, vars

LEMMA TokenStep == TypeOK /\ TokenInv /\ [Next]_vars => TokenInv'
  <1> SUFFICES ASSUME TypeOK, TokenInv, Next PROVE TokenInv'
    BY DEF TokenInv, vars, Assigning, SnapOK
  <1> SUFFICES ASSUME NEW c \in Clients, NEW i \in CaseIds, Assigning(c, i)'
               PROVE  SnapOK(api'[c].snap, cases'[i])
    BY DEF TokenInv
  <1>1. Kept(c) /\ Grown(i)
    BY Steps
  <1>2. CASE api'[c] = api[c]
    <2>1. SnapOK(api[c].snap, cases[i])
      BY <1>2 DEF TokenInv, Assigning
    <2>2. cases[i].updatedAt \in Nat /\ api[c].snap.updatedAt \in Nat
      BY DEF TypeOK, Row, ClientState
    <2> QED BY <1>1, <1>2, <2>1, <2>2 DEF Grown, SnapOK
  <1>3. CASE UNCHANGED cases /\ api'[c].snap = cases[api'[c].id]
             /\ cases[api'[c].id].status # "absent"
    <2>1. cases[i].updatedAt \in Nat
      BY DEF TypeOK, Row
    <2> QED BY <1>3, <2>1 DEF SnapOK, Assigning
  <1> QED BY <1>1, <1>2, <1>3 DEF Kept, Assigning

\* The updated_at that a handler has read identifies the row, in every
\* interleaving of requests.
THEOREM TokenHolds == Spec => []TokenIdentifiesCase
  <1>1. Init => TokenInv
    BY DEF Init, TokenInv, Assigning, IdleClient
  <1>2. TokenInv => TokenIdentifiesCase
    BY DEF TokenInv, TokenIdentifiesCase, SnapOK
  <1> QED BY <1>1, <1>2, TokenStep, TypeCorrect, PTL DEF Spec

\* No assignment is made on a stale view: what changes the assignee of a case
\* has read the case as it is at that moment, and the case is open.
THEOREM AssignmentInformed == Spec => AssignmentIsInformed
  <1> DEFINE Informed(i) ==
         cases'[i].assignee # cases[i].assignee =>
            \E c \in Clients : /\ Assigning(c, i)
                               /\ api[c].snap = cases[i] /\ IsOpen(i)
                               /\ api'[c] = IdleClient
  <1>1. ASSUME TypeOK, TokenInv, Unborn, [Next]_vars PROVE \A i \in CaseIds : Informed(i)
    <2> SUFFICES ASSUME Next PROVE \A i \in CaseIds : Informed(i)
      BY <1>1 DEF vars
    <2> USE <1>1
    <2>t. cases \in [CaseIds -> Row] /\ api \in [Clients -> ClientState]
      BY DEF TypeOK
    <2>1. ASSUME NEW c \in Clients, UnassignWrite(c) \/ \E op \in Operators : AssignWrite(c, op)
          PROVE  \A i \in CaseIds : Informed(i)
      <3>1. PICK op : /\ api[c].id \in CaseIds
                      /\ Rewrites(api[c].id, "open", op, cases[api[c].id].closedBy)
        BY <2>1, Writers
      <3>2. /\ api[c].pc \in {"assigning", "unassigning"} /\ Matches(c) /\ Return(c)
        BY <2>1 DEF UnassignWrite, AssignWrite
      <3>3. Assigning(c, api[c].id) /\ api[c].snap = cases[api[c].id] /\ IsOpen(api[c].id)
        BY <3>1, <3>2 DEF Assigning, TokenInv, SnapOK, Matches
      <3>4. api'[c] = IdleClient
        BY <2>t, <3>2 DEF Return
      <3>5. \A j \in CaseIds : j # api[c].id => cases'[j] = cases[j]
        BY <3>1, RewritesGrow
      <3> QED BY <3>3, <3>4, <3>5
    <2>2. ASSUME NEW i \in CaseIds, CaseStep(i) PROVE \A j \in CaseIds : Informed(j)
      <3>1. PICK status, closedBy : Rewrites(i, status, cases[i].assignee, closedBy)
        BY <2>2, Writers DEF CaseStep
      <3> QED BY <3>1, RewritesGrow
    <2>3. ASSUME NEW c \in Clients, NEW i \in CaseIds, SaveCase(c, i)
          PROVE  \A j \in CaseIds : Informed(j)
      <3>1. cases[i].assignee = "none" /\ cases' = [cases EXCEPT ![i] = NewCase(api[c].source)]
        BY <2>3 DEF SaveCase, Unborn
      <3>2. NewCase(api[c].source).assignee = "none"
        BY DEF NewCase, NoRow
      <3> QED BY <2>t, <3>1, <3>2
    <2>4. ASSUME UNCHANGED cases PROVE \A j \in CaseIds : Informed(j)
      BY <2>4
    <2>5. ASSUME NEW c \in Clients, ClientStep(c) PROVE \A j \in CaseIds : Informed(j)
      <3>1. CASE \E s \in Sources : CreateLookup(c, s)
        BY <2>4, <3>1 DEF CreateLookup
      <3>2. CASE \E i \in CaseIds : AssignRead(c, i) \/ UnassignRead(c, i)
        BY <2>4, <3>2 DEF AssignRead, UnassignRead
      <3>3. CASE ReuseOpenEvalRunCase(c) \/ AssignmentRejected(c) \/ RequestFails(c)
        BY <2>4, <3>3 DEF ReuseOpenEvalRunCase, AssignmentRejected, RequestFails
      <3> HIDE DEF Informed
      <3> QED BY <2>1, <2>3, <2>5, <3>1, <3>2, <3>3 DEF ClientStep
    <2> HIDE DEF Informed
    <2> QED BY <2>2, <2>5 DEF Next
  <1>2. Init => TokenInv /\ Unborn
    BY InitialRows DEF Init, TokenInv, Assigning, IdleClient, Unborn
  <1>3. TypeOK /\ TokenInv /\ Unborn /\ [Next]_vars => \A i \in CaseIds : Informed(i)
    BY <1>1
  <1> QED BY <1>2, <1>3, TokenStep, UnbornStep, TypeCorrect, PTL DEF Spec, AssignmentIsInformed

----------------------------------------------------------------------------
(* De-duplication by run.                                                  *)

LEMMA OneOpenStep == TypeOK /\ OneOpenCasePerRun /\ [Next]_vars => OneOpenCasePerRun'
  <1> SUFFICES ASSUME TypeOK, OneOpenCasePerRun, [Next]_vars PROVE OneOpenCasePerRun'
    OBVIOUS
  <1> DEFINE Same(i, j) == /\ i # j /\ IsOpen(i) /\ IsOpen(j)
                           /\ cases[i].source.evalRun # "none"
                           /\ cases[i].source.evalRun = cases[j].source.evalRun
             Reopened(i) == notes[i]["reopened"]
  <1>t. /\ cases \in [CaseIds -> Row]
        /\ \A i \in CaseIds : Reopened(i) \in Nat /\ Reopened(i)' \in Nat
    <2>1. "reopened" \in Notes
      BY DEF Notes
    <2> QED BY <2>1, TypeStep DEF TypeOK
  <1>m. \A i \in CaseIds : Reopened(i)' >= Reopened(i)
    <2>1. "added" \in Notes /\ "reopened" \in Notes /\ "returned" \in Notes
      BY DEF Notes
    <2>2. notes' = notes \/ \E i \in CaseIds, k \in Notes : notes' = Noted(i, k)
      <3>1. ASSUME NEW c \in Clients, UnassignWrite(c)
            PROVE  \E i \in CaseIds, k \in Notes : notes' = Noted(i, k)
        BY <2>1, <3>1, Writers DEF UnassignWrite
      <3> QED BY <2>1, <3>1 DEF Next, vars, ClientStep, CaseStep, CreateLookup, SaveCase,
                 AssignRead, UnassignRead, ReuseOpenEvalRunCase, AssignWrite,
                 AssignmentRejected, RequestFails, CloseCase, ReopenCase, AddNote
    <2>3. ASSUME NEW i \in CaseIds, NEW k \in Notes, notes' = Noted(i, k), NEW j \in CaseIds
          PROVE  Reopened(j)' >= Reopened(j)
      BY <2>1, <2>3, NotedType
    <2>4. ASSUME notes' = notes, NEW j \in CaseIds PROVE Reopened(j)' >= Reopened(j)
      BY <1>t, <2>4
    <2> QED BY <2>2, <2>3, <2>4
  <1>k. \A i, j \in CaseIds : Same(i, j) => Reopened(i) + Reopened(j) > 0
    BY DEF OneOpenCasePerRun
  <1>1. ASSUME \A i, j \in CaseIds : Same(i, j)' =>
                  Same(i, j) \/ Reopened(i)' > 0 \/ Reopened(j)' > 0
        PROVE  OneOpenCasePerRun'
    <2>1. ASSUME NEW i \in CaseIds, NEW j \in CaseIds, Same(i, j)'
          PROVE  Reopened(i)' + Reopened(j)' > 0
      <3>1. Same(i, j) \/ Reopened(i)' > 0 \/ Reopened(j)' > 0
        BY <1>1, <2>1
      <3>2. Reopened(i) \in Nat /\ Reopened(j) \in Nat /\ Reopened(i)' \in Nat /\ Reopened(j)' \in Nat
        BY <1>t
      <3>3. Reopened(i)' >= Reopened(i) /\ Reopened(j)' >= Reopened(j)
        BY <1>m
      <3>4. Same(i, j) => Reopened(i) + Reopened(j) > 0
        BY <1>k
      <3> HIDE DEF Reopened, Same
      <3> QED BY <3>1, <3>2, <3>3, <3>4
    <2> QED BY <2>1 DEF OneOpenCasePerRun
  <1>2. ASSUME UNCHANGED cases PROVE OneOpenCasePerRun'
    BY <1>1, <1>2 DEF IsOpen
  <1>3. ASSUME NEW i \in CaseIds, NEW status, NEW assignee, NEW closedBy,
               Rewrites(i, status, assignee, closedBy),
               status = "open" => IsOpen(i) \/ Reopened(i)' > 0
        PROVE  OneOpenCasePerRun'
    <2>1. /\ \A j \in CaseIds : cases'[j].source = cases[j].source
          /\ \A j \in CaseIds : j # i => cases'[j] = cases[j]
          /\ cases'[i].status = status
      BY <1>3, RewritesGrow
    <2>2. ASSUME NEW j \in CaseIds, IsOpen(j)' PROVE IsOpen(j) \/ Reopened(j)' > 0
      BY <1>3, <2>1, <2>2 DEF IsOpen
    <2> QED BY <1>1, <2>1, <2>2
  <1>4. ASSUME NEW c \in Clients, NEW i \in CaseIds, SaveCase(c, i) PROVE OneOpenCasePerRun'
    <2>1. cases' = [cases EXCEPT ![i] = NewCase(api[c].source)]
      BY <1>4 DEF SaveCase
    <2>2. NewCase(api[c].source).source = api[c].source
      BY DEF NewCase, NoRow
    <2>3. cases'[i].source = api[c].source /\ \A j \in CaseIds : j # i => cases'[j] = cases[j]
      BY <1>t, <2>1, <2>2
    <2>4. ASSUME NEW j \in CaseIds, Same(i, j)' \/ Same(j, i)' PROVE FALSE
      <3>1. j # i /\ IsOpen(j) /\ cases[j].source.evalRun = api[c].source.evalRun
            /\ api[c].source.evalRun # "none"
        BY <2>3, <2>4 DEF IsOpen
      <3> QED BY <1>4, <3>1 DEF SaveCase, OpenCasesOfRun
    <2>5. ASSUME NEW j \in CaseIds, NEW k \in CaseIds, Same(j, k)' PROVE Same(j, k)
      <3>1. j # i /\ k # i
        BY <2>4, <2>5
      <3> QED BY <2>3, <2>5, <3>1 DEF IsOpen
    <2> QED BY <1>1, <2>5
  <1>5. ASSUME NEW c \in Clients, UnassignWrite(c) \/ \E op \in Operators : AssignWrite(c, op)
        PROVE  OneOpenCasePerRun'
    <2>1. PICK op : /\ api[c].id \in CaseIds
                    /\ Rewrites(api[c].id, "open", op, cases[api[c].id].closedBy)
      BY <1>5, Writers
    <2>2. IsOpen(api[c].id)
      BY <1>5 DEF UnassignWrite, AssignWrite, Matches
    <2> QED BY <1>3, <2>1, <2>2
  <1>6. ASSUME NEW i \in CaseIds, CaseStep(i) PROVE OneOpenCasePerRun'
    <2>1. CASE \E op \in Operators : CloseCase(i, op)
      BY <1>3, <2>1, Writers
    <2>2. CASE ReopenCase(i)
      <3>1. Reopened(i)' > 0
        BY <2>2, NotedType DEF ReopenCase, Notes
      <3>2. Rewrites(i, "open", cases[i].assignee, "none")
        BY <2>2, Writers
      <3> QED BY <1>3, <3>1, <3>2
    <2>3. CASE AddNote(i)
      BY <1>3, <2>3, Writers DEF IsOpen
    <2> QED BY <1>6, <2>1, <2>2, <2>3 DEF CaseStep
  <1>7. ASSUME NEW c \in Clients, ClientStep(c) PROVE OneOpenCasePerRun'
    <2>1. CASE \E s \in Sources : CreateLookup(c, s)
      BY <1>2, <2>1 DEF CreateLookup
    <2>2. CASE \E i \in CaseIds : AssignRead(c, i) \/ UnassignRead(c, i)
      BY <1>2, <2>2 DEF AssignRead, UnassignRead
    <2>3. CASE ReuseOpenEvalRunCase(c) \/ AssignmentRejected(c) \/ RequestFails(c)
      BY <1>2, <2>3 DEF ReuseOpenEvalRunCase, AssignmentRejected, RequestFails
    <2> QED BY <1>4, <1>5, <1>7, <2>1, <2>2, <2>3 DEF ClientStep
  <1>8. CASE UNCHANGED vars
    BY <1>2, <1>8 DEF vars
  <1> QED BY <1>6, <1>7, <1>8 DEF Next

\* However many requests race to open a case for an eval run, there is one
\* open case of it, unless an operator reopened an older one.
THEOREM OneOpenCase == Spec => []OneOpenCasePerRun
  <1>1. Init => OneOpenCasePerRun
    BY InitialRows DEF Init, OneOpenCasePerRun
  <1> QED BY <1>1, OneOpenStep, TypeCorrect, PTL DEF Spec
=============================================================================
