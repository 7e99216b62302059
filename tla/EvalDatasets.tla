---------------------------- MODULE EvalDatasets ----------------------------
(***************************************************************************)
(* Eval datasets of internal/eval over PostgreSQL: drafts that grow, their *)
(* publication, and the eval runs that take a snapshot of a published one. *)
(*                                                                         *)
(* Every request first calls GetDataset, which is two queries outside any  *)
(* transaction: the dataset's row with its status, then its items.  Then   *)
(* it checks the status it has read, and only then writes.  AddDatasetItem *)
(* and PublishDataset lock the row and check the status again; CreateRun   *)
(* writes the items it has read and looks at the dataset no more.          *)
(***************************************************************************)
EXTENDS Integers, Sequences

CONSTANTS
    Clients,      \* API request handlers that may run concurrently
    EvalCases,    \* promoted eval cases
    MaxDatasets,  \* dataset ids are 1..MaxDatasets
    MaxRuns,      \* run ids are 1..MaxRuns
    MaxOps        \* bound: requests accepted in one behaviour

ASSUME ConstantsAssumption ==
    /\ MaxDatasets \in Nat
    /\ MaxRuns \in Nat
    /\ MaxOps \in Nat

Datasets == 1..MaxDatasets
Runs == 1..MaxRuns
Statuses == {"absent", "draft", "published"}
Purposes == {"add", "publish", "run"}

VARIABLES
    status,   \* status[d]: the status of the row of d in eval_datasets
    items,    \* items[d]: its eval_dataset_items in the order of position
    runOf,    \* runOf[r]: the dataset of run r, 0 before its insert
    runItems, \* runItems[r]: its eval_run_items in the order of position
    api,      \* what each handler is in the middle of
    ops       \* requests accepted so far

tables == <<status, items, runOf, runItems>>
vars == <<status, items, runOf, runItems, api, ops>>

\* What a handler remembers: the dataset it asked for, what for, the status
\* and the items it has read.
IdleClient == [pc |-> "idle", id |-> 0, for |-> "add", status |-> "absent", items |-> <<>>]

Init ==
    /\ status = [d \in Datasets |-> "absent"]
    /\ items = [d \in Datasets |-> <<>>]
    /\ runOf = [r \in Runs |-> 0]
    /\ runItems = [r \in Runs |-> <<>>]
    /\ api = [c \in Clients |-> IdleClient]
    /\ ops = 0

Accept == ops < MaxOps /\ ops' = ops + 1

\* A handler is done with its request.
Return(c) == api' = [api EXCEPT ![c] = IdleClient]

Contains(list, e) == \E k \in 1..Len(list) : list[k] = e

----------------------------------------------------------------------------
\* The item lists a dataset is created from: at least one eval case, none
\* twice.  Longer lists come about by adding items.
Seeds ==
    {<<e>> : e \in EvalCases}
        \cup {<<p[1], p[2]>> : p \in {q \in EvalCases \X EvalCases : q[1] # q[2]}}

\* The row and its items, in one transaction.
CreateDataset(d) ==
    /\ Accept
    /\ status[d] = "absent"
    /\ status' = [status EXCEPT ![d] = "draft"]
    /\ \E seed \in Seeds : items' = [items EXCEPT ![d] = seed]
    /\ UNCHANGED <<runOf, runItems, api>>

\* The first query of GetDataset.
ReadStatus(c, d, purpose) ==
    /\ api[c].pc = "idle"
    /\ Accept
    /\ status[d] # "absent"
    /\ api' = [api EXCEPT ![c] = [pc |-> "reading", id |-> d, for |-> purpose,
                                  status |-> status[d], items |-> <<>>]]
    /\ UNCHANGED tables

\* The status that a request must have read to go on.
Allowed(purpose, read) == read = IF purpose = "run" THEN "published" ELSE "draft"

\* Mutant: the status is not checked.
ReadItemsUnchecked(c) ==
    /\ api[c].pc = "reading"
    /\ api' = [api EXCEPT ![c] = [api[c] EXCEPT !.pc = "writing", !.items = items[api[c].id]]]
    /\ UNCHANGED <<tables, ops>>

\* The second query, and the check of the status.  A request that is not
\* allowed in that status returns ErrInvalidEvalDatasetState.
ReadItems(c) ==
    /\ api[c].pc = "reading"
    /\ api' = [api EXCEPT ![c] =
                  IF Allowed(api[c].for, api[c].status)
                  THEN [api[c] EXCEPT !.pc = "writing", !.items = items[api[c].id]]
                  ELSE IdleClient]
    /\ UNCHANGED <<tables, ops>>

\* Mutant: the insert does not look for the eval case.
InsertedTwice(list, e) == Append(list, e)

\* INSERT ... ON CONFLICT DO NOTHING at the position after the last.
Inserted(list, e) == IF Contains(list, e) THEN list ELSE Append(list, e)

\* Mutant: the status is not checked again under the row lock.
AddDatasetItemUnchecked(c, e) ==
    LET d == api[c].id IN
    /\ api[c].pc = "writing" /\ api[c].for = "add"
    /\ items' = [items EXCEPT ![d] = Inserted(items[d], e)]
    /\ Return(c)
    /\ UNCHANGED <<status, runOf, runItems, ops>>

\* The item is not among those that were read, the row is locked, and it is
\* still a draft.
AddDatasetItem(c, e) ==
    LET d == api[c].id IN
    /\ api[c].pc = "writing" /\ api[c].for = "add"
    /\ ~Contains(api[c].items, e)
    /\ status[d] = "draft"
    /\ items' = [items EXCEPT ![d] = Inserted(items[d], e)]
    /\ Return(c)
    /\ UNCHANGED <<status, runOf, runItems, ops>>

PublishDataset(c) ==
    /\ api[c].pc = "writing" /\ api[c].for = "publish"
    /\ status[api[c].id] = "draft"
    /\ status' = [status EXCEPT ![api[c].id] = "published"]
    /\ Return(c)
    /\ UNCHANGED <<items, runOf, runItems, ops>>

\* The run with the membership snapshot that was read, in one transaction.
CreateRun(c, r) ==
    /\ api[c].pc = "writing" /\ api[c].for = "run"
    /\ runOf[r] = 0
    /\ runOf' = [runOf EXCEPT ![r] = api[c].id]
    /\ runItems' = [runItems EXCEPT ![r] = api[c].items]
    /\ Return(c)
    /\ UNCHANGED <<status, items, ops>>

\* The request ends without a change: the dataset has been published in the
\* meantime, the item is a member already, or a query fails.
RequestEnds(c) ==
    /\ api[c].pc # "idle"
    /\ Return(c)
    /\ UNCHANGED <<tables, ops>>

ClientStep(c) ==
    \/ \E d \in Datasets, purpose \in Purposes : ReadStatus(c, d, purpose)
    \/ ReadItems(c)
    \/ \E e \in EvalCases : AddDatasetItem(c, e)
    \/ PublishDataset(c)
    \/ \E r \in Runs : CreateRun(c, r)
    \/ RequestEnds(c)

Next ==
    \/ \E d \in Datasets : CreateDataset(d)
    \/ \E c \in Clients : ClientStep(c)

Spec == Init /\ [][Next]_vars

----------------------------------------------------------------------------
(* Properties.                                                             *)

Lists == Seq(EvalCases)

ClientState == [pc : {"idle", "reading", "writing"}, id : Datasets \cup {0},
                for : Purposes, status : Statuses, items : Lists]

ClientOK(s) ==
    s.pc # "idle" => /\ s.id \in Datasets
                     /\ s.status # "absent"
                     /\ s.pc = "writing" => Allowed(s.for, s.status)

TypeOK ==
    /\ status \in [Datasets -> Statuses]
    /\ items \in [Datasets -> Lists]
    /\ runOf \in [Runs -> Datasets \cup {0}]
    /\ runItems \in [Runs -> Lists]
    /\ api \in [Clients -> ClientState]
    /\ ops \in 0..MaxOps
    /\ \A c \in Clients : ClientOK(api[c])

Distinct(list) == \A j, k \in 1..Len(list) : list[j] = list[k] => j = k

\* An eval case is a member of a dataset once, also when two requests that
\* have both read the dataset without it add it.
MembersAreDistinct == \A d \in Datasets : Distinct(items[d])

\* A published dataset is an immutable baseline: no request that read it as a
\* draft changes its items or its status later.
PublishedIsFrozen ==
    [][\A d \in Datasets : status[d] = "published" =>
          status'[d] = "published" /\ items'[d] = items[d]]_vars

\* Every run holds exactly the items of the published dataset it is of, in
\* order, although CreateRun reads status and items in two queries and writes
\* later, without a lock.
RunsMatchBaseline ==
    \A r \in Runs : runOf[r] # 0 =>
        status[runOf[r]] = "published" /\ runItems[r] = items[runOf[r]]
=============================================================================
