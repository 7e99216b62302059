------------------------ MODULE EvalDatasets_proofs ------------------------
(***************************************************************************)
(* Proofs about EvalDatasets, for every set of handlers and eval cases and *)
(* every number of datasets, runs and requests.                            *)
(***************************************************************************)
EXTENDS EvalDatasets, TLAPS

USE ConstantsAssumption DEF Datasets, Runs

----------------------------------------------------------------------------
(* Item lists.                                                             *)

LEMMA SeedLists == \A seed \in Seeds : seed \in Lists /\ Distinct(seed)
  <1>1. ASSUME NEW e \in EvalCases PROVE <<e>> \in Lists /\ Distinct(<<e>>)
    <2>1. <<e>> \in Lists /\ Len(<<e>>) = 1
      BY DEF Lists
    <2> QED BY <2>1 DEF Distinct
  <1>2. ASSUME NEW e \in EvalCases, NEW f \in EvalCases, e # f
        PROVE  <<e, f>> \in Lists /\ Distinct(<<e, f>>)
    <2>1. /\ <<e, f>> \in Lists /\ Len(<<e, f>>) = 2
          /\ <<e, f>>[1] = e /\ <<e, f>>[2] = f
      BY DEF Lists
    <2>2. ASSUME NEW j \in 1..2, NEW k \in 1..2, <<e, f>>[j] = <<e, f>>[k] PROVE j = k
      BY <1>2, <2>1, <2>2
    <2> QED BY <2>1, <2>2 DEF Distinct
  <1> QED BY <1>1, <1>2 DEF Seeds

\* An insertion keeps a list a list, and without duplicates.
LEMMA InsertedList ==
    ASSUME NEW list \in Lists, NEW e \in EvalCases
    PROVE  /\ Inserted(list, e) \in Lists
           /\ Distinct(list) => Distinct(Inserted(list, e))
  <1>1. CASE Contains(list, e)
    BY <1>1 DEF Inserted
  <1>2. CASE ~Contains(list, e)
    <2> DEFINE new == Append(list, e)
    <2>1. Inserted(list, e) = new /\ new \in Lists
      BY <1>2 DEF Inserted, Lists
    <2>2. /\ Len(list) \in Nat /\ Len(new) = Len(list) + 1
          /\ \A k \in 1..Len(list) : new[k] = list[k]
          /\ new[Len(list) + 1] = e
      BY DEF Lists
    <2>3. \A k \in 1..Len(list) : list[k] # e
      BY <1>2 DEF Contains
    <2> HIDE DEF new
    <2>4. ASSUME Distinct(list), NEW j \in 1..Len(new), NEW k \in 1..Len(new), new[j] = new[k]
          PROVE  j = k
      <3>1. CASE j \in 1..Len(list) /\ k \in 1..Len(list)
        BY <2>2, <2>4, <3>1 DEF Distinct
      <3>2. CASE j \in 1..Len(list) /\ k = Len(list) + 1
        BY <2>2, <2>3, <2>4, <3>2
      <3>3. CASE k \in 1..Len(list) /\ j = Len(list) + 1
        BY <2>2, <2>3, <2>4, <3>3
      <3> QED BY <2>2, <3>1, <3>2, <3>3
    <2> QED BY <2>1, <2>4 DEF Distinct
  <1> QED BY <1>1, <1>2

----------------------------------------------------------------------------
(* Types.                                                                  *)

LEMMA IdleType == IdleClient \in ClientState /\ ClientOK(IdleClient)
  <1>1. <<>> \in Lists
    BY DEF Lists
  <1> QED BY <1>1 DEF IdleClient, ClientState, ClientOK, Purposes, Statuses

LEMMA ReturnType ==
    ASSUME TypeOK, NEW c \in Clients, Return(c)
    PROVE  api' \in [Clients -> ClientState] /\ \A d \in Clients : ClientOK(api'[d])
  BY IdleType DEF Return, TypeOK

LEMMA TypeStep == TypeOK /\ [Next]_vars => TypeOK'
  <1> SUFFICES ASSUME TypeOK, [Next]_vars PROVE TypeOK'
    OBVIOUS
  <1>t. /\ status \in [Datasets -> Statuses] /\ items \in [Datasets -> Lists]
        /\ runOf \in [Runs -> Datasets \cup {0}] /\ runItems \in [Runs -> Lists]
        /\ api \in [Clients -> ClientState] /\ ops \in 0..MaxOps
        /\ \A c \in Clients : ClientOK(api[c])
    BY DEF TypeOK
  <1>a. Accept => ops' \in 0..MaxOps
    BY <1>t DEF Accept
  <1>w. ASSUME NEW c \in Clients, api[c].pc # "idle"
        PROVE  /\ api[c].id \in Datasets /\ api[c].items \in Lists
               /\ api[c].for \in Purposes /\ api[c].status \in Statuses
    BY <1>t, <1>w DEF ClientState, ClientOK
  <1>1. ASSUME NEW d \in Datasets, CreateDataset(d) PROVE TypeOK'
    <2>1. status' \in [Datasets -> Statuses]
      BY <1>1, <1>t DEF CreateDataset, Statuses
    <2>2. items' \in [Datasets -> Lists]
      BY <1>1, <1>t, SeedLists DEF CreateDataset
    <2> QED BY <1>1, <1>a, <1>t, <2>1, <2>2 DEF CreateDataset, TypeOK
  <1>2. ASSUME NEW c \in Clients, NEW d \in Datasets, NEW purpose \in Purposes,
               ReadStatus(c, d, purpose)
        PROVE  TypeOK'
    <2> DEFINE new == [pc |-> "reading", id |-> d, for |-> purpose,
                       status |-> status[d], items |-> <<>>]
    <2>1. <<>> \in Lists /\ status[d] \in Statuses
      BY <1>t DEF Lists
    <2>2. new \in ClientState /\ ClientOK(new)
      BY <1>2, <2>1 DEF ReadStatus, ClientState, ClientOK
    <2>3. api' = [api EXCEPT ![c] = new] /\ UNCHANGED tables
      BY <1>2 DEF ReadStatus
    <2> HIDE DEF new
    <2>4. api' \in [Clients -> ClientState] /\ \A b \in Clients : ClientOK(api'[b])
      BY <1>t, <2>2, <2>3
    <2> QED BY <1>2, <1>a, <1>t, <2>3, <2>4 DEF ReadStatus, TypeOK, tables
  <1>3. ASSUME NEW c \in Clients, ReadItems(c) PROVE TypeOK'
    <2> DEFINE new == [api[c] EXCEPT !.pc = "writing", !.items = items[api[c].id]]
    <2>0. api[c].pc # "idle"
      BY <1>3 DEF ReadItems
    <2>1. items[api[c].id] \in Lists /\ api[c] \in ClientState /\ ClientOK(api[c])
      BY <1>t, <1>w, <2>0
    <2>2. ASSUME Allowed(api[c].for, api[c].status) PROVE new \in ClientState /\ ClientOK(new)
      BY <1>w, <2>0, <2>1, <2>2 DEF ClientState, ClientOK
    <2>3. \/ Allowed(api[c].for, api[c].status) /\ api' = [api EXCEPT ![c] = new]
          \/ api' = [api EXCEPT ![c] = IdleClient]
      BY <1>3 DEF ReadItems
    <2> HIDE DEF new
    <2>4. api' \in [Clients -> ClientState] /\ \A b \in Clients : ClientOK(api'[b])
      BY <1>t, <2>2, <2>3, IdleType
    <2> QED BY <1>3, <1>t, <2>4 DEF ReadItems, TypeOK, tables
  <1>4. ASSUME NEW c \in Clients, NEW e \in EvalCases, AddDatasetItem(c, e) PROVE TypeOK'
    <2>1. api[c].id \in Datasets
      BY <1>4, <1>w DEF AddDatasetItem
    <2>2. Inserted(items[api[c].id], e) \in Lists
      BY <1>t, <2>1, InsertedList
    <2>3. items' \in [Datasets -> Lists]
      BY <1>4, <1>t, <2>2 DEF AddDatasetItem
    <2> QED BY <1>4, <1>t, <2>3, ReturnType DEF AddDatasetItem, TypeOK
  <1>5. ASSUME NEW c \in Clients, PublishDataset(c) PROVE TypeOK'
    <2>1. status' \in [Datasets -> Statuses]
      BY <1>5, <1>t DEF PublishDataset, Statuses
    <2> QED BY <1>5, <1>t, <2>1, ReturnType DEF PublishDataset, TypeOK
  <1>6. ASSUME NEW c \in Clients, NEW r \in Runs, CreateRun(c, r) PROVE TypeOK'
    <2>1. api[c].id \in Datasets /\ api[c].items \in Lists
      BY <1>6, <1>w DEF CreateRun
    <2>2. runOf' \in [Runs -> Datasets \cup {0}] /\ runItems' \in [Runs -> Lists]
      BY <1>6, <1>t, <2>1 DEF CreateRun
    <2> QED BY <1>6, <1>t, <2>2, ReturnType DEF CreateRun, TypeOK
  <1>7. ASSUME NEW c \in Clients, RequestEnds(c) PROVE TypeOK'
    BY <1>7, <1>t, ReturnType DEF RequestEnds, TypeOK, tables
  <1>8. CASE UNCHANGED vars
    BY <1>8 DEF TypeOK, vars
  <1> QED BY <1>1, <1>2, <1>3, <1>4, <1>5, <1>6, <1>7, <1>8 DEF Next, ClientStep

\* Every request leaves tables and handlers well typed, and a request that is
\* about to write has read a status that allows it.
THEOREM TypeCorrect == Spec => []TypeOK
  <1>1. Init => TypeOK
    <2>1. <<>> \in Lists
      BY DEF Lists
    <2> QED BY <2>1, IdleType DEF Init, TypeOK, Statuses
  <1> QED BY <1>1, TypeStep, PTL DEF Spec

----------------------------------------------------------------------------
(* Immutability and the snapshots of runs.                                 *)

Frozen(d) == status[d] = "published" => status'[d] = "published" /\ items'[d] = items[d]

LEMMA FrozenStep == TypeOK /\ [Next]_vars => \A d \in Datasets : Frozen(d)
  <1> SUFFICES ASSUME TypeOK, [Next]_vars PROVE \A d \in Datasets : Frozen(d)
    OBVIOUS
  <1>t. status \in [Datasets -> Statuses] /\ items \in [Datasets -> Lists]
    BY DEF TypeOK
  <1>1. CASE UNCHANGED <<status, items>>
    BY <1>1 DEF Frozen
  <1>2. ASSUME NEW d \in Datasets, CreateDataset(d) PROVE \A b \in Datasets : Frozen(b)
    BY <1>2, <1>t DEF CreateDataset, Frozen
  <1>3. ASSUME NEW c \in Clients, NEW e \in EvalCases, AddDatasetItem(c, e)
        PROVE  \A b \in Datasets : Frozen(b)
    BY <1>3, <1>t DEF AddDatasetItem, Frozen
  <1>4. ASSUME NEW c \in Clients, PublishDataset(c) PROVE \A b \in Datasets : Frozen(b)
    BY <1>4, <1>t DEF PublishDataset, Frozen
  <1> QED BY <1>1, <1>2, <1>3, <1>4
          DEF Next, ClientStep, ReadStatus, ReadItems, CreateRun, RequestEnds, vars, tables

\* A published dataset never changes again, whatever its readers have seen.
THEOREM PublishedFrozen == Spec => PublishedIsFrozen
  <1>1. TypeOK /\ [Next]_vars =>
           \A d \in Datasets : status[d] = "published" =>
               status'[d] = "published" /\ items'[d] = items[d]
    BY FrozenStep DEF Frozen
  <1> QED BY <1>1, TypeCorrect, PTL DEF Spec, PublishedIsFrozen

\* A handler that has read "published" is right about it for good, and the
\* items it reads after that are the dataset's for good.
ReaderOK(c) ==
    api[c].pc # "idle" /\ api[c].status = "published" =>
        /\ status[api[c].id] = "published"
        /\ api[c].pc = "writing" => api[c].items = items[api[c].id]

BaselineInv == RunsMatchBaseline /\ \A c \in Clients : ReaderOK(c)

LEMMA BaselineStep == TypeOK /\ BaselineInv /\ [Next]_vars => BaselineInv'
  <1> SUFFICES ASSUME TypeOK, BaselineInv, [Next]_vars PROVE BaselineInv'
    OBVIOUS
  <1>t. /\ status \in [Datasets -> Statuses] /\ items \in [Datasets -> Lists]
        /\ runOf \in [Runs -> Datasets \cup {0}] /\ runItems \in [Runs -> Lists]
        /\ api \in [Clients -> ClientState] /\ \A c \in Clients : ClientOK(api[c])
    BY DEF TypeOK
  <1>f. \A d \in Datasets : Frozen(d)
    BY FrozenStep
  <1>i. \A c \in Clients : api[c].pc # "idle" => api[c].id \in Datasets
    BY <1>t DEF ClientOK
  <1>k. ASSUME NEW c \in Clients, api'[c] = api[c] PROVE ReaderOK(c)'
    BY <1>f, <1>i, <1>k DEF ReaderOK, Frozen, BaselineInv
  <1>r. ASSUME NEW r \in Runs, runOf'[r] = runOf[r], runItems'[r] = runItems[r], runOf'[r] # 0
        PROVE  status'[runOf'[r]] = "published" /\ runItems'[r] = items'[runOf'[r]]
    <2>1. runOf[r] \in Datasets
      BY <1>t, <1>r
    <2> QED BY <1>f, <1>r, <2>1 DEF BaselineInv, RunsMatchBaseline, Frozen
  <1>o. UNCHANGED <<runOf, runItems>> => RunsMatchBaseline'
    BY <1>r DEF RunsMatchBaseline
  <1>e. ASSUME NEW c \in Clients, Return(c) PROVE \A b \in Clients : ReaderOK(b)'
    <2>1. api'[c].pc = "idle" /\ \A b \in Clients : b # c => api'[b] = api[b]
      BY <1>e, <1>t DEF Return, IdleClient
    <2> QED BY <1>k, <2>1 DEF ReaderOK
  <1>1. ASSUME NEW c \in Clients, NEW d \in Datasets, NEW purpose \in Purposes,
               ReadStatus(c, d, purpose)
        PROVE  BaselineInv'
    <2>1. /\ api'[c].pc = "reading" /\ api'[c].id = d /\ api'[c].status = status[d]
          /\ \A b \in Clients : b # c => api'[b] = api[b]
          /\ UNCHANGED tables
      BY <1>1, <1>t DEF ReadStatus
    <2>2. ReaderOK(c)'
      BY <2>1 DEF ReaderOK, tables
    <2> QED BY <1>k, <1>o, <2>1, <2>2 DEF BaselineInv, tables
  <1>2. ASSUME NEW c \in Clients, ReadItems(c) PROVE BaselineInv'
    <2>1. CASE api' = [api EXCEPT ![c] = IdleClient]
      BY <1>2, <1>e, <1>o, <2>1 DEF Return, ReadItems, tables, BaselineInv
    <2>2. CASE api' = [api EXCEPT ![c] = [api[c] EXCEPT !.pc = "writing",
                                                         !.items = items[api[c].id]]]
      <3>1. api[c] \in ClientState /\ api[c].pc = "reading" /\ UNCHANGED tables
        BY <1>2, <1>t DEF ReadItems
      <3>2. /\ api'[c].id = api[c].id /\ api'[c].status = api[c].status
            /\ api'[c].items = items[api[c].id]
            /\ \A b \in Clients : b # c => api'[b] = api[b]
        BY <1>t, <2>2, <3>1 DEF ClientState
      <3>3. ReaderOK(c)'
        BY <3>1, <3>2 DEF ReaderOK, BaselineInv, tables
      <3> QED BY <1>k, <1>o, <3>1, <3>2, <3>3 DEF BaselineInv, tables
    <2> QED BY <1>2, <2>1, <2>2 DEF ReadItems
  <1>3. ASSUME NEW c \in Clients, NEW r \in Runs, CreateRun(c, r) PROVE BaselineInv'
    <2>1. /\ api[c].pc = "writing" /\ api[c].for = "run" /\ Return(c)
          /\ UNCHANGED <<status, items>>
      BY <1>3 DEF CreateRun
    <2>2. api[c].status = "published"
      BY <1>t, <2>1 DEF ClientOK, Allowed
    <2>3. status[api[c].id] = "published" /\ api[c].items = items[api[c].id]
      BY <2>1, <2>2 DEF BaselineInv, ReaderOK
    <2>4. /\ runOf'[r] = api[c].id /\ runItems'[r] = api[c].items
          /\ \A q \in Runs : q # r => runOf'[q] = runOf[q] /\ runItems'[q] = runItems[q]
      BY <1>3, <1>t DEF CreateRun
    <2>5. RunsMatchBaseline'
      BY <1>r, <2>1, <2>3, <2>4 DEF RunsMatchBaseline
    <2> QED BY <1>e, <2>1, <2>5 DEF BaselineInv
  <1>4. ASSUME NEW c \in Clients,
               RequestEnds(c) \/ PublishDataset(c) \/ \E e \in EvalCases : AddDatasetItem(c, e)
        PROVE  BaselineInv'
    BY <1>4, <1>e, <1>o DEF RequestEnds, PublishDataset, AddDatasetItem, tables, BaselineInv
  <1>5. ASSUME UNCHANGED <<runOf, runItems, api>> PROVE BaselineInv'
    BY <1>5, <1>k, <1>o DEF BaselineInv
  <1> QED BY <1>1, <1>2, <1>3, <1>4, <1>5 DEF Next, ClientStep, CreateDataset, vars

\* Every run is a faithful snapshot of a published dataset, although it is
\* read in two queries and written later.
THEOREM BaselineHolds == Spec => []RunsMatchBaseline
  <1>1. Init => BaselineInv
    BY DEF Init, BaselineInv, RunsMatchBaseline, ReaderOK, IdleClient
  <1>2. BaselineInv => RunsMatchBaseline
    BY DEF BaselineInv
  <1> QED BY <1>1, <1>2, BaselineStep, TypeCorrect, PTL DEF Spec

LEMMA DistinctStep == TypeOK /\ MembersAreDistinct /\ [Next]_vars => MembersAreDistinct'
  <1> SUFFICES ASSUME TypeOK, MembersAreDistinct, [Next]_vars PROVE MembersAreDistinct'
    OBVIOUS
  <1>t. items \in [Datasets -> Lists]
    BY DEF TypeOK
  <1>1. CASE UNCHANGED items
    BY <1>1 DEF MembersAreDistinct
  <1>2. ASSUME NEW d \in Datasets, CreateDataset(d) PROVE MembersAreDistinct'
    BY <1>2, <1>t, SeedLists DEF CreateDataset, MembersAreDistinct
  <1>3. ASSUME NEW c \in Clients, NEW e \in EvalCases, AddDatasetItem(c, e)
        PROVE  MembersAreDistinct'
    <2> DEFINE d == api[c].id
    <2>1. d \in Datasets
      BY <1>3 DEF AddDatasetItem, TypeOK, ClientOK
    <2>2. Distinct(Inserted(items[d], e))
      BY <1>t, <2>1, InsertedList DEF MembersAreDistinct
    <2>3. items' = [items EXCEPT ![d] = Inserted(items[d], e)]
      BY <1>3 DEF AddDatasetItem
    <2> QED BY <1>t, <2>1, <2>2, <2>3 DEF MembersAreDistinct
  <1> QED BY <1>1, <1>2, <1>3
          DEF Next, ClientStep, ReadStatus, ReadItems, PublishDataset, CreateRun,
              RequestEnds, vars, tables

\* No race of two additions makes an eval case a member twice.
THEOREM MembersDistinct == Spec => []MembersAreDistinct
  <1>1. Init => MembersAreDistinct
    <2>1. Len(<<>>) = 0
      OBVIOUS
    <2> QED BY <2>1 DEF Init, MembersAreDistinct, Distinct
  <1> QED BY <1>1, DistinctStep, TypeCorrect, PTL DEF Spec
=============================================================================
