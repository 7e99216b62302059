------------------------------ MODULE ChatTurn ------------------------------
(***************************************************************************)
(* A synchronous chat turn: Handle of internal/app/chat/service.go and     *)
(* what it calls.  A turn stores the user's message, plans, retrieves,     *)
(* runs the plan's tools, answers, has the answer reviewed, may promote a  *)
(* task, and stores the assistant's message.  Nothing ties these writes    *)
(* together: a turn that fails in between leaves behind what it has        *)
(* written, and turns of one session interleave.                           *)
(*                                                                         *)
(* The language model is a source of arbitrary answers; whatever it        *)
(* proposes passes through the validation of Planning.                     *)
(***************************************************************************)
EXTENDS Planning

CONSTANTS
    Requests,     \* chat requests, each handled once
    Shared,       \* a session that exists from the start
    Input,        \* Input[r]: the modes, sessions (Shared, or r for a new one) and
                  \* messages r may come with, and the plans, valid or not, the
                  \* language model may answer it with
    Rows,         \* contents tool_policies may have for the user of the requests:
                  \* what each row says, and which rows cannot be parsed
    MaxReplans,   \* maxReplanAttempts
    MaxChanges,   \* bound: changes of the tool policies
    MaxFaults     \* bound: calls to the database or to retrieval that fail

ASSUME ChatAssumption ==
    /\ Shared \notin Requests
    /\ \A r \in Requests : /\ Input[r].sessions \subseteq {Shared, r}
                           /\ Input[r].modes \subseteq {"chat", "task", "eval"}
                           /\ Input[r].messages \subseteq Message
                           /\ Input[r].plans \subseteq Response
    /\ Rows \subseteq [org : Layer, tenant : Layer, user : Layer,
                       malformed : SUBSET {"org", "tenant", "user"}]
    /\ MaxReplans \in Nat /\ MaxChanges \in Nat /\ MaxFaults \in Nat

\* A session that request r creates is named after it.
Sessions == Requests \cup {Shared}

\* A message of a session, by the request that stores it.
SessionMessage == [session : Sessions, role : {"user", "assistant"}, req : Requests]

NoPlan == [source |-> "keyword", retrieval |-> FALSE, workflow |-> FALSE, steps |-> <<>>]

\* One tool invocation and what became of it; "call" identifies its arguments.
Call == [call : Nat, tool : Tools, status : {"succeeded", "failed", "approval_required"}]

NoTask == [kind |-> "none", tool |-> NoTool, status |-> "none"]

VARIABLES
    turn,       \* turn[r]: how far the request has come
    messages,   \* messages[m]: how often the message is stored
    created,    \* sessions that exist
    promoted,   \* promoted[r]: the task that r promoted, with the call it carries
    rows,       \* the rows of tool_policies
    banned,     \* tools that rows which can be parsed have forbidden all the time
    cache,      \* the cached policy and whether its time to live still runs
    changes, faults

chat == <<turn, messages, created, promoted>>
policies == <<rows, banned, cache, changes>>
vars == <<chat, policies, faults>>

NoEntry == [stored |-> FALSE, fresh |-> FALSE, policy |-> Unconfigured]

IdleTurn == [pc |-> "new", session |-> Shared, mode |-> "chat", policy |-> Unconfigured,
             plan |-> NoPlan, at |-> 1, calls |-> <<>>, replans |-> 0,
             evidence |-> FALSE, verdict |-> "none"]

\* LoadScopedPolicies passes over a row whose JSON does not parse, a mistyped
\* field being enough: the layer is missing, with the tools it forbids.
Parsed(layers) ==
    LET Read(layer, level) == IF level \in layers.malformed THEN Unconfigured ELSE layer
    IN  [org |-> Read(layers.org, "org"), tenant |-> Read(layers.tenant, "tenant"),
         user |-> Read(layers.user, "user")]

Forbidden(layers) == layers.org.forbidden \cup layers.tenant.forbidden \cup layers.user.forbidden

Init ==
    /\ turn = [r \in Requests |-> IdleTurn]
    /\ messages = [m \in SessionMessage |-> 0]
    /\ created = {Shared}
    /\ promoted = [r \in Requests |-> NoTask]
    /\ rows \in Rows
    /\ banned = Forbidden(Parsed(rows))
    /\ cache = NoEntry
    /\ changes = 0 /\ faults = 0

At(r, pc) == turn[r].pc = pc
Go(r, new) == turn' = [turn EXCEPT ![r] = new]

\* The turn is over; nothing of its working state is kept.
Ended(r, pc) ==
    [IdleTurn EXCEPT !.pc = pc, !.session = turn[r].session, !.mode = turn[r].mode]

Fault == faults < MaxFaults /\ faults' = faults + 1

----------------------------------------------------------------------------
(* The request is accepted and its policy loaded.  Requests share the      *)
(* cache, and a load looks there, queries the database and stores the      *)
(* result in three steps.                                                  *)

\* handleChatStream: a session that is named exists.
Accept(r) ==
    /\ At(r, "new")
    /\ \E mode \in Input[r].modes, s \in Input[r].sessions :
          Go(r, [IdleTurn EXCEPT !.pc = "loading", !.session = s, !.mode = mode])
    /\ UNCHANGED <<messages, created, promoted, policies, faults>>

Loaded(r, pc, policy) == Go(r, [turn[r] EXCEPT !.pc = pc, !.policy = policy])

\* LoadPolicy looks into the cache.
LookUpPolicy(r) ==
    /\ At(r, "loading")
    /\ IF cache.fresh THEN Loaded(r, "opening", cache.policy)
       ELSE Loaded(r, "querying", Unconfigured)
    /\ UNCHANGED <<messages, created, promoted, policies, faults>>

\* LoadScopedPolicies and the merge of its layers.
QueryPolicies(r) ==
    /\ At(r, "querying")
    /\ LET layers == Parsed(rows)
       IN  Loaded(r, "caching", MergePolicies(layers.org, layers.tenant, layers.user))
    /\ UNCHANGED <<messages, created, promoted, policies, faults>>

\* Mutant: without the database there are no restrictions.
PermissivePolicy == Unconfigured

\* What an error of the database leaves: the cached policy however old it
\* is, and without one a policy that denies every tool.
FallbackPolicy == IF cache.stored THEN cache.policy ELSE DenyAll

QueryFails(r) ==
    /\ At(r, "querying")
    /\ Fault
    /\ Loaded(r, "opening", FallbackPolicy)
    /\ UNCHANGED <<messages, created, promoted, policies>>

CachePolicy(r) ==
    /\ At(r, "caching")
    /\ cache' = [stored |-> TRUE, fresh |-> TRUE, policy |-> turn[r].policy]
    /\ Loaded(r, "opening", turn[r].policy)
    /\ UNCHANGED <<messages, created, promoted, rows, banned, changes, faults>>

\* The time to live of the cached policy passes.
Expire ==
    /\ cache.fresh
    /\ cache' = [cache EXCEPT !.fresh = FALSE]
    /\ UNCHANGED <<chat, rows, banned, changes, faults>>

\* Somebody edits tool_policies; no code of the repository does.
EditPolicies ==
    /\ changes < MaxChanges /\ changes' = changes + 1
    /\ rows' \in Rows \ {rows}
    /\ banned' = banned \cap Forbidden(Parsed(rows'))
    /\ UNCHANGED <<chat, cache, faults>>

\* CreateSession unless the request names one.
OpenSession(r) ==
    /\ At(r, "opening")
    /\ created' = created \cup {turn[r].session}
    /\ Go(r, [turn[r] EXCEPT !.pc = "opened"])
    /\ UNCHANGED <<messages, promoted, policies, faults>>

\* AppendMessage.
AppendMessage(r, role) ==
    messages' = [messages EXCEPT ![[session |-> turn[r].session, role |-> role, req |-> r]] = @ + 1]

StoreUserMessage(r) ==
    /\ At(r, "opened")
    /\ AppendMessage(r, "user")
    /\ Go(r, [turn[r] EXCEPT !.pc = "planning"])
    /\ UNCHANGED <<created, promoted, policies, faults>>

----------------------------------------------------------------------------
(* Planning and retrieval.                                                 *)

Valid(resp, policy) == validateLLMPlan(resp) /\ validatePlanPolicy(resp, policy)

\* What Plan may return: a valid plan of the model or, when there is none,
\* the keyword planner's.
Plans(r) ==
    {toLLMPlanResponse(resp, "llm") : resp \in {x \in Input[r].plans : Valid(x, turn[r].policy)}}
        \cup {planWithKeywords(msg, turn[r].mode, turn[r].policy) : msg \in Input[r].messages}

\* The turn goes on to its answer; policy and steps are not looked at again.
Answering(t) == [t EXCEPT !.pc = "answering", !.policy = Unconfigured, !.plan.steps = <<>>, !.at = 1]

\* An evaluation turn answers without running tools.
AfterRetrieval(t) == IF t.mode = "eval" THEN Answering(t) ELSE [t EXCEPT !.pc = "tools"]

PlanTurn(r) ==
    /\ At(r, "planning")
    /\ \E plan \in Plans(r) :
          LET t == [turn[r] EXCEPT !.plan = plan] IN
          Go(r, IF plan.retrieval THEN [t EXCEPT !.pc = "retrieving"] ELSE AfterRetrieval(t))
    /\ UNCHANGED <<messages, created, promoted, policies, faults>>

\* Search, then reranking, compression, the relevance filter and reordering:
\* each of the middle three may fail or drop blocks, so that evidence is left
\* or not; only the search itself can fail the turn.
Retrieve(r) ==
    /\ At(r, "retrieving")
    /\ \E evidence \in BOOLEAN :
          Go(r, AfterRetrieval([turn[r] EXCEPT !.evidence = evidence]))
    /\ UNCHANGED <<messages, created, promoted, policies, faults>>

----------------------------------------------------------------------------
(* Tool steps.                                                             *)

\* Tools are run one after the other; other kinds of steps are passed over.
ToolsLeft(r) ==
    {i \in turn[r].at..Len(turn[r].plan.steps) : turn[r].plan.steps[i].kind = "tool"}

Todo(r) == ToolsLeft(r) # {}
Position(r) == CHOOSE i \in ToolsLeft(r) : \A j \in ToolsLeft(r) : i <= j
NextStep(r) == turn[r].plan.steps[Position(r)]

\* Mutant: only tools of class admin need an approval.
adminRequiresApproval(step) == FALSE

\* The gate of tool.Service.Execute for an invocation without approval.
requiresApproval(step) ==
    step.approval \/ step.tool \in ApprovalTools \/ step.tool \notin ReadTools

\* A write tool without structured arguments is refused, and the turn fails.
ArgumentsMissing(step) == ~step.given /\ ~step.readOnly

Called(r, status) ==
    Append(turn[r].calls, [call |-> Len(turn[r].calls) + 1, tool |-> NextStep(r).tool,
                           status |-> status])

RunTool(r) ==
    /\ At(r, "tools") /\ Todo(r)
    /\ ~ArgumentsMissing(NextStep(r))
    /\ Go(r, [turn[r] EXCEPT
                 !.at = Position(r) + 1,
                 !.calls = Called(r, IF requiresApproval(NextStep(r))
                                     THEN "approval_required" ELSE "succeeded")])
    /\ UNCHANGED <<messages, created, promoted, policies, faults>>

\* The executor returns an error.
ToolErrs(r) ==
    At(r, "tools") /\ Todo(r) /\ ~ArgumentsMissing(NextStep(r)) /\ ~requiresApproval(NextStep(r))

\* Only a plan of the model is revised, and only once.
CanReplan(r) == turn[r].replans < MaxReplans /\ turn[r].plan.source # "keyword"

\* What Replan may return; it fails when the model offers nothing valid.
RevisedPlans(r) ==
    {toLLMPlanResponse(resp, "replan") :
        resp \in {x \in Input[r].plans : Valid(x, turn[r].policy)}}

\* The plan is revised after the error.  The failed call stays on record and
\* the tool steps of the revised plan follow it.
Replan(r) ==
    /\ ToolErrs(r) /\ CanReplan(r)
    /\ \E plan \in RevisedPlans(r) :
          Go(r, [turn[r] EXCEPT !.plan = plan, !.at = 1, !.replans = @ + 1,
                                !.calls = Called(r, "failed")])
    /\ UNCHANGED <<messages, created, promoted, policies, faults>>

\* Mutant: a refused write ends nothing.
ToolFailsOnErrorOnly(r) ==
    /\ ToolErrs(r)
    /\ Go(r, Ended(r, "error"))
    /\ UNCHANGED <<messages, created, promoted, policies, faults>>

\* The turn fails on a refused or failed tool.
ToolFailsTurn(r) ==
    /\ \/ ToolErrs(r)
       \/ At(r, "tools") /\ Todo(r) /\ ArgumentsMissing(NextStep(r))
    /\ Go(r, Ended(r, "error"))
    /\ UNCHANGED <<messages, created, promoted, policies, faults>>

\* The steps are done.  If the plan was revised to need evidence and there is
\* none, retrieval runs now; its failure is tolerated.
ToolsDone(r) ==
    /\ At(r, "tools") /\ ~Todo(r)
    /\ \E evidence \in BOOLEAN :
          /\ \/ evidence = turn[r].evidence
             \/ turn[r].replans > 0 /\ turn[r].plan.retrieval /\ ~turn[r].evidence
          /\ Go(r, Answering([turn[r] EXCEPT !.evidence = evidence]))
    /\ UNCHANGED <<messages, created, promoted, policies, faults>>

----------------------------------------------------------------------------
(* Answer, review, promotion.                                              *)

Statuses(calls) == {calls[i].status : i \in DOMAIN calls}

\* The verdicts reviewWithRules may come to; how well the answer cites its
\* evidence is left open.
reviewWithRules(t) ==
    IF "failed" \in Statuses(t.calls) \/ (t.plan.retrieval /\ ~t.evidence) THEN {"revise"}
    ELSE IF t.plan.retrieval THEN {"approve", "revise"}
    ELSE {"approve"}

\* Mutant: the model reviews turns whose tools wait for an approval, too.
ReviewByModel(t) == {"approve", "revise", "promote_workflow", "reject"}

\* A call that waits for an approval is promoted whatever the model thinks;
\* otherwise the model's verdict counts, and without one the rules'.
Review(t) ==
    IF "approval_required" \in Statuses(t.calls) THEN {"promote_workflow"}
    ELSE {"approve", "revise", "promote_workflow", "reject"} \cup reviewWithRules(t)

\* Mutant: evaluation turns promote as well.
NeedsTaskInEval(t) == t.plan.workflow \/ t.verdict = "promote_workflow"

NeedsTask(t) == t.mode # "eval" /\ (t.plan.workflow \/ t.verdict = "promote_workflow")

\* What is left to do is to reply.
Replying(t) ==
    [t EXCEPT !.pc = "replying", !.plan = NoPlan, !.evidence = FALSE, !.replans = 0, !.verdict = "none"]

\* The completion, or the placeholder if it fails, and its review.
Answer(r) ==
    /\ At(r, "answering")
    /\ \E verdict \in Review(turn[r]) :
          LET t == [turn[r] EXCEPT !.verdict = verdict] IN
          Go(r, IF NeedsTask(t) THEN [t EXCEPT !.pc = "promoting"] ELSE Replying(t))
    /\ UNCHANGED <<messages, created, promoted, policies, faults>>

\* The first call whose tool has a result that waits for an approval: calls
\* and results are matched by the name of the tool alone.
firstApprovalInvocation(calls) ==
    LET waiting == {calls[i].tool : i \in {j \in DOMAIN calls :
                                             calls[j].status = "approval_required"}}
        match == {i \in DOMAIN calls : calls[i].tool \in waiting}
    IN  {i \in match : \A j \in match : i <= j}

\* The task of the promotion: a tool to be approved if the review asks for
\* it, with the call it carries if there is one, else a report.
NewTask(t) ==
    IF t.verdict # "promote_workflow"
    THEN [kind |-> "report", tool |-> NoTool, status |-> "none"]
    ELSE LET found == firstApprovalInvocation(t.calls) IN
         IF found = {} THEN [kind |-> "tool", tool |-> NoTool, status |-> "none"]
         ELSE LET c == t.calls[CHOOSE i \in found : TRUE]
              IN  [kind |-> "tool", tool |-> c.tool, status |-> c.status]

Promote(r) ==
    /\ At(r, "promoting")
    /\ promoted' = [promoted EXCEPT ![r] = NewTask(turn[r])]
    /\ Go(r, Replying(turn[r]))
    /\ UNCHANGED <<messages, created, policies, faults>>

\* Mutant: the events go out and the answer is not stored.
ReplyUnsaved(r) ==
    /\ At(r, "replying")
    /\ Go(r, Ended(r, "done"))
    /\ UNCHANGED <<messages, created, promoted, policies, faults>>

\* The assistant's message is stored and the events go out.
Reply(r) ==
    /\ At(r, "replying")
    /\ AppendMessage(r, "assistant")
    /\ Go(r, Ended(r, "done"))
    /\ UNCHANGED <<created, promoted, policies, faults>>

----------------------------------------------------------------------------
(* Errors.                                                                 *)

\* A call that Handle does not tolerate to fail fails, or its request is
\* cancelled: the client gets an error event and everything stored stays.
TurnFails(r) ==
    /\ turn[r].pc \in {"opening", "opened", "planning", "retrieving", "promoting", "replying"}
    /\ Fault
    /\ Go(r, Ended(r, "error"))
    /\ UNCHANGED <<messages, created, promoted, policies>>

\* The message or the task is stored and the answer to the write is lost.
WriteLost(r) ==
    /\ turn[r].pc \in {"opened", "promoting", "replying"}
    /\ Fault
    /\ Go(r, Ended(r, "error"))
    /\ \/ At(r, "opened") /\ AppendMessage(r, "user") /\ UNCHANGED promoted
       \/ At(r, "replying") /\ AppendMessage(r, "assistant") /\ UNCHANGED promoted
       \/ /\ At(r, "promoting")
          /\ promoted' = [promoted EXCEPT ![r] = NewTask(turn[r])]
          /\ UNCHANGED messages
    /\ UNCHANGED <<created, policies>>

----------------------------------------------------------------------------
HandleStep(r) ==
    \/ LookUpPolicy(r)
    \/ QueryPolicies(r)
    \/ CachePolicy(r)
    \/ OpenSession(r)
    \/ StoreUserMessage(r)
    \/ PlanTurn(r)
    \/ Retrieve(r)
    \/ RunTool(r)
    \/ Replan(r)
    \/ ToolFailsTurn(r)
    \/ ToolsDone(r)
    \/ Answer(r)
    \/ Promote(r)
    \/ Reply(r)

Next ==
    \/ \E r \in Requests :
          Accept(r) \/ HandleStep(r) \/ QueryFails(r) \/ TurnFails(r) \/ WriteLost(r)
    \/ Expire
    \/ EditPolicies

\* An accepted request is worked on until it ends: net/http keeps its goroutine
\* running, the HTTP clients of the language model and the tools have timeouts,
\* and the database is taken to answer or to fail.
Fairness == \A r \in Requests : WF_vars(HandleStep(r))

Spec == Init /\ [][Next]_vars /\ Fairness

----------------------------------------------------------------------------
(* Properties.                                                             *)

Turn == [pc : {"new", "loading", "querying", "caching", "opening", "opened", "planning", "retrieving", "tools", "answering",
               "promoting", "replying", "done", "error"},
         session : Sessions, mode : {"chat", "task", "eval"}, policy : Policy,
         plan : Plan, at : Nat \ {0}, calls : Seq(Call), replans : Nat,
         evidence : BOOLEAN,
         verdict : {"none", "approve", "revise", "promote_workflow", "reject"}]

TypeOK ==
    /\ turn \in [Requests -> Turn]
    /\ messages \in [SessionMessage -> Nat]
    /\ \A m \in SessionMessage : messages[m] > 0 => m.session \in created
    /\ created \subseteq Sessions
    /\ promoted \in [Requests -> [kind : {"none", "report", "tool"}, tool : Tools \cup {NoTool},
                                  status : {"none", "succeeded", "failed", "approval_required"}]]
    /\ rows \in Rows /\ banned \subseteq Tools
    /\ cache \in [stored : BOOLEAN, fresh : BOOLEAN, policy : Policy]
    /\ changes \in 0..MaxChanges /\ faults \in 0..MaxFaults

\* No write tool takes effect inside a chat turn, whatever plan the model
\* proposes, revises or mislabels and whatever the policies say: every call
\* of one ends in a request for approval.
WritesAwaitApproval ==
    \A r \in Requests : \A i \in DOMAIN turn[r].calls :
        turn[r].calls[i].tool \notin ReadTools => turn[r].calls[i].status = "approval_required"

\* A tool that rows which LoadScopedPolicies can parse have forbidden all the
\* time is neither called nor handed to a task: not by the keyword planner,
\* not by a revised plan, not because a more specific layer lists it as
\* allowed, not because other rows are malformed, and not because the database
\* fails or an old entry is cached.  (A row that cannot be parsed forbids
\* nothing; OrganisationBansHold is about it.)
ForbiddenToolsAreNotReached ==
    \A r \in Requests :
        /\ \A i \in DOMAIN turn[r].calls : turn[r].calls[i].tool \notin banned
        /\ promoted[r].tool \notin banned

\* As long as nobody edits the policies, a tool that the organisation's row
\* lists as forbidden is neither called nor handed to a task.  policy.go says of
\* MergePolicies that "a tool forbidden at org level cannot be un-forbidden by a
\* tenant or user policy"; LoadScopedPolicies never hands it a malformed row.
OrganisationBansHold ==
    changes = 0 => \A r \in Requests :
        /\ \A i \in DOMAIN turn[r].calls : turn[r].calls[i].tool \notin rows.org.forbidden
        /\ promoted[r].tool \notin rows.org.forbidden

\* The tools whose calls were held back in the turn of r.
HeldBack(r) ==
    LET calls == turn[r].calls
    IN  {calls[i].tool : i \in {j \in DOMAIN calls : calls[j].status = "approval_required"}}

\* A turn that held calls back and comes to its answer has promoted a task for
\* one of the tools it held back, whatever the model's review says and however
\* the plan was revised in between, and a turn that held none back has promoted
\* no tool.  A turn promotes one task: of several tools that were held back the
\* others are dropped, and nothing here says that they are not.
HeldBackCallIsPromoted ==
    \A r \in Requests : At(r, "replying") =>
        IF HeldBack(r) = {} THEN promoted[r].tool = NoTool
        ELSE promoted[r].kind = "tool" /\ promoted[r].tool \in HeldBack(r)

\* Replaying a conversation for an evaluation has no effects: no tool is
\* called and no task is created.
EvaluationsHaveNoEffects ==
    \A r \in Requests : turn[r].mode = "eval" =>
        turn[r].calls = <<>> /\ promoted[r] = NoTask

\* How often a message of r with this role is stored in its session.
Stored(r, role) == messages[[session |-> turn[r].session, role |-> role, req |-> r]]

\* The conversation and the tasks agree with what the client was told: a turn
\* that ended well has both its messages and one that failed without any
\* fault has no answer and no task; a task without an answer is left behind
\* only by a fault.
OutcomeMatchesEffects ==
    \A r \in Requests :
        /\ At(r, "done") => Stored(r, "user") = 1 /\ Stored(r, "assistant") = 1
        /\ At(r, "error") /\ faults = 0 =>
              Stored(r, "user") = 1 /\ Stored(r, "assistant") = 0 /\ promoted[r] = NoTask

\* Every accepted turn ends: plans are finite and revised at most once.
TurnsEnd == \A r \in Requests : At(r, "loading") ~> turn[r].pc \in {"done", "error"}
=============================================================================
