------------------------------ MODULE Planning ------------------------------
(***************************************************************************)
(* What decides which tools a chat turn may use: the tool registry, the    *)
(* tenant policies and their inheritance (internal/agent/planner/policy.go *)
(* and the policy store), the validation of plans a language model         *)
(* proposes, and the keyword planner that stands in for it.                *)
(*                                                                         *)
(* A message is cut down to the keywords the planner looks for, a plan to  *)
(* its flags and steps, a step to what validation and execution read.      *)
(***************************************************************************)
EXTENDS Integers, Sequences, FiniteSets

CONSTANTS
    Tools,          \* names in the registry
    ReadTools,      \* tools registered as read-only, with action class read
    ApprovalTools,  \* tools registered with RequiresApproval
    AsyncTools,     \* tools registered with AsyncOnly
    TicketTools,    \* the ticket tools, as a sequence in name order
    SearchTool,     \* ticket_search
    NoTool,         \* the empty tool name
    MaxSteps        \* maxSteps

TicketToolSet == {TicketTools[i] : i \in DOMAIN TicketTools}

ASSUME RegistryAssumption ==
    /\ NoTool \notin Tools
    /\ ReadTools \subseteq Tools
    /\ ApprovalTools \subseteq Tools
    /\ AsyncTools \subseteq Tools
    /\ TicketTools \in Seq(Tools)
    /\ SearchTool \in Tools
    /\ MaxSteps \in Nat \ {0}

----------------------------------------------------------------------------
(* Policies.                                                               *)

Policy == [configured : BOOLEAN, allow : BOOLEAN, explicit : BOOLEAN,
           allowed : SUBSET Tools, forbidden : SUBSET Tools,
           maxSteps : Nat, approveWrites : BOOLEAN]

Unconfigured ==
    [configured |-> FALSE, allow |-> FALSE, explicit |-> FALSE, allowed |-> {},
     forbidden |-> {}, maxSteps |-> 0, approveWrites |-> FALSE]

\* A row of tool_policies, or none.
Layer == {p \in Policy : p.configured} \cup {Unconfigured}

\* One layer of MergePolicies on top of what its parents amount to.  Lists of
\* forbidden tools add up and a required approval stays; the other fields of
\* the layer win where it sets them.
Layered(parent, layer) ==
    IF ~layer.configured THEN parent
    ELSE [configured |-> TRUE,
          allow |-> IF layer.explicit THEN layer.allow ELSE parent.allow,
          explicit |-> parent.explicit \/ layer.explicit,
          allowed |-> IF layer.allowed # {} THEN layer.allowed ELSE parent.allowed,
          forbidden |-> parent.forbidden \cup layer.forbidden,
          maxSteps |-> IF layer.maxSteps > 0 THEN layer.maxSteps ELSE parent.maxSteps,
          approveWrites |-> parent.approveWrites \/ layer.approveWrites]

MergePolicies(org, tenant, user) ==
    Layered(Layered(Layered(Unconfigured, org), tenant), user)

\* What LoadPolicy returns when neither the database nor the cache answers.
DenyAll == [Unconfigured EXCEPT !.configured = TRUE]

isTenantToolAllowed(t, policy) ==
    \/ ~policy.configured
    \/ /\ t \notin policy.forbidden
       /\ policy.allowed = {} \/ t \in policy.allowed

\* The steps a plan may have under a policy.
StepLimit(policy) ==
    IF policy.configured /\ policy.maxSteps \in 1..MaxSteps THEN policy.maxSteps ELSE MaxSteps

----------------------------------------------------------------------------
(* Plans.                                                                  *)

\* "given": the planner supplied structured arguments.
Step == [kind : {"tool", "promote", "other"}, tool : Tools \cup {NoTool},
         given : BOOLEAN, readOnly : BOOLEAN, approval : BOOLEAN]

Plan == [source : {"llm", "keyword", "replan"}, retrieval : BOOLEAN,
         workflow : BOOLEAN, steps : Seq(Step)]

\* A plan as a language model proposes it.
Response == [retrieval : BOOLEAN, workflow : BOOLEAN, steps : Seq(Step)]

PlanStep(kind) ==
    [kind |-> kind, tool |-> NoTool, given |-> FALSE, readOnly |-> FALSE, approval |-> FALSE]

Elements(seq) == {seq[i] : i \in DOMAIN seq}
ToolSteps(steps) == {s \in Elements(steps) : s.kind = "tool"}

\* A plan that needs a workflow is exactly one promote step, and only such a
\* plan promotes; the tools it names are registered.
validateLLMPlan(resp) ==
    /\ resp.steps # <<>>
    /\ \A s \in ToolSteps(resp.steps) : s.tool \in Tools
    /\ IF resp.workflow THEN Len(resp.steps) = 1 /\ resp.steps[1].kind = "promote"
       ELSE \A s \in Elements(resp.steps) : s.kind # "promote"

\* The constraints of the tenant, if it has any.
WithinTenantPolicy(resp, policy) ==
    policy.configured =>
        /\ policy.allow \/ ToolSteps(resp.steps) = {}
        /\ Len(resp.steps) <= StepLimit(policy)
        /\ \A s \in ToolSteps(resp.steps) :
              /\ isTenantToolAllowed(s.tool, policy)
              /\ policy.approveWrites /\ s.tool \notin ReadTools => s.approval

\* The tenant's constraints and what the registry says of each tool.
validatePlanPolicy(resp, policy) ==
    /\ WithinTenantPolicy(resp, policy)
    /\ \A s \in ToolSteps(resp.steps) :
          /\ s.tool \in AsyncTools => resp.workflow
          /\ s.tool \in ApprovalTools \ ReadTools => s.approval
          /\ s.tool \notin ReadTools => ~s.readOnly

Truncated(steps, limit) == SubSeq(steps, 1, IF Len(steps) > limit THEN limit ELSE Len(steps))

\* The plan a valid response stands for.
toLLMPlanResponse(resp, source) ==
    [source |-> source, retrieval |-> resp.retrieval, workflow |-> resp.workflow,
     steps |-> Truncated(resp.steps, MaxSteps)]

\* The keyword planner.

Message == [report : BOOLEAN, ticket : BOOLEAN, search : BOOLEAN]

\* A message that asks for a report or an export, or any in task mode, is for
\* a workflow.
shouldPromoteWorkflow(msg, mode) == mode = "task" \/ msg.report

\* The search tool for a search; otherwise the first permitted ticket tool.
selectTool(msg, policy) ==
    LET ok == {i \in DOMAIN TicketTools : isTenantToolAllowed(TicketTools[i], policy)} IN
    IF \/ policy.configured /\ ~policy.allow
       \/ ~msg.ticket
       \/ ok = {}
    THEN NoTool
    ELSE IF msg.search /\ SearchTool \in {TicketTools[i] : i \in ok} THEN SearchTool
    ELSE TicketTools[CHOOSE i \in ok : \A j \in ok : i <= j]

\* A keyword plan: retrieval, perhaps one tool without arguments, the answer
\* and its review; or the one step of a promotion.
buildSteps(workflow, t, approval) ==
    IF workflow THEN <<PlanStep("promote")>>
    ELSE <<PlanStep("other")>>
         \o (IF t = NoTool THEN <<>>
             ELSE <<[kind |-> "tool", tool |-> t, given |-> FALSE,
                     readOnly |-> t \in ReadTools, approval |-> approval]>>)
         \o <<PlanStep("other"), PlanStep("other")>>

planWithKeywords(msg, mode, policy) ==
    LET t == selectTool(msg, policy)
        promote == shouldPromoteWorkflow(msg, mode)
        workflow == promote \/ t \in AsyncTools
        approval == t \in ApprovalTools \/ (t # NoTool /\ t \notin ReadTools /\ policy.approveWrites)
    IN  [source |-> "keyword",
         retrieval |-> ~promote /\ t \notin ReadTools,
         workflow |-> workflow,
         steps |-> Truncated(buildSteps(workflow, t, approval), StepLimit(policy))]
=============================================================================
