-------------------------- MODULE ChatTurn_proofs --------------------------
(***************************************************************************)
(* Proofs about ChatTurn and the operators of Planning it is built from.   *)
(***************************************************************************)
EXTENDS ChatTurn, FiniteSetTheorems, SequenceTheorems, TLAPS

USE RegistryAssumption

----------------------------------------------------------------------------
(* Facts about sequences and numbers.                                      *)

\* Among the indices of a sequence there is a first one.
LEMMA First ==
    ASSUME NEW n \in Nat, NEW S \in SUBSET (1..n), S # {}
    PROVE  \E i \in S : \A j \in S : i <= j
  <1> DEFINE Upto(i) == {j \in S : j <= i}
             T == {Upto(i) : i \in S}
             R == StrictSubsetOrdering(S)
  <1>0. \A i \in S : i \in Int
    OBVIOUS
  <1>1. IsFiniteSet(S)
    <2>1. IsFiniteSet(1..n)
      BY FS_Interval
    <2> QED BY <2>1, FS_Subset
  <1>2. T \subseteq SUBSET S /\ T # {}
    OBVIOUS
  <1>3. IsWellFoundedOn(R, SUBSET S)
    <2>1. FiniteSubsetsOf(S) = SUBSET S
      BY <1>1, FS_FiniteSubsetsOfFinite
    <2>2. IsWellFoundedOn(R, FiniteSubsetsOf(S))
      BY FS_StrictSubsetOrderingWellFounded
    <2> QED BY <2>1, <2>2
  <1>4. \E X \in T : \A Y \in T : ~(<<Y, X>> \in R)
    <2> HIDE DEF T, R
    <2> QED BY <1>2, <1>3, WFMin
  <1>5. PICK i \in S : \A Y \in T : ~(<<Y, Upto(i)>> \in R)
    BY <1>4
  <1>6. ASSUME NEW j \in S, j < i PROVE FALSE
    <2>0. i \in Int /\ j \in Int
      BY <1>0
    <2>1. \A k \in S : k \in Int /\ (k <= j => k <= i)
      BY <1>0, <1>6, <2>0
    <2>2. Upto(j) \subseteq Upto(i)
      BY <2>1
    <2>3. i \in Upto(i) /\ i \notin Upto(j)
      BY <1>6, <2>0
    <2>4. Upto(j) \in T /\ Upto(j) \subseteq S /\ Upto(i) \subseteq S
      OBVIOUS
    <2> HIDE DEF Upto, T
    <2> QED BY <1>5, <2>2, <2>3, <2>4 DEF StrictSubsetOrdering
  <1> QED BY <1>0, <1>6

LEMMA TruncatedSteps ==
    ASSUME NEW S, NEW steps \in Seq(S), NEW limit \in Nat
    PROVE  /\ Truncated(steps, limit) \in Seq(S)
           /\ \A i \in DOMAIN Truncated(steps, limit) :
                 i \in DOMAIN steps /\ Truncated(steps, limit)[i] = steps[i]
  <1> DEFINE n == IF Len(steps) > limit THEN limit ELSE Len(steps)
  <1>1. n \in 0..Len(steps) /\ Len(steps) \in Nat
    OBVIOUS
  <1> HIDE DEF n
  <1>2. /\ SubSeq(steps, 1, n) \in Seq(S)
        /\ DOMAIN SubSeq(steps, 1, n) = 1..n
        /\ \A i \in 1..n : SubSeq(steps, 1, n)[i] = steps[i]
    <2>1. \A i \in 1..n : steps[i] \in S
      BY <1>1
    <2> QED BY <1>1, <2>1, SubSeqProperties
  <1>3. Truncated(steps, limit) = SubSeq(steps, 1, n)
    BY DEF Truncated, n
  <1> QED BY <1>1, <1>2, <1>3

----------------------------------------------------------------------------
(* The invariant.                                                          *)

\* A policy under which no banned tool is planned.
Heeds(policy) ==
    \A t \in banned : policy.configured /\ (t \in policy.forbidden \/ ~policy.allow)

\* A banned tool is forbidden by the rows that can be parsed, by what the cache holds of them and
\* by the policy that a turn has loaded.
PolicyInv ==
    /\ banned \subseteq Forbidden(Parsed(rows))
    /\ cache.stored \/ cache.fresh => Heeds(cache.policy)
    /\ \A r \in Requests :
          turn[r].pc \in {"caching", "opening", "opened", "planning", "retrieving", "tools"} =>
              Heeds(turn[r].policy)

\* The tools of a plan are registered and not banned.
StepsAllowed(steps) == \A i \in DOMAIN steps : steps[i].kind = "tool" => steps[i].tool \in Tools \ banned

PlanInv ==
    \A r \in Requests : turn[r].pc \in {"retrieving", "tools"} => StepsAllowed(turn[r].plan.steps)

\* Tools are called while a plan is executed, and a task is promoted after that.
Untouched == {"new", "loading", "querying", "caching", "opening", "opened", "planning", "retrieving"}
Working == Untouched \cup {"tools", "answering", "promoting"}

ProgressInv ==
    \A r \in Requests :
        /\ turn[r].pc \in Untouched => turn[r].calls = <<>>
        /\ turn[r].pc \in Working => promoted[r] = NoTask
        /\ turn[r].mode = "eval" => turn[r].pc \notin {"tools", "promoting"}

\* A call that was held back is on its way to a task.
PromotionInv ==
    \A r \in Requests :
        At(r, "promoting") /\ HeldBack(r) # {} => turn[r].verdict = "promote_workflow"

\* What is stored of the messages of r: nothing, then the user's message, and
\* in the end the assistant's.
Unsaid == {"new", "loading", "querying", "caching", "opening", "opened"}
Asked == {"planning", "retrieving", "tools", "answering", "promoting", "replying"}

MessagesInv ==
    \A r \in Requests : \A m \in SessionMessage : m.req = r =>
        /\ turn[r].pc \in Unsaid => messages[m] = 0
        /\ turn[r].pc \in Asked \/ (At(r, "error") /\ faults = 0) =>
              messages[m] = IF m.session = turn[r].session /\ m.role = "user" THEN 1 ELSE 0
        /\ At(r, "done") => messages[m] = IF m.session = turn[r].session THEN 1 ELSE 0

\* A turn that failed without a fault had not promoted, and messages are stored
\* in sessions that exist.
FailureInv == \A r \in Requests : At(r, "error") /\ faults = 0 => promoted[r] = NoTask

SessionInv == \A r \in Requests : turn[r].pc \in Asked \cup {"opened"} => turn[r].session \in created

----------------------------------------------------------------------------
(* Policies.                                                               *)

LEMMA PolicyTypes == Unconfigured \in Policy /\ DenyAll \in Policy /\ Layer \subseteq Policy
  <1>1. Unconfigured \in Policy
    BY DEF Unconfigured, Policy
  <1>2. DenyAll \in Policy
    BY DEF Unconfigured, DenyAll, Policy
  <1>3. Layer \subseteq Policy
    BY <1>1 DEF Layer
  <1> QED BY <1>1, <1>2, <1>3

\* A layer adds its list of forbidden tools to those of its parents.
LEMMA LayeredPolicy ==
    ASSUME NEW parent \in Policy, NEW layer \in Layer
    PROVE  /\ Layered(parent, layer) \in Policy
           /\ Layered(parent, layer).forbidden = parent.forbidden \cup layer.forbidden
           /\ parent.configured \/ layer.forbidden # {} => Layered(parent, layer).configured
  <1>0. layer \in Policy
    BY PolicyTypes
  <1>1. CASE ~layer.configured
    <2>1. layer.forbidden = {}
      BY <1>1 DEF Layer, Unconfigured
    <2> QED BY <1>1, <2>1 DEF Layered
  <1>2. CASE layer.configured
    <2> DEFINE allow == IF layer.explicit THEN layer.allow ELSE parent.allow
               explicit == parent.explicit \/ layer.explicit
               allowed == IF layer.allowed # {} THEN layer.allowed ELSE parent.allowed
               max == IF layer.maxSteps > 0 THEN layer.maxSteps ELSE parent.maxSteps
               approve == parent.approveWrites \/ layer.approveWrites
               p == [configured |-> TRUE, allow |-> allow, explicit |-> explicit, allowed |-> allowed,
                     forbidden |-> parent.forbidden \cup layer.forbidden,
                     maxSteps |-> max, approveWrites |-> approve]
    <2>1. /\ allow \in BOOLEAN /\ explicit \in BOOLEAN /\ approve \in BOOLEAN
          /\ allowed \in SUBSET Tools /\ max \in Nat
          /\ parent.forbidden \cup layer.forbidden \in SUBSET Tools
      BY <1>0 DEF Policy
    <2>2. Layered(parent, layer) = p
      BY <1>2 DEF Layered
    <2> HIDE DEF allow, explicit, allowed, max, approve
    <2>3. p \in Policy /\ p.forbidden = parent.forbidden \cup layer.forbidden /\ p.configured
      BY <2>1 DEF Policy
    <2> QED BY <2>2, <2>3
  <1> QED BY <1>1, <1>2

\* Whatever cannot be parsed, layers are read.
LEMMA ParsedRows ==
    ASSUME NEW layers \in Rows
    PROVE  /\ Parsed(layers).org \in Layer /\ Parsed(layers).tenant \in Layer
           /\ Parsed(layers).user \in Layer
  <1>1. layers.org \in Layer /\ layers.tenant \in Layer /\ layers.user \in Layer
    BY ChatAssumption
  <1>2. Unconfigured \in Layer
    BY DEF Layer
  <1> QED BY <1>1, <1>2 DEF Parsed

\* What any layer forbids is forbidden in the end.
LEMMA MergedPolicy ==
    ASSUME NEW layers, layers.org \in Layer, layers.tenant \in Layer, layers.user \in Layer
    PROVE  LET merged == MergePolicies(layers.org, layers.tenant, layers.user)
           IN  /\ merged \in Policy
               /\ \A t \in Forbidden(layers) : merged.configured /\ t \in merged.forbidden
  <1> DEFINE p1 == Layered(Unconfigured, layers.org)
             p2 == Layered(p1, layers.tenant)
             p3 == Layered(p2, layers.user)
  <1>0. layers.org \in Layer /\ layers.tenant \in Layer /\ layers.user \in Layer
    OBVIOUS
  <1>1. /\ p1 \in Policy /\ p1.forbidden = Unconfigured.forbidden \cup layers.org.forbidden
        /\ layers.org.forbidden # {} => p1.configured
    BY <1>0, PolicyTypes, LayeredPolicy
  <1> HIDE DEF p1
  <1>2. /\ p2 \in Policy /\ p2.forbidden = p1.forbidden \cup layers.tenant.forbidden
        /\ p1.configured \/ layers.tenant.forbidden # {} => p2.configured
    BY <1>0, <1>1, LayeredPolicy
  <1> HIDE DEF p2
  <1>3. /\ p3 \in Policy /\ p3.forbidden = p2.forbidden \cup layers.user.forbidden
        /\ p2.configured \/ layers.user.forbidden # {} => p3.configured
    BY <1>0, <1>2, LayeredPolicy
  <1> HIDE DEF p3
  <1>4. MergePolicies(layers.org, layers.tenant, layers.user) = p3
    BY DEF MergePolicies, p1, p2, p3
  <1>5. \A t \in Forbidden(layers) : p3.configured /\ t \in p3.forbidden
    BY <1>1, <1>2, <1>3 DEF Forbidden
  <1> QED BY <1>3, <1>4, <1>5

----------------------------------------------------------------------------
(* Plans.                                                                  *)

\* A tool that a policy which heeds the bans allows is not banned.
LEMMA AllowedTool ==
    ASSUME NEW policy, Heeds(policy), NEW t, isTenantToolAllowed(t, policy),
           ~(policy.configured /\ ~policy.allow)
    PROVE  t \notin banned
  BY DEF Heeds, isTenantToolAllowed

\* The plan of a valid response uses registered tools that are not banned.
LEMMA ResponsePlan ==
    ASSUME NEW policy, Heeds(policy), NEW resp \in Response, Valid(resp, policy),
           NEW source \in {"llm", "replan"}
    PROVE  /\ toLLMPlanResponse(resp, source) \in Plan
           /\ StepsAllowed(toLLMPlanResponse(resp, source).steps)
  <1> DEFINE steps == Truncated(resp.steps, MaxSteps)
             plan == [source |-> source, retrieval |-> resp.retrieval, workflow |-> resp.workflow,
                      steps |-> steps]
  <1>0. resp.steps \in Seq(Step) /\ resp.retrieval \in BOOLEAN /\ resp.workflow \in BOOLEAN
    BY DEF Response
  <1>1. /\ steps \in Seq(Step)
        /\ \A i \in DOMAIN steps : i \in DOMAIN resp.steps /\ steps[i] = resp.steps[i]
    BY <1>0, TruncatedSteps
  <1> HIDE DEF steps
  <1>2. ASSUME NEW i \in DOMAIN resp.steps, resp.steps[i].kind = "tool"
        PROVE  resp.steps[i].tool \in Tools \ banned
    <2>1. resp.steps[i] \in ToolSteps(resp.steps)
      BY <1>2 DEF ToolSteps, Elements
    <2>2. resp.steps[i].tool \in Tools
      BY <2>1 DEF Valid, validateLLMPlan
    <2>3. policy.configured => policy.allow /\ isTenantToolAllowed(resp.steps[i].tool, policy)
      BY <2>1 DEF Valid, validatePlanPolicy, WithinTenantPolicy
    <2>4. isTenantToolAllowed(resp.steps[i].tool, policy)
      BY <2>3 DEF isTenantToolAllowed
    <2>5. resp.steps[i].tool \notin banned
      BY <2>3, <2>4, AllowedTool
    <2> QED BY <2>2, <2>5
  <1>3. toLLMPlanResponse(resp, source) = plan
    BY DEF toLLMPlanResponse, steps
  <1>4. plan \in Plan /\ plan.steps = steps
    BY <1>0, <1>1 DEF Plan
  <1>5. StepsAllowed(steps)
    BY <1>1, <1>2 DEF StepsAllowed
  <1> QED BY <1>3, <1>4, <1>5

\* The keyword planner picks no tool or one that the policy allows.
LEMMA SelectedTool ==
    ASSUME NEW policy, NEW msg
    PROVE  LET t == selectTool(msg, policy) IN
           \/ t = NoTool
           \/ /\ t \in Tools /\ isTenantToolAllowed(t, policy)
              /\ ~(policy.configured /\ ~policy.allow)
  <1> DEFINE ok == {i \in DOMAIN TicketTools : isTenantToolAllowed(TicketTools[i], policy)}
             first == CHOOSE i \in ok : \A j \in ok : i <= j
  <1>1. ASSUME ok # {} PROVE first \in ok
    <2>1. Len(TicketTools) \in Nat /\ ok \in SUBSET (1..Len(TicketTools))
      OBVIOUS
    <2>2. \E i \in ok : \A j \in ok : i <= j
      <3> HIDE DEF ok
      <3> QED BY <1>1, <2>1, First
    <2> QED BY <2>2
  <1>2. \A i \in ok : TicketTools[i] \in Tools /\ isTenantToolAllowed(TicketTools[i], policy)
    OBVIOUS
  <1>3. selectTool(msg, policy) =
          IF (policy.configured /\ ~policy.allow) \/ ~msg.ticket \/ ok = {} THEN NoTool
          ELSE IF msg.search /\ SearchTool \in {TicketTools[i] : i \in ok} THEN SearchTool
          ELSE TicketTools[first]
    BY DEF selectTool
  <1> HIDE DEF ok, first
  <1> QED BY <1>1, <1>2, <1>3

\* Steps whose tools are all among these.
Only(steps, T) == steps \in Seq(Step) /\ \A i \in DOMAIN steps : steps[i].kind = "tool" => steps[i].tool \in T

LEMMA OnlyConcat ==
    ASSUME NEW T, NEW a, NEW b, Only(a, T), Only(b, T) PROVE Only(a \o b, T)
  <1>1. a \in Seq(Step) /\ b \in Seq(Step)
    BY DEF Only
  <1>2. /\ a \o b \in Seq(Step) /\ Len(a \o b) = Len(a) + Len(b)
        /\ \A i \in 1..(Len(a) + Len(b)) : (a \o b)[i] = IF i <= Len(a) THEN a[i] ELSE b[i - Len(a)]
    BY <1>1, ConcatProperties
  <1>3. /\ Len(a) \in Nat /\ Len(b) \in Nat /\ DOMAIN a = 1..Len(a) /\ DOMAIN b = 1..Len(b)
        /\ DOMAIN (a \o b) = 1..(Len(a) + Len(b))
    BY <1>1, <1>2
  <1>4. ASSUME NEW i \in DOMAIN (a \o b), (a \o b)[i].kind = "tool" PROVE (a \o b)[i].tool \in T
    <2>1. CASE i <= Len(a)
      BY <1>2, <1>3, <1>4, <2>1 DEF Only
    <2>2. CASE ~(i <= Len(a))
      <3>1. i - Len(a) \in DOMAIN b
        BY <1>3, <2>2
      <3> QED BY <1>2, <1>3, <1>4, <2>2, <3>1 DEF Only
    <2> QED BY <2>1, <2>2
  <1> QED BY <1>2, <1>4 DEF Only

LEMMA KeywordSteps ==
    ASSUME NEW workflow, NEW t, t = NoTool \/ t \in Tools, NEW approval \in BOOLEAN
    PROVE  Only(buildSteps(workflow, t, approval), {t} \ {NoTool})
  <1> DEFINE use == [kind |-> "tool", tool |-> t, given |-> FALSE, readOnly |-> t \in ReadTools,
                     approval |-> approval]
             mid == IF t = NoTool THEN <<>> ELSE <<use>>
             o == PlanStep("other")
             T == {t} \ {NoTool}
  <1>1. /\ PlanStep("promote") \in Step /\ PlanStep("promote").kind = "promote"
        /\ o \in Step /\ o.kind = "other"
    BY DEF PlanStep, Step
  <1>2. ASSUME t \in Tools PROVE use \in Step /\ use.tool = t
    BY <1>2 DEF Step
  <1> HIDE DEF use, o
  <1>3. Only(<<PlanStep("promote")>>, T) /\ Only(<<o>>, T) /\ Only(<<o, o>>, T) /\ Only(mid, T)
    BY <1>1, <1>2 DEF Only
  <1>4. Only(<<o>> \o mid \o <<o, o>>, T)
    <2> HIDE DEF mid, T
    <2>1. Only(<<o>> \o mid, T)
      BY <1>3, OnlyConcat
    <2> QED BY <1>3, <2>1, OnlyConcat
  <1>5. buildSteps(workflow, t, approval) =
          IF workflow THEN <<PlanStep("promote")>> ELSE <<o>> \o mid \o <<o, o>>
    BY DEF buildSteps, use, o
  <1> QED BY <1>3, <1>4, <1>5

\* The keyword planner's plan keeps to the policy.
LEMMA KeywordPlan ==
    ASSUME NEW policy \in Policy, Heeds(policy), NEW msg \in Message,
           NEW mode \in {"chat", "task", "eval"}
    PROVE  /\ planWithKeywords(msg, mode, policy) \in Plan
           /\ StepsAllowed(planWithKeywords(msg, mode, policy).steps)
  <1> DEFINE t == selectTool(msg, policy)
             promote == shouldPromoteWorkflow(msg, mode)
             workflow == promote \/ t \in AsyncTools
             approval == t \in ApprovalTools \/ (t # NoTool /\ t \notin ReadTools /\ policy.approveWrites)
             all == buildSteps(workflow, t, approval)
             steps == Truncated(all, StepLimit(policy))
             retrieval == ~promote /\ t \notin ReadTools
  <1>1. promote \in BOOLEAN /\ workflow \in BOOLEAN /\ approval \in BOOLEAN /\ retrieval \in BOOLEAN
    <2>1. promote \in BOOLEAN
      BY DEF shouldPromoteWorkflow
    <2> QED BY <2>1
  <1>2. t = NoTool \/ (t \in Tools /\ t \notin banned)
    BY SelectedTool, AllowedTool
  <1> HIDE DEF t, promote, workflow, approval, retrieval
  <1>3. Only(all, {t} \ {NoTool})
    BY <1>1, <1>2, KeywordSteps
  <1>4. StepLimit(policy) \in Nat
    BY DEF StepLimit, Policy
  <1>5. /\ steps \in Seq(Step)
        /\ \A i \in DOMAIN steps : i \in DOMAIN all /\ steps[i] = all[i]
    <2> HIDE DEF all
    <2> QED BY <1>3, <1>4, TruncatedSteps DEF Only
  <1>6. planWithKeywords(msg, mode, policy) =
          [source |-> "keyword", retrieval |-> retrieval, workflow |-> workflow, steps |-> steps]
    BY DEF planWithKeywords, t, promote, workflow, approval, retrieval
  <1> HIDE DEF all, steps
  <1>7. StepsAllowed(steps)
    BY <1>2, <1>3, <1>5 DEF StepsAllowed, Only
  <1> QED BY <1>1, <1>5, <1>6, <1>7 DEF Plan

\* Every plan a turn may get, at first or revised, keeps to its policy.
LEMMA PlansAllowed ==
    ASSUME TypeOK, NEW r \in Requests, Heeds(turn[r].policy),
           NEW plan \in Plans(r) \cup RevisedPlans(r)
    PROVE  plan \in Plan /\ StepsAllowed(plan.steps)
  <1>0. /\ turn[r].policy \in Policy /\ turn[r].mode \in {"chat", "task", "eval"}
        /\ Input[r].plans \subseteq Response /\ Input[r].messages \subseteq Message
    BY ChatAssumption DEF TypeOK, Turn
  <1>1. ASSUME NEW resp \in Response, Valid(resp, turn[r].policy), NEW source \in {"llm", "replan"},
               plan = toLLMPlanResponse(resp, source)
        PROVE  plan \in Plan /\ StepsAllowed(plan.steps)
    BY <1>1, ResponsePlan
  <1>2. ASSUME NEW msg \in Input[r].messages, plan = planWithKeywords(msg, turn[r].mode, turn[r].policy)
        PROVE  plan \in Plan /\ StepsAllowed(plan.steps)
    BY <1>0, <1>2, KeywordPlan
  <1>3. \/ \E resp \in Input[r].plans : \E source \in {"llm", "replan"} :
              Valid(resp, turn[r].policy) /\ plan = toLLMPlanResponse(resp, source)
        \/ \E msg \in Input[r].messages : plan = planWithKeywords(msg, turn[r].mode, turn[r].policy)
    BY DEF Plans, RevisedPlans
  <1> QED BY <1>0, <1>1, <1>2, <1>3

----------------------------------------------------------------------------
(* What a step of a request does, by kind.                                 *)

Keeps(r, s) == s.session = turn[r].session /\ s.mode = turn[r].mode
Quiet == UNCHANGED <<messages, created, promoted>>
Faulty == faults' = faults + 1 /\ faults < MaxFaults

Accepts(r, s) == At(r, "new") /\ s.pc = "loading" /\ s.calls = <<>> /\ Quiet

Loads(r, s) ==
    /\ turn[r].pc \in {"loading", "querying", "caching"}
    /\ s.pc \in {"querying", "caching", "opening"} /\ (s.pc # "querying" => Heeds(s.policy))
    /\ Keeps(r, s) /\ s.calls = turn[r].calls /\ Quiet

Opens(r, s) ==
    /\ At(r, "opening") /\ s.pc = "opened"
    /\ Keeps(r, s) /\ s.calls = turn[r].calls /\ s.policy = turn[r].policy
    /\ created' = created \cup {turn[r].session} /\ UNCHANGED <<messages, promoted>>

Asks(r, s) ==
    /\ At(r, "opened") /\ s.pc = "planning"
    /\ Keeps(r, s) /\ s.calls = turn[r].calls /\ s.policy = turn[r].policy
    /\ AppendMessage(r, "user") /\ UNCHANGED <<created, promoted>>

Schedules(r, s) ==
    /\ turn[r].pc \in {"planning", "retrieving"} /\ s.pc \in {"retrieving", "tools", "answering"}
    /\ s.mode = "eval" => s.pc # "tools"
    /\ s.pc # "answering" => s.policy = turn[r].policy /\ StepsAllowed(s.plan.steps)
    /\ Keeps(r, s) /\ s.calls = turn[r].calls /\ Quiet

Calls(r, s) ==
    /\ At(r, "tools") /\ s.pc = "tools"
    /\ s.policy = turn[r].policy /\ StepsAllowed(s.plan.steps)
    /\ \E c \in Call : /\ s.calls = Append(turn[r].calls, c) /\ c.tool \notin banned
                       /\ c.tool \notin ReadTools => c.status = "approval_required"
    /\ Keeps(r, s) /\ Quiet

Finishes(r, s) ==
    /\ At(r, "tools") /\ s.pc = "answering"
    /\ Keeps(r, s) /\ s.calls = turn[r].calls /\ Quiet

Answers(r, s) ==
    /\ At(r, "answering") /\ s.pc \in {"promoting", "replying"}
    /\ s.mode = "eval" => s.pc = "replying"
    /\ s.mode # "eval" /\ HeldBack(r) # {} => s.pc = "promoting" /\ s.verdict = "promote_workflow"
    /\ Keeps(r, s) /\ s.calls = turn[r].calls /\ Quiet

Promotes(r, s) ==
    /\ At(r, "promoting") /\ s.pc = "replying"
    /\ promoted' = [promoted EXCEPT ![r] = NewTask(turn[r])]
    /\ Keeps(r, s) /\ s.calls = turn[r].calls /\ UNCHANGED <<messages, created>>

Replies(r, s) ==
    /\ At(r, "replying") /\ s.pc = "done"
    /\ Keeps(r, s) /\ s.calls = <<>>
    /\ AppendMessage(r, "assistant") /\ UNCHANGED <<created, promoted>>

\* The turn fails; with a fault, what it was about to write may be stored.
Fails(r, s) ==
    /\ s.pc = "error" /\ Keeps(r, s) /\ s.calls = <<>> /\ UNCHANGED created
    /\ \/ At(r, "tools") /\ UNCHANGED <<messages, promoted>>
       \/ /\ Faulty
          /\ \/ UNCHANGED <<messages, promoted>>
             \/ /\ turn[r].pc \in {"opened", "replying"} /\ UNCHANGED promoted
                /\ AppendMessage(r, "user") \/ AppendMessage(r, "assistant")
             \/ /\ At(r, "promoting") /\ UNCHANGED messages
                /\ promoted' = [promoted EXCEPT ![r] = NewTask(turn[r])]

Kinds(r, s) ==
    \/ Accepts(r, s) \/ Loads(r, s) \/ Opens(r, s) \/ Asks(r, s) \/ Schedules(r, s) \/ Calls(r, s)
    \/ Finishes(r, s) \/ Answers(r, s) \/ Promotes(r, s) \/ Replies(r, s) \/ Fails(r, s)

CacheEntry == [stored : BOOLEAN, fresh : BOOLEAN, policy : Policy]

\* What all of them have in common.
Moves(r, s) ==
    /\ s \in Turn /\ turn' = [turn EXCEPT ![r] = s]
    /\ UNCHANGED <<rows, banned, changes>>
    /\ cache' = cache \/ (cache' \in CacheEntry /\ Heeds(cache'.policy))
    /\ faults' = faults \/ Faulty

LEMMA TurnType == ASSUME TypeOK, NEW r \in Requests PROVE turn[r] \in Turn
  BY DEF TypeOK

LEMMA IdleType == NoPlan \in Plan /\ IdleTurn \in Turn /\ IdleTurn.calls = <<>>
  <1>1. <<>> \in Seq(Step) /\ <<>> \in Seq(Call)
    OBVIOUS
  <1>2. NoPlan \in Plan
    BY <1>1 DEF NoPlan, Plan
  <1>3. Unconfigured \in Policy /\ Shared \in Sessions
    BY PolicyTypes DEF Sessions
  <1> QED BY <1>1, <1>2, <1>3 DEF IdleTurn, Turn

\* A turn at a new place, as Accept and the end of a turn leave it.
Placed(t, pc, session, mode) == [t EXCEPT !.pc = pc, !.session = session, !.mode = mode]

LEMMA EndedTurn ==
    ASSUME TypeOK, NEW r \in Requests, NEW pc \in {"loading", "done", "error"}
    PROVE  /\ Ended(r, pc) \in Turn /\ Ended(r, pc).pc = pc
           /\ Keeps(r, Ended(r, pc)) /\ Ended(r, pc).calls = <<>>
  <1>1. turn[r].session \in Sessions /\ turn[r].mode \in {"chat", "task", "eval"}
    BY TurnType DEF Turn
  <1>2. PICK x \in Sessions : x = turn[r].session
    BY <1>1
  <1>3. PICK m \in {"chat", "task", "eval"} : m = turn[r].mode
    BY <1>1
  <1>4. PICK idle \in Turn : idle = IdleTurn /\ idle.calls = <<>>
    BY IdleType
  <1>5. Ended(r, pc) = Placed(idle, pc, x, m)
    BY <1>2, <1>3, <1>4 DEF Ended, Placed
  <1>6. /\ Placed(idle, pc, x, m) \in Turn
        /\ Placed(idle, pc, x, m).pc = pc
        /\ Placed(idle, pc, x, m).session = x
        /\ Placed(idle, pc, x, m).mode = m
        /\ Placed(idle, pc, x, m).calls = idle.calls
    BY DEF Turn, Placed
  <1> QED BY <1>2, <1>3, <1>4, <1>5, <1>6 DEF Keeps

LEMMA RewoundTurn ==
    ASSUME NEW t \in Turn
    PROVE  LET s == [t EXCEPT !.at = 1]
           IN  s \in Turn /\ s.pc = t.pc /\ s.session = t.session /\ s.mode = t.mode /\ s.calls = t.calls
  BY DEF Turn

LEMMA AnsweringTurn ==
    ASSUME NEW t \in Turn
    PROVE  /\ Answering(t) \in Turn /\ Answering(t).pc = "answering" /\ Answering(t).session = t.session
           /\ Answering(t).mode = t.mode /\ Answering(t).calls = t.calls
  <1>1. [t.plan EXCEPT !.steps = <<>>] \in Plan
    <2>1. t.plan \in Plan /\ <<>> \in Seq(Step)
      BY DEF Turn
    <2> QED BY <2>1 DEF Plan
  <1>2. Unconfigured \in Policy
    BY PolicyTypes
  <1>3. ASSUME NEW p \in Plan, NEW q \in Policy
        PROVE  LET s == [t EXCEPT !.pc = "answering", !.policy = q, !.plan = p]
               IN  /\ s \in Turn /\ s.pc = "answering" /\ s.session = t.session
                   /\ s.mode = t.mode /\ s.calls = t.calls
    BY DEF Turn
  <1>4. PICK p \in Plan, q \in Policy : p = [t.plan EXCEPT !.steps = <<>>] /\ q = Unconfigured
    BY <1>1, <1>2
  <1>5. PICK s \in Turn : /\ s = [t EXCEPT !.pc = "answering", !.policy = q, !.plan = p]
                          /\ s.pc = "answering" /\ s.session = t.session
                          /\ s.mode = t.mode /\ s.calls = t.calls
    BY <1>3
  <1>6. LET u == [s EXCEPT !.at = 1]
        IN  /\ u \in Turn /\ u.pc = s.pc /\ u.session = s.session /\ u.mode = s.mode
            /\ u.calls = s.calls
    BY RewoundTurn
  <1>7. Answering(t) = [s EXCEPT !.at = 1]
    BY <1>4, <1>5 DEF Answering, Turn
  <1> QED BY <1>5, <1>6, <1>7

LEMMA ReplyingTurn ==
    ASSUME NEW t \in Turn
    PROVE  /\ Replying(t) \in Turn /\ Replying(t).pc = "replying" /\ Replying(t).session = t.session
           /\ Replying(t).mode = t.mode /\ Replying(t).calls = t.calls
  BY IdleType DEF Replying, Turn

LEMMA RetrievedTurn ==
    ASSUME NEW t \in Turn
    PROVE  LET s == AfterRetrieval(t) IN
           /\ s \in Turn /\ s.pc \in {"tools", "answering"} /\ s.session = t.session
           /\ s.mode = t.mode /\ s.calls = t.calls
           /\ t.mode = "eval" => s.pc = "answering"
           /\ s.pc = "tools" => s.policy = t.policy /\ s.plan = t.plan
  <1>1. CASE t.mode = "eval"
    BY <1>1, AnsweringTurn DEF AfterRetrieval
  <1>2. CASE t.mode # "eval"
    BY <1>2 DEF AfterRetrieval, Turn
  <1> QED BY <1>1, <1>2

\* Steps that leave the policies alone.
LEMMA PlainMoves ==
    ASSUME NEW r \in Requests, NEW s \in Turn, Go(r, s), UNCHANGED policies, UNCHANGED faults \/ Fault
    PROVE  Moves(r, s)
  BY DEF Moves, Go, policies, Fault, Faulty

LEMMA AcceptKind ==
    ASSUME TypeOK, NEW r \in Requests, Accept(r)
    PROVE  \E s : Moves(r, s) /\ Accepts(r, s)
  <1>1. PICK mode \in {"chat", "task", "eval"}, x \in Sessions :
          Go(r, [IdleTurn EXCEPT !.pc = "loading", !.session = x, !.mode = mode])
    BY ChatAssumption DEF Accept, Sessions
  <1>2. PICK idle \in Turn : idle = IdleTurn /\ idle.calls = <<>>
    BY IdleType
  <1>3. PICK s : s = Placed(idle, "loading", x, mode)
    OBVIOUS
  <1>4. s \in Turn /\ s.pc = "loading" /\ s.calls = idle.calls
    BY <1>3 DEF Turn, Placed
  <1>5. Go(r, s)
    BY <1>1, <1>2, <1>3 DEF Placed
  <1>6. Moves(r, s)
    BY <1>4, <1>5, PlainMoves DEF Accept
  <1>7. Accepts(r, s)
    BY <1>2, <1>4 DEF Accepts, Accept, Quiet
  <1> QED BY <1>6, <1>7

LEMMA LoadKinds ==
    ASSUME TypeOK, PolicyInv, NEW r \in Requests,
           LookUpPolicy(r) \/ QueryPolicies(r) \/ QueryFails(r) \/ CachePolicy(r)
    PROVE  \E s : Moves(r, s) /\ Loads(r, s)
  <1> DEFINE L(pc, policy) == [turn[r] EXCEPT !.pc = pc, !.policy = policy]
  <1>0. /\ cache \in CacheEntry /\ cache.policy \in Policy /\ turn[r].policy \in Policy
        /\ Unconfigured \in Policy /\ DenyAll \in Policy
    BY TurnType, PolicyTypes DEF TypeOK, CacheEntry, Turn
  <1>1. ASSUME NEW pc \in {"querying", "caching", "opening"}, NEW policy \in Policy,
               pc # "querying" => Heeds(policy),
               turn[r].pc \in {"loading", "querying", "caching"}, Quiet, Go(r, L(pc, policy)),
               UNCHANGED <<rows, banned, changes>>,
               cache' = cache \/ (cache' \in CacheEntry /\ Heeds(cache'.policy)),
               UNCHANGED faults \/ Fault
        PROVE  \E s : Moves(r, s) /\ Loads(r, s)
    <2>1. /\ L(pc, policy) \in Turn /\ L(pc, policy).pc = pc /\ L(pc, policy).policy = policy
          /\ Keeps(r, L(pc, policy)) /\ L(pc, policy).calls = turn[r].calls
      <3>1. turn[r] \in Turn
        BY TurnType
      <3> QED BY <3>1 DEF Turn, Keeps
    <2> HIDE DEF L
    <2>2. Moves(r, L(pc, policy))
      BY <1>1, <2>1 DEF Moves, Go, Fault, Faulty
    <2>3. Loads(r, L(pc, policy))
      BY <1>1, <2>1 DEF Loads
    <2> QED BY <2>2, <2>3
  <1>2. Heeds(DenyAll)
    BY DEF Heeds, DenyAll, Unconfigured
  <1>3. CASE LookUpPolicy(r) /\ cache.fresh
    <2>1. Heeds(cache.policy) /\ Go(r, L("opening", cache.policy))
      BY <1>3 DEF PolicyInv, LookUpPolicy, Loaded
    <2> QED BY <1>0, <1>1, <1>3, <2>1 DEF LookUpPolicy, At, Quiet, policies
  <1>4. CASE LookUpPolicy(r) /\ ~cache.fresh
    <2>1. Go(r, L("querying", Unconfigured))
      BY <1>4 DEF LookUpPolicy, Loaded
    <2> QED BY <1>0, <1>1, <1>4, <2>1 DEF LookUpPolicy, At, Quiet, policies
  <1>5. CASE QueryPolicies(r)
    <2> DEFINE layers == Parsed(rows)
               merged == MergePolicies(layers.org, layers.tenant, layers.user)
    <2>0. layers.org \in Layer /\ layers.tenant \in Layer /\ layers.user \in Layer
      BY ParsedRows DEF TypeOK
    <2>1. merged \in Policy /\ \A t \in Forbidden(layers) : merged.configured /\ t \in merged.forbidden
      BY <2>0, MergedPolicy
    <2>2. Go(r, L("caching", merged))
      BY <1>5 DEF QueryPolicies, Loaded
    <2> HIDE DEF merged
    <2>3. Heeds(merged)
      BY <2>1 DEF Heeds, PolicyInv
    <2> QED BY <1>1, <1>5, <2>1, <2>2, <2>3 DEF QueryPolicies, At, Quiet, policies
  <1>6. CASE QueryFails(r)
    <2>1. FallbackPolicy \in Policy /\ Heeds(FallbackPolicy)
      BY <1>0, <1>2 DEF FallbackPolicy, PolicyInv
    <2>2. Go(r, L("opening", FallbackPolicy))
      BY <1>6 DEF QueryFails, Loaded
    <2> QED BY <1>1, <1>6, <2>1, <2>2 DEF QueryFails, At, Quiet, policies
  <1>7. CASE CachePolicy(r)
    <2>1. Heeds(turn[r].policy)
      BY <1>7 DEF PolicyInv, CachePolicy, At
    <2>2. Go(r, L("opening", turn[r].policy))
      BY <1>7 DEF CachePolicy, Loaded
    <2>3. cache' \in CacheEntry /\ cache'.policy = turn[r].policy
      BY <1>0, <1>7 DEF CachePolicy, CacheEntry
    <2>4. Heeds(cache'.policy)
      BY <2>1, <2>3
    <2> QED BY <1>0, <1>1, <1>7, <2>1, <2>2, <2>3, <2>4 DEF CachePolicy, At, Quiet
  <1> QED BY <1>3, <1>4, <1>5, <1>6, <1>7

LEMMA OpenKinds ==
    ASSUME TypeOK, NEW r \in Requests, OpenSession(r) \/ StoreUserMessage(r)
    PROVE  \E s : Moves(r, s) /\ (Opens(r, s) \/ Asks(r, s))
  <1>1. ASSUME NEW pc \in {"opened", "planning"}
        PROVE  LET s == [turn[r] EXCEPT !.pc = pc]
               IN  /\ s \in Turn /\ s.pc = pc /\ s.policy = turn[r].policy /\ Keeps(r, s)
                   /\ s.calls = turn[r].calls
    BY TurnType DEF Turn, Keeps
  <1>2. CASE OpenSession(r)
    <2>1. PICK s : s = [turn[r] EXCEPT !.pc = "opened"]
      OBVIOUS
    <2>2. Moves(r, s)
      BY <1>1, <1>2, <2>1, PlainMoves DEF OpenSession
    <2>3. Opens(r, s)
      BY <1>1, <1>2, <2>1 DEF OpenSession, Opens
    <2> QED BY <2>2, <2>3
  <1>3. CASE StoreUserMessage(r)
    <2>1. PICK s : s = [turn[r] EXCEPT !.pc = "planning"]
      OBVIOUS
    <2>2. Moves(r, s)
      BY <1>1, <1>3, <2>1, PlainMoves DEF StoreUserMessage
    <2>3. Asks(r, s)
      BY <1>1, <1>3, <2>1 DEF StoreUserMessage, Asks
    <2> QED BY <2>2, <2>3
  <1> QED BY <1>2, <1>3

LEMMA ScheduleKinds ==
    ASSUME TypeOK, PolicyInv, PlanInv, NEW r \in Requests, PlanTurn(r) \/ Retrieve(r)
    PROVE  \E s : Moves(r, s) /\ Schedules(r, s)
  <1>0. turn[r] \in Turn
    BY TurnType
  <1>1. ASSUME NEW t \in Turn, t.session = turn[r].session, t.mode = turn[r].mode,
               t.calls = turn[r].calls, t.policy = turn[r].policy, StepsAllowed(t.plan.steps),
               turn[r].pc \in {"planning", "retrieving"}, Go(r, AfterRetrieval(t)),
               UNCHANGED <<messages, created, promoted, policies, faults>>
        PROVE  \E s : Moves(r, s) /\ Schedules(r, s)
    <2>1. PICK s : s = AfterRetrieval(t)
      OBVIOUS
    <2>2. /\ s \in Turn /\ s.pc \in {"tools", "answering"} /\ s.session = t.session
          /\ s.mode = t.mode /\ s.calls = t.calls
          /\ t.mode = "eval" => s.pc = "answering"
          /\ s.pc = "tools" => s.policy = t.policy /\ s.plan = t.plan
      BY <2>1, RetrievedTurn
    <2>3. Moves(r, s)
      BY <1>1, <2>1, <2>2, PlainMoves
    <2>4. Schedules(r, s)
      BY <1>1, <2>2 DEF Schedules, Keeps, Quiet
    <2> QED BY <2>3, <2>4
  <1>2. CASE PlanTurn(r)
    <2>1. PICK plan \in Plans(r) :
            Go(r, IF plan.retrieval THEN [[turn[r] EXCEPT !.plan = plan] EXCEPT !.pc = "retrieving"]
                  ELSE AfterRetrieval([turn[r] EXCEPT !.plan = plan]))
      BY <1>2 DEF PlanTurn
    <2>2. Heeds(turn[r].policy) /\ At(r, "planning")
      BY <1>2 DEF PolicyInv, PlanTurn, At
    <2>3. plan \in Plan /\ StepsAllowed(plan.steps)
      BY <2>2, PlansAllowed
    <2>4. PICK t : t = [turn[r] EXCEPT !.plan = plan]
      OBVIOUS
    <2>5. /\ t \in Turn /\ t.session = turn[r].session /\ t.mode = turn[r].mode
          /\ t.calls = turn[r].calls /\ t.policy = turn[r].policy /\ t.plan = plan
      BY <1>0, <2>3, <2>4 DEF Turn
    <2>6. UNCHANGED <<messages, created, promoted, policies, faults>>
      BY <1>2 DEF PlanTurn
    <2>7. CASE plan.retrieval
      <3>1. PICK s : s = [t EXCEPT !.pc = "retrieving"]
        OBVIOUS
      <3>2. /\ s \in Turn /\ s.pc = "retrieving" /\ s.session = t.session /\ s.mode = t.mode
            /\ s.calls = t.calls /\ s.policy = t.policy /\ s.plan = t.plan
        BY <2>5, <3>1 DEF Turn
      <3>3. Moves(r, s)
        BY <2>1, <2>4, <2>6, <2>7, <3>1, <3>2, PlainMoves
      <3>4. Schedules(r, s)
        BY <2>2, <2>3, <2>5, <2>6, <3>2 DEF Schedules, Keeps, Quiet, At
      <3> QED BY <3>3, <3>4
    <2>8. CASE ~plan.retrieval
      BY <1>1, <2>1, <2>2, <2>3, <2>4, <2>5, <2>6, <2>8 DEF At
    <2> QED BY <2>7, <2>8
  <1>3. CASE Retrieve(r)
    <2>1. PICK evidence \in BOOLEAN : Go(r, AfterRetrieval([turn[r] EXCEPT !.evidence = evidence]))
      BY <1>3 DEF Retrieve
    <2>2. At(r, "retrieving") /\ StepsAllowed(turn[r].plan.steps)
      BY <1>3 DEF PlanInv, Retrieve, At
    <2>3. PICK t : t = [turn[r] EXCEPT !.evidence = evidence]
      OBVIOUS
    <2>4. /\ t \in Turn /\ t.session = turn[r].session /\ t.mode = turn[r].mode
          /\ t.calls = turn[r].calls /\ t.policy = turn[r].policy /\ t.plan = turn[r].plan
      BY <1>0, <2>3 DEF Turn
    <2>5. UNCHANGED <<messages, created, promoted, policies, faults>>
      BY <1>3 DEF Retrieve
    <2> QED BY <1>1, <2>1, <2>2, <2>3, <2>4, <2>5 DEF At
  <1> QED BY <1>2, <1>3

\* The next step is a step of the plan that names a tool.
LEMMA NextToolStep ==
    ASSUME TypeOK, PlanInv, NEW r \in Requests, At(r, "tools"), Todo(r)
    PROVE  Position(r) \in Nat \ {0} /\ NextStep(r) \in Step /\ NextStep(r).tool \in Tools \ banned
  <1> DEFINE steps == turn[r].plan.steps
             n == Len(steps)
  <1>1. steps \in Seq(Step) /\ turn[r].at \in Nat \ {0}
    <2>1. turn[r] \in Turn
      BY TurnType
    <2>2. turn[r].plan \in Plan
      BY <2>1 DEF Turn
    <2> QED BY <2>1, <2>2 DEF Turn, Plan
  <1>2. n \in Nat /\ DOMAIN steps = 1..n
    BY <1>1
  <1>3. ToolsLeft(r) \in SUBSET (1..n) /\ ToolsLeft(r) # {}
    BY <1>1, <1>2 DEF ToolsLeft, Todo
  <1>4. \E i \in ToolsLeft(r) : \A j \in ToolsLeft(r) : i <= j
    <2> HIDE DEF n
    <2> QED BY <1>2, <1>3, First
  <1>5. Position(r) \in ToolsLeft(r)
    BY <1>4 DEF Position
  <1>6. Position(r) \in DOMAIN steps /\ steps[Position(r)].kind = "tool"
    BY <1>2, <1>3, <1>5 DEF ToolsLeft
  <1>7. StepsAllowed(steps)
    BY DEF PlanInv, At
  <1>8. steps[Position(r)] \in Step
    BY <1>1, <1>6
  <1>9. steps[Position(r)].tool \in Tools \ banned
    BY <1>6, <1>7 DEF StepsAllowed
  <1> QED BY <1>2, <1>6, <1>8, <1>9 DEF NextStep

\* The record of a call.
LEMMA CalledTool ==
    ASSUME TypeOK, PlanInv, NEW r \in Requests, At(r, "tools"), Todo(r),
           NEW status \in {"succeeded", "failed", "approval_required"}
    PROVE  /\ Called(r, status) \in Seq(Call)
           /\ \E c \in Call : /\ Called(r, status) = Append(turn[r].calls, c)
                              /\ c.tool = NextStep(r).tool /\ c.status = status
  <1>1. turn[r].calls \in Seq(Call)
    BY TurnType DEF Turn
  <1>2. NextStep(r).tool \in Tools
    BY NextToolStep
  <1>3. PICK c : c = [call |-> Len(turn[r].calls) + 1, tool |-> NextStep(r).tool, status |-> status]
    OBVIOUS
  <1>4. c \in Call /\ c.tool = NextStep(r).tool /\ c.status = status
    BY <1>1, <1>2, <1>3 DEF Call
  <1>5. Called(r, status) = Append(turn[r].calls, c)
    BY <1>3 DEF Called
  <1>6. Append(turn[r].calls, c) \in Seq(Call)
    BY <1>1, <1>4
  <1> QED BY <1>4, <1>5, <1>6

LEMMA CallKinds ==
    ASSUME TypeOK, PolicyInv, PlanInv, NEW r \in Requests, RunTool(r) \/ Replan(r)
    PROVE  \E s : Moves(r, s) /\ Calls(r, s)
  <1>0. turn[r] \in Turn /\ At(r, "tools") /\ Todo(r)
    BY TurnType DEF RunTool, Replan, ToolErrs
  <1>1. /\ Position(r) \in Nat \ {0} /\ NextStep(r).tool \in Tools \ banned
        /\ StepsAllowed(turn[r].plan.steps) /\ Heeds(turn[r].policy)
    <2>1. Position(r) \in Nat \ {0} /\ NextStep(r).tool \in Tools \ banned
      BY <1>0, NextToolStep
    <2> QED BY <1>0, <2>1 DEF PlanInv, PolicyInv, At
  <1>2. ~requiresApproval(NextStep(r)) => NextStep(r).tool \in ReadTools
    BY DEF requiresApproval
  <1>3. CASE RunTool(r)
    <2> DEFINE st == IF requiresApproval(NextStep(r)) THEN "approval_required" ELSE "succeeded"
    <2>1. st \in {"succeeded", "failed", "approval_required"}
      OBVIOUS
    <2>2. PICK status \in {"succeeded", "failed", "approval_required"} : status = st
      BY <2>1
    <2>3. PICK calls \in Seq(Call) : calls = Called(r, status)
      BY <1>0, CalledTool
    <2>4. PICK c \in Call : /\ calls = Append(turn[r].calls, c)
                            /\ c.tool = NextStep(r).tool /\ c.status = status
      BY <1>0, <2>3, CalledTool
    <2>5. PICK at \in Nat \ {0} : at = Position(r) + 1
      BY <1>1
    <2>6. PICK s : s = [turn[r] EXCEPT !.at = at, !.calls = calls]
      OBVIOUS
    <2>7. /\ s \in Turn /\ s.pc = turn[r].pc /\ s.policy = turn[r].policy /\ s.plan = turn[r].plan
          /\ s.calls = calls /\ s.session = turn[r].session /\ s.mode = turn[r].mode
      BY <1>0, <2>6 DEF Turn
    <2>8. Go(r, s)
      BY <1>3, <2>2, <2>3, <2>5, <2>6 DEF RunTool
    <2>9. Moves(r, s)
      BY <1>3, <2>7, <2>8, PlainMoves DEF RunTool
    <2>10. c.tool \notin banned /\ (c.tool \notin ReadTools => c.status = "approval_required")
      BY <1>1, <1>2, <2>2, <2>4
    <2>11. Calls(r, s)
      <3> HIDE DEF st
      <3> QED BY <1>0, <1>1, <1>3, <2>4, <2>7, <2>10 DEF Calls, Keeps, Quiet, RunTool, At
    <2> QED BY <2>9, <2>11
  <1>4. CASE Replan(r)
    <2>1. PICK calls \in Seq(Call) : calls = Called(r, "failed")
      BY <1>0, CalledTool
    <2>2. PICK c \in Call : /\ calls = Append(turn[r].calls, c)
                            /\ c.tool = NextStep(r).tool /\ c.status = "failed"
      BY <1>0, <2>1, CalledTool
    <2>3. PICK plan \in RevisedPlans(r) :
            Go(r, [turn[r] EXCEPT !.plan = plan, !.at = 1, !.replans = @ + 1, !.calls = calls])
      BY <1>4, <2>1 DEF Replan
    <2>4. plan \in Plan /\ StepsAllowed(plan.steps)
      BY <1>1, PlansAllowed
    <2>5. PICK n \in Nat : n = turn[r].replans + 1
      BY <1>0 DEF Turn
    <2>6. PICK one \in Nat \ {0} : one = 1
      OBVIOUS
    <2>7. PICK p \in Plan : p = plan
      BY <2>4
    <2>8. PICK t : t = [turn[r] EXCEPT !.plan = p, !.at = one]
      OBVIOUS
    <2>9. /\ t \in Turn /\ t.pc = turn[r].pc /\ t.policy = turn[r].policy /\ t.plan = p
          /\ t.session = turn[r].session /\ t.mode = turn[r].mode
      BY <1>0, <2>8 DEF Turn
    <2>10. PICK s : s = [t EXCEPT !.replans = n, !.calls = calls]
      OBVIOUS
    <2>11. /\ s \in Turn /\ s.pc = t.pc /\ s.policy = t.policy /\ s.plan = t.plan
          /\ s.calls = calls /\ s.session = t.session /\ s.mode = t.mode
      BY <2>9, <2>10 DEF Turn
    <2>12. Go(r, s)
      BY <1>0, <2>3, <2>5, <2>6, <2>7, <2>8, <2>10 DEF Turn
    <2>13. Moves(r, s)
      BY <1>4, <2>11, <2>12, PlainMoves DEF Replan
    <2>14. c.tool \notin banned /\ c.tool \in ReadTools
      BY <1>1, <1>2, <1>4, <2>2 DEF Replan, ToolErrs
    <2>15. Calls(r, s)
      BY <1>0, <1>4, <2>2, <2>4, <2>7, <2>9, <2>11, <2>14 DEF Calls, Keeps, Quiet, Replan, At
    <2> QED BY <2>13, <2>15
  <1> QED BY <1>3, <1>4

LEMMA FinishKind ==
    ASSUME TypeOK, NEW r \in Requests, ToolsDone(r)
    PROVE  \E s : Moves(r, s) /\ Finishes(r, s)
  <1>1. PICK evidence \in BOOLEAN : Go(r, Answering([turn[r] EXCEPT !.evidence = evidence]))
    BY DEF ToolsDone
  <1>2. turn[r] \in Turn
    BY TurnType
  <1>3. PICK t : t = [turn[r] EXCEPT !.evidence = evidence]
    OBVIOUS
  <1>4. t \in Turn /\ t.session = turn[r].session /\ t.mode = turn[r].mode /\ t.calls = turn[r].calls
    BY <1>2, <1>3 DEF Turn
  <1>5. PICK s : s = Answering(t)
    OBVIOUS
  <1>6. s \in Turn /\ s.pc = "answering" /\ s.session = t.session /\ s.mode = t.mode /\ s.calls = t.calls
    BY <1>4, <1>5, AnsweringTurn
  <1>7. Moves(r, s)
    BY <1>1, <1>3, <1>5, <1>6, PlainMoves DEF ToolsDone
  <1>8. Finishes(r, s)
    BY <1>4, <1>6 DEF Finishes, ToolsDone, Keeps, Quiet
  <1> QED BY <1>7, <1>8

LEMMA AnswerKind ==
    ASSUME TypeOK, NEW r \in Requests, Answer(r)
    PROVE  \E s : Moves(r, s) /\ Answers(r, s)
  <1>1. turn[r] \in Turn
    BY TurnType
  <1>2. PICK verdict \in Review(turn[r]) :
          Go(r, IF NeedsTask([turn[r] EXCEPT !.verdict = verdict])
                THEN [[turn[r] EXCEPT !.verdict = verdict] EXCEPT !.pc = "promoting"]
                ELSE Replying([turn[r] EXCEPT !.verdict = verdict]))
    BY DEF Answer
  <1>3. verdict \in {"approve", "revise", "promote_workflow", "reject"}
    BY DEF Review, reviewWithRules
  <1>4. HeldBack(r) # {} => verdict = "promote_workflow"
    BY DEF Review, Statuses, HeldBack
  <1>5. PICK t : t = [turn[r] EXCEPT !.verdict = verdict]
    OBVIOUS
  <1>6. /\ t \in Turn /\ t.session = turn[r].session /\ t.mode = turn[r].mode
        /\ t.calls = turn[r].calls /\ t.verdict = verdict
    BY <1>1, <1>3, <1>5 DEF Turn
  <1>7. At(r, "answering") /\ UNCHANGED <<messages, created, promoted, policies, faults>>
    BY DEF Answer
  <1>8. CASE NeedsTask(t)
    <2>1. PICK s : s = [t EXCEPT !.pc = "promoting"]
      OBVIOUS
    <2>2. /\ s \in Turn /\ s.pc = "promoting" /\ s.session = t.session /\ s.mode = t.mode
          /\ s.calls = t.calls /\ s.verdict = t.verdict
      BY <1>6, <2>1 DEF Turn
    <2>3. Moves(r, s)
      BY <1>2, <1>5, <1>7, <1>8, <2>1, <2>2, PlainMoves
    <2>4. Answers(r, s)
      BY <1>4, <1>6, <1>7, <1>8, <2>2 DEF Answers, Keeps, Quiet, NeedsTask
    <2> QED BY <2>3, <2>4
  <1>9. CASE ~NeedsTask(t)
    <2>1. PICK s : s = Replying(t)
      OBVIOUS
    <2>2. s \in Turn /\ s.pc = "replying" /\ s.session = t.session /\ s.mode = t.mode /\ s.calls = t.calls
      BY <1>6, <2>1, ReplyingTurn
    <2>3. Moves(r, s)
      BY <1>2, <1>5, <1>7, <1>9, <2>1, <2>2, PlainMoves
    <2>4. Answers(r, s)
      BY <1>4, <1>6, <1>7, <1>9, <2>2 DEF Answers, Keeps, Quiet, NeedsTask
    <2> QED BY <2>3, <2>4
  <1> QED BY <1>8, <1>9

LEMMA PromoteKind ==
    ASSUME TypeOK, NEW r \in Requests, Promote(r)
    PROVE  \E s : Moves(r, s) /\ Promotes(r, s)
  <1>1. PICK s : s = Replying(turn[r])
    OBVIOUS
  <1>2. /\ s \in Turn /\ s.pc = "replying" /\ s.session = turn[r].session /\ s.mode = turn[r].mode
        /\ s.calls = turn[r].calls
    BY <1>1, TurnType, ReplyingTurn
  <1>3. Moves(r, s)
    BY <1>1, <1>2, PlainMoves DEF Promote
  <1>4. Promotes(r, s)
    BY <1>2 DEF Promote, Promotes, Keeps
  <1> QED BY <1>3, <1>4

LEMMA ReplyKind ==
    ASSUME TypeOK, NEW r \in Requests, Reply(r)
    PROVE  \E s : Moves(r, s) /\ Replies(r, s)
  <1>1. PICK s : s = Ended(r, "done")
    OBVIOUS
  <1>2. s \in Turn /\ s.pc = "done" /\ Keeps(r, s) /\ s.calls = <<>>
    BY <1>1, EndedTurn
  <1>3. Moves(r, s)
    BY <1>1, <1>2, PlainMoves DEF Reply
  <1>4. Replies(r, s)
    BY <1>2 DEF Reply, Replies
  <1> QED BY <1>3, <1>4

LEMMA FailKinds ==
    ASSUME TypeOK, NEW r \in Requests, ToolFailsTurn(r) \/ TurnFails(r) \/ WriteLost(r)
    PROVE  \E s : Moves(r, s) /\ Fails(r, s)
  <1>1. PICK s : s = Ended(r, "error")
    OBVIOUS
  <1>2. s \in Turn /\ s.pc = "error" /\ Keeps(r, s) /\ s.calls = <<>>
    BY <1>1, EndedTurn
  <1>3. Moves(r, s)
    BY <1>1, <1>2, PlainMoves DEF ToolFailsTurn, TurnFails, WriteLost
  <1>4. CASE ToolFailsTurn(r)
    BY <1>2, <1>3, <1>4 DEF Fails, ToolFailsTurn, ToolErrs
  <1>5. CASE TurnFails(r)
    BY <1>2, <1>3, <1>5 DEF Fails, TurnFails, Fault, Faulty
  <1>6. CASE WriteLost(r)
    BY <1>2, <1>3, <1>6 DEF Fails, WriteLost, Fault, Faulty, At
  <1> QED BY <1>4, <1>5, <1>6

\* Every step of a request is of one of the kinds.
LEMMA RequestKinds ==
    ASSUME TypeOK, PolicyInv, PlanInv, NEW r \in Requests,
           Accept(r) \/ HandleStep(r) \/ QueryFails(r) \/ TurnFails(r) \/ WriteLost(r)
    PROVE  \E s : Moves(r, s) /\ Kinds(r, s)
  <1>1. CASE Accept(r)
    BY <1>1, AcceptKind DEF Kinds
  <1>2. CASE LookUpPolicy(r) \/ QueryPolicies(r) \/ QueryFails(r) \/ CachePolicy(r)
    BY <1>2, LoadKinds DEF Kinds
  <1>3. CASE OpenSession(r) \/ StoreUserMessage(r)
    BY <1>3, OpenKinds DEF Kinds
  <1>4. CASE PlanTurn(r) \/ Retrieve(r)
    BY <1>4, ScheduleKinds DEF Kinds
  <1>5. CASE RunTool(r) \/ Replan(r)
    BY <1>5, CallKinds DEF Kinds
  <1>6. CASE ToolsDone(r)
    BY <1>6, FinishKind DEF Kinds
  <1>7. CASE Answer(r)
    BY <1>7, AnswerKind DEF Kinds
  <1>8. CASE Promote(r)
    BY <1>8, PromoteKind DEF Kinds
  <1>9. CASE Reply(r)
    BY <1>9, ReplyKind DEF Kinds
  <1>10. CASE ToolFailsTurn(r) \/ TurnFails(r) \/ WriteLost(r)
    BY <1>10, FailKinds DEF Kinds
  <1> QED BY <1>1, <1>2, <1>3, <1>4, <1>5, <1>6, <1>7, <1>8, <1>9, <1>10 DEF HandleStep

----------------------------------------------------------------------------
(* The invariant is inductive.                                             *)

Inv ==
    /\ TypeOK /\ PolicyInv /\ PlanInv /\ ProgressInv /\ PromotionInv
    /\ MessagesInv /\ FailureInv /\ SessionInv
    /\ WritesAwaitApproval /\ ForbiddenToolsAreNotReached /\ HeldBackCallIsPromoted
    /\ EvaluationsHaveNoEffects

Task == [kind : {"none", "report", "tool"}, tool : Tools \cup {NoTool},
         status : {"none", "succeeded", "failed", "approval_required"}]

\* The tools a turn has called.
CalledTools(r) == {turn[r].calls[i].tool : i \in DOMAIN turn[r].calls}

\* The task of a turn is for a call that was held back if there is one, and
\* for no tool if there is none.
LEMMA NewTaskTool ==
    ASSUME TypeOK, NEW r \in Requests
    PROVE  /\ NewTask(turn[r]) \in Task
           /\ NewTask(turn[r]).tool \in CalledTools(r) \cup {NoTool}
           /\ HeldBack(r) = {} => NewTask(turn[r]).tool = NoTool
           /\ HeldBack(r) # {} /\ turn[r].verdict = "promote_workflow" =>
                 NewTask(turn[r]).kind = "tool" /\ NewTask(turn[r]).tool \in HeldBack(r)
  <1> DEFINE calls == turn[r].calls
             found == firstApprovalInvocation(calls)
             match == {i \in DOMAIN calls : calls[i].tool \in HeldBack(r)}
  <1>1. calls \in Seq(Call)
    BY TurnType DEF Turn
  <1>2. Len(calls) \in Nat /\ DOMAIN calls = 1..Len(calls) /\ \A i \in DOMAIN calls : calls[i] \in Call
    BY <1>1
  <1>3. found = {i \in match : \A j \in match : i <= j}
    BY DEF firstApprovalInvocation, HeldBack
  <1>4. HeldBack(r) # {} <=> match # {}
    BY DEF HeldBack
  <1>5. match # {} => found # {}
    <2>1. match \in SUBSET (1..Len(calls))
      BY <1>2
    <2> HIDE DEF match
    <2>2. ASSUME match # {} PROVE \E i \in match : \A j \in match : i <= j
      BY <1>2, <2>1, <2>2, First
    <2> QED BY <1>3, <2>2
  <1>6. CASE turn[r].verdict # "promote_workflow"
    BY <1>6 DEF NewTask, Task
  <1>7. CASE turn[r].verdict = "promote_workflow" /\ found = {}
    <2>1. NewTask(turn[r]) = [kind |-> "tool", tool |-> NoTool, status |-> "none"]
      BY <1>7 DEF NewTask
    <2> QED BY <1>4, <1>5, <1>7, <2>1 DEF Task
  <1>8. CASE turn[r].verdict = "promote_workflow" /\ found # {}
    <2>1. PICK i \in found : i = CHOOSE j \in found : TRUE
      BY <1>8
    <2>2. i \in DOMAIN calls /\ calls[i] \in Call /\ calls[i].tool \in HeldBack(r)
      BY <1>2, <1>3, <2>1
    <2>3. NewTask(turn[r]) = [kind |-> "tool", tool |-> calls[i].tool, status |-> calls[i].status]
      BY <1>8, <2>1 DEF NewTask
    <2> QED BY <2>2, <2>3 DEF Task, Call, CalledTools
  <1> QED BY <1>6, <1>7, <1>8

\* The other turns stay as they are.
LEMMA Stepped ==
    ASSUME TypeOK, NEW r \in Requests, NEW s, Moves(r, s), NEW q \in Requests
    PROVE  turn'[q] = IF q = r THEN s ELSE turn[q]
  BY DEF TypeOK, Moves

\* What becomes of the tasks, and of the messages.
LEMMA PromotedNext ==
    ASSUME TypeOK, NEW r \in Requests, NEW s, Kinds(r, s)
    PROVE  /\ promoted' \in [Requests -> Task]
           /\ \A q \in Requests : q # r => promoted'[q] = promoted[q]
           /\ \/ promoted'[r] = promoted[r]
              \/ /\ At(r, "promoting") /\ promoted'[r] = NewTask(turn[r])
                 /\ s.pc = "replying" \/ (s.pc = "error" /\ Faulty)
  <1>1. promoted \in [Requests -> Task]
    BY DEF TypeOK, Task
  <1>2. NewTask(turn[r]) \in Task
    BY NewTaskTool
  <1>3. \/ UNCHANGED promoted
        \/ /\ At(r, "promoting") /\ promoted' = [promoted EXCEPT ![r] = NewTask(turn[r])]
           /\ s.pc = "replying" \/ (s.pc = "error" /\ Faulty)
    BY DEF Kinds, Accepts, Loads, Opens, Asks, Schedules, Calls, Finishes, Answers, Promotes, Replies,
           Fails, Quiet
  <1> HIDE DEF Task
  <1> QED BY <1>1, <1>2, <1>3

LEMMA AppendedMessage ==
    ASSUME TypeOK, NEW r \in Requests, NEW role \in {"user", "assistant"}, AppendMessage(r, role)
    PROVE  /\ messages' \in [SessionMessage -> Nat]
           /\ \A m \in SessionMessage :
                 messages'[m] = IF m.session = turn[r].session /\ m.role = role /\ m.req = r
                                THEN messages[m] + 1 ELSE messages[m]
  <1> DEFINE new == [session |-> turn[r].session, role |-> role, req |-> r]
  <1>1. turn[r].session \in Sessions
    BY TurnType DEF Turn
  <1>2. new \in SessionMessage
    BY <1>1 DEF SessionMessage
  <1>3. messages \in [SessionMessage -> Nat]
    BY DEF TypeOK
  <1>4. \A m \in SessionMessage :
          m = new <=> m.session = turn[r].session /\ m.role = role /\ m.req = r
    BY DEF SessionMessage
  <1>5. messages' = [messages EXCEPT ![new] = @ + 1]
    BY DEF AppendMessage
  <1> HIDE DEF new
  <1> QED BY <1>2, <1>3, <1>4, <1>5

\* Messages are appended by the first and the last step of a turn.
LEMMA MessagesNext ==
    ASSUME TypeOK, NEW r \in Requests, NEW s, Kinds(r, s)
    PROVE  /\ messages' \in [SessionMessage -> Nat]
           /\ \A m \in SessionMessage : m.req # r \/ m.session # turn[r].session => messages'[m] = messages[m]
           /\ \/ UNCHANGED messages
              \/ At(r, "opened") /\ s.pc = "planning" /\ AppendMessage(r, "user")
              \/ At(r, "replying") /\ s.pc = "done" /\ AppendMessage(r, "assistant")
              \/ turn[r].pc \in {"opened", "replying"} /\ s.pc = "error" /\ Faulty
  <1>1. messages \in [SessionMessage -> Nat]
    BY DEF TypeOK
  <1>2. \/ UNCHANGED messages
        \/ At(r, "opened") /\ s.pc = "planning" /\ AppendMessage(r, "user")
        \/ At(r, "replying") /\ s.pc = "done" /\ AppendMessage(r, "assistant")
        \/ /\ turn[r].pc \in {"opened", "replying"} /\ s.pc = "error" /\ Faulty
           /\ AppendMessage(r, "user") \/ AppendMessage(r, "assistant")
    BY DEF Kinds, Accepts, Loads, Opens, Asks, Schedules, Calls, Finishes, Answers, Promotes, Replies,
           Fails, Quiet
  <1>3. CASE AppendMessage(r, "user")
    BY <1>2, <1>3, AppendedMessage
  <1>4. CASE AppendMessage(r, "assistant")
    BY <1>2, <1>4, AppendedMessage
  <1>5. CASE UNCHANGED messages
    BY <1>1, <1>5
  <1> QED BY <1>2, <1>3, <1>4, <1>5

LEMMA SessionStep ==
    ASSUME TypeOK, SessionInv, NEW r \in Requests, NEW s, Moves(r, s), Kinds(r, s)
    PROVE  SessionInv'
  <1>1. /\ created \subseteq created'
        /\ s.pc \in Asked \cup {"opened"} => s.session \in created'
    <2>1. CASE Opens(r, s)
      BY <2>1 DEF Opens, Keeps
    <2>2. CASE Accepts(r, s) \/ Loads(r, s) \/ Replies(r, s) \/ Fails(r, s)
      BY <2>2 DEF Accepts, Loads, Replies, Fails, Quiet, Asked
    <2>3. CASE Asks(r, s) \/ Schedules(r, s) \/ Calls(r, s) \/ Finishes(r, s)
             \/ Answers(r, s) \/ Promotes(r, s)
      BY <2>3 DEF Asks, Schedules, Calls, Finishes, Answers, Promotes, Quiet, Keeps, Asked, SessionInv, At
    <2> QED BY <2>1, <2>2, <2>3 DEF Kinds
  <1>2. \A q \in Requests : turn'[q] = IF q = r THEN s ELSE turn[q]
    BY Stepped
  <1> QED BY <1>1, <1>2 DEF SessionInv

LEMMA TypeStep ==
    ASSUME TypeOK, SessionInv, NEW r \in Requests, NEW s, Moves(r, s), Kinds(r, s)
    PROVE  TypeOK'
  <1>1. turn' \in [Requests -> Turn]
    BY DEF TypeOK, Moves
  <1>2. promoted' \in [Requests -> Task]
    BY PromotedNext
  <1>3. messages' \in [SessionMessage -> Nat]
    BY MessagesNext
  <1>4. created \subseteq created' /\ created' \subseteq Sessions
    <2>1. turn[r].session \in Sessions /\ created \subseteq Sessions
      BY DEF TypeOK, Turn
    <2> QED BY <2>1 DEF Kinds, Accepts, Loads, Opens, Asks, Schedules, Calls, Finishes, Answers,
                        Promotes, Replies, Fails, Quiet
  <1>5. \A m \in SessionMessage : messages'[m] > 0 => m.session \in created'
    <2> SUFFICES ASSUME NEW m \in SessionMessage, messages'[m] > 0
                 PROVE  m.session \in created'
      OBVIOUS
    <2>1. messages[m] > 0 => m.session \in created
      BY DEF TypeOK
    <2>2. CASE messages'[m] = messages[m]
      BY <1>4, <2>1, <2>2
    <2>3. CASE messages'[m] # messages[m]
      <3>1. m.session = turn[r].session /\ turn[r].pc \in Asked \cup {"opened"}
        BY <2>3, MessagesNext DEF Asked, At
      <3> QED BY <1>4, <3>1 DEF SessionInv
    <2> QED BY <2>2, <2>3
  <1>6. faults' \in 0..MaxFaults
    <2>1. faults \in 0..MaxFaults /\ MaxFaults \in Nat
      BY ChatAssumption DEF TypeOK
    <2> QED BY <2>1 DEF Moves, Faulty
  <1>7. cache' \in CacheEntry /\ UNCHANGED <<rows, banned, changes>>
    BY DEF TypeOK, Moves, CacheEntry
  <1>8. rows' \in Rows /\ banned' \subseteq Tools /\ changes' \in 0..MaxChanges
    BY <1>7 DEF TypeOK
  <1> QED BY <1>1, <1>2, <1>3, <1>4, <1>5, <1>6, <1>7, <1>8 DEF TypeOK, Task, CacheEntry

LEMMA PolicyStep ==
    ASSUME TypeOK, PolicyInv, NEW r \in Requests, NEW s, Moves(r, s), Kinds(r, s)
    PROVE  PolicyInv'
  <1>1. UNCHANGED <<rows, banned>>
    BY DEF Moves
  <1>2. \A p : Heeds(p)' <=> Heeds(p)
    BY <1>1 DEF Heeds
  <1>3. s.pc \in {"caching", "opening", "opened", "planning", "retrieving", "tools"} => Heeds(s.policy)
    <2>1. CASE Loads(r, s)
      BY <2>1 DEF Loads
    <2>2. CASE Opens(r, s) \/ Asks(r, s) \/ Schedules(r, s) \/ Calls(r, s)
      BY <2>2 DEF Opens, Asks, Schedules, Calls, PolicyInv, At
    <2>3. CASE Accepts(r, s) \/ Finishes(r, s) \/ Answers(r, s) \/ Promotes(r, s)
             \/ Replies(r, s) \/ Fails(r, s)
      BY <2>3 DEF Accepts, Finishes, Answers, Promotes, Replies, Fails
    <2> QED BY <2>1, <2>2, <2>3 DEF Kinds
  <1>4. cache'.stored \/ cache'.fresh => Heeds(cache'.policy)
    BY DEF Moves, PolicyInv
  <1>5. \A q \in Requests : turn'[q] = IF q = r THEN s ELSE turn[q]
    BY Stepped
  <1>6. \A q \in Requests :
          turn'[q].pc \in {"caching", "opening", "opened", "planning", "retrieving", "tools"} =>
              Heeds(turn'[q].policy)
    BY <1>3, <1>5 DEF PolicyInv
  <1>7. banned' \subseteq Forbidden(Parsed(rows'))
    BY <1>1 DEF PolicyInv
  <1> QED BY <1>1, <1>4, <1>6, <1>7 DEF PolicyInv, Heeds, Forbidden, Parsed

LEMMA PlanStepKept ==
    ASSUME TypeOK, PlanInv, NEW r \in Requests, NEW s, Moves(r, s), Kinds(r, s)
    PROVE  PlanInv'
  <1>1. s.pc \in {"retrieving", "tools"} => StepsAllowed(s.plan.steps)
    BY DEF Kinds, Accepts, Loads, Opens, Asks, Schedules, Calls, Finishes, Answers, Promotes, Replies,
           Fails
  <1>2. \A q \in Requests : turn'[q] = IF q = r THEN s ELSE turn[q]
    BY Stepped
  <1>3. \A q \in Requests : turn'[q].pc \in {"retrieving", "tools"} => StepsAllowed(turn'[q].plan.steps)
    BY <1>1, <1>2 DEF PlanInv
  <1>4. UNCHANGED banned
    BY DEF Moves
  <1> QED BY <1>3, <1>4 DEF PlanInv, StepsAllowed

LEMMA ProgressStep ==
    ASSUME TypeOK, ProgressInv, NEW r \in Requests, NEW s, Moves(r, s), Kinds(r, s)
    PROVE  ProgressInv'
  <1>1. \A q \in Requests : turn'[q] = IF q = r THEN s ELSE turn[q]
    BY Stepped
  <1>2. s.pc \in Untouched => s.calls = <<>>
    BY DEF Kinds, Accepts, Loads, Opens, Asks, Schedules, Calls, Finishes, Answers, Promotes, Replies,
           Fails, ProgressInv, Untouched, At
  <1>3. s.mode = "eval" => s.pc \notin {"tools", "promoting"}
    BY DEF Kinds, Accepts, Loads, Opens, Asks, Schedules, Calls, Finishes, Answers, Promotes, Replies,
           Fails, ProgressInv, Keeps, At
  <1>4. s.pc \in Working => turn[r].pc \in Working
    BY DEF Kinds, Accepts, Loads, Opens, Asks, Schedules, Calls, Finishes, Answers, Promotes, Replies,
           Fails, Working, Untouched, At
  <1>5. s.pc \in Working => promoted'[r] = NoTask
    <2>1. \/ promoted'[r] = promoted[r]
          \/ s.pc \in {"replying", "error"}
      BY PromotedNext
    <2> QED BY <1>4, <2>1 DEF ProgressInv, Working, Untouched
  <1>6. \A q \in Requests : q # r => promoted'[q] = promoted[q]
    BY PromotedNext
  <1> QED BY <1>1, <1>2, <1>3, <1>5, <1>6 DEF ProgressInv

\* The calls of a turn are kept, dropped at its end, or one is added.
LEMMA CallsNext ==
    ASSUME TypeOK, ProgressInv, NEW r \in Requests, NEW s, Moves(r, s), Kinds(r, s)
    PROVE  \/ s.calls = turn[r].calls
           \/ s.calls = <<>>
           \/ /\ At(r, "tools") /\ s.pc = "tools" /\ Keeps(r, s)
              /\ \E c \in Call : /\ s.calls = Append(turn[r].calls, c) /\ c.tool \notin banned
                                 /\ c.tool \notin ReadTools => c.status = "approval_required"
  BY DEF Kinds, Accepts, Loads, Opens, Asks, Schedules, Calls, Finishes, Answers, Promotes, Replies, Fails

\* A fact about every call of a turn.
LEMMA CallsStep ==
    ASSUME TypeOK, ProgressInv, WritesAwaitApproval, ForbiddenToolsAreNotReached,
           NEW r \in Requests, NEW s, Moves(r, s), Kinds(r, s)
    PROVE  \A i \in DOMAIN s.calls :
              /\ s.calls[i].tool \notin ReadTools => s.calls[i].status = "approval_required"
              /\ s.calls[i].tool \notin banned
  <1>1. turn[r].calls \in Seq(Call)
    BY TurnType DEF Turn
  <1>2. \A i \in DOMAIN turn[r].calls :
           /\ turn[r].calls[i].tool \notin ReadTools => turn[r].calls[i].status = "approval_required"
           /\ turn[r].calls[i].tool \notin banned
    BY DEF WritesAwaitApproval, ForbiddenToolsAreNotReached
  <1>3. CASE s.calls = turn[r].calls
    BY <1>2, <1>3
  <1>4. CASE s.calls = <<>>
    BY <1>4
  <1>5. CASE \E c \in Call : /\ s.calls = Append(turn[r].calls, c) /\ c.tool \notin banned
                             /\ c.tool \notin ReadTools => c.status = "approval_required"
    <2>1. PICK c \in Call : /\ s.calls = Append(turn[r].calls, c) /\ c.tool \notin banned
                            /\ c.tool \notin ReadTools => c.status = "approval_required"
      BY <1>5
    <2>2. \A i \in DOMAIN s.calls :
             s.calls[i] = c \/ (i \in DOMAIN turn[r].calls /\ s.calls[i] = turn[r].calls[i])
      BY <1>1, <2>1
    <2> QED BY <1>2, <2>1, <2>2
  <1> QED BY <1>3, <1>4, <1>5, CallsNext

LEMMA WritesStep ==
    ASSUME TypeOK, ProgressInv, WritesAwaitApproval, ForbiddenToolsAreNotReached,
           NEW r \in Requests, NEW s, Moves(r, s), Kinds(r, s)
    PROVE  WritesAwaitApproval'
  <1>1. \A q \in Requests : turn'[q] = IF q = r THEN s ELSE turn[q]
    BY Stepped
  <1>2. \A i \in DOMAIN s.calls :
          s.calls[i].tool \notin ReadTools => s.calls[i].status = "approval_required"
    BY CallsStep
  <1> QED BY <1>1, <1>2 DEF WritesAwaitApproval

LEMMA ForbiddenStep ==
    ASSUME TypeOK, ProgressInv, WritesAwaitApproval, ForbiddenToolsAreNotReached,
           NEW r \in Requests, NEW s, Moves(r, s), Kinds(r, s)
    PROVE  ForbiddenToolsAreNotReached'
  <1>1. \A q \in Requests : turn'[q] = IF q = r THEN s ELSE turn[q]
    BY Stepped
  <1>2. \A i \in DOMAIN s.calls : s.calls[i].tool \notin banned
    BY CallsStep
  <1>3. UNCHANGED banned
    BY DEF Moves
  <1>4. promoted'[r].tool \notin banned
    <2>1. NewTask(turn[r]).tool \in CalledTools(r) \cup {NoTool}
      BY NewTaskTool
    <2>2. NoTool \notin banned
      BY DEF TypeOK
    <2>3. \A t \in CalledTools(r) : t \notin banned
      BY DEF CalledTools, ForbiddenToolsAreNotReached
    <2>4. promoted'[r] = promoted[r] \/ promoted'[r] = NewTask(turn[r])
      BY PromotedNext
    <2> QED BY <2>1, <2>2, <2>3, <2>4 DEF ForbiddenToolsAreNotReached
  <1>5. \A q \in Requests : q # r => promoted'[q] = promoted[q]
    BY PromotedNext
  <1> QED BY <1>1, <1>2, <1>3, <1>4, <1>5 DEF ForbiddenToolsAreNotReached

LEMMA EvaluationStep ==
    ASSUME TypeOK, ProgressInv, EvaluationsHaveNoEffects,
           NEW r \in Requests, NEW s, Moves(r, s), Kinds(r, s)
    PROVE  EvaluationsHaveNoEffects'
  <1>1. \A q \in Requests : turn'[q] = IF q = r THEN s ELSE turn[q]
    BY Stepped
  <1>2. s.mode = "eval" => s.calls = <<>>
    <2>1. At(r, "new") => turn[r].calls = <<>>
      BY DEF ProgressInv, Untouched, At
    <2> QED BY <2>1 DEF Kinds, Accepts, Loads, Opens, Asks, Schedules, Calls, Finishes, Answers, Promotes,
                        Replies, Fails, Keeps, EvaluationsHaveNoEffects, ProgressInv, At
  <1>3. s.mode = "eval" => turn[r].mode = "eval" \/ At(r, "new")
    BY DEF Kinds, Accepts, Loads, Opens, Asks, Schedules, Calls, Finishes, Answers, Promotes,
           Replies, Fails, Keeps
  <1>4. s.mode = "eval" => promoted[r] = NoTask /\ ~At(r, "promoting")
    BY <1>3 DEF ProgressInv, EvaluationsHaveNoEffects, Working, Untouched, At
  <1>5. s.mode = "eval" => promoted'[r] = NoTask
    BY <1>4, PromotedNext
  <1>6. \A q \in Requests : q # r => promoted'[q] = promoted[q]
    BY PromotedNext
  <1> QED BY <1>1, <1>2, <1>5, <1>6 DEF EvaluationsHaveNoEffects

\* What a turn holds back depends on its calls.
HeldBackOf(calls) == {calls[i].tool : i \in {j \in DOMAIN calls : calls[j].status = "approval_required"}}

LEMMA HeldBackNext ==
    ASSUME TypeOK, NEW r \in Requests, NEW s, Moves(r, s), NEW q \in Requests
    PROVE  HeldBack(q)' = IF q = r THEN HeldBackOf(s.calls) ELSE HeldBack(q)
  <1>1. turn'[q] = IF q = r THEN s ELSE turn[q]
    BY Stepped
  <1> QED BY <1>1 DEF HeldBack, HeldBackOf

LEMMA PromotionStep ==
    ASSUME TypeOK, PromotionInv, NEW r \in Requests, NEW s, Moves(r, s), Kinds(r, s)
    PROVE  PromotionInv'
  <1>1. \A q \in Requests : turn'[q] = IF q = r THEN s ELSE turn[q]
    BY Stepped
  <1>2. \A q \in Requests : HeldBack(q)' = IF q = r THEN HeldBackOf(s.calls) ELSE HeldBack(q)
    BY HeldBackNext
  <1>3. s.pc = "promoting" => Answers(r, s)
    BY DEF Kinds, Accepts, Loads, Opens, Asks, Schedules, Calls, Finishes, Promotes, Replies, Fails
  <1>4. s.pc = "promoting" /\ HeldBackOf(s.calls) # {} => s.verdict = "promote_workflow"
    BY <1>3 DEF Answers, HeldBack, HeldBackOf
  <1> HIDE DEF HeldBackOf
  <1>5. SUFFICES ASSUME NEW q \in Requests, At(q, "promoting")', HeldBack(q)' # {}
                 PROVE  turn'[q].verdict = "promote_workflow"
    BY DEF PromotionInv
  <1>6. CASE q = r
    BY <1>1, <1>2, <1>4, <1>5, <1>6 DEF At
  <1>7. CASE q # r
    BY <1>1, <1>2, <1>5, <1>7 DEF At, PromotionInv
  <1> QED BY <1>6, <1>7

LEMMA HeldBackStep ==
    ASSUME TypeOK, ProgressInv, PromotionInv, HeldBackCallIsPromoted, EvaluationsHaveNoEffects,
           NEW r \in Requests, NEW s, Moves(r, s), Kinds(r, s)
    PROVE  HeldBackCallIsPromoted'
  <1>1. \A q \in Requests : turn'[q] = IF q = r THEN s ELSE turn[q]
    BY Stepped
  <1>2. \A q \in Requests : HeldBack(q)' = IF q = r THEN HeldBackOf(s.calls) ELSE HeldBack(q)
    BY HeldBackNext
  <1>3. \A q \in Requests : q # r => promoted'[q] = promoted[q]
    BY PromotedNext
  <1>4. ASSUME s.pc = "replying"
        PROVE  /\ HeldBackOf(s.calls) = HeldBack(r)
               /\ IF HeldBack(r) = {} THEN promoted'[r].tool = NoTool
                  ELSE promoted'[r].kind = "tool" /\ promoted'[r].tool \in HeldBack(r)
    <2>1. CASE Answers(r, s)
      <3>1. s.calls = turn[r].calls /\ s.mode = turn[r].mode /\ promoted' = promoted /\ At(r, "answering")
        BY <2>1 DEF Answers, Keeps, Quiet
      <3>2. turn[r].mode = "eval" => HeldBack(r) = {}
        BY DEF EvaluationsHaveNoEffects, HeldBack
      <3>3. HeldBack(r) = {}
        BY <1>4, <2>1, <3>1, <3>2 DEF Answers
      <3>4. promoted[r].tool = NoTool
        BY <3>1 DEF ProgressInv, Working, At, NoTask
      <3> QED BY <3>1, <3>3, <3>4 DEF HeldBack, HeldBackOf
    <2>2. CASE Promotes(r, s)
      <3>1. s.calls = turn[r].calls /\ At(r, "promoting") /\ promoted'[r] = NewTask(turn[r])
        BY <2>2 DEF Promotes, TypeOK
      <3>2. HeldBack(r) # {} => turn[r].verdict = "promote_workflow"
        BY <3>1 DEF PromotionInv
      <3>3. IF HeldBack(r) = {} THEN promoted'[r].tool = NoTool
            ELSE promoted'[r].kind = "tool" /\ promoted'[r].tool \in HeldBack(r)
        BY <3>1, <3>2, NewTaskTool
      <3> QED BY <3>1, <3>3 DEF HeldBack, HeldBackOf
    <2> QED BY <1>4, <2>1, <2>2 DEF Kinds, Accepts, Loads, Opens, Asks, Schedules, Calls, Finishes,
                                    Replies, Fails
  <1> HIDE DEF HeldBackOf
  <1>5. SUFFICES ASSUME NEW q \in Requests, At(q, "replying")'
                 PROVE  IF HeldBack(q)' = {} THEN promoted'[q].tool = NoTool
                        ELSE promoted'[q].kind = "tool" /\ promoted'[q].tool \in HeldBack(q)'
    BY DEF HeldBackCallIsPromoted
  <1>6. CASE q = r
    BY <1>1, <1>2, <1>4, <1>5, <1>6 DEF At
  <1>7. CASE q # r
    BY <1>1, <1>2, <1>3, <1>5, <1>7 DEF At, HeldBackCallIsPromoted
  <1> QED BY <1>6, <1>7

LEMMA FailureStep ==
    ASSUME TypeOK, ProgressInv, FailureInv, NEW r \in Requests, NEW s, Moves(r, s), Kinds(r, s)
    PROVE  FailureInv'
  <1>1. \A q \in Requests : turn'[q] = IF q = r THEN s ELSE turn[q]
    BY Stepped
  <1>2. faults \in Nat /\ (faults' = 0 => faults = 0 /\ ~Faulty)
    BY ChatAssumption DEF TypeOK, Moves, Faulty
  <1>3. \A q \in Requests : q # r => promoted'[q] = promoted[q]
    BY PromotedNext
  <1>4. s.pc = "error" /\ faults' = 0 => promoted'[r] = NoTask
    <2>1. s.pc = "error" /\ ~Faulty => At(r, "tools") /\ UNCHANGED promoted
      BY DEF Kinds, Accepts, Loads, Opens, Asks, Schedules, Calls, Finishes, Answers, Promotes,
             Replies, Fails
    <2> QED BY <1>2, <2>1 DEF ProgressInv, Working, At
  <1> QED BY <1>1, <1>2, <1>3, <1>4 DEF FailureInv, At

LEMMA MessagesStep ==
    ASSUME TypeOK, MessagesInv, NEW r \in Requests, NEW s, Moves(r, s), Kinds(r, s)
    PROVE  MessagesInv'
  <1>1. \A q \in Requests : turn'[q] = IF q = r THEN s ELSE turn[q]
    BY Stepped
  <1>2. faults \in Nat /\ (faults' = 0 => faults = 0 /\ ~Faulty)
    BY ChatAssumption DEF TypeOK, Moves, Faulty
  <1>3. SUFFICES ASSUME NEW q \in Requests, NEW m \in SessionMessage, m.req = q
                 PROVE  /\ turn'[q].pc \in Unsaid => messages'[m] = 0
                        /\ turn'[q].pc \in Asked \/ (turn'[q].pc = "error" /\ faults' = 0) =>
                              messages'[m] = IF m.session = turn'[q].session /\ m.role = "user" THEN 1 ELSE 0
                        /\ turn'[q].pc = "done" =>
                              messages'[m] = IF m.session = turn'[q].session THEN 1 ELSE 0
    BY DEF MessagesInv, At
  <1>4. /\ turn[q].pc \in Unsaid => messages[m] = 0
        /\ turn[q].pc \in Asked \/ (turn[q].pc = "error" /\ faults = 0) =>
              messages[m] = IF m.session = turn[q].session /\ m.role = "user" THEN 1 ELSE 0
        /\ turn[q].pc = "done" => messages[m] = IF m.session = turn[q].session THEN 1 ELSE 0
    BY <1>3 DEF MessagesInv, At
  <1>5. CASE q # r
    <2>1. messages'[m] = messages[m]
      BY <1>3, <1>5, MessagesNext
    <2> QED BY <1>1, <1>2, <1>4, <1>5, <2>1
  <1>6. CASE q = r
    <2>1. turn'[q] = s
      BY <1>1, <1>6
    <2>2. CASE Asks(r, s)
      <3>1. /\ turn[r].pc = "opened" /\ s.pc = "planning" /\ s.session = turn[r].session
            /\ AppendMessage(r, "user")
        BY <2>2 DEF Asks, At, Keeps
      <3>2. messages'[m] = IF m.session = turn[r].session /\ m.role = "user" /\ m.req = r
                           THEN messages[m] + 1 ELSE messages[m]
        BY <3>1, AppendedMessage
      <3> QED BY <1>3, <1>4, <1>6, <2>1, <3>1, <3>2 DEF Unsaid, Asked
    <2>3. CASE Replies(r, s)
      <3>1. /\ turn[r].pc = "replying" /\ s.pc = "done" /\ s.session = turn[r].session
            /\ AppendMessage(r, "assistant")
        BY <2>3 DEF Replies, At, Keeps
      <3>2. messages'[m] = IF m.session = turn[r].session /\ m.role = "assistant" /\ m.req = r
                           THEN messages[m] + 1 ELSE messages[m]
        BY <3>1, AppendedMessage
      <3>3. m.role \in {"user", "assistant"}
        BY DEF SessionMessage
      <3> QED BY <1>3, <1>4, <1>6, <2>1, <3>1, <3>2, <3>3 DEF Unsaid, Asked
    <2>4. CASE Accepts(r, s) \/ Loads(r, s) \/ Opens(r, s)
      <3>1. turn[r].pc \in Unsaid /\ s.pc \in Unsaid /\ UNCHANGED messages
        BY <2>4 DEF Accepts, Loads, Opens, Quiet, Unsaid, At
      <3> QED BY <1>4, <1>6, <2>1, <3>1 DEF Unsaid, Asked
    <2>5. CASE Schedules(r, s) \/ Calls(r, s) \/ Finishes(r, s) \/ Answers(r, s) \/ Promotes(r, s)
      <3>1. turn[r].pc \in Asked /\ s.pc \in Asked /\ s.session = turn[r].session /\ UNCHANGED messages
        BY <2>5 DEF Schedules, Calls, Finishes, Answers, Promotes, Quiet, Keeps, Asked, At
      <3> QED BY <1>4, <1>6, <2>1, <3>1 DEF Unsaid, Asked
    <2>6. CASE Fails(r, s)
      <3>1. s.pc = "error" /\ s.session = turn[r].session
        BY <2>6 DEF Fails, Keeps
      <3>2. CASE faults' = 0
        <4>1. turn[r].pc = "tools" /\ UNCHANGED messages
          BY <1>2, <2>6, <3>2 DEF Fails, At
        <4> QED BY <1>4, <1>6, <2>1, <3>1, <4>1 DEF Unsaid, Asked
      <3>3. CASE faults' # 0
        BY <2>1, <3>1, <3>3 DEF Unsaid, Asked
      <3> QED BY <3>2, <3>3
    <2> QED BY <2>2, <2>3, <2>4, <2>5, <2>6 DEF Kinds
  <1> QED BY <1>5, <1>6

\* A request moves.
LEMMA RequestStep ==
    ASSUME Inv, NEW r \in Requests,
           Accept(r) \/ HandleStep(r) \/ QueryFails(r) \/ TurnFails(r) \/ WriteLost(r)
    PROVE  Inv'
  <1>1. /\ TypeOK /\ PolicyInv /\ PlanInv /\ ProgressInv /\ PromotionInv /\ MessagesInv /\ FailureInv
        /\ SessionInv /\ WritesAwaitApproval /\ ForbiddenToolsAreNotReached /\ HeldBackCallIsPromoted
        /\ EvaluationsHaveNoEffects
    BY DEF Inv
  <1>2. PICK s : Moves(r, s) /\ Kinds(r, s)
    BY <1>1, RequestKinds
  <1>3. TypeOK' /\ SessionInv' /\ PolicyInv' /\ PlanInv'
    BY <1>1, <1>2, TypeStep, SessionStep, PolicyStep, PlanStepKept
  <1>4. ProgressInv' /\ PromotionInv' /\ MessagesInv' /\ FailureInv'
    BY <1>1, <1>2, ProgressStep, PromotionStep, MessagesStep, FailureStep
  <1>5. WritesAwaitApproval' /\ ForbiddenToolsAreNotReached'
    BY <1>1, <1>2, WritesStep, ForbiddenStep
  <1>6. HeldBackCallIsPromoted' /\ EvaluationsHaveNoEffects'
    BY <1>1, <1>2, HeldBackStep, EvaluationStep
  <1> QED BY <1>3, <1>4, <1>5, <1>6 DEF Inv

\* A cached policy expires, the rows of the policies change, or nothing does:
\* the turns stay as they are, and no tool is banned anew.
LEMMA OtherStep ==
    ASSUME Inv, Expire \/ EditPolicies \/ UNCHANGED vars
    PROVE  Inv'
  <1>1. UNCHANGED <<turn, messages, created, promoted, faults>>
    BY DEF Expire, EditPolicies, vars, chat
  <1>2. banned' \subseteq banned
    BY DEF Expire, EditPolicies, vars, policies
  <1>3. cache \in CacheEntry /\ rows \in Rows /\ changes \in 0..MaxChanges /\ MaxChanges \in Nat
    BY ChatAssumption DEF Inv, TypeOK, CacheEntry
  <1>4. /\ cache' \in CacheEntry /\ cache'.policy = cache.policy
        /\ cache'.stored \/ cache'.fresh => cache.stored \/ cache.fresh
    BY <1>3 DEF Expire, EditPolicies, vars, policies, CacheEntry
  <1>5. rows' \in Rows /\ changes' \in 0..MaxChanges
    BY <1>3 DEF Expire, EditPolicies, vars, policies
  <1>6. banned' \subseteq Forbidden(Parsed(rows'))
    <2>1. CASE EditPolicies
      BY <2>1 DEF EditPolicies
    <2>2. CASE Expire \/ UNCHANGED vars
      <3>1. UNCHANGED <<banned, rows>>
        BY <2>2 DEF Expire, vars, policies
      <3> QED BY <3>1 DEF Inv, PolicyInv
    <2> QED BY <2>1, <2>2
  <1>7. TypeOK'
    <2>1. TypeOK
      BY DEF Inv
    <2> QED BY <1>1, <1>2, <1>4, <1>5, <2>1 DEF TypeOK, CacheEntry
  <1>8. PolicyInv'
    <2>1. \A p : Heeds(p) => \A t \in banned' : p.configured /\ (t \in p.forbidden \/ ~p.allow)
      BY <1>2 DEF Heeds
    <2>2. PolicyInv
      BY DEF Inv
    <2>3. cache'.stored \/ cache'.fresh => Heeds(cache.policy)
      BY <1>4, <2>2 DEF PolicyInv
    <2>4. \A r \in Requests :
            turn'[r].pc \in {"caching", "opening", "opened", "planning", "retrieving", "tools"} =>
                Heeds(turn'[r].policy)
      BY <1>1, <2>2 DEF PolicyInv
    <2>5. cache'.stored \/ cache'.fresh =>
            \A t \in banned' : /\ cache'.policy.configured
                               /\ t \in cache'.policy.forbidden \/ ~cache'.policy.allow
      BY <1>4, <2>1, <2>3
    <2>6. \A r \in Requests :
            turn'[r].pc \in {"caching", "opening", "opened", "planning", "retrieving", "tools"} =>
                \A t \in banned' : /\ turn'[r].policy.configured
                                   /\ t \in turn'[r].policy.forbidden \/ ~turn'[r].policy.allow
      BY <2>1, <2>4
    <2> QED BY <1>6, <2>5, <2>6 DEF PolicyInv, Heeds, Forbidden, Parsed
  <1>9. PlanInv'
    BY <1>1, <1>2 DEF Inv, PlanInv, StepsAllowed
  <1>10. ProgressInv' /\ FailureInv' /\ SessionInv'
    BY <1>1 DEF Inv, ProgressInv, FailureInv, SessionInv, At
  <1>11. MessagesInv'
    BY <1>1 DEF Inv, MessagesInv, At
  <1>12. PromotionInv' /\ HeldBackCallIsPromoted'
    <2>1. \A r \in Requests : HeldBack(r)' = HeldBack(r)
      BY <1>1 DEF HeldBack
    <2>2. PromotionInv /\ HeldBackCallIsPromoted
      BY DEF Inv
    <2>3. PromotionInv'
      BY <1>1, <2>1, <2>2 DEF PromotionInv, At
    <2>4. HeldBackCallIsPromoted'
      BY <1>1, <2>1, <2>2 DEF HeldBackCallIsPromoted, At
    <2> QED BY <2>3, <2>4
  <1>13. WritesAwaitApproval' /\ EvaluationsHaveNoEffects'
    BY <1>1 DEF Inv, WritesAwaitApproval, EvaluationsHaveNoEffects
  <1>14. ForbiddenToolsAreNotReached'
    BY <1>1, <1>2 DEF Inv, ForbiddenToolsAreNotReached
  <1> QED BY <1>7, <1>8, <1>9, <1>10, <1>11, <1>12, <1>13, <1>14 DEF Inv

LEMMA InvInit == Init => Inv
  <1> SUFFICES ASSUME Init PROVE Inv
    OBVIOUS
  <1>1. /\ turn = [r \in Requests |-> IdleTurn] /\ messages = [m \in SessionMessage |-> 0]
        /\ created = {Shared} /\ promoted = [r \in Requests |-> NoTask] /\ rows \in Rows
        /\ banned = Forbidden(Parsed(rows)) /\ cache = NoEntry /\ changes = 0 /\ faults = 0
    BY DEF Init
  <1>2. \A r \in Requests : turn[r] = IdleTurn /\ promoted[r] = NoTask
    BY <1>1
  <1>3. IdleTurn \in Turn /\ IdleTurn.calls = <<>> /\ IdleTurn.pc = "new" /\ IdleTurn.mode = "chat"
    BY IdleType DEF IdleTurn
  <1>4. NoTask \in Task /\ NoTask.tool = NoTool
    BY DEF NoTask, Task
  <1>5. banned \subseteq Tools
    <2>1. Layer \subseteq Policy
      BY PolicyTypes
    <2> QED BY <1>1, <2>1, ParsedRows DEF Forbidden, Policy
  <1>6. NoEntry \in CacheEntry /\ ~NoEntry.stored /\ ~NoEntry.fresh
    BY PolicyTypes DEF NoEntry, CacheEntry
  <1>7. TypeOK
    <2>1. turn \in [Requests -> Turn] /\ promoted \in [Requests -> Task]
      BY <1>1, <1>3, <1>4
    <2>2. messages \in [SessionMessage -> Nat] /\ created \subseteq Sessions
      BY <1>1 DEF Sessions
    <2>3. \A m \in SessionMessage : messages[m] > 0 => m.session \in created
      BY <1>1
    <2>4. changes \in 0..MaxChanges /\ faults \in 0..MaxFaults
      BY <1>1, ChatAssumption
    <2> QED BY <1>1, <1>5, <1>6, <2>1, <2>2, <2>3, <2>4 DEF TypeOK, Task, CacheEntry
  <1>8. PolicyInv /\ PlanInv
    BY <1>1, <1>2, <1>3, <1>6 DEF PolicyInv, PlanInv
  <1>9. ProgressInv /\ FailureInv /\ SessionInv
    BY <1>2, <1>3 DEF ProgressInv, FailureInv, SessionInv, Untouched, Working, Asked, At
  <1>10. MessagesInv
    BY <1>1, <1>2, <1>3 DEF MessagesInv, Unsaid, Asked, At
  <1>11. PromotionInv /\ HeldBackCallIsPromoted
    BY <1>2, <1>3 DEF PromotionInv, HeldBackCallIsPromoted, At
  <1>12. WritesAwaitApproval /\ EvaluationsHaveNoEffects
    BY <1>2, <1>3 DEF WritesAwaitApproval, EvaluationsHaveNoEffects
  <1>13. ForbiddenToolsAreNotReached
    BY <1>2, <1>3, <1>4, <1>5 DEF ForbiddenToolsAreNotReached
  <1> QED BY <1>7, <1>8, <1>9, <1>10, <1>11, <1>12, <1>13 DEF Inv

LEMMA InvStep == Inv /\ [Next]_vars => Inv'
  <1>1. ASSUME Inv, NEW r \in Requests,
               Accept(r) \/ HandleStep(r) \/ QueryFails(r) \/ TurnFails(r) \/ WriteLost(r)
        PROVE  Inv'
    BY <1>1, RequestStep
  <1>2. ASSUME Inv, Expire \/ EditPolicies \/ UNCHANGED vars
        PROVE  Inv'
    BY <1>2, OtherStep
  <1> QED BY <1>1, <1>2 DEF Next

LEMMA Invariance == Spec => []Inv
  BY InvInit, InvStep, PTL DEF Spec

\* The conversation of a turn is what its place says.
LEMMA OutcomeOfInv == Inv => OutcomeMatchesEffects
  <1> SUFFICES ASSUME Inv, NEW r \in Requests
               PROVE  /\ At(r, "done") => Stored(r, "user") = 1 /\ Stored(r, "assistant") = 1
                      /\ At(r, "error") /\ faults = 0 =>
                            Stored(r, "user") = 1 /\ Stored(r, "assistant") = 0 /\ promoted[r] = NoTask
    BY DEF OutcomeMatchesEffects
  <1>1. TypeOK /\ MessagesInv /\ FailureInv
    BY DEF Inv
  <1>2. turn[r].session \in Sessions
    BY <1>1, TurnType DEF Turn
  <1>3. PICK u \in SessionMessage : u = [session |-> turn[r].session, role |-> "user", req |-> r]
    BY <1>2 DEF SessionMessage
  <1>4. PICK a \in SessionMessage : a = [session |-> turn[r].session, role |-> "assistant", req |-> r]
    BY <1>2 DEF SessionMessage
  <1>5. /\ u.req = r /\ u.session = turn[r].session /\ u.role = "user"
        /\ a.req = r /\ a.session = turn[r].session /\ a.role # "user"
    BY <1>3, <1>4
  <1>6. Stored(r, "user") = messages[u] /\ Stored(r, "assistant") = messages[a]
    BY <1>3, <1>4 DEF Stored
  <1> QED BY <1>1, <1>5, <1>6 DEF MessagesInv, FailureInv

----------------------------------------------------------------------------
(* The theorems.                                                           *)

\* Whatever plans the model proposes, the state of a turn stays well-formed:
\* calls name registered tools, and messages are stored in sessions that exist.
THEOREM ChatTypeCorrect == Spec => []TypeOK
  <1>1. Inv => TypeOK
    BY DEF Inv
  <1> QED BY <1>1, Invariance, PTL

\* A write tool never runs inside a chat turn: the gate of tool.Service.Execute
\* holds for any registry, any policy and any plan, revised ones included.
THEOREM WritesAwait == Spec => []WritesAwaitApproval
  <1>1. Inv => WritesAwaitApproval
    BY DEF Inv
  <1> QED BY <1>1, Invariance, PTL

\* A tool that rows which can be parsed have forbidden all the time is neither
\* called nor handed to a task, for any contents and any edits of tool_policies,
\* malformed rows included, with the cache of policies that LoadPolicy shares
\* between requests and its fallback.  What a malformed row forbids is lost.
THEOREM ForbiddenUnreached == Spec => []ForbiddenToolsAreNotReached
  <1>1. Inv => ForbiddenToolsAreNotReached
    BY DEF Inv
  <1> QED BY <1>1, Invariance, PTL

\* When Handle comes to its answer, the one task it has promoted is for a tool
\* whose call was held back if there was one, and for no tool if there was none,
\* for any model and any revision of the plan.
THEOREM HeldBackPromoted == Spec => []HeldBackCallIsPromoted
  <1>1. Inv => HeldBackCallIsPromoted
    BY DEF Inv
  <1> QED BY <1>1, Invariance, PTL

\* A turn in evaluation mode calls no tool and creates no task.
THEOREM EvaluationsInert == Spec => []EvaluationsHaveNoEffects
  <1>1. Inv => EvaluationsHaveNoEffects
    BY DEF Inv
  <1> QED BY <1>1, Invariance, PTL

\* What is stored of a turn agrees with what its client was told, for any
\* number of requests that interleave in a session.
THEOREM OutcomesMatch == Spec => []OutcomeMatchesEffects
  BY OutcomeOfInv, Invariance, PTL
=============================================================================
