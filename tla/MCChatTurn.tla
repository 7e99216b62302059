----------------------------- MODULE MCChatTurn -----------------------------
(* Model-checking instances of ChatTurn. *)
EXTENDS ChatTurn, TLC

CONSTANTS r1, r2, search, comment

MCTicketTools == <<comment, search>>

\* Steps of the ticket tools as a model may propose them, the mislabelled
\* ones included.
Use(tool, given, readOnly, approval) ==
    [kind |-> "tool", tool |-> tool, given |-> given, readOnly |-> readOnly,
     approval |-> approval]

Other == PlanStep("other")
Search == Use(search, TRUE, TRUE, FALSE)
SearchWithApproval == Use(search, FALSE, TRUE, TRUE)
Comment == Use(comment, TRUE, FALSE, TRUE)
CommentAsRead == Use(comment, FALSE, TRUE, FALSE)

Proposed(retrieval, workflow, steps) ==
    [retrieval |-> retrieval, workflow |-> workflow, steps |-> steps]

MCPlans == {
    Proposed(TRUE, FALSE, <<Other>>),
    Proposed(TRUE, FALSE, <<Search, SearchWithApproval>>),
    Proposed(FALSE, FALSE, <<Search, Comment>>),
    Proposed(FALSE, FALSE, <<Comment, Search>>),
    Proposed(FALSE, FALSE, <<CommentAsRead>>),
    Proposed(FALSE, TRUE, <<PlanStep("promote")>>),
    Proposed(FALSE, TRUE, <<Search>>)}

Row(allow, explicit, allowed, forbidden, maxSteps) ==
    [configured |-> TRUE, allow |-> allow, explicit |-> explicit, allowed |-> allowed,
     forbidden |-> forbidden, maxSteps |-> maxSteps, approveWrites |-> TRUE]

NoCommentsInOrg == Row(TRUE, TRUE, {}, {comment}, 0)
CommentsInTenant == Row(TRUE, TRUE, {comment, search}, {}, 2)

Layers(org, tenant, malformed) ==
    [org |-> org, tenant |-> tenant, user |-> Unconfigured, malformed |-> malformed]

\* The organisation forbids comments, and the tenant lists them as allowed.
Restricted(malformed) == Layers(NoCommentsInOrg, CommentsInTenant, malformed)

\* Both rows can be parsed, or one of them cannot.
MCRows == {Restricted({}), Restricted({"tenant"}), Restricted({"org"})}

MCMalformed == {Restricted({"org"})}

Ask(report, ticket, search_) == [report |-> report, ticket |-> ticket, search |-> search_]

\* The first request may come with anything; the second one is the replay of an
\* evaluation that would search for a ticket.
MCInput ==
    (r1 :> [modes |-> {"chat", "eval"}, sessions |-> {Shared, r1},
            messages |-> {Ask(FALSE, TRUE, FALSE),
                          Ask(FALSE, TRUE, TRUE), Ask(TRUE, TRUE, FALSE)},
            plans |-> MCPlans])
    @@ (r2 :> [modes |-> {"eval"}, sessions |-> {Shared}, messages |-> {Ask(FALSE, TRUE, TRUE)}, plans |-> {}])
=============================================================================
