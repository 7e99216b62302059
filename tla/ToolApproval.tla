---------------------------- MODULE ToolApproval ----------------------------
(***************************************************************************)
(* What the service promises about a tool that needs an approval: the tool *)
(* runs to completion at most once per request, never before somebody      *)
(* granted it, and a request is shown as succeeded only after its tool     *)
(* did complete.  How tasks, workers and Temporal bring this about is the  *)
(* business of TemporalTasks, which implements this specification.         *)
(***************************************************************************)
CONSTANT Requests

VARIABLES
    phase,      \* what the operator sees of each request
    granted,    \* granted[r]: somebody approved or retried r
    completed   \* completed[r]: the tool of r has run to completion

vars == <<phase, granted, completed>>

Phases == {"none", "proposed", "authorised", "succeeded", "failed"}

Init ==
    /\ phase = [r \in Requests |-> "none"]
    /\ granted = [r \in Requests |-> FALSE]
    /\ completed = [r \in Requests |-> 0]

Shown(r, from, to) ==
    /\ phase[r] \in from
    /\ phase' = [phase EXCEPT ![r] = to]

Propose(r) == Shown(r, {"none"}, "proposed") /\ UNCHANGED <<granted, completed>>

Grant(r) ==
    /\ Shown(r, {"proposed", "failed"}, "authorised")
    /\ granted' = [granted EXCEPT ![r] = TRUE]
    /\ UNCHANGED completed

\* The tool may complete after its request was given up as failed, when only
\* the answer got lost; it never completes a second time.
Complete(r) ==
    /\ granted[r]
    /\ completed[r] = 0
    /\ completed' = [completed EXCEPT ![r] = 1]
    /\ UNCHANGED <<phase, granted>>

Succeed(r) ==
    /\ completed[r] = 1
    /\ Shown(r, {"authorised"}, "succeeded")
    /\ UNCHANGED <<granted, completed>>

Fail(r) == Shown(r, {"proposed", "authorised"}, "failed") /\ UNCHANGED <<granted, completed>>

Next == \E r \in Requests : Propose(r) \/ Grant(r) \/ Complete(r) \/ Succeed(r) \/ Fail(r)

Spec == Init /\ [][Next]_vars
=============================================================================
