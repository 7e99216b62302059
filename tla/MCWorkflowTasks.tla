-------------------------- MODULE MCWorkflowTasks --------------------------
(* Model-checking instances of WorkflowTasks. *)
EXTENDS WorkflowTasks, TLC

CONSTANTS c1, c2, w1, w2

\* Handlers are interchangeable; workers differ in their report stores.
Symmetry == Permutations({c1, c2})
=============================================================================
