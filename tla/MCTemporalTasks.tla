-------------------------- MODULE MCTemporalTasks --------------------------
(* Model-checking instances of TemporalTasks. *)
EXTENDS TemporalTasks

CONSTANTS c1, w1, w2
=============================================================================
