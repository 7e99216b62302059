----------------------------- MODULE MCEvalRuns -----------------------------
(* Model-checking instances of EvalRuns. *)
EXTENDS EvalRuns, TLC

CONSTANTS w1, w2

\* Workers are interchangeable.
Symmetry == Permutations({w1, w2})
=============================================================================
