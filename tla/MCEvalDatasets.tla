--------------------------- MODULE MCEvalDatasets ---------------------------
(* Model-checking instances of EvalDatasets. *)
EXTENDS EvalDatasets, TLC

CONSTANTS c1, c2, c3, e1, e2, e3

\* Handlers are interchangeable, and so are eval cases.
Symmetry == Permutations({c1, c2, c3}) \cup Permutations({e1, e2, e3})
=============================================================================
