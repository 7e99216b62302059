------------------------------ MODULE MCCases ------------------------------
(* Model-checking instances of Cases. *)
EXTENDS Cases, TLC

CONSTANTS c1, c2

\* Handlers are interchangeable.
Symmetry == Permutations({c1, c2})
=============================================================================
