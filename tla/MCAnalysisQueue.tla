-------------------------- MODULE MCAnalysisQueue --------------------------
(* Small instances of AnalysisQueue for TLC. *)
EXTENDS AnalysisQueue, TLC

CONSTANTS a1, a2, a3

\* Sessions are alike.
Symmetry == Permutations(Analyses)
=============================================================================
