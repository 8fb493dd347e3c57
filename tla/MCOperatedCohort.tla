-------------------------- MODULE MCOperatedCohort --------------------------
(* Small instances of OperatedCohort for TLC. *)
EXTENDS OperatedCohort, TLC

CONSTANTS s1, s2, e1, e2, early, late

\* Sessions are alike, and so are requests that edit the settings and times of day,
\* which are only ever compared for equality.
Symmetry == Permutations(Sessions) \cup Permutations(Editors) \cup Permutations(Times)
=============================================================================
