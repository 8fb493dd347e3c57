-------------------------- MODULE MCAnalysisBatches --------------------------
(* A small instance of AnalysisBatches for TLC: one stock that is in the   *)
(* pool, in two reports and on the watch list.                             *)
EXTENDS AnalysisBatches, TLC

CONSTANTS a, b

MCCallers == {a, b}
MCPool == << <<"pool", "x">> >>
MCReports == << <<"r1", "x">>, <<"r2", "x">> >>
MCItems == {<<"watch", "x">>}
Sym == Permutations(MCCallers)
=============================================================================
