------------------------------ MODULE MCJobRuns ------------------------------
(* Small instances of JobRuns for TLC: the snapshot and jobs that read it. *)
EXTENDS JobRuns, TLC

MCFireTime == [j \in Jobs |-> CASE j = "snapshot" -> 1 [] j = "screening" -> 2
                                [] OTHER -> 3]
=============================================================================
