-------------------------- MODULE MCStreamRegistry --------------------------
(* Small instances of StreamRegistry for TLC. *)
EXTENDS StreamRegistry, TLC

ClientSymmetry == Permutations(Clients)
=============================================================================
