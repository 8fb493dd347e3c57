----------------------------- MODULE MCPaperDay -----------------------------
(* The instances of MCExecutionDriver with the settlement beside the batch. *)
EXTENDS MCExecutionDriver, PaperDay
=============================================================================
