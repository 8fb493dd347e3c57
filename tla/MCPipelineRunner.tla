-------------------------- MODULE MCPipelineRunner --------------------------
(* Small instances of PipelineRunner for TLC. *)
EXTENDS PipelineRunner

CONSTANT a1
=============================================================================
