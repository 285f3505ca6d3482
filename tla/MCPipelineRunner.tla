--------------------------- MODULE MCPipelineRunner ---------------------------
(* PipelineRunner on small pipelines. *)
EXTENDS PipelineRunner
=============================================================================
