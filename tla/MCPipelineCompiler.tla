------------------------- MODULE MCPipelineCompiler -------------------------
(***************************************************************************)
(* Instances of PipelineCompiler for TLC.                                  *)
(***************************************************************************)
EXTENDS PipelineCompiler, TLC
=============================================================================
