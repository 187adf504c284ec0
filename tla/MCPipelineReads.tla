--------------------------- MODULE MCPipelineReads ---------------------------
(* PipelineReads for TLC: the log and the artifacts of a job go before its *)
(* workspace, so that a run can go on storing what it finds there.         *)
EXTENDS PipelineReads

MCRemovalOrder == <<"original", "logs", "artifacts", "pipeline-work">>
=============================================================================
