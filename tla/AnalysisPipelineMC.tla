-------------------------- MODULE AnalysisPipelineMC --------------------------
(* TLC instances of AnalysisPipeline; the constants are in the .cfg files.  *)
EXTENDS AnalysisPipeline, TLC
=============================================================================
