---------------------------- MODULE MCPipelineRun ----------------------------
(* Instances of PipelineRun for TLC: a pipeline of two nodes, run two or     *)
(* three times, with two dictionaries of run metadata.                       *)
EXTENDS PipelineRun, TLC

CONSTANTS meta1, meta2

MetaSymmetry == Permutations(Metas)
================================================================================
