-------------------------- MODULE MCMessagePipeline --------------------------
(* Instances of MessagePipeline for TLC.                                    *)
EXTENDS PipelinePromise, TLC

Symmetry == Permutations(Req)
=============================================================================
