------------------------------ MODULE MCActions ------------------------------
(* Small instance: one builder used directly and one that belongs to a pipeline. *)
EXTENDS FfbPipeline
==============================================================================
