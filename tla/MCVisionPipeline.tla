-------------------------- MODULE MCVisionPipeline --------------------------
(* Small instances of VisionPipeline for TLC.                              *)
EXTENDS VisionPipeline
=============================================================================
