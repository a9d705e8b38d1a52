--------------------------- MODULE MCPodPipeline ---------------------------
(* PodPipeline for TLC. *)
EXTENDS PodPipeline
=============================================================================
