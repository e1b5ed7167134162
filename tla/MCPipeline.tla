----------------------------- MODULE MCPipeline -----------------------------
(* A small instance of the whole process for TLC. *)
EXTENDS Pipeline
=============================================================================
