----------------------------- MODULE MCPipeline -----------------------------
(***************************************************************************)
(* Pipeline for TLC: queues of one place, numbers modulo three.            *)
(***************************************************************************)
EXTENDS Pipeline
=============================================================================
