------------------------------ MODULE MCPipeline ------------------------------
(***************************************************************************)
(* A small instance of Pipeline: a ring of 4 slots, more orders than fit.  *)
(***************************************************************************)
EXTENDS Pipeline
==============================================================================
