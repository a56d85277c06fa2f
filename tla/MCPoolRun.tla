------------------------------ MODULE MCPoolRun ------------------------------
(***************************************************************************)
(* A small instance of PoolRun.                                            *)
(***************************************************************************)
EXTENDS PoolRun

Symmetry == Permutations(OrderId)
==============================================================================
