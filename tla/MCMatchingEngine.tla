--------------------------- MODULE MCMatchingEngine ---------------------------
(***************************************************************************)
(* Small instances of MatchingEngine.                                      *)
(***************************************************************************)
EXTENDS MatchingEngine

\* Ids and symbols are only compared for equality.
Symmetry == Permutations(OrderId) \cup Permutations(Symbol)
==============================================================================
