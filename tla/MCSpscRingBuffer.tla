--------------------------- MODULE MCSpscRingBuffer ---------------------------
(***************************************************************************)
(* Small instances of SpscRingBuffer.                                      *)
(***************************************************************************)
EXTENDS SpscRingBuffer, TLC

\* The ring never looks at an item.
ItemSymmetry == Permutations(Item)
==============================================================================
