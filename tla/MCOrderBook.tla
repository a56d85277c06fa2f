----------------------------- MODULE MCOrderBook -----------------------------
(***************************************************************************)
(* Small instances of OrderBook.                                           *)
(***************************************************************************)
EXTENDS OrderBookRefinement

\* Order ids are interchangeable: the book only compares them for equality.
IdSymmetry == Permutations(OrderId)
==============================================================================
