----------------------------- MODULE MCBenchmark -----------------------------
(***************************************************************************)
(* Small instances of Benchmark: 10, 5000 and 50000 are scaled down.       *)
(***************************************************************************)
EXTENDS Benchmark

SymbolSymmetry == Permutations(Symbol)
==============================================================================
