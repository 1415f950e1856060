------------------------------ MODULE MCCAStore -------------------------------
(* An instance of CAStore for TLC.  Five pairs are enough for three          *)
(* processes: whenever one generates, there is a pair that is not Live.      *)
EXTENDS CAStore, TLC

Symmetry == Permutations(Process) \cup Permutations(Pair)
===============================================================================
