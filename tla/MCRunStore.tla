---------------------------- MODULE MCRunStore ----------------------------
(* A small instance of RunStore for TLC: one run, two engines.            *)
EXTENDS RunStore, TLC

Symmetry == Permutations(Owners) \cup Permutations(Claims) \cup Permutations(Receipts)
=============================================================================
