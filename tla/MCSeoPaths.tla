----------------------------- MODULE MCSeoPaths -----------------------------
(* A small instance of SeoPaths for TLC. Addresses are interchangeable.    *)
EXTENDS SeoPaths, TLC

Symmetry == Permutations(Paths) \cup Permutations(Visitors)
=============================================================================
