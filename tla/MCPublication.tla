--------------------------- MODULE MCPublication ---------------------------
(* Publication for TLC: the processes are interchangeable.                  *)
EXTENDS Publication, TLC

Symmetry == Permutations(Writer)
============================================================================
