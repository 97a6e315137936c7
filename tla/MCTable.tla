------------------------------ MODULE MCTable ------------------------------
(* One table with two interchangeable contents of its records. *)
EXTENDS Table, TLC

Symmetry == Permutations(Values)
=============================================================================
