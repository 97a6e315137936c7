------------------------------ MODULE MCEvents ------------------------------
(* Two administrators, who may delete each other's events. *)
EXTENDS Events, TLC

Symmetry == Permutations(Clients)
=============================================================================
