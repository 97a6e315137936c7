---- MODULE MCSessions ----
(* Instances of Sessions for TLC. *)
EXTENDS Sessions, TLC

Symmetry == Permutations(Conns) \cup Permutations(Fds) \cup Permutations(Names \ {AdminName})
====
