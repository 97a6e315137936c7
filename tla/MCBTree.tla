------------------------------ MODULE MCBTree ------------------------------
(* The B+ tree on small sets of keys. *)
EXTENDS BTree
=============================================================================
