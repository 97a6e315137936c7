--------------------------- MODULE MCLockManager ---------------------------
(* A small instance of LockManager: the two records share a bucket.        *)
EXTENDS LockManager

CONSTANT b1

MCHash == [r \in Record |-> b1]
=============================================================================
