------------------------------- MODULE MCWal -------------------------------
(* The write-ahead log with a few records and bounded faults. *)
EXTENDS Wal
=============================================================================
