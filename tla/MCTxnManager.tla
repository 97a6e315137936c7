---------------------------- MODULE MCTxnManager ----------------------------
(* A small instance of TxnManager: as in the server, where 16 workers have *)
(* 128 slots, no thread wants for a slot as long as slots are given back.  *)
(* Some transactions run into the lock limit, and the ids wrap.            *)
EXTENDS TxnManager
=============================================================================
