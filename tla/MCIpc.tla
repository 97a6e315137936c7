------------------------------- MODULE MCIpc -------------------------------
(* Two workers, a queue of two notifications and a pipe of one and a half lines. *)
EXTENDS Ipc
=============================================================================
