---- MODULE MCTcpServer ----
(* A small instance of TcpServer. *)
EXTENDS TcpServer
====
