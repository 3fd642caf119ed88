----------------------------- MODULE MCTcpServer -----------------------------
(* TcpServer with a few connections for TLC. *)
EXTENDS TcpServer
=============================================================================
