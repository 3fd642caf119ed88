----------------------------- MODULE MCTcpOutput -----------------------------
(* TcpOutput with a few short writes for TLC. *)
EXTENDS TcpOutput
=============================================================================
