----------------------------- MODULE MCEventLoop -----------------------------
(* EventLoop with one calling thread for TLC. *)
EXTENDS EventLoop
=============================================================================
