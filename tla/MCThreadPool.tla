--------------------------- MODULE MCThreadPool ---------------------------
(* Model values and bounds are in the .cfg.                                *)
EXTENDS ThreadPool
=============================================================================
