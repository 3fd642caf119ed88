------------------------------ MODULE ByteStream ------------------------------
(***************************************************************************)
(* What the output of a connection promises: the peer is sent the bytes    *)
(* that were written, each once and in order, and all of them unless the   *)
(* connection is broken.                                                   *)
(***************************************************************************)
EXTENDS Naturals, Sequences, SequencesExt

VARIABLES
  written,     \* the bytes written so far
  sent,        \* the bytes handed to the peer so far
  broken       \* the connection is closed or shut down

svars == <<written, sent, broken>>

SInit == written = <<>> /\ sent = <<>> /\ broken = FALSE

(* More is written; some of it may go out at once.                         *)
Write ==
  /\ IsStrictPrefix(written, written')
  /\ IsPrefix(sent, sent')
  /\ IsPrefix(sent', written')
  /\ broken => sent' = sent
  /\ UNCHANGED broken

Send ==
  /\ ~broken
  /\ \E n \in Len(sent) + 1 .. Len(written) : sent' = SubSeq(written, 1, n)
  /\ UNCHANGED <<written, broken>>

Break ==
  /\ ~broken
  /\ broken' = TRUE
  /\ UNCHANGED <<written, sent>>

SNext == Write \/ Send \/ Break

SSafety == SInit /\ [][SNext]_svars

SSpec == SSafety /\ WF_svars(Send)
=============================================================================
