------------------------------ MODULE TaskQueue ------------------------------
(***************************************************************************)
(* What an event loop promises to the threads that hand it functors: one   *)
(* queue, functors run one at a time in the order in which they were        *)
(* queued, each exactly once, until the loop closes.                       *)
(*                                                                         *)
(* EventLoop.tla is shown to implement this specification.                 *)
(***************************************************************************)
EXTENDS Naturals, Sequences

CONSTANT Functors      \* every functor that can be queued

VARIABLES
  waiting,             \* queued and not yet called, oldest first
  called,              \* every functor called so far, in the order of the calls
  closed               \* the loop has ended: what waits is never called

qvars == <<waiting, called, closed>>

QInit ==
  /\ waiting = <<>>
  /\ called = <<>>
  /\ closed = FALSE

Submit ==
  /\ \E f \in Functors : waiting' = Append(waiting, f)
  /\ UNCHANGED <<called, closed>>

Call ==
  /\ ~closed
  /\ waiting # <<>>
  /\ called' = Append(called, Head(waiting))
  /\ waiting' = Tail(waiting)
  /\ UNCHANGED closed

Close ==
  /\ closed' = TRUE
  /\ UNCHANGED <<waiting, called>>

QNext == Submit \/ Call \/ Close

(* The loop may not leave a functor waiting for ever unless it closes.     *)
QSpec == QInit /\ [][QNext]_qvars /\ WF_qvars(Call)

(* The safety part alone, for the proof.                                   *)
QSafety == QInit /\ [][QNext]_qvars
=============================================================================
