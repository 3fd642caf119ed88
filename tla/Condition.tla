----------------------------- MODULE Condition -----------------------------
(***************************************************************************)
(* base/Condition.cc on base/Mutex.cc: a pthread condition variable with a *)
(* mutex of its own, which no caller of Wait locks first and no caller     *)
(* unlocks afterwards.  As built with glibc, the unlock inside             *)
(* pthread_cond_wait frees that mutex whoever has it, and the return from  *)
(* the wait locks it: it stays locked until the next Wait of any thread.   *)
(***************************************************************************)
EXTENDS Naturals

ConditionType(Threads) ==
  [held : BOOLEAN,               \* the mutex is locked
   waiting : SUBSET Threads,     \* in Wait, not woken
   signalled : SUBSET Threads]   \* woken, not yet returned from Wait

NewCondition == [held |-> FALSE, waiting |-> {}, signalled |-> {}]

(* Mutant: the wait does not free the mutex.                               *)
WaitLocked(c, t) == [c EXCEPT !.waiting = @ \cup {t}]

(* Wait frees the mutex and sleeps.                                        *)
Wait(c, t) == [c EXCEPT !.held = FALSE, !.waiting = @ \cup {t}]

(* Wait returns once the thread is woken and the mutex is free.            *)
MayReturn(c, t) == t \in c.signalled /\ ~c.held
Returned(c, t) == [c EXCEPT !.held = TRUE, !.signalled = @ \ {t}]

(* Woken wakes the waiters in T: one of them or none for Signal, all for   *)
(* Broadcast.  A signal nobody waits for is forgotten.                     *)
Woken(c, T) ==
  [c EXCEPT !.waiting = @ \ T, !.signalled = @ \cup (c.waiting \cap T)]
SignalTargets(c) ==
  IF c.waiting = {} THEN {{}} ELSE {{t} : t \in c.waiting}
Broadcast(c) == Woken(c, c.waiting)
=============================================================================
