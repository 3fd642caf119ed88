-------------------------------- MODULE Erase --------------------------------
(***************************************************************************)
(* What the loops of erase() in net/TimerQueue.cc and net/PollPoller.cc    *)
(* leave of a vector.                                                      *)
(***************************************************************************)
EXTENDS Naturals, Sequences, FiniteSets

(* The k-th smallest member of a finite set of numbers.                    *)
Nth(I, k) == CHOOSE i \in I : Cardinality({j \in I : j <= i}) = k

(* The elements of s that are not in S, in their order.  This is SelectSeq *)
(* with a condition, defined by counting places instead of by recursion so *)
(* that the proofs can unfold it.                                          *)
Without(s, S) ==
  LET places == {i \in DOMAIN s : s[i] \notin S}
  IN  [k \in 1..Cardinality(places) |-> s[Nth(places, k)]]
=============================================================================
