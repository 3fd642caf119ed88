----------------------------- MODULE Timestamp -----------------------------
(***************************************************************************)
(* base/Timestamp.cc: a timeval, to which milliseconds are added with a    *)
(* carry by hand and which is compared by whole milliseconds.  The         *)
(* milliseconds are at most 2^31 - 1 (the callers pass an int), so that    *)
(* seconds and microseconds fit the uint32_t they are computed in.         *)
(***************************************************************************)
EXTENDS Naturals

MicrosPerSecond == 1000 * 1000

Timeval == [sec : Nat, usec : 0..(MicrosPerSecond - 1)]

GetMilliseconds(t) == t.sec * 1000 + t.usec \div 1000

(* Mutant: the carry is dropped.                                           *)
AddMillisecondsNoCarry(t, i) ==
  [sec |-> t.sec + i \div 1000,
   usec |-> ((i % 1000) * 1000 + t.usec) % MicrosPerSecond]

AddMilliseconds(t, i) ==
  LET uSec == (i % 1000) * 1000 + t.usec
  IN  IF uSec < MicrosPerSecond
      THEN [sec |-> t.sec + i \div 1000, usec |-> uSec]
      ELSE [sec |-> t.sec + i \div 1000 + 1, usec |-> uSec - MicrosPerSecond]

Earlier(t, r) == GetMilliseconds(t) < GetMilliseconds(r)
=============================================================================
