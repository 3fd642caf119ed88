--------------------------- MODULE EventLoop_proofs ---------------------------
(***************************************************************************)
(* Proofs about EventLoop.tla for any set of calling threads and any bound *)
(* on the functors they make.                                              *)
(***************************************************************************)
EXTENDS EventLoop, SequenceLemmas

-----------------------------------------------------------------------------
(* Type correctness *)

(* Every variable keeps its type under every step of the loop and of the   *)
(* threads that use it.                                                    *)
THEOREM TypeCorrect == Spec => []TypeOK
<1> USE MaxCallsAssumption
<1>1. Init => TypeOK
  <2>1. <<>> \in Seq(Functors)
    BY EmptySeq
  <2>2. 0 \in 0..MaxCalls
    OBVIOUS
  <2>3. Init => /\ pending \in Seq(Functors) /\ batch \in Seq(Functors)
                /\ queued \in Seq(Functors) /\ ran \in Seq(Functors)
    BY <2>1, Zenon DEF Init
  <2>4. Init => looping \in BOOLEAN /\ quit \in BOOLEAN
    BY DEF Init
  <2>5. Init => eventFd \in Nat /\ seen \in Nat
    BY DEF Init
  <2>6. Init => active \subseteq {"eventfd", "io"} /\ loopPc \in LoopPcs
    BY DEF Init, LoopPcs
  <2>7. Init => woken \subseteq Threads \X Nat
    BY DEF Init
  <2>8. Init => /\ callerPc \in [Callers -> CallerPcs]
                /\ made \in [Threads -> 0..MaxCalls]
    BY <2>2 DEF Init, CallerPcs
  <2> QED
    BY <2>3, <2>4, <2>5, <2>6, <2>7, <2>8 DEF TypeOK
<1>2. TypeOK /\ [Next]_vars => TypeOK'
  <2> SUFFICES ASSUME TypeOK, [Next]_vars
               PROVE  TypeOK'
    OBVIOUS
  <2> USE DEF TypeOK, LoopPcs, CallerPcs, history
  <2>1. CASE Enter
    BY <2>1 DEF Enter
  <2>2. CASE ClearQuit
    BY <2>2 DEF ClearQuit
  <2>3. CASE TestLooping
    BY <2>3, LenProperties DEF TestLooping
  <2>4. ASSUME NEW io \in BOOLEAN, PollReturns(io)
        PROVE  TypeOK'
    BY <2>4 DEF PollReturns
  <2>5. CASE PollTimesOut
    BY <2>5 DEF PollTimesOut
  <2>6. CASE HandleReadEventFd
    BY <2>6 DEF HandleReadEventFd
  <2>7. CASE HandleEvent
    BY <2>7 DEF HandleEvent
  <2>8. CASE EventsHandled
    BY <2>8 DEF EventsHandled
  <2>9. CASE SwapFunctors
    BY <2>9, EmptySeq DEF SwapFunctors
  <2>10. CASE CallFunctor
    <3>1. Head(batch) \in Functors /\ Tail(batch) \in Seq(Functors)
      BY <2>10, HeadTailProperties DEF CallFunctor
    <3>2. Append(ran, Head(batch)) \in Seq(Functors)
      BY <3>1, AppendProperties
    <3> QED
      BY <2>10, <3>1, <3>2 DEF CallFunctor
  <2>11. CASE BatchDone
    BY <2>11 DEF BatchDone
  <2>12. CASE RunTimers
    BY <2>12 DEF RunTimers
  <2>13. CASE CallbackReturns
    BY <2>13 DEF CallbackReturns, InCallback
  <2>14. CASE StopInLoop
    BY <2>14 DEF StopInLoop
  <2>15. ASSUME NEW t \in Threads, AppendFunctor(t)
         PROVE  /\ pending' \in Seq(Functors)
                /\ queued' \in Seq(Functors)
                /\ made' \in [Threads -> 0..MaxCalls]
                /\ <<t, made[t] + 1>> \in Functors
    <3>1. made[t] \in 0..MaxCalls /\ made[t] + 1 \in 1..MaxCalls
      BY <2>15 DEF AppendFunctor
    <3>2. <<t, made[t] + 1>> \in Functors
      BY <3>1 DEF Functors
    <3> QED
      BY <2>15, <3>1, <3>2, AppendProperties DEF AppendFunctor
  <2>16. ASSUME NEW t \in Threads, QueueInLoop(t)
         PROVE  TypeOK'
    BY <2>15, <2>16 DEF QueueInLoop
  <2>17. ASSUME NEW c \in Callers, RunInLoopThread(c)
         PROVE  TypeOK'
    BY <2>15, <2>17 DEF RunInLoopThread, Threads
  <2>18. ASSUME NEW c \in Callers, WakeUp(c)
         PROVE  TypeOK'
    BY <2>18 DEF WakeUp, WakeUpValue, Threads
  <2>19. ASSUME NEW c \in Callers, Stop(c)
         PROVE  TypeOK'
    BY <2>19 DEF Stop
  <2>20. ASSUME NEW c \in Callers, SetQuit(c)
         PROVE  TypeOK'
    BY <2>20 DEF SetQuit
  <2>21. CASE UNCHANGED vars
    BY <2>21 DEF vars
  <2> QED
    BY <2>1, <2>2, <2>3, <2>4, <2>5, <2>6, <2>7, <2>8, <2>9, <2>10, <2>11,
       <2>12, <2>13, <2>14, <2>16, <2>17, <2>18, <2>19, <2>20, <2>21
    DEF Next, LoopStep, CallerStep
<1> QED
  BY <1>1, <1>2, PTL DEF Spec

-----------------------------------------------------------------------------
(* Nothing is lost *)

(* Only while loop() runs the functors it swapped out is its vector not    *)
(* empty: without this the swap could drop functors.                       *)
Drained == loopPc \notin {"run", "functor"} => batch = <<>>

QueueInv == Drained /\ NothingLost

(* Where in its pass the loop must have called all that was queued before  *)
(* the pass's Poll.                                                        *)
SeenInv ==
  /\ seen <= Len(ran) + Len(batch) + Len(pending)
  /\ loopPc \in {"run", "functor"} => seen <= Len(ran) + Len(batch)
  /\ loopPc \notin {"poll", "events", "io", "swap", "run", "functor"}
       => seen <= Len(ran)

(* What one append to _pendingFunctors does to the histories.              *)
LEMMA AppendKeepsQueue ==
  ASSUME TypeOK, NothingLost, NEW t \in Threads, AppendFunctor(t),
         UNCHANGED <<ran, batch>>
  PROVE  NothingLost'
<1> DEFINE f == <<t, made[t] + 1>>
<1>1. f \in Functors
  <2>1. made[t] + 1 \in 1..MaxCalls
    BY MaxCallsAssumption DEF TypeOK, AppendFunctor
  <2> QED
    BY <2>1 DEF Functors
<1>2. queued' = Append(queued, f) /\ pending' = Append(pending, f)
  BY DEF AppendFunctor
<1> HIDE DEF f
<1>3. ran \o batch \in Seq(Functors)
  BY ConcatProperties DEF TypeOK
<1>4. (ran \o batch) \o Append(pending, f) = Append((ran \o batch) \o pending, f)
  <2>1. pending \in Seq(Functors)
    BY DEF TypeOK
  <2> QED
    BY <1>1, <1>3, <2>1, AppendToConcat, SMTT(30)
<1> QED
  BY <1>2, <1>4 DEF NothingLost

(* The inductive invariant behind the theorems below: the batch is empty   *)
(* outside the run of the functors, and no functor is lost.                *)
THEOREM QueueIsKept == Spec => []QueueInv
<1>1. Init => QueueInv
  <2>1. Init => Drained
    BY DEF Init, Drained
  <2>2. <<>> \in Seq(Functors)
    BY EmptySeq
  <2>3. <<>> \o <<>> \o <<>> = <<>>
    BY <2>2, ConcatEmptySeq
  <2>4. Init => NothingLost
    BY <2>3, Zenon DEF Init, NothingLost
  <2> QED
    BY <2>1, <2>4 DEF QueueInv
<1>2. TypeOK /\ QueueInv /\ [Next]_vars => QueueInv'
  <2> SUFFICES ASSUME TypeOK, QueueInv, [Next]_vars
               PROVE  QueueInv'
    OBVIOUS
  <2> USE DEF QueueInv, Drained, history
  <2>0. UNCHANGED <<queued, ran, batch, pending>> => NothingLost'
    BY DEF NothingLost
  <2>1. CASE Enter
    BY <2>0, <2>1 DEF Enter
  <2>2. CASE ClearQuit
    BY <2>0, <2>2 DEF ClearQuit
  <2>3. CASE TestLooping
    BY <2>0, <2>3 DEF TestLooping
  <2>4. ASSUME NEW io \in BOOLEAN, PollReturns(io)
        PROVE  QueueInv'
    BY <2>0, <2>4 DEF PollReturns
  <2>5. CASE PollTimesOut
    BY <2>0, <2>5 DEF PollTimesOut
  <2>6. CASE HandleReadEventFd
    BY <2>0, <2>6 DEF HandleReadEventFd
  <2>7. CASE HandleEvent
    BY <2>0, <2>7 DEF HandleEvent
  <2>8. CASE EventsHandled
    BY <2>0, <2>8 DEF EventsHandled
  <2>9. CASE SwapFunctors
    <3>1. /\ batch = <<>> /\ batch' = pending /\ pending' = <<>>
          /\ UNCHANGED <<queued, ran>> /\ loopPc' = "run"
      BY <2>9 DEF SwapFunctors
    <3>2. /\ ran \o <<>> = ran
          /\ (ran \o pending) \o <<>> = ran \o pending
      BY ConcatProperties, ConcatEmptySeq DEF TypeOK
    <3>3. NothingLost'
      BY <3>1, <3>2, Zenon DEF NothingLost
    <3> QED
      BY <3>1, <3>3
  <2>10. CASE CallFunctor
    <3>1. /\ batch # <<>> /\ ran' = Append(ran, Head(batch))
          /\ batch' = Tail(batch) /\ UNCHANGED <<queued, pending>>
          /\ loopPc' = "functor"
      BY <2>10 DEF CallFunctor
    <3>2. Append(ran, Head(batch)) \o Tail(batch) = ran \o batch
      BY <3>1, MoveHead DEF TypeOK
    <3>3. NothingLost'
      BY <3>1, <3>2, Zenon DEF NothingLost
    <3> QED
      BY <3>1, <3>3
  <2>11. CASE BatchDone
    BY <2>0, <2>11 DEF BatchDone
  <2>12. CASE RunTimers
    BY <2>0, <2>12 DEF RunTimers
  <2>13. CASE CallbackReturns
    BY <2>0, <2>13 DEF CallbackReturns, InCallback
  <2>14. CASE StopInLoop
    BY <2>0, <2>14 DEF StopInLoop
  <2>15. ASSUME NEW t \in Threads, QueueInLoop(t)
         PROVE  QueueInv'
    BY <2>15, AppendKeepsQueue DEF QueueInLoop
  <2>16. ASSUME NEW c \in Callers, RunInLoopThread(c)
         PROVE  QueueInv'
    BY <2>16, AppendKeepsQueue DEF RunInLoopThread, Threads
  <2>17. ASSUME NEW c \in Callers, WakeUp(c)
         PROVE  QueueInv'
    BY <2>0, <2>17 DEF WakeUp
  <2>18. ASSUME NEW c \in Callers, Stop(c)
         PROVE  QueueInv'
    BY <2>0, <2>18 DEF Stop
  <2>19. ASSUME NEW c \in Callers, SetQuit(c)
         PROVE  QueueInv'
    BY <2>0, <2>19 DEF SetQuit
  <2>20. CASE UNCHANGED vars
    BY <2>0, <2>20 DEF vars
  <2> QED
    BY <2>1, <2>2, <2>3, <2>4, <2>5, <2>6, <2>7, <2>8, <2>9, <2>10, <2>11,
       <2>12, <2>13, <2>14, <2>15, <2>16, <2>17, <2>18, <2>19, <2>20
    DEF Next, LoopStep, CallerStep
<1> QED
  BY <1>1, <1>2, TypeCorrect, PTL DEF Spec

(* The functors queued are those called, then those in the batch, then     *)
(* those in _pendingFunctors, in every reachable state.                    *)
THEOREM NothingIsLost == Spec => []NothingLost
<1>1. QueueInv => NothingLost
  BY DEF QueueInv
<1> QED
  BY <1>1, QueueIsKept, PTL

-----------------------------------------------------------------------------
(* One pass is enough *)

LEMMA Lengths ==
  ASSUME TypeOK
  PROVE  /\ Len(ran) \in Nat /\ Len(batch) \in Nat /\ Len(pending) \in Nat
         /\ seen \in Nat
         /\ NothingLost => Len(queued) = Len(ran) + Len(batch) + Len(pending)
<1>1. /\ ran \o batch \in Seq(Functors)
      /\ Len(ran \o batch) = Len(ran) + Len(batch)
  BY ConcatProperties DEF TypeOK
<1>2. Len((ran \o batch) \o pending) = Len(ran \o batch) + Len(pending)
  BY <1>1, ConcatProperties DEF TypeOK
<1>3. Len(ran) \in Nat /\ Len(batch) \in Nat /\ Len(pending) \in Nat
  BY LenProperties DEF TypeOK
<1> QED
  BY <1>1, <1>2, <1>3 DEF TypeOK, NothingLost

(* When loop() comes back to its test, even for the last time, it has      *)
(* called every functor queued before the pass's Poll.                     *)
THEOREM OnePassIsEnough == Spec => []OnePass
<1>1. Init => SeenInv
  <2>1. Len(<<>>) = 0
    BY EmptySeq
  <2> QED
    BY <2>1 DEF Init, SeenInv
<1>2. TypeOK /\ QueueInv /\ SeenInv /\ [Next]_vars => SeenInv'
  <2> SUFFICES ASSUME TypeOK, QueueInv, SeenInv, [Next]_vars
               PROVE  SeenInv'
    OBVIOUS
  <2> USE DEF SeenInv, history
  <2>0. /\ Len(ran) \in Nat /\ Len(batch) \in Nat /\ Len(pending) \in Nat
        /\ seen \in Nat /\ Len(queued) = Len(ran) + Len(batch) + Len(pending)
    BY Lengths DEF QueueInv
  <2>1. CASE Enter
    BY <2>0, <2>1 DEF Enter
  <2>2. CASE ClearQuit
    BY <2>0, <2>2 DEF ClearQuit
  <2>3. CASE TestLooping
    BY <2>0, <2>3 DEF TestLooping
  <2>4. ASSUME NEW io \in BOOLEAN, PollReturns(io)
        PROVE  SeenInv'
    BY <2>0, <2>4 DEF PollReturns
  <2>5. CASE PollTimesOut
    BY <2>0, <2>5 DEF PollTimesOut
  <2>6. CASE HandleReadEventFd
    BY <2>0, <2>6 DEF HandleReadEventFd
  <2>7. CASE HandleEvent
    BY <2>0, <2>7 DEF HandleEvent
  <2>8. CASE EventsHandled
    BY <2>0, <2>8 DEF EventsHandled
  <2>9. CASE SwapFunctors
    <3>1. Len(batch) = 0 /\ Len(<<>>) = 0
      BY <2>9, EmptySeq DEF SwapFunctors, QueueInv, Drained
    <3> QED
      BY <2>0, <2>9, <3>1 DEF SwapFunctors
  <2>10. CASE CallFunctor
    <3>1. /\ Len(Append(ran, Head(batch))) = Len(ran) + 1
          /\ Len(Tail(batch)) = Len(batch) - 1
      BY <2>10, HeadTailProperties, AppendProperties DEF TypeOK, CallFunctor
    <3> QED
      BY <2>0, <2>10, <3>1 DEF CallFunctor
  <2>11. CASE BatchDone
    <3>1. Len(batch) = 0
      BY <2>11, EmptySeq DEF BatchDone
    <3> QED
      BY <2>0, <2>11, <3>1 DEF BatchDone
  <2>12. CASE RunTimers
    BY <2>0, <2>12 DEF RunTimers
  <2>13. CASE CallbackReturns
    BY <2>0, <2>13 DEF CallbackReturns, InCallback
  <2>14. CASE StopInLoop
    BY <2>0, <2>14 DEF StopInLoop
  <2>15. ASSUME NEW t \in Threads, AppendFunctor(t)
         PROVE  Len(pending') = Len(pending) + 1
    <3>1. <<t, made[t] + 1>> \in Functors
      BY <2>15, MaxCallsAssumption DEF AppendFunctor, TypeOK, Functors
    <3> QED
      BY <2>15, <3>1, AppendProperties DEF AppendFunctor, TypeOK
  <2>16. ASSUME NEW t \in Threads, QueueInLoop(t)
         PROVE  SeenInv'
    BY <2>0, <2>15, <2>16 DEF QueueInLoop
  <2>17. ASSUME NEW c \in Callers, RunInLoopThread(c)
         PROVE  SeenInv'
    BY <2>0, <2>15, <2>17 DEF RunInLoopThread, Threads
  <2>18. ASSUME NEW c \in Callers, WakeUp(c)
         PROVE  SeenInv'
    BY <2>0, <2>18 DEF WakeUp
  <2>19. ASSUME NEW c \in Callers, Stop(c)
         PROVE  SeenInv'
    BY <2>0, <2>19 DEF Stop
  <2>20. ASSUME NEW c \in Callers, SetQuit(c)
         PROVE  SeenInv'
    BY <2>0, <2>20 DEF SetQuit
  <2>21. CASE UNCHANGED vars
    BY <2>0, <2>21 DEF vars
  <2> QED
    BY <2>1, <2>2, <2>3, <2>4, <2>5, <2>6, <2>7, <2>8, <2>9, <2>10, <2>11,
       <2>12, <2>13, <2>14, <2>16, <2>17, <2>18, <2>19, <2>20, <2>21
    DEF Next, LoopStep, CallerStep
<1>3. SeenInv => OnePass
  BY DEF SeenInv, OnePass
<1> QED
  BY <1>1, <1>2, <1>3, TypeCorrect, QueueIsKept, PTL DEF Spec

-----------------------------------------------------------------------------
(* The loop implements the abstract queue *)

LEMMA SubmitIsASubmit ==
  ASSUME TypeOK, NEW t \in Threads, AppendFunctor(t),
         UNCHANGED <<ran, batch, loopPc>>
  PROVE  Queue!Submit
<1> DEFINE f == <<t, made[t] + 1>>
<1>1. f \in Functors
  BY MaxCallsAssumption DEF AppendFunctor, TypeOK, Functors
<1>2. pending' = Append(pending, f)
  BY DEF AppendFunctor
<1> HIDE DEF f
<1>3. batch \o Append(pending, f) = Append(batch \o pending, f)
  BY <1>1, AppendToConcat DEF TypeOK
<1>4. (batch \o pending)' = Append(batch \o pending, f)
  BY <1>2, <1>3
<1> QED
  BY <1>1, <1>4 DEF Queue!Submit

(* Every step of the loop and of its users is a step of the abstract queue *)
(* or leaves it alone: the safety part of ImplementsTaskQueue.             *)
THEOREM ImplementsQueue == Spec => Queue!QSafety
<1>1. Init => Queue!QInit
  <2>1. <<>> \o <<>> = <<>>
    BY EmptySeq, ConcatEmptySeq
  <2> QED
    BY <2>1, Zenon DEF Init, Queue!QInit
<1>2. TypeOK /\ QueueInv /\ [Next]_vars => [Queue!QNext]_(Queue!qvars)
  <2> SUFFICES ASSUME TypeOK, QueueInv, [Next]_vars
               PROVE  [Queue!QNext]_(Queue!qvars)
    OBVIOUS
  <2> USE DEF history
  <2>0. ASSUME UNCHANGED <<batch, pending, ran>>
        PROVE  /\ UNCHANGED loopPc => UNCHANGED Queue!qvars
               /\ loopPc # "end" /\ loopPc' # "end" => UNCHANGED Queue!qvars
               /\ loopPc' = "end" => Queue!Close
    BY <2>0 DEF Queue!qvars, Queue!Close
  <2>1. CASE Enter
    BY <2>0, <2>1 DEF Enter, Queue!QNext
  <2>2. CASE ClearQuit
    BY <2>0, <2>2 DEF ClearQuit
  <2>3. CASE TestLooping
    BY <2>0, <2>3 DEF TestLooping, Queue!QNext
  <2>4. ASSUME NEW io \in BOOLEAN, PollReturns(io)
        PROVE  UNCHANGED Queue!qvars
    BY <2>0, <2>4 DEF PollReturns
  <2>5. CASE PollTimesOut
    BY <2>0, <2>5 DEF PollTimesOut
  <2>6. CASE HandleReadEventFd
    BY <2>0, <2>6 DEF HandleReadEventFd
  <2>7. CASE HandleEvent
    BY <2>0, <2>7 DEF HandleEvent
  <2>8. CASE EventsHandled
    BY <2>0, <2>8 DEF EventsHandled
  <2>9. CASE SwapFunctors
    <3>1. /\ batch = <<>> /\ batch' = pending /\ pending' = <<>>
          /\ UNCHANGED ran /\ loopPc = "swap" /\ loopPc' = "run"
      BY <2>9 DEF SwapFunctors, QueueInv, Drained
    <3>2. pending \o <<>> = <<>> \o pending
      BY ConcatEmptySeq DEF TypeOK
    <3>3. UNCHANGED (batch \o pending)
      BY <3>1, <3>2, Zenon
    <3> QED
      BY <3>1, <3>3 DEF Queue!qvars
  <2>10. CASE CallFunctor
    <3>1. /\ batch # <<>> /\ ran' = Append(ran, Head(batch))
          /\ batch' = Tail(batch) /\ UNCHANGED pending
          /\ loopPc = "run" /\ loopPc' = "functor"
      BY <2>10 DEF CallFunctor
    <3>2. /\ batch \o pending # <<>>
          /\ Head(batch \o pending) = Head(batch)
          /\ Tail(batch \o pending) = Tail(batch) \o pending
      BY <3>1, HeadTailConcat DEF TypeOK
    <3>3. (batch \o pending)' = Tail(batch \o pending)
      BY <3>1, <3>2
    <3> QED
      BY <3>1, <3>2, <3>3 DEF Queue!QNext, Queue!Call
  <2>11. CASE BatchDone
    BY <2>0, <2>11 DEF BatchDone
  <2>12. CASE RunTimers
    BY <2>0, <2>12 DEF RunTimers
  <2>13. CASE CallbackReturns
    BY <2>0, <2>13 DEF CallbackReturns, InCallback
  <2>14. CASE StopInLoop
    BY <2>0, <2>14 DEF StopInLoop
  <2>15. ASSUME NEW t \in Threads, QueueInLoop(t)
         PROVE  Queue!Submit
    BY <2>15, SubmitIsASubmit DEF QueueInLoop
  <2>16. ASSUME NEW c \in Callers, RunInLoopThread(c)
         PROVE  Queue!Submit
    BY <2>16, SubmitIsASubmit DEF RunInLoopThread, Threads
  <2>17. ASSUME NEW c \in Callers, WakeUp(c)
         PROVE  UNCHANGED Queue!qvars
    BY <2>0, <2>17 DEF WakeUp
  <2>18. ASSUME NEW c \in Callers, Stop(c)
         PROVE  UNCHANGED Queue!qvars
    BY <2>0, <2>18 DEF Stop
  <2>19. ASSUME NEW c \in Callers, SetQuit(c)
         PROVE  UNCHANGED Queue!qvars
    BY <2>0, <2>19 DEF SetQuit
  <2>20. CASE UNCHANGED vars
    BY <2>0, <2>20 DEF vars
  <2> QED
    BY <2>1, <2>2, <2>3, <2>4, <2>5, <2>6, <2>7, <2>8, <2>9, <2>10, <2>11,
       <2>12, <2>13, <2>14, <2>15, <2>16, <2>17, <2>18, <2>19, <2>20
    DEF Next, LoopStep, CallerStep, Queue!QNext
<1> QED
  BY <1>1, <1>2, TypeCorrect, QueueIsKept, PTL DEF Spec, Queue!QSafety

-----------------------------------------------------------------------------
(* The order of the calls *)

(* What one thread has queued carries increasing numbers, none beyond what *)
(* the thread has made.                                                    *)
QueuedInOrder ==
  /\ \A i, j \in DOMAIN queued :
       i < j /\ queued[i][1] = queued[j][1] => queued[i][2] < queued[j][2]
  /\ \A i \in DOMAIN queued : queued[i][2] <= made[queued[i][1]]

LEMMA AppendKeepsOrder ==
  ASSUME TypeOK, QueuedInOrder, NEW t \in Threads, AppendFunctor(t)
  PROVE  QueuedInOrder'
<1> DEFINE f == <<t, made[t] + 1>>
           n == Len(queued)
<1>1. /\ f \in Functors /\ n \in Nat /\ DOMAIN queued = 1..n
      /\ made \in [Threads -> 0..MaxCalls]
      /\ \A i \in 1..n : queued[i] \in Functors
  <2>1. f \in Functors
    BY MaxCallsAssumption DEF AppendFunctor, TypeOK, Functors
  <2>2. queued \in Seq(Functors) /\ made \in [Threads -> 0..MaxCalls]
    BY DEF TypeOK
  <2> QED
    BY <2>1, <2>2, LenProperties, ElementOfSeq
<1>2. \A i \in 1..n : /\ queued[i][1] \in Threads
                      /\ queued[i][2] \in 1..MaxCalls
                      /\ made[queued[i][1]] \in 0..MaxCalls
  BY <1>1 DEF Functors
<1>3. queued' = Append(queued, f) /\ made' = [made EXCEPT ![t] = @ + 1]
  BY DEF AppendFunctor
<1>4. /\ DOMAIN queued' = 1..(n + 1)
      /\ \A i \in 1..n : queued'[i] = queued[i]
      /\ queued'[n + 1] = f
  BY <1>1, <1>3, AppendProperties, LenProperties DEF TypeOK
<1>5. f[1] = t /\ f[2] = made[t] + 1
  OBVIOUS
<1>6. \A u \in Threads : /\ made'[u] \in Nat /\ made[u] \in Nat
                         /\ made[u] <= made'[u]
                         /\ u = t => made'[u] = made[t] + 1
  BY <1>1, <1>3, MaxCallsAssumption
<1> HIDE DEF f, n
<1>7. ASSUME NEW i \in 1..(n + 1), NEW j \in 1..(n + 1), i < j,
             queued'[i][1] = queued'[j][1]
      PROVE  queued'[i][2] < queued'[j][2]
  <2>1. i \in 1..n
    BY <1>1, <1>7
  <2>2. CASE j \in 1..n
    BY <1>1, <1>4, <1>7, <2>1, <2>2 DEF QueuedInOrder
  <2>3. CASE j = n + 1
    <3>1. queued[i][1] = t /\ queued[i][2] <= made[t]
      BY <1>1, <1>4, <1>5, <1>7, <2>1, <2>3 DEF QueuedInOrder
    <3>2. made[t] < made[t] + 1 /\ queued[i][2] \in Int /\ made[t] \in Int
      BY <1>2, <1>6, <2>1
    <3>3. queued[i][2] < made[t] + 1
      BY <3>1, <3>2
    <3> QED
      BY <1>4, <1>5, <2>1, <2>3, <3>3
  <2> QED
    BY <1>1, <2>2, <2>3
<1>8. ASSUME NEW i \in 1..(n + 1)
      PROVE  queued'[i][2] <= made'[queued'[i][1]]
  <2>1. CASE i \in 1..n
    <3>1. queued[i][2] <= made[queued[i][1]]
      BY <1>1, <2>1 DEF QueuedInOrder
    <3>2. made[queued[i][1]] <= made'[queued[i][1]]
      BY <1>2, <1>6, <2>1
    <3> QED
      BY <1>2, <1>4, <1>6, <2>1, <3>1, <3>2
  <2>2. CASE i = n + 1
    BY <1>4, <1>5, <1>6, <2>2
  <2> QED
    BY <1>1, <2>1, <2>2
<1> QED
  BY <1>4, <1>7, <1>8 DEF QueuedInOrder

(* The functors of one thread are called in the order it made them, each   *)
(* at most once.                                                           *)
THEOREM CallsAreInOrder == Spec => []CallOrder
<1>1. Init => QueuedInOrder
  <2>1. DOMAIN <<>> = {}
    BY EmptySeq
  <2> QED
    BY <2>1 DEF Init, QueuedInOrder
<1>2. TypeOK /\ QueuedInOrder /\ [Next]_vars => QueuedInOrder'
  <2> SUFFICES ASSUME TypeOK, QueuedInOrder, [Next]_vars
               PROVE  QueuedInOrder'
    OBVIOUS
  <2>1. UNCHANGED <<queued, made>> => QueuedInOrder'
    BY DEF QueuedInOrder
  <2>2. CASE LoopStep
    BY <2>1, <2>2
    DEF LoopStep, Enter, ClearQuit, TestLooping, PollReturns, PollTimesOut,
        HandleReadEventFd, HandleEvent, EventsHandled, SwapFunctors,
        CallFunctor, BatchDone, RunTimers, CallbackReturns, history
  <2>3. CASE StopInLoop
    BY <2>1, <2>3 DEF StopInLoop, history
  <2>4. ASSUME NEW t \in Threads, QueueInLoop(t)
        PROVE  QueuedInOrder'
    BY <2>4, AppendKeepsOrder DEF QueueInLoop
  <2>5. ASSUME NEW c \in Callers, CallerStep(c)
        PROVE  QueuedInOrder'
    <3>1. CASE RunInLoopThread(c)
      BY <3>1, AppendKeepsOrder DEF RunInLoopThread, Threads
    <3>2. CASE WakeUp(c) \/ Stop(c) \/ SetQuit(c)
      BY <2>1, <3>2 DEF WakeUp, Stop, SetQuit, history
    <3> QED
      BY <2>5, <3>1, <3>2 DEF CallerStep
  <2>6. CASE UNCHANGED vars
    BY <2>1, <2>6 DEF vars
  <2> QED
    BY <2>2, <2>3, <2>4, <2>5, <2>6 DEF Next
<1>3. TypeOK /\ NothingLost /\ QueuedInOrder => CallOrder
  <2> SUFFICES ASSUME TypeOK, NothingLost, QueuedInOrder,
                      NEW i \in DOMAIN ran, NEW j \in DOMAIN ran,
                      i < j, ran[i][1] = ran[j][1]
               PROVE  ran[i][2] < ran[j][2]
    BY DEF CallOrder
  <2> DEFINE rest == batch \o pending
  <2>1. queued = ran \o rest /\ rest \in Seq(Functors)
    <3>1. /\ ran \in Seq(Functors) /\ batch \in Seq(Functors)
          /\ pending \in Seq(Functors)
      BY DEF TypeOK
    <3>2. (ran \o batch) \o pending = ran \o (batch \o pending)
      BY <3>1, ConcatAssociative, SMTT(30)
    <3>3. batch \o pending \in Seq(Functors)
      BY <3>1, ConcatProperties
    <3> QED
      BY <3>2, <3>3 DEF NothingLost
  <2> HIDE DEF rest
  <2>2. /\ Len(ran) \in Nat /\ Len(rest) \in Nat
        /\ DOMAIN ran = 1..Len(ran)
        /\ DOMAIN queued = 1..(Len(ran) + Len(rest))
        /\ \A k \in 1..(Len(ran) + Len(rest)) :
             queued[k] = IF k <= Len(ran) THEN ran[k] ELSE rest[k - Len(ran)]
    BY <2>1, ConcatProperties, LenProperties DEF TypeOK
  <2>3. ASSUME NEW k \in DOMAIN ran
        PROVE  k \in DOMAIN queued /\ queued[k] = ran[k]
    BY <2>2
  <2> QED
    BY <2>3 DEF QueuedInOrder
<1> QED
  BY <1>1, <1>2, <1>3, TypeCorrect, NothingIsLost, PTL DEF Spec
=============================================================================
