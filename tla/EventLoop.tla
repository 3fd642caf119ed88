------------------------------ MODULE EventLoop ------------------------------
(***************************************************************************)
(* net/EventLoop.cc: one thread runs loop(); any thread hands it functors  *)
(* with QueueInLoop or RunInLoopThread and ends it with stop().            *)
(*                                                                         *)
(* A functor is <<t, n>>, the n-th one thread t makes.  The mutex of       *)
(* _pendingFunctors makes the append of QueueInLoop and the swap of loop() *)
(* one step each.  Every other shared access is a step of its own: the     *)
(* two stores of stop(), the two stores at the start of loop(), and the    *)
(* append and the write to the eventfd of RunInLoopThread.                 *)
(***************************************************************************)
EXTENDS Naturals, Sequences, FiniteSets

CONSTANTS
  Callers,     \* the threads other than the loop's that use the loop
  LoopThread,  \* the thread that constructed the loop and runs loop()
  MaxCalls     \* how many functors each thread makes (a bound of the model)

ASSUME CallersAssumption == LoopThread \notin Callers
ASSUME MaxCallsAssumption == MaxCalls \in Nat

Threads == Callers \cup {LoopThread}
Functors == Threads \X (1..MaxCalls)

VARIABLES
  looping,     \* _looping
  quit,        \* _quit (written, never read by the code)
  eventFd,     \* the kernel's counter behind _eventFd
  pending,     \* _pendingFunctors
  active,      \* _activeChannels still to handle: of "eventfd", "io"
  batch,       \* tmpPendingFunctors, what loop() has swapped out
  loopPc,      \* where the loop thread is
  callerPc,    \* where each other thread is
  made,        \* how many functors each thread has made
  queued,      \* history: every functor queued, in order
  ran,         \* history: every queued functor called, in order
  seen,        \* history: Len(queued) when the last Poll began
  woken        \* history: functors whose RunInLoopThread has returned

history == <<made, queued, ran, seen, woken>>
vars == <<looping, quit, eventFd, pending, active, batch, loopPc, callerPc,
          made, queued, ran, seen, woken>>

LoopPcs == {"start", "started", "test", "poll", "events", "io", "swap", "run",
            "functor", "timers", "timer", "end"}
CallerPcs == {"idle", "wake", "stop"}

(* A channel's, a functor's or a timer's callback is running in the loop.  *)
InCallback == loopPc \in {"io", "functor", "timer"}

TypeOK ==
  /\ looping \in BOOLEAN
  /\ quit \in BOOLEAN
  /\ eventFd \in Nat
  /\ pending \in Seq(Functors)
  /\ active \subseteq {"eventfd", "io"}
  /\ batch \in Seq(Functors)
  /\ loopPc \in LoopPcs
  /\ callerPc \in [Callers -> CallerPcs]
  /\ made \in [Threads -> 0..MaxCalls]
  /\ queued \in Seq(Functors)
  /\ ran \in Seq(Functors)
  /\ seen \in Nat
  /\ woken \subseteq Threads \X Nat

(* The constructor: the eventfd starts at 1, its channel is registered.    *)
Init ==
  /\ looping = FALSE
  /\ quit = FALSE
  /\ eventFd = 1
  /\ pending = <<>>
  /\ active = {}
  /\ batch = <<>>
  /\ loopPc = "start"
  /\ callerPc = [c \in Callers |-> "idle"]
  /\ made = [t \in Threads |-> 0]
  /\ queued = <<>>
  /\ ran = <<>>
  /\ seen = 0
  /\ woken = {}

-----------------------------------------------------------------------------
(* The loop thread *)

(* loop(): returns at once when _looping is already set.                   *)
Enter ==
  /\ loopPc = "start"
  /\ loopPc' = IF looping THEN "end" ELSE "started"
  /\ looping' = TRUE
  /\ UNCHANGED <<quit, eventFd, pending, active, batch, callerPc, history>>

ClearQuit ==
  /\ loopPc = "started"
  /\ quit' = FALSE
  /\ loopPc' = "test"
  /\ UNCHANGED <<looping, eventFd, pending, active, batch, callerPc, history>>

(* Mutant: while (!_quit).                                                 *)
TestQuit ==
  /\ loopPc = "test"
  /\ loopPc' = IF quit THEN "end" ELSE "poll"
  /\ seen' = IF quit THEN seen ELSE Len(queued)
  /\ UNCHANGED <<looping, quit, eventFd, pending, active, batch, callerPc,
                 made, queued, ran, woken>>

(* while (_looping) *)
TestLooping ==
  /\ loopPc = "test"
  /\ loopPc' = IF looping THEN "poll" ELSE "end"
  /\ seen' = IF looping THEN Len(queued) ELSE seen
  /\ UNCHANGED <<looping, quit, eventFd, pending, active, batch, callerPc,
                 made, queued, ran, woken>>

(* Poll returns with the eventfd's channel active iff its counter is not   *)
(* zero, and with another channel active whenever the outside says so.     *)
PollReturns(io) ==
  /\ loopPc = "poll"
  /\ eventFd > 0 \/ io
  /\ active' = {ch \in {"eventfd", "io"} :
                  \/ ch = "eventfd" /\ eventFd > 0
                  \/ ch = "io" /\ io}
  /\ loopPc' = "events"
  /\ UNCHANGED <<looping, quit, eventFd, pending, batch, callerPc, history>>

(* Mutant: Poll has no timeout.                                            *)
PollWaitsForEvents == FALSE /\ UNCHANGED vars

(* ... or with no channel, when kPollTimeoutMs have passed.                *)
PollTimesOut ==
  /\ loopPc = "poll"
  /\ eventFd = 0
  /\ active' = {}
  /\ loopPc' = "events"
  /\ UNCHANGED <<looping, quit, eventFd, pending, batch, callerPc, history>>

(* HandleReadEventFd: read() resets the counter.                           *)
HandleReadEventFd ==
  /\ loopPc = "events"
  /\ "eventfd" \in active
  /\ active' = active \ {"eventfd"}
  /\ eventFd' = 0
  /\ UNCHANGED <<looping, quit, pending, batch, loopPc, callerPc, history>>

(* HandleEvent of any other channel calls into the user's code.            *)
HandleEvent ==
  /\ loopPc = "events"
  /\ "io" \in active
  /\ active' = active \ {"io"}
  /\ loopPc' = "io"
  /\ UNCHANGED <<looping, quit, eventFd, pending, batch, callerPc, history>>

EventsHandled ==
  /\ loopPc = "events"
  /\ active = {}
  /\ loopPc' = "swap"
  /\ UNCHANGED <<looping, quit, eventFd, pending, active, batch, callerPc,
                 history>>

(* Mutant: the vector is copied, not swapped.                              *)
CopyFunctors ==
  /\ loopPc = "swap"
  /\ batch' = pending
  /\ loopPc' = "run"
  /\ UNCHANGED <<looping, quit, eventFd, pending, active, callerPc, history>>

(* tmpPendingFunctors.swap(_pendingFunctors), under _mutex.                *)
SwapFunctors ==
  /\ loopPc = "swap"
  /\ batch' = pending
  /\ pending' = <<>>
  /\ loopPc' = "run"
  /\ UNCHANGED <<looping, quit, eventFd, active, callerPc, history>>

(* Mutant: the newest functor of the batch is called first.                *)
CallNewestFunctor ==
  /\ loopPc = "run"
  /\ batch # <<>>
  /\ ran' = Append(ran, batch[Len(batch)])
  /\ batch' = SubSeq(batch, 1, Len(batch) - 1)
  /\ loopPc' = "functor"
  /\ UNCHANGED <<looping, quit, eventFd, pending, active, callerPc, made,
                 queued, seen, woken>>

(* Call the first functor of the batch; nobody else sees the batch, so its *)
(* erase after the call is part of the step.                               *)
CallFunctor ==
  /\ loopPc = "run"
  /\ batch # <<>>
  /\ ran' = Append(ran, Head(batch))
  /\ batch' = Tail(batch)
  /\ loopPc' = "functor"
  /\ UNCHANGED <<looping, quit, eventFd, pending, active, callerPc, made,
                 queued, seen, woken>>

(* Mutant: stop() is obeyed between two functors.                          *)
BatchDoneOrStopped ==
  /\ loopPc = "run"
  /\ batch = <<>> \/ ~looping
  /\ loopPc' = "timers"
  /\ UNCHANGED <<looping, quit, eventFd, pending, active, batch, callerPc,
                 history>>

BatchDone ==
  /\ loopPc = "run"
  /\ batch = <<>>
  /\ loopPc' = "timers"
  /\ UNCHANGED <<looping, quit, eventFd, pending, active, batch, callerPc,
                 history>>

(* _timerQueue.runTimers(): due timers' callbacks run here, or none is due. *)
RunTimers ==
  /\ loopPc = "timers"
  /\ loopPc' \in {"timer", "test"}
  /\ UNCHANGED <<looping, quit, eventFd, pending, active, batch, callerPc,
                 history>>

(* A callback returns to the place in loop() that called it.               *)
CallbackReturns ==
  /\ InCallback
  /\ loopPc' = CASE loopPc = "io" -> "events"
                 [] loopPc = "functor" -> "run"
                 [] loopPc = "timer" -> "test"
  /\ UNCHANGED <<looping, quit, eventFd, pending, active, batch, callerPc,
                 history>>

-----------------------------------------------------------------------------
(* What any thread may call *)

CanCall(t) == IF t = LoopThread THEN InCallback ELSE callerPc[t] = "idle"

(* Mutant: the first functor a thread makes has number 0.                  *)
AppendBeforeCounting(t) ==
  /\ made[t] < MaxCalls
  /\ made' = [made EXCEPT ![t] = @ + 1]
  /\ pending' = Append(pending, <<t, made[t]>>)
  /\ queued' = Append(queued, <<t, made[t]>>)

(* Thread t makes its next functor and appends it to _pendingFunctors.     *)
AppendFunctor(t) ==
  /\ made[t] < MaxCalls
  /\ made' = [made EXCEPT ![t] = @ + 1]
  /\ pending' = Append(pending, <<t, made[t] + 1>>)
  /\ queued' = Append(queued, <<t, made[t] + 1>>)

(* QueueInLoop: append and nothing else.                                   *)
QueueInLoop(t) ==
  /\ CanCall(t)
  /\ AppendFunctor(t)
  /\ UNCHANGED <<looping, quit, eventFd, active, batch, loopPc, callerPc, ran,
                 seen, woken>>

(* RunInLoopThread in another thread: append, then WakeUp.                 *)
RunInLoopThread(c) ==
  /\ CanCall(c)
  /\ AppendFunctor(c)
  /\ callerPc' = [callerPc EXCEPT ![c] = "wake"]
  /\ UNCHANGED <<looping, quit, eventFd, active, batch, loopPc, ran, seen,
                 woken>>

(* WakeUp writes the eight bytes of i, and i is 0: the kernel adds 0.      *)
WakeUpValue == 0

WakeUp(c) ==
  /\ callerPc[c] = "wake"
  /\ eventFd' = eventFd + WakeUpValue
  /\ woken' = woken \cup {<<c, made[c]>>}
  /\ callerPc' = [callerPc EXCEPT ![c] = "idle"]
  /\ UNCHANGED <<looping, quit, pending, active, batch, loopPc, made, queued,
                 ran, seen>>

(* stop() in another thread: two stores, under no lock, and no wake-up.    *)
Stop(c) ==
  /\ CanCall(c)
  /\ looping' = FALSE
  /\ callerPc' = [callerPc EXCEPT ![c] = "stop"]
  /\ UNCHANGED <<quit, eventFd, pending, active, batch, loopPc, history>>

SetQuit(c) ==
  /\ callerPc[c] = "stop"
  /\ quit' = TRUE
  /\ callerPc' = [callerPc EXCEPT ![c] = "idle"]
  /\ UNCHANGED <<looping, eventFd, pending, active, batch, loopPc, history>>

(* stop() in a callback; nothing in the loop reads between the two stores. *)
StopInLoop ==
  /\ InCallback
  /\ looping' = FALSE
  /\ quit' = TRUE
  /\ UNCHANGED <<eventFd, pending, active, batch, loopPc, callerPc, history>>

-----------------------------------------------------------------------------
LoopStep ==
  \/ Enter \/ ClearQuit \/ TestLooping
  \/ \E io \in BOOLEAN : PollReturns(io)
  \/ PollTimesOut
  \/ HandleReadEventFd \/ HandleEvent \/ EventsHandled
  \/ SwapFunctors \/ CallFunctor \/ BatchDone
  \/ RunTimers \/ CallbackReturns

CallerStep(c) == RunInLoopThread(c) \/ WakeUp(c) \/ Stop(c) \/ SetQuit(c)

Next ==
  \/ LoopStep
  \/ StopInLoop
  \/ \E t \in Threads : QueueInLoop(t)
  \/ \E c \in Callers : CallerStep(c)

Spec == Init /\ [][Next]_vars

(* The loop thread keeps running: callbacks return, and Poll returns after *)
(* three seconds at the latest, without waiting for another channel.       *)
(* Nobody is obliged to call anything.                                     *)
LoopStepAlone == LoopStep /\ (loopPc = "poll" => "io" \notin active')
FairSpec == Spec /\ WF_vars(LoopStepAlone)

-----------------------------------------------------------------------------
(* Properties *)

(* No functor is lost, duplicated or reordered between the append of       *)
(* QueueInLoop, the swap and the calls in loop().                          *)
NothingLost == queued = ran \o batch \o pending

(* The functors one thread makes are called in the order it made them,     *)
(* each at most once (QueueInLoop's vector, loop()'s erase from the front). *)
CallOrder ==
  \A i, j \in DOMAIN ran :
    i < j /\ ran[i][1] = ran[j][1] => ran[i][2] < ran[j][2]

(* One pass of loop() is enough: every functor queued before a Poll begins *)
(* has been called when loop() next tests _looping, even if stop() was     *)
(* called during the pass.                                                 *)
OnePass == loopPc \in {"test", "end"} => seen <= Len(ran)

(* Every functor queued is called, though nothing wakes Poll up, unless    *)
(* the loop ends first.                                                    *)
CalledOrEnded ==
  \A f \in Functors :
    (\E i \in DOMAIN queued : queued[i] = f)
      ~> ((\E i \in DOMAIN ran : ran[i] = f) \/ loopPc = "end")

(* A stop() that finds loop() running ends it.  (One that comes before     *)
(* loop() stores TRUE into _looping is forgotten.)                         *)
StopEnds == (~looping /\ loopPc # "start") ~> (loopPc = "end")

(* Poll does not run to its timeout while a functor waits for which        *)
(* RunInLoopThread has returned: that is what WakeUp is for.               *)
WokenInTime ==
  [][PollTimesOut => \A i \in DOMAIN pending : pending[i] \notin woken]_vars

(* The loop is the abstract queue: what waits is the rest of the batch     *)
(* followed by _pendingFunctors.                                           *)
Queue == INSTANCE TaskQueue WITH
           waiting <- batch \o pending,
           called <- ran,
           closed <- (loopPc = "end")

ImplementsTaskQueue == Queue!QSpec
=============================================================================
