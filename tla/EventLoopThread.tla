-------------------------- MODULE EventLoopThread --------------------------
(***************************************************************************)
(* net/EventLoopThread.cc: a thread that makes an EventLoop and runs its   *)
(* loop(), and the owner that starts it, stops it and destroys the object, *)
(* as ~TcpServer does (stop(), then ~EventLoopThread) and as               *)
(* EventLoopThreadPool does (start() in its start(), ~EventLoopThread in   *)
(* its destructor).                                                        *)
(*                                                                         *)
(* Of the loop there is what loop() and stop() do to _looping.  The two    *)
(* threads share _loop, _started and _looping without a lock; each access  *)
(* is a step.  start() is called once.                                     *)
(***************************************************************************)
EXTENDS Naturals, Condition

Owner == "owner"

VARIABLES
  ownerPc,     \* where the owner is
  threadPc,    \* where loopThreadRoutine is
  hasLoop,     \* _loop is not NULL
  started,     \* _started
  ready,       \* _loopReadyCond
  looping,     \* the loop's _looping
  destroying,  \* the owner is in ~EventLoopThread
  joins,       \* how many calls of pthread_join have returned
  missed,      \* history: the broadcast came between test and wait
  stopped      \* history: how stop() found the thread; "skipped": ~started

threadVars == <<ownerPc, threadPc, hasLoop, started, ready, looping,
                destroying, joins, missed, stopped>>
loopVars == <<threadPc, hasLoop, started, looping>>

(* The owner: before start(), at the test of its while, before Wait, in    *)
(* it, between its calls, in pthread_join, after the destructor.           *)
OwnerPcs == {"new", "test", "call wait", "wait", "up", "join", "gone"}

(* The thread: not created, about to store _loop, about to store _started, *)
(* about to broadcast, about to enter loop(), in it, ended.                *)
ThreadPcs ==
  {"none", "store loop", "store started", "broadcast", "enter", "loop", "ended"}

ThreadTypeOK ==
  /\ ownerPc \in OwnerPcs
  /\ threadPc \in ThreadPcs
  /\ hasLoop \in BOOLEAN
  /\ started \in BOOLEAN
  /\ ready \in ConditionType({Owner})
  /\ looping \in BOOLEAN
  /\ destroying \in BOOLEAN
  /\ joins \in Nat
  /\ missed \in BOOLEAN
  /\ stopped \in {"no", "early", "running", "skipped"}

ThreadInit ==
  /\ ownerPc = "new"
  /\ threadPc = "none"
  /\ hasLoop = FALSE
  /\ started = FALSE
  /\ ready = NewCondition
  /\ looping = FALSE
  /\ destroying = FALSE
  /\ joins = 0
  /\ missed = FALSE
  /\ stopped = "no"

OwnerGoes(from, to) == ownerPc = from /\ ownerPc' = to

-----------------------------------------------------------------------------
(* start() *)

CreateThread ==
  /\ OwnerGoes("new", "test")
  /\ threadPc' = "store loop"
  /\ UNCHANGED <<hasLoop, started, ready, looping, destroying, joins, missed,
                 stopped>>

CreateFails ==
  /\ OwnerGoes("new", "up")
  /\ UNCHANGED <<loopVars, ready, destroying, joins, missed, stopped>>

TestLoop ==
  /\ OwnerGoes("test", IF hasLoop THEN "up" ELSE "call wait")
  /\ UNCHANGED <<loopVars, ready, destroying, joins, missed, stopped>>

CallWait ==
  /\ OwnerGoes("call wait", "wait")
  /\ ready' = Wait(ready, Owner)
  /\ UNCHANGED <<loopVars, destroying, joins, missed, stopped>>

WaitEnds ==
  /\ OwnerGoes("wait", "test")
  /\ MayReturn(ready, Owner)
  /\ ready' = Returned(ready, Owner)
  /\ UNCHANGED <<loopVars, destroying, joins, missed, stopped>>

WakesSpuriously ==
  /\ Owner \in ready.waiting
  /\ ready' = Woken(ready, {Owner})
  /\ UNCHANGED <<ownerPc, loopVars, destroying, joins, missed, stopped>>

-----------------------------------------------------------------------------
(* loopThreadRoutine() *)

StoreLoop ==
  /\ threadPc = "store loop"
  /\ threadPc' = "store started"
  /\ hasLoop' = TRUE
  /\ UNCHANGED <<ownerPc, started, ready, looping, destroying, joins, missed,
                 stopped>>

StoreStarted ==
  /\ threadPc = "store started"
  /\ threadPc' = "broadcast"
  /\ started' = TRUE
  /\ UNCHANGED <<ownerPc, hasLoop, ready, looping, destroying, joins, missed,
                 stopped>>

(* Mutant: nobody is woken.                                                *)
NoBroadcast ==
  /\ threadPc = "broadcast"
  /\ threadPc' = "enter"
  /\ missed' = (ownerPc = "call wait")
  /\ UNCHANGED <<ownerPc, hasLoop, started, ready, looping, destroying, joins,
                 stopped>>

BroadcastReady ==
  /\ threadPc = "broadcast"
  /\ threadPc' = "enter"
  /\ ready' = Broadcast(ready)
  /\ missed' = (ownerPc = "call wait")
  /\ UNCHANGED <<ownerPc, hasLoop, started, looping, destroying, joins, stopped>>

EnterLoop ==
  /\ threadPc = "enter"
  /\ threadPc' = "loop"
  /\ looping' = TRUE
  /\ UNCHANGED <<ownerPc, hasLoop, started, ready, destroying, joins, missed,
                 stopped>>

(* A callback in the loop may call stop() as well.                         *)
CallbackStops ==
  /\ threadPc = "loop"
  /\ looping' = FALSE
  /\ UNCHANGED <<ownerPc, threadPc, hasLoop, started, ready, destroying, joins,
                 missed, stopped>>

LoopEnds ==
  /\ threadPc = "loop"
  /\ ~looping
  /\ threadPc' = "ended"
  /\ UNCHANGED <<ownerPc, hasLoop, started, ready, looping, destroying, joins,
                 missed, stopped>>

-----------------------------------------------------------------------------
(* stop() and ~EventLoopThread() *)

StopFinds == IF threadPc \in {"loop", "ended"} THEN "running" ELSE "early"

(* Mutant: stop() joins without telling the loop.                          *)
StopOnlyJoins ==
  IF hasLoop
  THEN /\ ownerPc' = "join"
       /\ stopped' = StopFinds
       /\ UNCHANGED looping
  ELSE UNCHANGED <<ownerPc, looping, stopped>>

(* stop() returns at once without a loop, else it clears _looping and      *)
(* joins the thread.                                                       *)
StopBody ==
  IF hasLoop
  THEN /\ ownerPc' = "join"
       /\ looping' = FALSE
       /\ stopped' = StopFinds
  ELSE UNCHANGED <<ownerPc, looping, stopped>>

Stop ==
  /\ ownerPc = "up"
  /\ joins = 0    \* the owner calls stop() once
  /\ StopBody
  /\ UNCHANGED <<threadPc, hasLoop, started, ready, destroying, joins, missed>>

(* join() waits for a loop that somebody else stops.                       *)
Join ==
  /\ hasLoop
  /\ joins = 0
  /\ OwnerGoes("up", "join")
  /\ UNCHANGED <<loopVars, ready, destroying, joins, missed, stopped>>

(* pthread_join of a thread that has been joined is undefined: with glibc  *)
(* it fails at once while the thread's memory is still there.              *)
JoinReturns ==
  /\ threadPc = "ended"
  /\ OwnerGoes("join", IF destroying THEN "gone" ELSE "up")
  /\ joins' = joins + 1
  /\ UNCHANGED <<loopVars, ready, destroying, missed, stopped>>

(* Mutant: the destructor stops the loop and does not wait for it.         *)
DestroyWithoutJoin ==
  /\ ownerPc = "up"
  /\ destroying' = TRUE
  /\ ownerPc' = "gone"
  /\ looping' = IF hasLoop THEN FALSE ELSE looping
  /\ UNCHANGED <<threadPc, hasLoop, started, ready, joins, missed, stopped>>

(* The destructor stops the thread if it sees _started, which the thread   *)
(* stores after the _loop that lets start() return.                        *)
Destroy ==
  /\ ownerPc = "up"
  /\ destroying' = TRUE
  /\ \/ started /\ StopBody
     \/ /\ ~started
        /\ ownerPc' = "gone"
        /\ stopped' = IF hasLoop THEN "skipped" ELSE stopped
        /\ UNCHANGED looping
  /\ UNCHANGED <<threadPc, hasLoop, started, ready, joins, missed>>

-----------------------------------------------------------------------------
OwnerRuns == TestLoop \/ CallWait \/ WaitEnds \/ JoinReturns
OwnerCalls == CreateThread \/ CreateFails \/ Stop \/ Join \/ Destroy
ThreadRuns ==
  StoreLoop \/ StoreStarted \/ BroadcastReady \/ EnterLoop \/ LoopEnds

ThreadNext ==
  OwnerRuns \/ OwnerCalls \/ ThreadRuns \/ CallbackStops \/ WakesSpuriously

ThreadSpec == ThreadInit /\ [][ThreadNext]_threadVars

-----------------------------------------------------------------------------
(* Properties *)

(* start() sleeps with the loop ready only if the broadcast came between   *)
(* its test of _loop and its wait: in every other order of the two threads *)
(* the wait is either woken or never begun.                                *)
SleepsOnlyIfMissed ==
  /\ Owner \in ready.waiting
  /\ threadPc \in {"enter", "loop", "ended"}
  => missed

(* Once ~EventLoopThread has returned its thread has ended and touches the *)
(* object no more, unless the destructor came so soon after start() that   *)
(* _started was not stored yet.                                            *)
DestroyedThreadEnded ==
  ownerPc = "gone" => threadPc \in {"none", "ended"} \/ stopped = "skipped"

(* A stop() that finds the loop running ends the thread and returns; one   *)
(* that comes before loop() stores _looping is overwritten and does not.   *)
StopEndsThread ==
  stopped = "running" ~> threadPc = "ended" /\ ownerPc # "join"
=============================================================================
