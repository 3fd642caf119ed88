----------------------------- MODULE TimerQueue -----------------------------
(***************************************************************************)
(* net/TimerQueue.cc and net/Timer.cc: the list of timers of a loop, which *)
(* runTimers walks once in every pass of loop().                           *)
(*                                                                         *)
(* Timers are added and deleted at once in the loop's thread and by a      *)
(* functor from another thread.  A callback is a step during which the     *)
(* list may grow and lose elements, and time goes on.  A timer's user may  *)
(* cancel it in any thread, at any moment.  Assumed: a Timer's address is  *)
(* not used again, a TimerId is not used after its Timer was deleted, and  *)
(* a callback does not delete its own timer (runTimers and Timer::run      *)
(* would go on using it).                                                  *)
(***************************************************************************)
EXTENDS Integers, Sequences, SequencesExt, Erase, Timestamp

CONSTANTS
  MaxTimers,   \* how many Timers are made (a bound of the model)
  MaxFunctors, \* how many functors other threads queue at a time (a bound)
  MaxCancels,  \* how many timers their users have cancelled at a time (a bound)
  Delays,      \* how long after now a timer first expires, in milliseconds
  Intervals,   \* the intervals of repeating timers, in milliseconds
  Repeats,     \* the repeat counts of timers that do not repeat for ever
  StartUsec,   \* the microseconds of the time of day at the start
  Ticks,       \* by how many milliseconds the clock advances
  MaxTicks     \* how often it does (a bound of the model)

ASSUME TimerAssumption ==
  /\ MaxTimers \in Nat
  /\ MaxFunctors \in Nat
  /\ MaxCancels \in Nat
  /\ Delays \subseteq Nat
  /\ Intervals \subseteq Nat \ {0}
  /\ Repeats \subseteq Nat
  /\ StartUsec \in 0..(MicrosPerSecond - 1)
  /\ Ticks \in Nat \ {0}
  /\ MaxTicks \in Nat

Timers == 1..MaxTimers   \* the Timers by their _sequence
NoTimer == 0
NoTime == [sec |-> 0, usec |-> 0]
Forever == -1
Never == -1

(* What runAt, runEvery and addTimer give a timer.                         *)
Kinds == [interval : {0}, repeat : {0}]
           \cup [interval : Intervals, repeat : {Forever} \cup Repeats]

VARIABLES
  clock,       \* the time of day
  ticks,       \* how often it has advanced
  timer,       \* the fields of each Timer
  timerList,   \* _timerList
  functors,    \* what other threads have queued, oldest first
  timerPc,     \* the loop: before runTimers ("pass"), in it, in a callback
  passTime,    \* now of runTimers
  at,          \* its iterator: the timer it is at, or NoTimer at the end
  runs,        \* history: how many callbacks of each living timer have begun
  deleted,     \* history: the timers whose deletion the loop has handled
  overtaken    \* history: those of them whose adding was still queued

timerVars == <<clock, ticks, timer, timerList, functors, timerPc, passTime,
               at, runs, deleted, overtaken>>
loopState == <<timerPc, passTime, at>>

(* A Timer: not made yet, made, or deleted and with it all it held; "when" *)
(* is its first expiry and "stopped" says how many of its callbacks had    *)
(* begun when its user cancelled it.                                       *)
Blank == [state |-> "none", expiration |-> NoTime, when |-> NoTime,
          interval |-> 0, repeat |-> 0, repeatCount |-> 0, canceled |-> FALSE,
          stopped |-> Never]

TimerTypeOK ==
  /\ clock \in Timeval
  /\ ticks \in 0..MaxTicks
  /\ timer \in [Timers -> [state : {"none", "made", "deleted"},
                           expiration : Timeval, when : Timeval,
                           interval : {0} \cup Intervals, repeat : Int,
                           repeatCount : Int, canceled : BOOLEAN,
                           stopped : Nat \cup {Never}]]
  /\ timerList \in Seq(Timers)
  /\ \A t \in ToSet(timerList) : timer[t].state = "made"
  /\ functors \in Seq([op : {"add", "delete"}, timer : Timers])
  /\ timerPc \in {"pass", "walk", "callback"}
  /\ passTime \in Timeval
  /\ at \in Timers \cup {NoTimer}
  /\ at # NoTimer => at \in ToSet(timerList)
  /\ runs \in [Timers -> Nat]
  /\ deleted \subseteq Timers
  /\ overtaken \subseteq deleted

TimerInit ==
  /\ clock = [sec |-> 0, usec |-> StartUsec]
  /\ ticks = 0
  /\ timer = [t \in Timers |-> Blank]
  /\ timerList = <<>>
  /\ functors = <<>>
  /\ timerPc = "pass"
  /\ passTime = NoTime
  /\ at = NoTimer
  /\ runs = [t \in Timers |-> 0]
  /\ deleted = {}
  /\ overtaken = {}

ClockTicks ==
  /\ ticks < MaxTicks
  /\ ticks' = ticks + 1
  /\ clock' = AddMilliseconds(clock, Ticks)
  /\ UNCHANGED <<timer, timerList, functors, loopState, runs, deleted,
                 overtaken>>

-----------------------------------------------------------------------------
(* Adding and deleting *)

(* The user's code in the loop: a functor, an event or a timer's callback. *)
InLoop == timerPc \in {"pass", "callback"}

Made(delay, kind) ==
  LET when == AddMilliseconds(clock, delay)
  IN  [state |-> "made", expiration |-> when, when |-> when,
       interval |-> kind.interval, repeat |-> kind.repeat,
       repeatCount |-> kind.repeat, canceled |-> FALSE,
       stopped |-> Never]

(* addTimer makes the Timer in the caller's thread.                        *)
AddTimer(t, delay, kind) ==
  /\ \A s \in Timers : timer[s].state = "none" <=> s >= t
  /\ timer' = [timer EXCEPT ![t] = Made(delay, kind)]
  /\ \/ /\ InLoop
        /\ timerList' = Append(timerList, t)
        /\ UNCHANGED functors
     \/ /\ Len(functors) < MaxFunctors
        /\ functors' = Append(functors, [op |-> "add", timer |-> t])
        /\ UNCHANGED timerList
  /\ UNCHANGED <<clock, ticks, loopState, runs, deleted, overtaken>>

Gone == [Blank EXCEPT !.state = "deleted"]

(* Mutant: the Timer is deleted and its entry stays.                       *)
DeletedUnlisted(T) ==
  /\ timer' = [t \in Timers |->
                 IF t \in T \cap ToSet(timerList) THEN Gone ELSE timer[t]]
  /\ runs' = [t \in Timers |->
                IF t \in T \cap ToSet(timerList) THEN 0 ELSE runs[t]]
  /\ UNCHANGED timerList

(* The timers in T that are in the list are deleted and leave it.          *)
Deleted(T) ==
  /\ timer' = [t \in Timers |->
                 IF t \in T \cap ToSet(timerList) THEN Gone ELSE timer[t]]
  /\ runs' = [t \in Timers |->
                IF t \in T \cap ToSet(timerList) THEN 0 ELSE runs[t]]
  /\ timerList' = Without(timerList, T)

DeleteTimerInLoop(t) ==
  /\ t # at
  /\ Deleted({t})
  /\ deleted' = deleted \cup {t}
  /\ overtaken' = IF t \in ToSet(timerList) THEN overtaken
                  ELSE overtaken \cup ({t} \ deleted)

(* deleteTimer by a user who has the TimerId that addTimer returned.       *)
DeleteTimer(t) ==
  /\ timer[t].state = "made"
  /\ \/ /\ InLoop
        /\ DeleteTimerInLoop(t)
        /\ UNCHANGED functors
     \/ /\ Len(functors) < MaxFunctors
        /\ functors' = Append(functors, [op |-> "delete", timer |-> t])
        /\ UNCHANGED <<timer, timerList, runs, deleted, overtaken>>
  /\ UNCHANGED <<clock, ticks, loopState>>

(* TimerId::getTimer()->cancel(): _canceled is set without a lock or a     *)
(* functor.  A timer that is cancelled already stays so.                   *)
CancelTimer(t) ==
  /\ timer[t].state = "made"
  /\ ~timer[t].canceled
  /\ Cardinality({s \in Timers : timer[s].stopped # Never}) < MaxCancels
  /\ timer' = [timer EXCEPT ![t].canceled = TRUE, ![t].stopped = runs[t]]
  /\ UNCHANGED <<clock, ticks, timerList, functors, loopState, runs, deleted,
                 overtaken>>

DeleteAllTimers ==
  /\ timerPc = "pass"
  /\ timerList # <<>>
  /\ Deleted(Timers)
  /\ deleted' = deleted \cup ToSet(timerList)
  /\ UNCHANGED <<clock, ticks, functors, loopState, overtaken>>

DeleteAllCanceledTimers ==
  /\ timerPc = "pass"
  /\ \E t \in ToSet(timerList) : timer[t].canceled
  /\ Deleted({t \in Timers : timer[t].canceled})
  /\ UNCHANGED <<clock, ticks, functors, loopState, deleted, overtaken>>

CallQueued ==
  /\ timerPc = "pass"
  /\ functors # <<>>
  /\ functors' = Tail(functors)
  /\ LET f == Head(functors)
     IN  \/ /\ f.op = "add"
            /\ timerList' = Append(timerList, f.timer)
            /\ UNCHANGED <<timer, runs, deleted, overtaken>>
         \/ f.op = "delete" /\ DeleteTimerInLoop(f.timer)
  /\ UNCHANGED <<clock, ticks, loopState>>

-----------------------------------------------------------------------------
(* runTimers and Timer::run *)

Successor(t) ==
  LET i == CHOOSE j \in DOMAIN timerList : timerList[j] = t
  IN  IF i = Len(timerList) THEN NoTimer ELSE timerList[i + 1]

BeginWalk ==
  /\ timerPc = "pass"
  /\ timerList # <<>>
  /\ timerPc' = "walk"
  /\ passTime' = clock
  /\ at' = Head(timerList)
  /\ UNCHANGED <<clock, ticks, timer, timerList, functors, runs, deleted,
                 overtaken>>

EndWalk ==
  /\ timerPc = "walk"
  /\ at = NoTimer
  /\ timerPc' = "pass"
  /\ passTime' = NoTime
  /\ UNCHANGED <<clock, ticks, timer, timerList, functors, at, runs, deleted,
                 overtaken>>

Runnable(t) == ~timer[t].canceled /\ ~Earlier(passTime, timer[t].expiration)

(* Mutant: the walk ends at a cancelled timer.                             *)
StopAtCanceled ==
  /\ timerPc = "walk"
  /\ at # NoTimer
  /\ ~Runnable(at)
  /\ at' = IF timer[at].canceled THEN NoTimer ELSE Successor(at)
  /\ UNCHANGED <<clock, ticks, timer, timerList, functors, timerPc, passTime,
                 runs, deleted, overtaken>>

SkipTimer ==
  /\ timerPc = "walk"
  /\ at # NoTimer
  /\ ~Runnable(at)
  /\ at' = Successor(at)
  /\ UNCHANGED <<clock, ticks, timer, timerList, functors, timerPc, passTime,
                 runs, deleted, overtaken>>

(* Timer::run has passed its own test of _canceled: the callback has       *)
(* begun, and a cancel() of another thread comes too late for it.  One     *)
(* between the test of runTimers and this one makes run() return at once,  *)
(* which is SkipTimer.                                                     *)
BeginCallback ==
  /\ timerPc = "walk"
  /\ at # NoTimer
  /\ Runnable(at)
  /\ timerPc' = "callback"
  /\ runs' = [runs EXCEPT ![at] = @ + 1]
  /\ UNCHANGED <<clock, ticks, timer, timerList, functors, passTime, at,
                 deleted, overtaken>>

(* Mutant: the count is tested before it is decremented.                   *)
RanTestedFirst(t) ==
  [t EXCEPT !.repeatCount = IF @ > 0 THEN @ - 1 ELSE @,
            !.canceled = @ \/ t.repeatCount = 0,
            !.expiration = AddMilliseconds(@, t.interval)]

(* The rest of Timer::run after the callback.                              *)
Ran(t) ==
  LET left == IF t.repeatCount > 0 THEN t.repeatCount - 1 ELSE t.repeatCount
  IN  [t EXCEPT !.repeatCount = left,
                !.canceled = @ \/ left = 0,
                !.expiration = AddMilliseconds(@, t.interval)]

EndCallback ==
  /\ timerPc = "callback"
  /\ timerPc' = "walk"
  /\ timer' = [timer EXCEPT ![at] = Ran(@)]
  /\ at' = Successor(at)
  /\ UNCHANGED <<clock, ticks, timerList, functors, passTime, runs, deleted,
                 overtaken>>

-----------------------------------------------------------------------------
TimerLoop ==
  \/ CallQueued \/ BeginWalk \/ SkipTimer \/ BeginCallback \/ EndCallback
  \/ EndWalk

TimerNext ==
  \/ ClockTicks \/ TimerLoop \/ DeleteAllTimers \/ DeleteAllCanceledTimers
  \/ \E t \in Timers : DeleteTimer(t) \/ CancelTimer(t)
  \/ \E t \in Timers, delay \in Delays, kind \in Kinds :
       AddTimer(t, delay, kind)

TimerSpec == TimerInit /\ [][TimerNext]_timerVars

-----------------------------------------------------------------------------
(* Properties *)

(* How many callbacks of a timer have ended.                               *)
Ended(t) == IF timerPc = "callback" /\ at = t THEN runs[t] - 1 ELSE runs[t]

(* A repeating timer neither drifts nor runs ahead: after k callbacks it   *)
(* expires k intervals after its first expiry, however late they were, and *)
(* the k-th has not begun before its own expiry.                           *)
OnSchedule ==
  \A t \in Timers :
    timer[t].state = "made" =>
      LET first == GetMilliseconds(timer[t].when)
      IN  /\ GetMilliseconds(timer[t].expiration)
               = first + Ended(t) * timer[t].interval
          /\ runs[t] > 0 =>
               first + (runs[t] - 1) * timer[t].interval
                 <= GetMilliseconds(clock)

(* runAt calls once, addTimer as often as its repeat count says, runEvery  *)
(* for ever: a timer is cancelled with its last callback and not before,   *)
(* unless its user does, and then no further callback begins.              *)
RunsAsOften ==
  \A t \in Timers :
    timer[t].state = "made" =>
      LET times == IF timer[t].repeat = 0 THEN 1 ELSE timer[t].repeat
      IN  /\ timer[t].canceled <=>
               \/ timer[t].stopped # Never
               \/ timer[t].repeat # Forever /\ Ended(t) = times
          /\ timer[t].repeat # Forever => runs[t] <= times
          /\ timer[t].stopped # Never => runs[t] = timer[t].stopped

(* A timer the loop was told to delete is out of the list and so never     *)
(* runs again, unless the call overtook the functor that adds it: in the   *)
(* loop's thread RunInLoopThread goes past what is queued.                 *)
DeletedIsGone ==
  \A t \in deleted : t \in ToSet(timerList) => t \in overtaken

(* A listed timer that is due is called in a later pass, whatever else is  *)
(* in the list, unless it is deleted or cancelled first.                   *)
DueTimerRuns ==
  \A t \in Timers :
    /\ t \in ToSet(timerList)
    /\ runs[t] = 0
    /\ ~Earlier(clock, timer[t].expiration)
    ~> runs[t] > 0 \/ timer[t].state = "deleted" \/ timer[t].canceled
=============================================================================
