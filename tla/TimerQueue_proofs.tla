--------------------------- MODULE TimerQueue_proofs ---------------------------
(***************************************************************************)
(* Proofs about TimerQueue.tla, for any number of timers and functors, any *)
(* delays, intervals and repeat counts, and any steps of the clock: timers *)
(* keep their schedule, run as often as they should, and are gone once the *)
(* loop has deleted them.                                                  *)
(***************************************************************************)
EXTENDS TimerQueue, SequenceLemmas

-----------------------------------------------------------------------------
(* The parts of the invariant *)

TimerRecords ==
  [state : {"none", "made", "deleted"}, expiration : Timeval, when : Timeval,
   interval : {0} \cup Intervals, repeat : Int, repeatCount : Int,
   canceled : BOOLEAN, stopped : Nat \cup {Never}]

QueuedFunctors == [op : {"add", "delete"}, timer : Timers]

Times(repeat) == IF repeat = 0 THEN 1 ELSE repeat

(* What holds of a Timer m with so many callbacks begun and ended: it      *)
(* expires "ended" intervals after its first expiry, no callback came      *)
(* early, repeatCount is what is left of its repeats, and it is cancelled  *)
(* when nothing is left or its user said so, after which none began.       *)
Sound(m, begun, ended, now) ==
  /\ m.state = "none" => m = Blank /\ begun = 0
  /\ m.state = "deleted" => m = Gone /\ begun = 0
  /\ GetMilliseconds(m.expiration)
       = GetMilliseconds(m.when) + ended * m.interval
  /\ begun > 0 =>
       GetMilliseconds(m.when) + (begun - 1) * m.interval
         <= GetMilliseconds(now)
  /\ m.stopped # Never => m.stopped = begun
  /\ m.state = "made" =>
       (m.canceled <=> \/ m.stopped # Never
                       \/ m.repeat # Forever /\ ended = Times(m.repeat))
  /\ m.repeat = Forever => m.repeatCount = Forever
  /\ m.state = "made" /\ m.repeat # Forever =>
       /\ m.repeat \in Nat
       /\ begun <= Times(m.repeat)
       /\ m.repeatCount = IF m.repeat = 0 THEN 0 ELSE m.repeat - ended

TimersOK ==
  /\ timer \in [Timers -> TimerRecords]
  /\ runs \in [Timers -> Nat]
  /\ clock \in Timeval
  /\ \A t \in Timers : Sound(timer[t], runs[t], Ended(t), clock)

(* The place of the loop.                                                  *)
WalkOK ==
  /\ ticks \in 0..MaxTicks
  /\ timerPc \in {"pass", "walk", "callback"}
  /\ passTime \in Timeval
  /\ at \in Timers \cup {NoTimer}
  /\ at # NoTimer => at \in ToSet(timerList)
  /\ timerPc = "pass" => at = NoTimer
  /\ timerPc = "callback" => at # NoTimer /\ runs[at] > 0
  /\ timerPc # "pass" => GetMilliseconds(passTime) <= GetMilliseconds(clock)

ListOK ==
  /\ timerList \in Seq(Timers)
  /\ \A t \in ToSet(timerList) : timer[t].state = "made"
  /\ deleted \subseteq Timers
  /\ overtaken \subseteq deleted
  /\ \A t \in deleted : timer[t].state # "none"
  /\ \A t \in deleted : t \in ToSet(timerList) => t \in overtaken

(* A timer waits to be added once, and is not in the list meanwhile; if it *)
(* was deleted before, the deletion overtook this functor.                 *)
WaitsOnce(q, i) ==
  /\ timer[q[i].timer].state = "made"
  /\ q[i].timer \notin ToSet(timerList)
  /\ q[i].timer \in deleted => q[i].timer \in overtaken
  /\ \A j \in 1..Len(q) : q[j].op = "add" /\ q[j].timer = q[i].timer => j = i

QueueOK ==
  /\ functors \in Seq(QueuedFunctors)
  /\ \A i \in 1..Len(functors) : timer[functors[i].timer].state # "none"
  /\ \A i \in 1..Len(functors) :
       functors[i].op = "add" => WaitsOnce(functors, i)

TimerInv == TimersOK /\ WalkOK /\ ListOK /\ QueueOK

-----------------------------------------------------------------------------
(* Times *)

(* A second has as many microseconds as K * 1000, for K = 1000: the        *)
(* product is not worked out below.                                        *)
LEMMA MicrosAreThousands ==
  ASSUME NEW K \in Nat, K = 1000
  PROVE  MicrosPerSecond = K * 1000
BY Z3 DEF MicrosPerSecond

(* Whole milliseconds and the rest.                                        *)
LEMMA Thousands ==
  ASSUME NEW n \in Nat
  PROVE  /\ n \div 1000 \in Nat /\ n % 1000 \in 0..999
         /\ n = (n \div 1000) * 1000 + (n % 1000)
<1>1. n \div 1000 \in Nat /\ n % 1000 \in 0..999
  OBVIOUS
<1>2. n % 1000 = n - (n \div 1000) * 1000
  OBVIOUS
<1> QED
  BY <1>1, <1>2

(* The beginning of time is a timeval.                                     *)
LEMMA NoTimeIsTimeval == NoTime \in Timeval
<1>1. PICK K \in Nat : K = 1000
  OBVIOUS
<1>2. MicrosPerSecond = K * 1000
  BY <1>1, MicrosAreThousands
<1>3. K * 1000 - 1 \in Nat
  BY <1>1
<1>4. 0 \in 0..(MicrosPerSecond - 1)
  BY <1>2, <1>3
<1> QED
  BY <1>4 DEF NoTime, Timeval

(* The fields of a timeval.                                                *)
LEMMA TimevalFields ==
  ASSUME NEW t \in Timeval
  PROVE  t.sec \in Nat /\ t.usec \in Nat /\ t.usec < MicrosPerSecond
<1>1. PICK K \in Nat : K = 1000
  OBVIOUS
<1>2. MicrosPerSecond = K * 1000
  BY <1>1, MicrosAreThousands
<1>3. t.sec \in Nat /\ t.usec \in 0..(MicrosPerSecond - 1)
  BY DEF Timeval
<1> QED
  BY <1>2, <1>3

(* Milliseconds are natural numbers.                                       *)
LEMMA MillisecondsType ==
  ASSUME NEW t \in Timeval
  PROVE  GetMilliseconds(t) \in Nat
BY TimevalFields, Thousands DEF GetMilliseconds

(* Adding milliseconds to a timeval carries into the seconds and adds that *)
(* many milliseconds, however many microseconds there are.                 *)
THEOREM MillisecondsAdd ==
  ASSUME NEW t \in Timeval, NEW i \in Nat
  PROVE  /\ AddMilliseconds(t, i) \in Timeval
         /\ GetMilliseconds(AddMilliseconds(t, i)) = GetMilliseconds(t) + i
<1> DEFINE s == t.sec
           u == t.usec
           q == i \div 1000
           r == i % 1000
           v == u \div 1000
           w == u % 1000
           M == MicrosPerSecond
<1>0. PICK K \in Nat : K = 1000
  OBVIOUS
<1>1. s \in Nat /\ u \in Nat /\ u < M
  BY TimevalFields
<1>2. q \in Nat /\ r \in 0..999 /\ i = q * 1000 + r
  BY Thousands
<1>3. v \in Nat /\ w \in 0..999 /\ u = v * 1000 + w
  <2> HIDE DEF u
  <2> QED
    BY <1>1, Thousands
<1>4. M = K * 1000
  BY <1>0, MicrosAreThousands
<1>5. ASSUME NEW x \in Nat, NEW y \in 0..999, NEW z \in Nat, z = x * 1000 + y
      PROVE  z \div 1000 = x
  BY <1>5
<1>6. /\ r * 1000 + u < M =>
           AddMilliseconds(t, i) = [sec |-> s + q, usec |-> r * 1000 + u]
      /\ ~(r * 1000 + u < M) =>
           AddMilliseconds(t, i)
             = [sec |-> s + q + 1, usec |-> r * 1000 + u - M]
  BY <1>1, <1>2, <1>4 DEF AddMilliseconds
<1>7. GetMilliseconds(t) = s * 1000 + v
  BY DEF GetMilliseconds
<1>8. Timeval = [sec : Nat, usec : 0..(M - 1)]
  BY DEF Timeval
<1> HIDE DEF s, u, q, r, v, w, M
<1>9. r < K /\ v < K
  <2>1. r < K
    BY <1>0, <1>2
  <2>2. v * 1000 < K * 1000
    BY <1>1, <1>3, <1>4
  <2> QED
    BY <1>3, <2>1, <2>2
<1>10. CASE r * 1000 + u < M
  <2>1. AddMilliseconds(t, i) = [sec |-> s + q, usec |-> r * 1000 + u]
    BY <1>6, <1>10
  <2>2. s + q \in Nat /\ r * 1000 + u \in 0..(M - 1)
    BY <1>1, <1>2, <1>4, <1>10
  <2>3. (r * 1000 + u) \div 1000 = r + v
    <3>1. /\ r * 1000 + u = (r + v) * 1000 + w
          /\ r + v \in Nat /\ r * 1000 + u \in Nat
      BY <1>2, <1>3
    <3> QED
      BY <1>3, <1>5, <3>1
  <2>4. GetMilliseconds(AddMilliseconds(t, i)) = (s + q) * 1000 + (r + v)
    BY <2>1, <2>3 DEF GetMilliseconds
  <2>5. (s + q) * 1000 + (r + v) = (s * 1000 + v) + i
    BY <1>1, <1>2, <1>3
  <2>6. AddMilliseconds(t, i) \in Timeval
    BY <1>8, <2>1, <2>2
  <2> QED
    BY <1>7, <2>4, <2>5, <2>6
<1>11. CASE ~(r * 1000 + u < M)
  <2>1. AddMilliseconds(t, i) = [sec |-> s + q + 1, usec |-> r * 1000 + u - M]
    BY <1>6, <1>11
  <2>2. s + q + 1 \in Nat /\ r * 1000 + u - M \in 0..(M - 1)
    <3>1. r * 1000 <= (K - 1) * 1000
      BY <1>2, <1>9
    <3> QED
      BY <1>1, <1>2, <1>4, <1>11, <3>1
  <2>3. (r * 1000 + u - M) \div 1000 = r + v - K
    <3>1. r * 1000 + u - M = (r + v - K) * 1000 + w
      BY <1>2, <1>3, <1>4
    <3>2. r + v - K \in Nat
      <4>1. (r + v - K) * 1000 + w >= 0
        BY <1>1, <1>2, <1>3, <1>4, <1>11
      <4> QED
        BY <1>2, <1>3, <4>1
    <3> QED
      BY <1>3, <1>5, <2>2, <3>1, <3>2
  <2>4. GetMilliseconds(AddMilliseconds(t, i)) = (s + q + 1) * 1000 + (r + v - K)
    BY <2>1, <2>3 DEF GetMilliseconds
  <2>5. (s + q + 1) * 1000 + (r + v - K) = (s * 1000 + v) + i
    BY <1>0, <1>1, <1>2, <1>3
  <2>6. AddMilliseconds(t, i) \in Timeval
    BY <1>8, <2>1, <2>2
  <2> QED
    BY <1>7, <2>4, <2>5, <2>6
<1> QED
  BY <1>10, <1>11

-----------------------------------------------------------------------------
(* What the operations do to one Timer *)

(* The types of a Timer's fields.                                          *)
LEMMA TimerFields ==
  ASSUME NEW m \in TimerRecords
  PROVE  /\ m.expiration \in Timeval /\ m.when \in Timeval
         /\ m.interval \in Nat /\ m.repeatCount \in Int /\ m.repeat \in Int
         /\ m.canceled \in BOOLEAN
<1>1. /\ m.expiration \in Timeval /\ m.when \in Timeval
      /\ m.interval \in {0} \cup Intervals
      /\ m.repeatCount \in Int /\ m.repeat \in Int /\ m.canceled \in BOOLEAN
  BY DEF TimerRecords
<1>2. \A i \in Intervals : i \in Nat
  BY TimerAssumption
<1> QED
  BY <1>1, <1>2

(* Time goes on.                                                           *)
LEMMA SoundLater ==
  ASSUME NEW m \in TimerRecords, NEW begun \in Nat, NEW ended \in Nat,
         NEW now \in Timeval, NEW later \in Timeval,
         Sound(m, begun, ended, now),
         GetMilliseconds(now) <= GetMilliseconds(later)
  PROVE  Sound(m, begun, ended, later)
<1>1. /\ GetMilliseconds(now) \in Nat /\ GetMilliseconds(later) \in Nat
      /\ GetMilliseconds(m.when) \in Nat
  BY MillisecondsType, TimerFields
<1>2. m.interval \in Nat
  BY TimerFields
<1>3. begun > 0 => (begun - 1) * m.interval \in Nat
  BY <1>2
<1>4. begun > 0 =>
        GetMilliseconds(m.when) + (begun - 1) * m.interval
          <= GetMilliseconds(later)
  BY <1>1, <1>3 DEF Sound
<1> QED
  BY <1>4 DEF Sound

(* addTimer: no callback yet.                                              *)
LEMMA SoundMade ==
  ASSUME NEW delay \in Delays, NEW kind \in Kinds, clock \in Timeval
  PROVE  /\ Made(delay, kind) \in TimerRecords
         /\ Made(delay, kind).state = "made"
         /\ Sound(Made(delay, kind), 0, 0, clock)
<1> DEFINE m == Made(delay, kind)
           when == AddMilliseconds(clock, delay)
<1>1. /\ kind.interval \in {0} \cup Intervals
      /\ kind.repeat \in Nat \cup {Forever}
  <2>1. kind.interval \in {0} \cup Intervals
    BY DEF Kinds
  <2>2. kind.repeat \in {0} \cup {Forever} \cup Repeats
    BY DEF Kinds
  <2>3. \A i \in Repeats : i \in Nat
    BY TimerAssumption
  <2> QED
    BY <2>1, <2>2, <2>3
<1>2. when \in Timeval
  BY MillisecondsAdd, TimerAssumption
<1>3. m = [state |-> "made", expiration |-> when, when |-> when,
           interval |-> kind.interval, repeat |-> kind.repeat,
           repeatCount |-> kind.repeat, canceled |-> FALSE,
           stopped |-> Never]
  BY DEF Made
<1> HIDE DEF m, when
<1>4. m \in TimerRecords
  BY <1>1, <1>2, <1>3 DEF TimerRecords, Forever
<1>5. GetMilliseconds(when) \in Nat /\ kind.interval \in Nat
  <2>1. \A i \in Intervals : i \in Nat
    BY TimerAssumption
  <2> QED
    BY <1>1, <1>2, <2>1, MillisecondsType
<1>6. 0 * kind.interval = 0
  BY <1>5
<1>7. GetMilliseconds(m.expiration) = GetMilliseconds(m.when) + 0 * m.interval
  BY <1>3, <1>5, <1>6
<1>8. Sound(m, 0, 0, clock)
  BY <1>1, <1>3, <1>7 DEF Sound, Times, Forever, Never
<1> QED
  BY <1>3, <1>4, <1>8 DEF m

(* Deletion leaves nothing of a Timer.                                     *)
LEMMA SoundGone ==
  ASSUME NEW now \in Timeval
  PROVE  /\ Gone \in TimerRecords /\ Gone.state = "deleted"
         /\ Sound(Gone, 0, 0, now)
<1>1. NoTime \in Timeval /\ GetMilliseconds(NoTime) \in Nat
  BY NoTimeIsTimeval, MillisecondsType
<1>2. /\ Gone.state = "deleted" /\ Gone.expiration = NoTime
      /\ Gone.when = NoTime /\ Gone.interval = 0 /\ Gone.repeat = 0
      /\ Gone.repeatCount = 0 /\ ~Gone.canceled /\ Gone.stopped = Never
      /\ Gone \in TimerRecords
  <2>1. Blank \in TimerRecords
    BY <1>1 DEF Blank, TimerRecords
  <2>2. /\ Blank.expiration = NoTime /\ Blank.when = NoTime
        /\ Blank.interval = 0 /\ Blank.repeat = 0 /\ Blank.repeatCount = 0
        /\ ~Blank.canceled /\ Blank.stopped = Never
    BY DEF Blank
  <2> QED
    BY <2>1, <2>2 DEF Gone, TimerRecords
<1>3. Times(Gone.repeat) = 1
  BY <1>2 DEF Times
<1>4. GetMilliseconds(Gone.expiration)
        = GetMilliseconds(Gone.when) + 0 * Gone.interval
  BY <1>1, <1>2
<1> QED
  BY <1>2, <1>3, <1>4 DEF Sound, Forever

(* A user cancels a timer that was not cancelled.                          *)
LEMMA SoundCancelled ==
  ASSUME NEW m \in TimerRecords, NEW begun \in Nat, NEW ended \in Nat,
         NEW now \in Timeval, Sound(m, begun, ended, now), m.state = "made"
  PROVE  LET r == [m EXCEPT !.canceled = TRUE, !.stopped = begun]
         IN  /\ r \in TimerRecords /\ r.state = "made"
             /\ Sound(r, begun, ended, now)
<1> DEFINE r == [m EXCEPT !.canceled = TRUE, !.stopped = begun]
<1>1. /\ r \in TimerRecords /\ r.state = "made" /\ r.canceled = TRUE
      /\ r.stopped = begun /\ r.when = m.when /\ r.interval = m.interval
      /\ r.expiration = m.expiration /\ r.repeat = m.repeat
      /\ r.repeatCount = m.repeatCount
  BY DEF TimerRecords
<1> HIDE DEF r
<1>2. r.stopped # Never
  BY <1>1 DEF Never
<1>3. Sound(r, begun, ended, now)
  BY <1>1, <1>2 DEF Sound
<1> QED
  BY <1>1, <1>3 DEF r

(* A callback begins when the timer is due.                                *)
LEMMA SoundBegins ==
  ASSUME NEW m \in TimerRecords, NEW n \in Nat, NEW now \in Timeval,
         Sound(m, n, n, now), m.state = "made", ~m.canceled,
         GetMilliseconds(m.expiration) <= GetMilliseconds(now)
  PROVE  Sound(m, n + 1, n, now)
<1>1. (n + 1) - 1 = n
  OBVIOUS
<1>2. /\ m.repeat # Forever => n <= Times(m.repeat) /\ n # Times(m.repeat)
      /\ m.stopped = Never
  BY DEF Sound
<1>3. m.repeat # Forever => n + 1 <= Times(m.repeat)
  <2>1. m.repeat # Forever => Times(m.repeat) \in Nat
    BY DEF Sound, Times
  <2> QED
    BY <1>2, <2>1
<1> QED
  BY <1>1, <1>2, <1>3 DEF Sound

(* A callback ends: one repeat less, one interval later.                   *)
LEMMA SoundEnds ==
  ASSUME NEW m \in TimerRecords, NEW n \in Nat, n > 0, NEW now \in Timeval,
         Sound(m, n, n - 1, now), m.state = "made"
  PROVE  Ran(m) \in TimerRecords /\ Ran(m).state = "made" /\ Sound(Ran(m), n, n, now)
<1> DEFINE left == IF m.repeatCount > 0 THEN m.repeatCount - 1
                   ELSE m.repeatCount
           next == AddMilliseconds(m.expiration, m.interval)
           r == Ran(m)
<1>1. /\ m.expiration \in Timeval /\ m.when \in Timeval
      /\ m.interval \in Nat /\ m.repeatCount \in Int /\ m.repeat \in Int
  BY TimerFields
<1>2. /\ next \in Timeval
      /\ GetMilliseconds(next) = GetMilliseconds(m.expiration) + m.interval
  BY <1>1, MillisecondsAdd
<1>3. left \in Int
  BY <1>1
<1>4. r = [m EXCEPT !.repeatCount = left, !.canceled = @ \/ left = 0,
                    !.expiration = next]
  BY DEF Ran
<1> HIDE DEF left, next, r
<1>5. /\ r.state = "made" /\ r.when = m.when /\ r.interval = m.interval
      /\ r.repeat = m.repeat /\ r.repeatCount = left
      /\ r.expiration = next /\ r.stopped = m.stopped
      /\ r.canceled <=> m.canceled \/ left = 0
      /\ r \in TimerRecords
  BY <1>2, <1>3, <1>4 DEF TimerRecords
<1>6. GetMilliseconds(r.expiration) = GetMilliseconds(r.when) + n * r.interval
  <2>1. GetMilliseconds(m.when) \in Nat /\ GetMilliseconds(m.expiration) \in Nat
    BY <1>1, MillisecondsType
  <2>2. (n - 1) * m.interval + m.interval = n * m.interval
    BY <1>1
  <2>3. (n - 1) * m.interval \in Nat
    BY <1>1
  <2>4. GetMilliseconds(m.expiration)
          = GetMilliseconds(m.when) + (n - 1) * m.interval
    BY DEF Sound
  <2> QED
    BY <1>1, <1>2, <1>5, <2>1, <2>2, <2>3, <2>4
<1>7. m.repeat = Forever => left = Forever /\ left # 0
  <2>1. m.repeat = Forever => m.repeatCount = -1
    BY DEF Sound, Forever
  <2> QED
    BY <2>1 DEF left, Forever
<1>8. ASSUME m.repeat # Forever
      PROVE  /\ left = 0 <=> n = Times(m.repeat)
             /\ n - 1 # Times(m.repeat) /\ n <= Times(m.repeat)
             /\ left = IF m.repeat = 0 THEN 0 ELSE m.repeat - n
  <2>1. /\ m.repeat \in Nat /\ n <= Times(m.repeat)
        /\ m.repeatCount = IF m.repeat = 0 THEN 0 ELSE m.repeat - (n - 1)
    BY <1>8 DEF Sound
  <2> QED
    <3>1. CASE m.repeat = 0
      <4>1. n = 1 /\ m.repeatCount = 0
        BY <2>1, <3>1 DEF Times
      <4>2. left = 0
        BY <4>1 DEF left
      <4> QED
        BY <3>1, <4>1, <4>2 DEF Times
    <3>2. CASE m.repeat # 0
      <4>1. n <= m.repeat /\ m.repeatCount = m.repeat - (n - 1)
        BY <2>1, <3>2 DEF Times
      <4>2. left = m.repeat - n
        BY <2>1, <4>1 DEF left
      <4>3. left = 0 <=> n = m.repeat
        BY <2>1, <4>2
      <4> QED
        BY <2>1, <3>2, <4>1, <4>2, <4>3 DEF Times
    <3> QED
      BY <3>1, <3>2
<1>9. r.canceled <=>
        r.stopped # Never \/ (r.repeat # Forever /\ n = Times(r.repeat))
  <2>1. m.canceled <=>
          m.stopped # Never \/ (m.repeat # Forever /\ n - 1 = Times(m.repeat))
    BY DEF Sound
  <2> QED
    BY <1>5, <1>7, <1>8, <2>1
<1>10. Sound(r, n, n, now)
  BY <1>5, <1>6, <1>7, <1>8, <1>9 DEF Sound
<1> QED
  BY <1>5, <1>10 DEF r

-----------------------------------------------------------------------------
(* Facts that hold in every state of the invariant *)

(* How many callbacks have ended is a number.                              *)
LEMMA EndedType ==
  ASSUME TimerInv, NEW t \in Timers
  PROVE  Ended(t) \in Nat
BY DEF TimerInv, TimersOK, WalkOK, Ended

(* The elements of the list.                                               *)
LEMMA Listed ==
  ASSUME ListOK
  PROVE  /\ ToSet(timerList) \subseteq Timers
         /\ DOMAIN timerList = 1..Len(timerList) /\ Len(timerList) \in Nat
         /\ \A i \in 1..Len(timerList) : timerList[i] \in ToSet(timerList)
BY LenProperties, ElementOfSeq DEF ListOK, ToSet

(* A timer is no end of the list.                                          *)
LEMMA NoTimerIsNone == NoTimer \notin Timers
BY DEF NoTimer, Timers

(* The iterator goes to a timer of the list or to its end.                 *)
LEMMA SuccessorListed ==
  ASSUME ListOK, NEW t \in ToSet(timerList)
  PROVE  Successor(t) = NoTimer \/ Successor(t) \in ToSet(timerList)
<1> DEFINE i == CHOOSE j \in DOMAIN timerList : timerList[j] = t
<1>1. i \in DOMAIN timerList
  BY DEF ToSet
<1>2. Successor(t) = IF i = Len(timerList) THEN NoTimer ELSE timerList[i + 1]
  BY DEF Successor
<1> HIDE DEF i
<1>3. i # Len(timerList) => i + 1 \in 1..Len(timerList)
  BY <1>1, Listed
<1> QED
  BY <1>2, <1>3, Listed

(* Appending to the list adds one element.                                 *)
LEMMA AppendListed ==
  ASSUME ListOK, NEW t \in Timers, timerList' = Append(timerList, t)
  PROVE  /\ timerList' \in Seq(Timers)
         /\ ToSet(timerList') = ToSet(timerList) \cup {t}
<1>1. /\ timerList' \in Seq(Timers) /\ Len(timerList') = Len(timerList) + 1
      /\ \A i \in 1..Len(timerList) : timerList'[i] = timerList[i]
      /\ timerList'[Len(timerList) + 1] = t
  BY AppendProperties DEF ListOK
<1>2. /\ DOMAIN timerList = 1..Len(timerList) /\ Len(timerList) \in Nat
      /\ DOMAIN timerList' = 1..(Len(timerList) + 1)
  BY <1>1, LenProperties, Listed
<1>3. \A i \in DOMAIN timerList' : timerList'[i] \in ToSet(timerList) \cup {t}
  <2>1. \A i \in DOMAIN timerList' :
          i \in 1..Len(timerList) \/ i = Len(timerList) + 1
    BY <1>2
  <2> QED
    BY <1>1, <2>1, Listed
<1>4. \A u \in ToSet(timerList) \cup {t} :
        \E i \in DOMAIN timerList' : timerList'[i] = u
  <2>1. ASSUME NEW u \in ToSet(timerList)
        PROVE  \E i \in DOMAIN timerList' : timerList'[i] = u
    <3>1. PICK i \in DOMAIN timerList : timerList[i] = u
      BY DEF ToSet
    <3>2. i \in 1..Len(timerList) /\ i \in DOMAIN timerList'
      BY <1>2
    <3> QED
      BY <1>1, <3>1, <3>2
  <2>2. Len(timerList) + 1 \in DOMAIN timerList'
    BY <1>2
  <2> QED
    BY <1>1, <2>1, <2>2
<1> QED
  BY <1>1, <1>3, <1>4 DEF ToSet

(* What is queued.                                                         *)
LEMMA Queued ==
  ASSUME QueueOK
  PROVE  /\ Len(functors) \in Nat
         /\ \A i \in 1..Len(functors) :
              functors[i].op \in {"add", "delete"} /\ functors[i].timer \in Timers
<1>1. \A i \in 1..Len(functors) : functors[i] \in QueuedFunctors
  BY ElementOfSeq DEF QueueOK
<1> QED
  BY <1>1, LenProperties DEF QueueOK, QueuedFunctors

(* What is queued stays in order when the loop calls the first functor or  *)
(* none, if no timer that waits is added, deleted or forgotten meanwhile.  *)
LEMMA QueueStays ==
  ASSUME QueueOK, NEW d \in {0, 1},
         functors' \in Seq(QueuedFunctors),
         Len(functors') = Len(functors) - d,
         \A i \in 1..Len(functors') : functors'[i] = functors[i + d],
         \A t \in Timers : timer[t].state # "none" => timer'[t].state # "none",
         \A i \in 1..Len(functors') :
           functors'[i].op = "add" =>
             /\ timer'[functors'[i].timer].state = "made"
             /\ functors'[i].timer \notin ToSet(timerList')
             /\ functors'[i].timer \in deleted' => functors'[i].timer \in overtaken'
  PROVE  QueueOK'
<1>0. Len(functors) \in Nat /\ Len(functors') \in Nat
  BY LenProperties DEF QueueOK
<1>1. \A i \in 1..Len(functors') : i + d \in 1..Len(functors)
  BY <1>0
<1>2. \A i \in 1..Len(functors') : timer'[functors'[i].timer].state # "none"
  BY <1>1, Queued DEF QueueOK
<1>3. ASSUME NEW i \in 1..Len(functors'), functors'[i].op = "add",
             NEW j \in 1..Len(functors'), functors'[j].op = "add",
             functors'[j].timer = functors'[i].timer
      PROVE  j = i
  <2>1. i + d \in 1..Len(functors) /\ j + d \in 1..Len(functors)
    BY <1>1
  <2>2. functors'[i] = functors[i + d] /\ functors'[j] = functors[j + d]
    OBVIOUS
  <2>3. WaitsOnce(functors, i + d)
    BY <1>3, <2>1, <2>2 DEF QueueOK
  <2>4. j + d = i + d
    BY <1>3, <2>1, <2>2, <2>3 DEF WaitsOnce
  <2> QED
    BY <2>4
<1> QED
  BY <1>2, <1>3 DEF QueueOK, WaitsOnce

(* A functor joins the queue.                                              *)
LEMMA QueueGrows ==
  ASSUME QueueOK, ListOK, NEW f \in QueuedFunctors,
         functors' = Append(functors, f),
         \A i \in 1..Len(functors) :
           timer'[functors[i].timer] = timer[functors[i].timer],
         timer'[f.timer].state # "none",
         f.op = "add" =>
           /\ timer[f.timer].state = "none"
           /\ timer'[f.timer].state = "made",
         UNCHANGED <<timerList, deleted, overtaken>>
  PROVE  QueueOK'
<1>1. /\ functors' \in Seq(QueuedFunctors) /\ Len(functors') = Len(functors) + 1
      /\ \A i \in 1..Len(functors) : functors'[i] = functors[i]
      /\ functors'[Len(functors) + 1] = f
  BY AppendProperties DEF QueueOK
<1>2. Len(functors) \in Nat
  BY Queued
<1>3. \A i \in 1..Len(functors') : i \in 1..Len(functors) \/ i = Len(functors) + 1
  BY <1>1, <1>2
<1>4. \A i \in 1..Len(functors') : timer'[functors'[i].timer].state # "none"
  BY <1>1, <1>3 DEF QueueOK
<1>5. f.op = "add" =>
        /\ \A i \in 1..Len(functors) : functors[i].timer # f.timer
        /\ f.timer \notin ToSet(timerList)
        /\ f.timer \notin deleted
  BY DEF QueueOK, ListOK
<1>6. ASSUME NEW i \in 1..Len(functors'), functors'[i].op = "add"
      PROVE  WaitsOnce(functors, i)'
  <2>1. CASE i \in 1..Len(functors)
    <3>1. WaitsOnce(functors, i) /\ functors'[i] = functors[i]
      BY <1>1, <1>6, <2>1 DEF QueueOK
    <3>2. ASSUME NEW j \in 1..Len(functors'), functors'[j].op = "add",
                 functors'[j].timer = functors'[i].timer
          PROVE  j = i
      <4>1. CASE j \in 1..Len(functors)
        BY <1>1, <3>1, <3>2, <4>1 DEF WaitsOnce
      <4>2. CASE j = Len(functors) + 1
        BY <1>1, <1>5, <2>1, <3>1, <3>2, <4>2
      <4> QED
        BY <1>3, <4>1, <4>2
    <3>3. timer'[functors[i].timer] = timer[functors[i].timer]
      BY <2>1
    <3> QED
      BY <3>1, <3>2, <3>3 DEF WaitsOnce
  <2>2. CASE i = Len(functors) + 1
    <3>1. functors'[i] = f /\ f.op = "add"
      BY <1>1, <1>6, <2>2
    <3>2. ASSUME NEW j \in 1..Len(functors'), functors'[j].timer = f.timer
          PROVE  j = i
      BY <1>1, <1>3, <1>5, <2>2, <3>1, <3>2
    <3> QED
      BY <1>5, <3>1, <3>2 DEF WaitsOnce
  <2> QED
    BY <1>3, <2>1, <2>2
<1> QED
  BY <1>1, <1>4, <1>6 DEF QueueOK

(* Deleting the timers in T takes them out of the list, and leaves nothing *)
(* of those it finds there; the others stay what they are.                 *)
LEMMA DeletedGives ==
  ASSUME TimerInv, NEW T, Deleted(T), UNCHANGED <<timerPc, at, clock>>,
         timerPc = "callback" => at \notin T
  PROVE  /\ TimersOK'
         /\ timerList' \in Seq(Timers)
         /\ ToSet(timerList') = ToSet(timerList) \ T
         /\ \A t \in Timers :
              /\ t \notin T \/ t \notin ToSet(timerList) =>
                   timer'[t] = timer[t] /\ runs'[t] = runs[t]
              /\ timer[t].state # "none" => timer'[t].state # "none"
<1>1. /\ timer' = [t \in Timers |->
                     IF t \in T \cap ToSet(timerList) THEN Gone ELSE timer[t]]
      /\ runs' = [t \in Timers |->
                    IF t \in T \cap ToSet(timerList) THEN 0 ELSE runs[t]]
      /\ timerList' = Without(timerList, T)
  BY DEF Deleted
<1>2. timerList \in Seq(Timers)
  BY DEF TimerInv, ListOK
<1>3. timerList' \in Seq(Timers) /\ ToSet(timerList') = ToSet(timerList) \ T
  BY <1>1, <1>2, WithoutElements DEF ToSet
<1>4. ASSUME NEW t \in Timers
      PROVE  /\ timer'[t] \in TimerRecords /\ runs'[t] \in Nat
             /\ Sound(timer'[t], runs'[t], Ended(t)', clock)
             /\ t \notin T \/ t \notin ToSet(timerList) =>
                  timer'[t] = timer[t] /\ runs'[t] = runs[t]
             /\ timer[t].state # "none" => timer'[t].state # "none"
  <2>1. /\ timer[t] \in TimerRecords /\ runs[t] \in Nat /\ clock \in Timeval
        /\ Sound(timer[t], runs[t], Ended(t), clock)
    BY DEF TimerInv, TimersOK
  <2>2. CASE t \in ToSet(timerList) /\ t \in T
    <3>1. timer'[t] = Gone /\ runs'[t] = 0
      BY <1>1, <2>2
    <3>2. Ended(t)' = 0
      BY <2>2, <3>1 DEF Ended
    <3> QED
      BY <2>1, <2>2, <3>1, <3>2, SoundGone
  <2>3. CASE t \notin T \/ t \notin ToSet(timerList)
    <3>1. timer'[t] = timer[t] /\ runs'[t] = runs[t]
      BY <1>1, <2>3
    <3>2. Ended(t)' = Ended(t)
      BY <3>1 DEF Ended
    <3> QED
      BY <2>1, <3>1, <3>2
  <2> QED
    BY <2>2, <2>3
<1>5. timer' \in [Timers -> TimerRecords] /\ runs' \in [Timers -> Nat]
  <2>1. timer' = [t \in Timers |-> timer'[t]] /\ runs' = [t \in Timers |-> runs'[t]]
    BY <1>1
  <2> QED
    BY <1>4, <2>1
<1>6. TimersOK'
  BY <1>4, <1>5 DEF TimerInv, TimersOK
<1> QED
  BY <1>3, <1>4, <1>6

-----------------------------------------------------------------------------
(* Every step keeps the invariant *)

(* Nothing is there at first.                                              *)
LEMMA TimersStart == TimerInit => TimerInv
<1> SUFFICES ASSUME TimerInit PROVE TimerInv
  OBVIOUS
<1>1. NoTime \in Timeval /\ clock \in Timeval
  BY NoTimeIsTimeval, TimerAssumption DEF TimerInit, Timeval
<1>2. GetMilliseconds(NoTime) \in Nat
  BY <1>1, MillisecondsType
<1>3. Blank \in TimerRecords /\ Blank.state = "none"
  BY <1>1 DEF Blank, TimerRecords
<1>4. GetMilliseconds(Blank.expiration)
        = GetMilliseconds(Blank.when) + 0 * Blank.interval
  BY <1>2 DEF Blank
<1>5. Sound(Blank, 0, 0, clock)
  BY <1>3, <1>4 DEF Sound, Blank, Forever
<1>6. \A t \in Timers : timer[t] = Blank /\ runs[t] = 0 /\ Ended(t) = 0
  BY DEF TimerInit, Ended
<1>7. TimersOK
  BY <1>1, <1>3, <1>5, <1>6 DEF TimersOK, TimerInit
<1>8. ToSet(timerList) = {}
  BY DEF ToSet, TimerInit
<1>9. WalkOK
  BY <1>1, TimerAssumption DEF WalkOK, TimerInit
<1>10. ListOK
  BY <1>8 DEF ListOK, TimerInit
<1>11. QueueOK
  BY DEF QueueOK, TimerInit
<1> QED
  BY <1>7, <1>9, <1>10, <1>11 DEF TimerInv

(* The clock goes on: nobody's callback becomes early.                     *)
LEMMA ClockKeeps ==
  ASSUME TimerInv, ClockTicks
  PROVE  TimerInv'
<1>1. /\ ticks' = ticks + 1 /\ ticks < MaxTicks
      /\ clock' = AddMilliseconds(clock, Ticks)
      /\ UNCHANGED <<timer, timerList, functors, timerPc, passTime, at, runs,
                     deleted, overtaken>>
  BY DEF ClockTicks, loopState
<1>2. clock' \in Timeval /\ GetMilliseconds(clock) <= GetMilliseconds(clock')
  <2>1. clock \in Timeval /\ Ticks \in Nat
    BY TimerAssumption DEF TimerInv, TimersOK
  <2>2. /\ clock' \in Timeval
        /\ GetMilliseconds(clock') = GetMilliseconds(clock) + Ticks
    BY <1>1, <2>1, MillisecondsAdd
  <2> QED
    BY <2>1, <2>2, MillisecondsType
<1>3. TimersOK'
  <2>1. ASSUME NEW t \in Timers
        PROVE  Sound(timer[t], runs[t], Ended(t), clock')
    <3>1. /\ timer[t] \in TimerRecords /\ runs[t] \in Nat /\ clock \in Timeval
          /\ Sound(timer[t], runs[t], Ended(t), clock)
      BY DEF TimerInv, TimersOK
    <3> QED
      BY <1>2, <3>1, EndedType, SoundLater
  <2>2. \A t \in Timers : Ended(t)' = Ended(t)
    BY <1>1 DEF Ended
  <2> QED
    BY <1>1, <1>2, <2>1, <2>2 DEF TimerInv, TimersOK
<1>4. WalkOK'
  <2>1. ticks' \in 0..MaxTicks
    BY <1>1, TimerAssumption DEF TimerInv, WalkOK
  <2>2. timerPc # "pass" => GetMilliseconds(passTime) <= GetMilliseconds(clock')
    <3>1. /\ GetMilliseconds(passTime) \in Nat /\ GetMilliseconds(clock) \in Nat
          /\ GetMilliseconds(clock') \in Nat
      BY <1>2, MillisecondsType DEF TimerInv, TimersOK, WalkOK
    <3> QED
      BY <1>2, <3>1 DEF TimerInv, WalkOK
  <2> QED
    BY <1>1, <2>1, <2>2 DEF TimerInv, WalkOK
<1>5. ListOK'
  BY <1>1 DEF TimerInv, ListOK
<1>6. QueueOK'
  BY <1>1 DEF TimerInv, QueueOK, WaitsOnce
<1> QED
  BY <1>3, <1>4, <1>5, <1>6 DEF TimerInv

(* A new Timer is in no list and no functor yet.                           *)
LEMMA AddKeeps ==
  ASSUME TimerInv, NEW t \in Timers, NEW delay \in Delays, NEW kind \in Kinds,
         AddTimer(t, delay, kind)
  PROVE  TimerInv'
<1> DEFINE m == Made(delay, kind)
           f == [op |-> "add", timer |-> t]
<1>1. /\ timer[t].state = "none"
      /\ timer' = [timer EXCEPT ![t] = m]
      /\ UNCHANGED <<clock, ticks, timerPc, passTime, at, runs, deleted, overtaken>>
      /\ \/ /\ InLoop
            /\ timerList' = Append(timerList, t)
            /\ UNCHANGED functors
         \/ /\ functors' = Append(functors, f)
            /\ UNCHANGED timerList
  <2>1. t \in Int
    BY DEF Timers
  <2>2. timer[t].state = "none"
    BY <2>1 DEF AddTimer
  <2> QED
    BY <2>2 DEF AddTimer, loopState
<1>2. /\ m \in TimerRecords /\ m.state = "made" /\ Sound(m, 0, 0, clock)
  BY SoundMade DEF TimerInv, TimersOK
<1> HIDE DEF m
<1>3. t \notin ToSet(timerList) /\ t \notin deleted /\ t # at /\ runs[t] = 0
  BY <1>1, NoTimerIsNone DEF TimerInv, TimersOK, ListOK, WalkOK, Sound
<1>4. /\ timer \in [Timers -> TimerRecords] /\ timer'[t] = m
      /\ \A s \in Timers \ {t} : timer'[s] = timer[s]
  BY <1>1 DEF TimerInv, TimersOK
<1>5. TimersOK'
  <2>1. timer' \in [Timers -> TimerRecords]
    BY <1>1, <1>2, <1>4
  <2>2. \A s \in Timers : Ended(s)' = Ended(s)
    BY <1>1 DEF Ended
  <2>3. Ended(t) = 0
    BY <1>3 DEF Ended
  <2>4. \A s \in Timers : Sound(timer'[s], runs[s], Ended(s), clock)
    BY <1>2, <1>3, <1>4, <2>3 DEF TimerInv, TimersOK
  <2> QED
    BY <1>1, <2>1, <2>2, <2>4 DEF TimerInv, TimersOK
<1>6. CASE InLoop /\ timerList' = Append(timerList, t) /\ UNCHANGED functors
  <2>1. timerList' \in Seq(Timers) /\ ToSet(timerList') = ToSet(timerList) \cup {t}
    BY <1>6, AppendListed DEF TimerInv
  <2>2. WalkOK'
    BY <1>1, <1>3, <1>4, <2>1 DEF TimerInv, WalkOK
  <2>3. ListOK'
    <3>1. \A s \in ToSet(timerList') : timer'[s].state = "made"
      BY <1>2, <1>4, <2>1, Listed DEF TimerInv, ListOK
    <3>2. \A s \in deleted : timer'[s].state # "none"
      BY <1>3, <1>4 DEF TimerInv, ListOK
    <3>3. \A s \in deleted : s \in ToSet(timerList') => s \in overtaken
      BY <1>3, <2>1 DEF TimerInv, ListOK
    <3> QED
      BY <1>1, <2>1, <3>1, <3>2, <3>3 DEF TimerInv, ListOK
  <2>4. QueueOK'
    <3>1. \A i \in 1..Len(functors) : functors[i].timer \in Timers \ {t}
      BY <1>1, Queued DEF TimerInv, QueueOK
    <3>2. \A i \in 1..Len(functors) : timer'[functors[i].timer] = timer[functors[i].timer]
      BY <1>4, <3>1
    <3>3. \A i \in 1..Len(functors) :
            functors[i].op = "add" =>
              /\ timer'[functors[i].timer].state = "made"
              /\ functors[i].timer \notin ToSet(timerList')
              /\ functors[i].timer \in deleted => functors[i].timer \in overtaken
      BY <2>1, <3>1, <3>2 DEF TimerInv, QueueOK, WaitsOnce
    <3>4. \A s \in Timers : timer[s].state # "none" => timer'[s].state # "none"
      BY <1>1, <1>4
    <3>5. /\ functors' \in Seq(QueuedFunctors)
          /\ Len(functors') = Len(functors) - 0
          /\ \A i \in 1..Len(functors') : functors'[i] = functors[i + 0]
      BY <1>6, LenProperties DEF TimerInv, QueueOK
    <3>6. \A i \in 1..Len(functors') :
            functors'[i].op = "add" =>
              /\ timer'[functors'[i].timer].state = "made"
              /\ functors'[i].timer \notin ToSet(timerList')
              /\ functors'[i].timer \in deleted' => functors'[i].timer \in overtaken'
      BY <1>1, <1>6, <3>3
    <3> QED
      BY <3>4, <3>5, <3>6, QueueStays DEF TimerInv
  <2> QED
    BY <1>5, <2>2, <2>3, <2>4 DEF TimerInv
<1>7. CASE functors' = Append(functors, f) /\ UNCHANGED timerList
  <2>1. WalkOK'
    BY <1>1, <1>3, <1>4, <1>7 DEF TimerInv, WalkOK
  <2>2. ListOK'
    <3>1. \A s \in ToSet(timerList) : timer'[s].state = "made"
      BY <1>3, <1>4, Listed DEF TimerInv, ListOK
    <3>2. \A s \in deleted : timer'[s].state # "none"
      BY <1>3, <1>4 DEF TimerInv, ListOK
    <3> QED
      BY <1>1, <1>7, <3>1, <3>2 DEF TimerInv, ListOK
  <2>3. QueueOK'
    <3>1. \A i \in 1..Len(functors) : functors[i].timer \in Timers \ {t}
      BY <1>1, Queued DEF TimerInv, QueueOK
    <3>2. \A i \in 1..Len(functors) : timer'[functors[i].timer] = timer[functors[i].timer]
      BY <1>4, <3>1
    <3>3. f \in QueuedFunctors /\ f.timer = t /\ f.op = "add"
      BY DEF QueuedFunctors
    <3> HIDE DEF f
    <3>4. timer'[f.timer].state = "made" /\ timer[f.timer].state = "none"
      BY <1>1, <1>2, <1>4, <3>3
    <3> QED
      BY <1>1, <1>7, <3>2, <3>3, <3>4, QueueGrows DEF TimerInv
  <2> QED
    BY <1>5, <2>1, <2>2, <2>3 DEF TimerInv
<1> QED
  BY <1>1, <1>6, <1>7

(* A timer is deleted in the loop's thread, with the queue as it was or    *)
(* without the functor that says so.                                       *)
LEMMA DeleteInLoopKeeps ==
  ASSUME TimerInv, NEW t \in Timers, NEW d \in {0, 1}, DeleteTimerInLoop(t),
         timer[t].state # "none",
         UNCHANGED <<clock, ticks, loopState>>,
         functors' \in Seq(QueuedFunctors),
         Len(functors') = Len(functors) - d,
         \A i \in 1..Len(functors') : functors'[i] = functors[i + d]
  PROVE  TimerInv'
<1>1. /\ t # at
      /\ Deleted({t})
      /\ deleted' = deleted \cup {t}
      /\ t \in ToSet(timerList) => overtaken' = overtaken
      /\ t \notin ToSet(timerList) => overtaken' = overtaken \cup ({t} \ deleted)
      /\ UNCHANGED <<clock, ticks, timerPc, passTime, at>>
  BY DEF DeleteTimerInLoop, loopState
<1>2. /\ TimersOK'
      /\ timerList' \in Seq(Timers)
      /\ ToSet(timerList') = ToSet(timerList) \ {t}
      /\ \A s \in Timers :
           /\ s \notin {t} \/ s \notin ToSet(timerList) =>
                timer'[s] = timer[s] /\ runs'[s] = runs[s]
           /\ timer[s].state # "none" => timer'[s].state # "none"
  BY <1>1, DeletedGives
<1>4. WalkOK'
  BY <1>1, <1>2 DEF TimerInv, WalkOK
<1>5. ListOK'
  <2>1. \A s \in ToSet(timerList') : timer'[s].state = "made"
    BY <1>2, Listed DEF TimerInv, ListOK
  <2>2. deleted' \subseteq Timers /\ overtaken' \subseteq deleted'
    BY <1>1 DEF TimerInv, ListOK
  <2>3. \A s \in deleted' : timer'[s].state # "none"
    BY <1>1, <1>2 DEF TimerInv, ListOK
  <2>4. \A s \in deleted' : s \in ToSet(timerList') => s \in overtaken'
    BY <1>1, <1>2 DEF TimerInv, ListOK
  <2> QED
    BY <1>2, <2>1, <2>2, <2>3, <2>4 DEF ListOK
<1>6. QueueOK'
  <2>1. ASSUME NEW i \in 1..Len(functors'), functors'[i].op = "add"
        PROVE  /\ timer'[functors'[i].timer].state = "made"
               /\ functors'[i].timer \notin ToSet(timerList')
               /\ functors'[i].timer \in deleted' =>
                    functors'[i].timer \in overtaken'
    <3>1. i + d \in 1..Len(functors) /\ functors'[i] = functors[i + d]
      <4>1. Len(functors) \in Nat
        BY Queued DEF TimerInv
      <4> QED
        BY <4>1
    <3>2. WaitsOnce(functors, i + d) /\ functors'[i].timer \in Timers
      BY <2>1, <3>1, Queued DEF TimerInv, QueueOK
    <3>3. /\ functors'[i].timer \notin ToSet(timerList)
          /\ timer[functors'[i].timer].state = "made"
          /\ functors'[i].timer \in deleted => functors'[i].timer \in overtaken
      BY <3>1, <3>2 DEF WaitsOnce
    <3>4. functors'[i].timer \in deleted' => functors'[i].timer \in overtaken'
      BY <1>1, <3>3
    <3> QED
      BY <1>2, <3>2, <3>3, <3>4
  <2> QED
    BY <1>2, <2>1, QueueStays DEF TimerInv
<1> QED
  BY <1>2, <1>4, <1>5, <1>6 DEF TimerInv

(* deleteTimer, at once or later.                                          *)
LEMMA DeleteKeeps ==
  ASSUME TimerInv, NEW t \in Timers, DeleteTimer(t)
  PROVE  TimerInv'
<1>1. timer[t].state = "made" /\ UNCHANGED <<clock, ticks, loopState>>
  BY DEF DeleteTimer
<1>2. CASE DeleteTimerInLoop(t) /\ UNCHANGED functors
  <2>1. /\ functors' \in Seq(QueuedFunctors) /\ Len(functors') = Len(functors) - 0
        /\ \A i \in 1..Len(functors') : functors'[i] = functors[i + 0]
    BY <1>2, LenProperties DEF TimerInv, QueueOK
  <2> QED
    BY <1>1, <1>2, <2>1, DeleteInLoopKeeps
<1>3. CASE /\ functors' = Append(functors, [op |-> "delete", timer |-> t])
           /\ UNCHANGED <<timer, timerList, runs, deleted, overtaken>>
  <2> DEFINE f == [op |-> "delete", timer |-> t]
  <2>1. f \in QueuedFunctors /\ f.timer = t /\ f.op = "delete"
    BY DEF QueuedFunctors
  <2> HIDE DEF f
  <2>2. QueueOK'
    <3>1. functors' = Append(functors, f)
      BY <1>3 DEF f
    <3> QED
      BY <1>1, <1>3, <2>1, <3>1, QueueGrows DEF TimerInv
  <2>3. \A s \in Timers : Ended(s)' = Ended(s)
    BY <1>1, <1>3 DEF Ended, loopState
  <2>4. TimersOK'
    BY <1>1, <1>3, <2>3 DEF TimerInv, TimersOK, loopState
  <2>5. WalkOK' /\ ListOK'
    BY <1>1, <1>3 DEF TimerInv, WalkOK, ListOK, loopState
  <2> QED
    BY <2>2, <2>4, <2>5 DEF TimerInv
<1> QED
  BY <1>2, <1>3 DEF DeleteTimer

(* deleteAllTimers and deleteAllCanceledTimers: between two walks, so that *)
(* the iterator is nowhere.                                                *)
LEMMA DeleteManyKeeps ==
  ASSUME TimerInv, timerPc = "pass", NEW T, Deleted(T),
         deleted' \in {deleted, deleted \cup ToSet(timerList)},
         deleted' = deleted \/ ToSet(timerList) \subseteq T,
         UNCHANGED <<clock, ticks, functors, loopState, overtaken>>
  PROVE  TimerInv'
<1>1. /\ TimersOK'
      /\ timerList' \in Seq(Timers)
      /\ ToSet(timerList') = ToSet(timerList) \ T
      /\ \A s \in Timers :
           /\ s \notin T \/ s \notin ToSet(timerList) =>
                timer'[s] = timer[s] /\ runs'[s] = runs[s]
           /\ timer[s].state # "none" => timer'[s].state # "none"
  BY DeletedGives DEF loopState
<1>2. UNCHANGED <<clock, ticks, timerPc, passTime, at, functors, overtaken>>
  BY DEF loopState
<1>4. WalkOK'
  BY <1>1, <1>2 DEF TimerInv, WalkOK
<1>5. ListOK'
  <2>1. \A s \in ToSet(timerList') : timer'[s].state = "made"
    BY <1>1, Listed DEF TimerInv, ListOK
  <2>2. deleted' \subseteq Timers /\ overtaken' \subseteq deleted'
    BY <1>2, Listed DEF TimerInv, ListOK
  <2>3. \A s \in deleted' : timer'[s].state # "none"
    BY <1>1, Listed DEF TimerInv, ListOK
  <2>4. \A s \in deleted' : s \in ToSet(timerList') => s \in overtaken'
    BY <1>1, <1>2 DEF TimerInv, ListOK
  <2> QED
    BY <1>1, <2>1, <2>2, <2>3, <2>4 DEF ListOK
<1>6. QueueOK'
  <2>1. /\ functors' \in Seq(QueuedFunctors) /\ Len(functors') = Len(functors) - 0
        /\ \A i \in 1..Len(functors') : functors'[i] = functors[i + 0]
    BY <1>2, LenProperties DEF TimerInv, QueueOK
  <2>2. ASSUME NEW i \in 1..Len(functors'), functors'[i].op = "add"
        PROVE  /\ timer'[functors'[i].timer].state = "made"
               /\ functors'[i].timer \notin ToSet(timerList')
               /\ functors'[i].timer \in deleted' =>
                    functors'[i].timer \in overtaken'
    <3>1. /\ WaitsOnce(functors, i) /\ functors'[i].timer \in Timers
          /\ functors'[i] = functors[i]
      BY <1>2, <2>2, Queued DEF TimerInv, QueueOK
    <3> QED
      BY <1>1, <1>2, <3>1 DEF WaitsOnce
  <2> QED
    BY <1>1, <2>1, <2>2, QueueStays DEF TimerInv
<1> QED
  BY <1>1, <1>4, <1>5, <1>6 DEF TimerInv

(* The loop calls the functor that was queued first.                       *)
LEMMA CallKeeps ==
  ASSUME TimerInv, CallQueued
  PROVE  TimerInv'
<1> DEFINE f == Head(functors)
<1>1. /\ timerPc = "pass" /\ functors # <<>> /\ functors' = Tail(functors)
      /\ UNCHANGED <<clock, ticks, loopState>>
      /\ \/ /\ f.op = "add"
            /\ timerList' = Append(timerList, f.timer)
            /\ UNCHANGED <<timer, runs, deleted, overtaken>>
         \/ f.op = "delete" /\ DeleteTimerInLoop(f.timer)
  BY DEF CallQueued
<1>2. /\ functors \in Seq(QueuedFunctors)
      /\ functors' \in Seq(QueuedFunctors)
      /\ Len(functors) \in Nat /\ Len(functors) >= 1
      /\ Len(functors') = Len(functors) - 1
      /\ \A i \in 1..Len(functors') : functors'[i] = functors[i + 1]
      /\ f = functors[1]
  <2>1. functors \in Seq(QueuedFunctors)
    BY DEF TimerInv, QueueOK
  <2> QED
    BY <1>1, <2>1, HeadTailProperties, EmptySeq, LenProperties
<1>3. 1 \in 1..Len(functors) /\ f.timer \in Timers /\ timer[f.timer].state # "none"
  BY <1>2, Queued DEF TimerInv, QueueOK
<1> HIDE DEF f
<1>4. CASE /\ f.op = "add" /\ timerList' = Append(timerList, f.timer)
           /\ UNCHANGED <<timer, runs, deleted, overtaken>>
  <2>1. timerList' \in Seq(Timers) /\ ToSet(timerList') = ToSet(timerList) \cup {f.timer}
    BY <1>3, <1>4, AppendListed DEF TimerInv
  <2>2. /\ timer[f.timer].state = "made"
        /\ f.timer \in deleted => f.timer \in overtaken
        /\ \A j \in 1..Len(functors) :
             functors[j].op = "add" /\ functors[j].timer = f.timer => j = 1
    <3>1. WaitsOnce(functors, 1)
      BY <1>2, <1>3, <1>4 DEF TimerInv, QueueOK
    <3> QED
      BY <1>2, <3>1 DEF WaitsOnce
  <2>3. TimersOK'
    <3>1. \A s \in Timers : Ended(s)' = Ended(s)
      BY <1>1, <1>4 DEF Ended, loopState
    <3> QED
      BY <1>1, <1>4, <3>1 DEF TimerInv, TimersOK, loopState
  <2>4. WalkOK'
    BY <1>1, <1>4, <2>1 DEF TimerInv, WalkOK, loopState
  <2>5. ListOK'
    BY <1>4, <2>1, <2>2 DEF TimerInv, ListOK
  <2>6. QueueOK'
    <3>1. ASSUME NEW i \in 1..Len(functors'), functors'[i].op = "add"
          PROVE  /\ timer'[functors'[i].timer].state = "made"
                 /\ functors'[i].timer \notin ToSet(timerList')
                 /\ functors'[i].timer \in deleted' =>
                      functors'[i].timer \in overtaken'
      <4>1. i + 1 \in 1..Len(functors) /\ functors'[i] = functors[i + 1] /\ i + 1 # 1
        BY <1>2
      <4>2. WaitsOnce(functors, i + 1)
        BY <3>1, <4>1 DEF TimerInv, QueueOK
      <4>3. functors'[i].timer # f.timer
        BY <2>2, <3>1, <4>1
      <4> QED
        BY <1>4, <2>1, <4>1, <4>2, <4>3 DEF WaitsOnce
    <3>2. \A s \in Timers : timer[s].state # "none" => timer'[s].state # "none"
      BY <1>4
    <3> QED
      BY <1>2, <3>1, <3>2, QueueStays DEF TimerInv
  <2> QED
    BY <2>3, <2>4, <2>5, <2>6 DEF TimerInv
<1>5. CASE f.op = "delete" /\ DeleteTimerInLoop(f.timer)
  BY <1>1, <1>2, <1>3, <1>5, DeleteInLoopKeeps
<1> QED
  BY <1>1, <1>4, <1>5

(* The walk begins at the first timer of the list, and goes on and ends.   *)
LEMMA WalkKeeps ==
  ASSUME TimerInv, BeginWalk \/ SkipTimer \/ EndWalk
  PROVE  TimerInv'
<1>1. /\ UNCHANGED <<clock, ticks, timer, timerList, functors, runs, deleted,
                     overtaken>>
      /\ timerPc # "callback" /\ timerPc' # "callback"
  BY DEF BeginWalk, SkipTimer, EndWalk
<1>2. TimersOK' /\ ListOK' /\ QueueOK'
  <2>1. \A s \in Timers : Ended(s)' = Ended(s)
    BY <1>1 DEF Ended
  <2> QED
    BY <1>1, <2>1 DEF TimerInv, TimersOK, ListOK, QueueOK, WaitsOnce
<1>3. CASE BeginWalk
  <2>1. Head(timerList) \in ToSet(timerList)
    <3>1. timerList \in Seq(Timers) /\ timerList # <<>>
      BY <1>3 DEF BeginWalk, TimerInv, ListOK
    <3>2. Head(timerList) = timerList[1] /\ 1 \in DOMAIN timerList
      BY <3>1, HeadTailProperties, EmptySeq, LenProperties
    <3> QED
      BY <3>2 DEF ToSet
  <2>2. GetMilliseconds(clock) \in Nat /\ clock \in Timeval
    BY MillisecondsType DEF TimerInv, TimersOK
  <2>3. Head(timerList) \in Timers
    BY <2>1, Listed DEF TimerInv
  <2>4. WalkOK'
    BY <1>1, <1>3, <2>1, <2>2, <2>3 DEF BeginWalk, TimerInv, WalkOK
  <2> QED
    BY <1>2, <2>4 DEF TimerInv
<1>4. CASE SkipTimer
  <2>1. at \in ToSet(timerList) /\ at' = Successor(at)
    BY <1>4 DEF SkipTimer, TimerInv, WalkOK
  <2>2. at' = NoTimer \/ at' \in ToSet(timerList)
    BY <2>1, SuccessorListed DEF TimerInv
  <2>3. WalkOK'
    BY <1>1, <1>4, <2>2, Listed DEF SkipTimer, TimerInv, WalkOK
  <2> QED
    BY <1>2, <2>3 DEF TimerInv
<1>5. CASE EndWalk
  <2>2. WalkOK'
    BY <1>1, <1>5, NoTimeIsTimeval DEF EndWalk, TimerInv, WalkOK
  <2> QED
    BY <1>2, <2>2 DEF TimerInv
<1> QED
  BY <1>3, <1>4, <1>5

(* A callback begins: its timer is due.                                    *)
LEMMA BeginCallbackKeeps ==
  ASSUME TimerInv, BeginCallback
  PROVE  TimerInv'
<1>1. /\ timerPc = "walk" /\ timerPc' = "callback" /\ at # NoTimer
      /\ ~timer[at].canceled /\ ~Earlier(passTime, timer[at].expiration)
      /\ runs' = [runs EXCEPT ![at] = @ + 1]
      /\ UNCHANGED <<clock, ticks, timer, timerList, functors, passTime, at,
                     deleted, overtaken>>
  BY DEF BeginCallback, Runnable
<1>2. /\ at \in Timers /\ timer[at].state = "made" /\ timer[at] \in TimerRecords
      /\ runs[at] \in Nat /\ clock \in Timeval /\ passTime \in Timeval
      /\ GetMilliseconds(passTime) <= GetMilliseconds(clock)
  BY <1>1 DEF TimerInv, TimersOK, WalkOK, ListOK
<1>3. GetMilliseconds(timer[at].expiration) <= GetMilliseconds(clock)
  <2>1. /\ GetMilliseconds(passTime) \in Nat /\ GetMilliseconds(clock) \in Nat
        /\ GetMilliseconds(timer[at].expiration) \in Nat
    BY <1>2, MillisecondsType, TimerFields
  <2> QED
    BY <1>1, <1>2, <2>1 DEF Earlier
<1>4. /\ runs' \in [Timers -> Nat] /\ runs'[at] = runs[at] + 1
      /\ \A s \in Timers \ {at} : runs'[s] = runs[s]
  BY <1>1, <1>2 DEF TimerInv, TimersOK
<1>5. ASSUME NEW s \in Timers
      PROVE  Sound(timer[s], runs'[s], Ended(s)', clock)
  <2>1. Sound(timer[s], runs[s], Ended(s), clock) /\ Ended(s) = runs[s]
    BY <1>1 DEF TimerInv, TimersOK, Ended
  <2>2. CASE s = at
    <3>1. Ended(s)' = runs[s]
      BY <1>1, <1>2, <1>4, <2>2 DEF Ended
    <3>2. Sound(timer[s], runs[s] + 1, runs[s], clock)
      BY <1>1, <1>2, <1>3, <2>1, <2>2, SoundBegins
    <3> QED
      BY <1>4, <2>2, <3>1, <3>2
  <2>3. CASE s # at
    <3>1. Ended(s)' = runs[s] /\ runs'[s] = runs[s]
      BY <1>1, <1>4, <2>3 DEF Ended
    <3> QED
      BY <2>1, <3>1
  <2> QED
    BY <2>2, <2>3
<1>6. TimersOK'
  BY <1>1, <1>4, <1>5 DEF TimerInv, TimersOK
<1>7. WalkOK'
  BY <1>1, <1>2, <1>4 DEF TimerInv, WalkOK
<1>8. ListOK' /\ QueueOK'
  BY <1>1 DEF TimerInv, ListOK, QueueOK, WaitsOnce
<1> QED
  BY <1>6, <1>7, <1>8 DEF TimerInv

(* A callback ends, and the rest of Timer::run follows.                    *)
LEMMA EndCallbackKeeps ==
  ASSUME TimerInv, EndCallback
  PROVE  TimerInv'
<1>1. /\ timerPc = "callback" /\ timerPc' = "walk"
      /\ timer' = [timer EXCEPT ![at] = Ran(@)]
      /\ at' = Successor(at)
      /\ UNCHANGED <<clock, ticks, timerList, functors, passTime, runs, deleted,
                     overtaken>>
  BY DEF EndCallback
<1>2. /\ at \in Timers /\ at \in ToSet(timerList) /\ timer[at].state = "made"
      /\ timer[at] \in TimerRecords
      /\ runs[at] \in Nat /\ runs[at] > 0 /\ clock \in Timeval
  BY <1>1 DEF TimerInv, TimersOK, WalkOK, ListOK
<1>3. /\ Ran(timer[at]) \in TimerRecords /\ Ran(timer[at]).state = "made"
      /\ Sound(Ran(timer[at]), runs[at], runs[at], clock)
  <2>1. Sound(timer[at], runs[at], runs[at] - 1, clock)
    <3>1. Ended(at) = runs[at] - 1
      BY <1>1 DEF Ended
    <3> QED
      BY <1>2, <3>1 DEF TimerInv, TimersOK
  <2> QED
    BY <1>2, <2>1, SoundEnds
<1>4. /\ timer' \in [Timers -> TimerRecords] /\ timer'[at] = Ran(timer[at])
      /\ \A s \in Timers \ {at} : timer'[s] = timer[s]
  BY <1>1, <1>2, <1>3 DEF TimerInv, TimersOK
<1>5. ASSUME NEW s \in Timers
      PROVE  Sound(timer'[s], runs[s], Ended(s)', clock)
  <2>1. Ended(s)' = runs[s]
    BY <1>1 DEF Ended
  <2>2. s # at => Ended(s) = runs[s] /\ Sound(timer[s], runs[s], Ended(s), clock)
    BY DEF TimerInv, TimersOK, Ended
  <2> QED
    BY <1>3, <1>4, <2>1, <2>2
<1>6. TimersOK'
  BY <1>1, <1>4, <1>5 DEF TimerInv, TimersOK
<1>7. WalkOK'
  <2>1. at' = NoTimer \/ at' \in ToSet(timerList)
    BY <1>1, <1>2, SuccessorListed DEF TimerInv
  <2> QED
    BY <1>1, <2>1, Listed DEF TimerInv, WalkOK
<1>8. \A s \in Timers : timer'[s].state = timer[s].state
  BY <1>2, <1>3, <1>4
<1>9. ListOK'
  BY <1>1, <1>8, Listed DEF TimerInv, ListOK
<1>10. QueueOK'
  <2>1. /\ functors' \in Seq(QueuedFunctors) /\ Len(functors') = Len(functors) - 0
        /\ \A i \in 1..Len(functors') : functors'[i] = functors[i + 0]
    BY <1>1, LenProperties DEF TimerInv, QueueOK
  <2>2. ASSUME NEW i \in 1..Len(functors'), functors'[i].op = "add"
        PROVE  /\ timer'[functors'[i].timer].state = "made"
               /\ functors'[i].timer \notin ToSet(timerList')
               /\ functors'[i].timer \in deleted' =>
                    functors'[i].timer \in overtaken'
    <3>1. /\ WaitsOnce(functors, i) /\ functors'[i].timer \in Timers
          /\ functors'[i] = functors[i]
      BY <1>1, <2>2, Queued DEF TimerInv, QueueOK
    <3> QED
      BY <1>1, <1>8, <3>1 DEF WaitsOnce
  <2> QED
    BY <1>8, <2>1, <2>2, QueueStays DEF TimerInv
<1> QED
  BY <1>6, <1>7, <1>9, <1>10 DEF TimerInv

(* A user cancels a timer, in whatever thread.                             *)
LEMMA CancelKeeps ==
  ASSUME TimerInv, NEW t \in Timers, CancelTimer(t)
  PROVE  TimerInv'
<1> DEFINE m == [timer[t] EXCEPT !.canceled = TRUE, !.stopped = runs[t]]
<1>1. /\ timer[t].state = "made"
      /\ timer' = [timer EXCEPT ![t].canceled = TRUE, ![t].stopped = runs[t]]
      /\ UNCHANGED <<clock, ticks, timerList, functors, timerPc, passTime, at,
                     runs, deleted, overtaken>>
  BY DEF CancelTimer, loopState
<1>2. /\ timer \in [Timers -> TimerRecords] /\ runs[t] \in Nat
      /\ clock \in Timeval /\ Sound(timer[t], runs[t], Ended(t), clock)
  BY DEF TimerInv, TimersOK
<1>3. m \in TimerRecords /\ m.state = "made" /\ Sound(m, runs[t], Ended(t), clock)
  BY <1>1, <1>2, EndedType, SoundCancelled
<1>4. timer'[t] = m /\ \A s \in Timers \ {t} : timer'[s] = timer[s]
  BY <1>1, <1>2
<1>5. timer' \in [Timers -> TimerRecords]
  <2>1. timer' = [s \in Timers |-> timer'[s]]
    BY <1>1, <1>2
  <2>2. \A s \in Timers : timer'[s] \in TimerRecords
    BY <1>2, <1>3, <1>4
  <2> QED
    BY <2>1, <2>2
<1> HIDE DEF m
<1>6. \A s \in Timers : timer'[s].state = timer[s].state
  BY <1>1, <1>3, <1>4
<1>7. TimersOK'
  <2>1. \A s \in Timers : Ended(s)' = Ended(s)
    BY <1>1 DEF Ended
  <2>2. \A s \in Timers : Sound(timer'[s], runs[s], Ended(s), clock)
    BY <1>3, <1>4 DEF TimerInv, TimersOK
  <2> QED
    BY <1>1, <1>5, <2>1, <2>2 DEF TimerInv, TimersOK
<1>8. WalkOK'
  BY <1>1 DEF TimerInv, WalkOK
<1>9. ListOK'
  BY <1>1, <1>6, Listed DEF TimerInv, ListOK
<1>10. QueueOK'
  <2>1. /\ functors' \in Seq(QueuedFunctors) /\ Len(functors') = Len(functors) - 0
        /\ \A i \in 1..Len(functors') : functors'[i] = functors[i + 0]
    BY <1>1, LenProperties DEF TimerInv, QueueOK
  <2>2. ASSUME NEW i \in 1..Len(functors'), functors'[i].op = "add"
        PROVE  /\ timer'[functors'[i].timer].state = "made"
               /\ functors'[i].timer \notin ToSet(timerList')
               /\ functors'[i].timer \in deleted' =>
                    functors'[i].timer \in overtaken'
    <3>1. /\ WaitsOnce(functors, i) /\ functors'[i].timer \in Timers
          /\ functors'[i] = functors[i]
      BY <1>1, <2>2, Queued DEF TimerInv, QueueOK
    <3> QED
      BY <1>1, <1>6, <3>1 DEF WaitsOnce
  <2> QED
    BY <1>6, <2>1, <2>2, QueueStays DEF TimerInv
<1> QED
  BY <1>7, <1>8, <1>9, <1>10 DEF TimerInv

-----------------------------------------------------------------------------
(* The theorems *)

(* The inductive invariant: each Timer counts its callbacks and moves its  *)
(* expiry with them, the iterator is in the list, and a queued addition is *)
(* of a timer that is nowhere else.                                        *)
THEOREM TimerInvariant == TimerSpec => []TimerInv
<1>1. TimerInit => TimerInv
  BY TimersStart
<1>2. TimerInv /\ [TimerNext]_timerVars => TimerInv'
  <2> SUFFICES ASSUME TimerInv, [TimerNext]_timerVars PROVE TimerInv'
    OBVIOUS
  <2>1. CASE ClockTicks
    BY <2>1, ClockKeeps
  <2>2. CASE CallQueued
    BY <2>2, CallKeeps
  <2>3. CASE BeginWalk \/ SkipTimer \/ EndWalk
    BY <2>3, WalkKeeps
  <2>4. CASE BeginCallback
    BY <2>4, BeginCallbackKeeps
  <2>5. CASE EndCallback
    BY <2>5, EndCallbackKeeps
  <2>6. CASE DeleteAllTimers
    <3>1. ToSet(timerList) \subseteq Timers
      BY Listed DEF TimerInv
    <3> QED
      BY <2>6, <3>1, DeleteManyKeeps DEF DeleteAllTimers
  <2>7. CASE DeleteAllCanceledTimers
    BY <2>7, DeleteManyKeeps DEF DeleteAllCanceledTimers
  <2>8. ASSUME NEW t \in Timers, DeleteTimer(t) PROVE TimerInv'
    BY <2>8, DeleteKeeps
  <2>9. ASSUME NEW t \in Timers, CancelTimer(t) PROVE TimerInv'
    BY <2>9, CancelKeeps
  <2>10. ASSUME NEW t \in Timers, NEW delay \in Delays, NEW kind \in Kinds,
               AddTimer(t, delay, kind)
        PROVE  TimerInv'
    BY <2>10, AddKeeps
  <2>11. CASE UNCHANGED timerVars
    <3>1. \A s \in Timers : Ended(s)' = Ended(s)
      BY <2>11 DEF timerVars, Ended
    <3> QED
      BY <2>11, <3>1 DEF timerVars, TimerInv, TimersOK, WalkOK, ListOK, QueueOK,
         WaitsOnce
  <2> QED
    BY <2>1, <2>2, <2>3, <2>4, <2>5, <2>6, <2>7, <2>8, <2>9, <2>10,
       <2>11
    DEF TimerNext, TimerLoop
<1> QED
  BY <1>1, <1>2, PTL DEF TimerSpec

(* Every variable of the timers keeps its type: the list holds timers that *)
(* are alive, and the iterator is in it.                                   *)
THEOREM TimersTypeCorrect == TimerSpec => []TimerTypeOK
<1>1. TimerInv => TimerTypeOK
  BY DEF TimerInv, TimersOK, WalkOK, ListOK, QueueOK, TimerTypeOK, TimerRecords,
     QueuedFunctors
<1> QED
  BY <1>1, TimerInvariant, PTL

(* Repeating timers neither drift nor run ahead, for any delays, intervals *)
(* and late callbacks.                                                     *)
THEOREM TimersKeepTheirSchedule == TimerSpec => []OnSchedule
<1>1. TimerInv => OnSchedule
  BY DEF TimerInv, TimersOK, Sound, OnSchedule
<1> QED
  BY <1>1, TimerInvariant, PTL

(* Timers run as often as their repeat count says and are cancelled with   *)
(* the last callback or by their user, after whose cancel() none begins.   *)
THEOREM TimersRunAsOften == TimerSpec => []RunsAsOften
<1>1. ASSUME TimerInv PROVE RunsAsOften
  <2>1. ASSUME NEW t \in Timers, timer[t].state = "made"
        PROVE  /\ timer[t].canceled <=>
                    \/ timer[t].stopped # Never
                    \/ timer[t].repeat # Forever /\ Ended(t) = Times(timer[t].repeat)
               /\ timer[t].stopped # Never => runs[t] = timer[t].stopped
               /\ timer[t].repeat # Forever => runs[t] <= Times(timer[t].repeat)
    BY <1>1, <2>1 DEF TimerInv, TimersOK, Sound
  <2> QED
    BY <2>1 DEF RunsAsOften, Times
<1> QED
  BY <1>1, TimerInvariant, PTL

(* A timer that the loop was told to delete does not run again, unless the *)
(* deletion overtook its addition.                                         *)
THEOREM DeletedTimersAreGone == TimerSpec => []DeletedIsGone
<1>1. TimerInv => DeletedIsGone
  BY DEF TimerInv, ListOK, DeletedIsGone
<1> QED
  BY <1>1, TimerInvariant, PTL
=============================================================================
