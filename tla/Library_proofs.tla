---------------------------- MODULE Library_proofs ----------------------------
(***************************************************************************)
(* Proofs about the small components of the run MCLibrary, ThreadPool with *)
(* its Condition, EventLoopThread and ByteBuffer, and about the run as a   *)
(* whole: it is each of its components, and so what is proved of them, of  *)
(* the timers, the client and the pollers, is proved of it.                *)
(***************************************************************************)
EXTENDS MCLibrary, TimerQueue_proofs, Pollers_proofs

-----------------------------------------------------------------------------
(* ThreadPool: for any finite set of workers and any bound on the tasks.    *)

(* The condition variable *)

(* What Wait does.                                                         *)
LEMMA WaitFields ==
  ASSUME NEW c \in ConditionType(Workers), NEW t \in Workers
  PROVE  /\ Wait(c, t) \in ConditionType(Workers)
         /\ Wait(c, t).held = FALSE
         /\ Wait(c, t).waiting = c.waiting \cup {t}
         /\ Wait(c, t).signalled = c.signalled
BY DEF ConditionType, Wait

(* What the return from Wait does.                                         *)
LEMMA ReturnedFields ==
  ASSUME NEW c \in ConditionType(Workers), NEW t \in Workers
  PROVE  /\ Returned(c, t) \in ConditionType(Workers)
         /\ Returned(c, t).held = TRUE
         /\ Returned(c, t).waiting = c.waiting
         /\ Returned(c, t).signalled = c.signalled \ {t}
BY DEF ConditionType, Returned

(* What Signal and Broadcast do.                                           *)
LEMMA WokenFields ==
  ASSUME NEW c \in ConditionType(Workers), NEW T \in SUBSET Workers
  PROVE  /\ Woken(c, T) \in ConditionType(Workers)
         /\ Woken(c, T).held = c.held
         /\ Woken(c, T).waiting = c.waiting \ T
         /\ Woken(c, T).signalled = c.signalled \cup (c.waiting \cap T)
BY DEF ConditionType, Woken

(* A signal wakes a waiter or, when there is none, nobody.                 *)
LEMMA Targets ==
  ASSUME NEW c \in ConditionType(Workers), NEW T \in SignalTargets(c)
  PROVE  /\ T \subseteq c.waiting /\ T \in SUBSET Workers
         /\ T # {} => \E t \in c.waiting : T = {t}
<1>1. c.waiting \subseteq Workers
  BY DEF ConditionType
<1>2. T = {} \/ \E t \in c.waiting : T = {t}
  BY DEF SignalTargets
<1> QED
  BY <1>1, <1>2

-----------------------------------------------------------------------------
(* Types *)

(* Nobody is waiting and woken at once: without it a worker that returns   *)
(* from Wait might still be among the waiters.                             *)
WokenOnce == cond.waiting \cap cond.signalled = {}

PoolInv == PoolTypeOK /\ WokenOnce

(* The parts of a condition.                                               *)
LEMMA CondParts ==
  ASSUME PoolTypeOK
  PROVE  /\ cond \in ConditionType(Workers)
         /\ cond.held \in BOOLEAN
         /\ cond.waiting \subseteq {w \in Workers : workerPc[w] = "wait"}
         /\ cond.signalled \subseteq {w \in Workers : workerPc[w] = "wait"}
<1>1. cond \in ConditionType(Workers)
  BY DEF PoolTypeOK
<1>2. cond.held \in BOOLEAN
  BY <1>1 DEF ConditionType
<1>3. cond.waiting \cup cond.signalled \subseteq
        {w \in Workers : workerPc[w] = "wait"}
  BY DEF PoolTypeOK
<1> QED
  BY <1>1, <1>2, <1>3

(* A worker that goes anywhere else than from Wait leaves the condition    *)
(* and the other types as they are.                                        *)
LEMMA GoesKeeps ==
  ASSUME PoolTypeOK, NEW w \in Workers, NEW from, NEW to \in WorkerPcs,
         Goes(w, from, to), from # "wait"
  PROVE  /\ workerPc' \in [Workers -> WorkerPcs]
         /\ workerPc[w] = from
         /\ workerPc'[w] = to
         /\ \A v \in Workers : v # w => workerPc'[v] = workerPc[v]
         /\ cond.waiting \cup cond.signalled \subseteq
              {v \in Workers : workerPc'[v] = "wait"}
<1>1. /\ workerPc' = [workerPc EXCEPT ![w] = to] /\ workerPc[w] = from
      /\ workerPc \in [Workers -> WorkerPcs]
  BY DEF Goes, PoolTypeOK
<1>2. \A v \in Workers : v # w => workerPc'[v] = workerPc[v]
  BY <1>1
<1>3. \A v \in cond.waiting \cup cond.signalled :
        v \in Workers /\ workerPc[v] = "wait"
  BY DEF PoolTypeOK
<1> QED
  BY <1>1, <1>2, <1>3

(* Every variable of the pool keeps its type, under every interleaving.    *)
THEOREM PoolInvariant == PoolSpec => []PoolInv
<1> USE PoolAssumption
<1>1. PoolInit => PoolInv
  <2> SUFFICES ASSUME PoolInit PROVE PoolInv
    OBVIOUS
  <2>1. <<>> \in Seq(1..MaxTasks)
    BY EmptySeq
  <2>2. tasks = <<>> /\ taken = <<>>
    BY DEF PoolInit
  <2>3. tasks \in Seq(1..MaxTasks) /\ taken \in Seq(1..MaxTasks)
    BY <2>1, <2>2, Zenon
  <2>4. adding \in BOOLEAN /\ begun \in BOOLEAN
    BY DEF PoolInit
  <2>5. added \in 0..MaxTasks /\ lost \in Nat
    BY DEF PoolInit
  <2>6. workerPc \in [Workers -> WorkerPcs]
    BY DEF PoolInit, WorkerPcs
  <2>7. task \in [Workers -> 0..MaxTasks]
    BY DEF PoolInit, NoTask
  <2>8. /\ cond \in ConditionType(Workers)
        /\ cond.waiting = {} /\ cond.signalled = {}
    BY DEF PoolInit, NewCondition, ConditionType
  <2> QED
    BY <2>3, <2>4, <2>5, <2>6, <2>7, <2>8 DEF PoolInv, PoolTypeOK, WokenOnce
<1>2. PoolInv /\ [PoolNext]_poolVars => PoolInv'
  <2> SUFFICES ASSUME PoolInv, [PoolNext]_poolVars
               PROVE  PoolInv'
    OBVIOUS
  <2>0. PoolTypeOK /\ WokenOnce
    BY DEF PoolInv
  <2>1. ASSUME NEW w \in Workers, StartThread(w)
        PROVE  PoolInv'
    <3>1. /\ workerPc' \in [Workers -> WorkerPcs]
          /\ cond.waiting \cup cond.signalled \subseteq
               {v \in Workers : workerPc'[v] = "wait"}
      BY <2>0, <2>1, GoesKeeps DEF StartThread, WorkerPcs
    <3> QED
      BY <2>0, <2>1, <3>1 DEF StartThread, PoolInv, PoolTypeOK, WokenOnce
  <2>2. CASE Start
    <3>1. cond.waiting \in SUBSET Workers
      BY <2>0, CondParts
    <3>2. /\ cond' \in ConditionType(Workers)
          /\ cond'.waiting = {}
          /\ cond'.signalled = cond.signalled \cup cond.waiting
      BY <2>2, <3>1, <2>0, CondParts, WokenFields DEF Start, Broadcast
    <3>3. cond'.waiting \cup cond'.signalled \subseteq
            {v \in Workers : workerPc'[v] = "wait"}
      BY <2>0, <2>2, <3>2, CondParts DEF Start
    <3>4. begun' \in BOOLEAN
      BY <2>2 DEF Start
    <3> QED
      BY <2>0, <2>2, <3>2, <3>3, <3>4 DEF Start, PoolInv, PoolTypeOK, WokenOnce
  <2>3. CASE AddTask
    <3>1. added + 1 \in 1..MaxTasks
      BY <2>0, <2>3 DEF AddTask, PoolTypeOK
    <3>2. added' \in 0..MaxTasks
      BY <2>3, <3>1 DEF AddTask
    <3>3. tasks' \in Seq(1..MaxTasks)
      BY <2>0, <2>3, <3>1, AppendProperties DEF AddTask, PoolTypeOK
    <3>4. adding' \in BOOLEAN
      BY <2>3 DEF AddTask
    <3> QED
      BY <2>0, <2>3, <3>2, <3>3, <3>4 DEF AddTask, PoolInv, PoolTypeOK, WokenOnce
  <2>4. CASE SignalTask
    <3>1. PICK T \in SignalTargets(cond) :
            /\ cond' = Woken(cond, T)
            /\ lost' = IF T = {} THEN lost + 1 ELSE lost
      BY <2>4 DEF SignalTask
    <3>2. T \in SUBSET Workers /\ T \subseteq cond.waiting
      BY <2>0, <3>1, CondParts, Targets
    <3>3. /\ cond' \in ConditionType(Workers)
          /\ cond'.waiting = cond.waiting \ T
          /\ cond'.signalled = cond.signalled \cup (cond.waiting \cap T)
      BY <2>0, <3>1, <3>2, CondParts, WokenFields
    <3>4. cond'.waiting \cup cond'.signalled \subseteq
            {v \in Workers : workerPc'[v] = "wait"}
      BY <2>0, <2>4, <3>3, CondParts DEF SignalTask
    <3>5. lost' \in Nat
      BY <2>0, <3>1 DEF PoolTypeOK
    <3>6. adding' \in BOOLEAN /\ cond'.waiting \cap cond'.signalled = {}
      BY <2>0, <2>4, <3>3 DEF SignalTask, WokenOnce
    <3> QED
      BY <2>0, <2>4, <3>3, <3>4, <3>5, <3>6
      DEF SignalTask, PoolInv, PoolTypeOK, WokenOnce
  <2>5. ASSUME NEW w \in Workers, BeginWait(w)
        PROVE  PoolInv'
    <3>1. /\ workerPc' \in [Workers -> WorkerPcs]
          /\ workerPc[w] = "loop" /\ workerPc'[w] = "wait"
          /\ cond.waiting \cup cond.signalled \subseteq
               {v \in Workers : workerPc'[v] = "wait"}
      BY <2>0, <2>5, GoesKeeps DEF BeginWait, WorkerPcs
    <3>2. /\ cond' \in ConditionType(Workers)
          /\ cond'.waiting = cond.waiting \cup {w}
          /\ cond'.signalled = cond.signalled
      <4>1. cond \in ConditionType(Workers) /\ cond' = Wait(cond, w)
        BY <2>0, <2>5, CondParts DEF BeginWait
      <4>2. /\ Wait(cond, w) \in ConditionType(Workers)
            /\ Wait(cond, w).waiting = cond.waiting \cup {w}
            /\ Wait(cond, w).signalled = cond.signalled
        BY <4>1, WaitFields
      <4> QED
        BY <4>1, <4>2
    <3>3. w \notin cond.signalled
      BY <2>0, <3>1, CondParts
    <3>4. cond'.waiting \cup cond'.signalled \subseteq
            {v \in Workers : workerPc'[v] = "wait"}
      BY <3>1, <3>2
    <3>5. cond'.waiting \cap cond'.signalled = {}
      BY <2>0, <3>2, <3>3 DEF WokenOnce
    <3> QED
      BY <2>0, <2>5, <3>1, <3>2, <3>4, <3>5
      DEF BeginWait, PoolInv, PoolTypeOK, WokenOnce
  <2>6. ASSUME NEW w \in Workers, SpuriousWakeup(w)
        PROVE  PoolInv'
    <3>1. /\ cond' \in ConditionType(Workers)
          /\ cond'.waiting = cond.waiting \ {w}
          /\ cond'.signalled = cond.signalled \cup (cond.waiting \cap {w})
      BY <2>0, <2>6, CondParts, WokenFields DEF SpuriousWakeup
    <3>2. cond'.waiting \cup cond'.signalled \subseteq
            {v \in Workers : workerPc'[v] = "wait"}
      BY <2>0, <2>6, <3>1, CondParts DEF SpuriousWakeup
    <3>3. cond'.waiting \cap cond'.signalled = {}
      BY <2>0, <3>1 DEF WokenOnce
    <3> QED
      BY <2>0, <2>6, <3>1, <3>2, <3>3
      DEF SpuriousWakeup, PoolInv, PoolTypeOK, WokenOnce
  <2>7. ASSUME NEW w \in Workers, WaitReturns(w)
        PROVE  PoolInv'
    <3>1. /\ workerPc' = [workerPc EXCEPT ![w] = "lock"]
          /\ w \in cond.signalled /\ cond' = Returned(cond, w)
      BY <2>7 DEF WaitReturns, Goes, MayReturn
    <3>2. /\ cond' \in ConditionType(Workers)
          /\ cond'.waiting = cond.waiting
          /\ cond'.signalled = cond.signalled \ {w}
      <4>1. cond \in ConditionType(Workers)
        BY <2>0, CondParts
      <4>2. /\ Returned(cond, w) \in ConditionType(Workers)
            /\ Returned(cond, w).waiting = cond.waiting
            /\ Returned(cond, w).signalled = cond.signalled \ {w}
        BY <4>1, ReturnedFields
      <4> QED
        BY <3>1, <4>2
    <3>3. workerPc' \in [Workers -> WorkerPcs]
      BY <2>0, <3>1 DEF PoolTypeOK, WorkerPcs
    <3>4. w \notin cond.waiting
      BY <2>0, <3>1 DEF WokenOnce
    <3>5. \A v \in cond.waiting \cup cond.signalled :
            v \in Workers /\ workerPc[v] = "wait"
      BY <2>0, CondParts
    <3>6. \A v \in Workers : v # w => workerPc'[v] = workerPc[v]
      BY <2>0, <3>1 DEF PoolTypeOK
    <3>7. cond'.waiting \cup cond'.signalled \subseteq
            {v \in Workers : workerPc'[v] = "wait"}
      BY <3>2, <3>4, <3>5, <3>6
    <3>8. cond'.waiting \cap cond'.signalled = {}
      BY <2>0, <3>2 DEF WokenOnce
    <3> QED
      BY <2>0, <2>7, <3>2, <3>3, <3>7, <3>8
      DEF WaitReturns, PoolInv, PoolTypeOK, WokenOnce
  <2>8. ASSUME NEW w \in Workers, TakeTask(w)
        PROVE  PoolInv'
    <3>1. /\ workerPc' \in [Workers -> WorkerPcs]
          /\ cond.waiting \cup cond.signalled \subseteq
               {v \in Workers : workerPc'[v] = "wait"}
      BY <2>0, <2>8, GoesKeeps DEF TakeTask, WorkerPcs
    <3>2. /\ Head(tasks) \in 1..MaxTasks /\ tasks' \in Seq(1..MaxTasks)
      BY <2>0, <2>8, HeadTailProperties DEF TakeTask, PoolTypeOK
    <3>3. taken' \in Seq(1..MaxTasks)
      BY <2>0, <2>8, <3>2, AppendProperties DEF TakeTask, PoolTypeOK
    <3>4. Head(tasks) \in 0..MaxTasks
      BY <3>2
    <3>5. task' \in [Workers -> 0..MaxTasks]
      BY <2>0, <2>8, <3>4 DEF TakeTask, PoolTypeOK
    <3> QED
      BY <2>0, <2>8, <3>1, <3>2, <3>3, <3>5
      DEF TakeTask, PoolInv, PoolTypeOK, WokenOnce
  <2>9. ASSUME NEW w \in Workers, FindNoTask(w)
        PROVE  PoolInv'
    <3>1. /\ workerPc' \in [Workers -> WorkerPcs]
          /\ cond.waiting \cup cond.signalled \subseteq
               {v \in Workers : workerPc'[v] = "wait"}
      BY <2>0, <2>9, GoesKeeps DEF FindNoTask, WorkerPcs
    <3> QED
      BY <2>0, <2>9, <3>1 DEF FindNoTask, PoolInv, PoolTypeOK, WokenOnce
  <2>10. ASSUME NEW w \in Workers, TaskEnds(w)
         PROVE  PoolInv'
    <3>1. /\ workerPc' \in [Workers -> WorkerPcs]
          /\ cond.waiting \cup cond.signalled \subseteq
               {v \in Workers : workerPc'[v] = "wait"}
      BY <2>0, <2>10, GoesKeeps DEF TaskEnds, WorkerPcs
    <3>2. task' \in [Workers -> 0..MaxTasks]
      BY <2>0, <2>10 DEF TaskEnds, PoolTypeOK, NoTask
    <3> QED
      BY <2>0, <2>10, <3>1, <3>2 DEF TaskEnds, PoolInv, PoolTypeOK, WokenOnce
  <2>11. CASE UNCHANGED poolVars
    BY <2>0, <2>11 DEF poolVars, PoolInv, PoolTypeOK, WokenOnce
  <2> QED
    BY <2>1, <2>2, <2>3, <2>4, <2>5, <2>6, <2>7, <2>8, <2>9, <2>10, <2>11
    DEF PoolNext, WorkerStep
<1> QED
  BY <1>1, <1>2, PTL DEF PoolSpec

(* Every variable of the pool keeps its type.                              *)
THEOREM PoolTypeCorrect == PoolSpec => []PoolTypeOK
<1>1. PoolInv => PoolTypeOK
  BY DEF PoolInv
<1> QED
  BY <1>1, PoolInvariant, PTL

-----------------------------------------------------------------------------
(* The deque *)

(* Every task added is taken once and in order, or still queued: the deque *)
(* is protected by _mutex, which the pool locks wherever it touches it.    *)
THEOREM TasksAreTakenInOrder == PoolSpec => []TakenInOrder
<1>1. PoolInit => TakenInOrder
  <2> SUFFICES ASSUME PoolInit PROVE TakenInOrder
    OBVIOUS
  <2>1. tasks = <<>> /\ taken = <<>> /\ added = 0
    BY DEF PoolInit
  <2>2. <<>> \in Seq(Nat) /\ <<>> \o <<>> = <<>>
    BY EmptySeq, ConcatEmptySeq
  <2>3. [i \in 1..0 |-> i] = <<>>
    OBVIOUS
  <2> QED
    BY <2>1, <2>2, <2>3, Zenon DEF TakenInOrder
<1>2. PoolInv /\ TakenInOrder /\ [PoolNext]_poolVars => TakenInOrder'
  <2> SUFFICES ASSUME PoolInv, TakenInOrder, [PoolNext]_poolVars
               PROVE  TakenInOrder'
    OBVIOUS
  <2>1. /\ tasks \in Seq(1..MaxTasks) /\ taken \in Seq(1..MaxTasks)
        /\ added \in Nat
        /\ taken \o tasks = [i \in 1..added |-> i]
    BY PoolAssumption DEF PoolInv, PoolTypeOK, TakenInOrder
  <2>2. CASE AddTask
    <3>1. /\ added' = added + 1 /\ tasks' = Append(tasks, added + 1)
          /\ taken' = taken /\ added + 1 \in 1..MaxTasks
      BY <2>1, <2>2, PoolAssumption DEF AddTask
    <3>2. taken \o Append(tasks, added + 1) = Append(taken \o tasks, added + 1)
      <4> DEFINE e == added + 1
      <4> DEFINE S == 1..MaxTasks
      <4>1. e \in S /\ taken \in Seq(S) /\ tasks \in Seq(S)
        BY <2>1, <3>1
      <4> HIDE DEF e, S
      <4>2. taken \o Append(tasks, e) = Append(taken \o tasks, e)
        BY <4>1, AppendToConcat
      <4> QED
        BY <4>2 DEF e
    <3>3. Append([i \in 1..added |-> i], added + 1) = [i \in 1..(added + 1) |-> i]
      BY <2>1, AppendNext
    <3>4. taken' \o tasks' = [i \in 1..(added + 1) |-> i]
      BY <2>1, <3>1, <3>2, <3>3, Zenon
    <3> QED
      BY <3>1, <3>4 DEF TakenInOrder
  <2>3. ASSUME NEW w \in Workers, TakeTask(w)
        PROVE  TakenInOrder'
    <3>1. /\ tasks # <<>> /\ tasks' = Tail(tasks)
          /\ taken' = Append(taken, Head(tasks)) /\ added' = added
      BY <2>3 DEF TakeTask
    <3>2. Append(taken, Head(tasks)) \o Tail(tasks) = taken \o tasks
      BY <2>1, <3>1, MoveHead
    <3> QED
      BY <2>1, <3>1, <3>2 DEF TakenInOrder
  <2>4. CASE UNCHANGED <<tasks, taken, added>>
    BY <2>4 DEF TakenInOrder
  <2> QED
    BY <2>2, <2>3, <2>4
    DEF PoolNext, WorkerStep, poolVars, StartThread, Start, SignalTask,
        BeginWait, SpuriousWakeup, WaitReturns, FindNoTask, TaskEnds
<1> QED
  BY <1>1, <1>2, PoolInvariant, PTL DEF PoolSpec

-----------------------------------------------------------------------------
(* The wait *)

(* The condition's mutex, which a worker leaves locked behind it, is never *)
(* locked with every worker asleep or waiting to return from its Wait.     *)
THEOREM TheMutexIsFreed == PoolSpec => []SomeoneFreesTheMutex
<1>1. PoolInit => SomeoneFreesTheMutex
  BY DEF PoolInit, NewCondition, SomeoneFreesTheMutex
<1>2. PoolInv /\ SomeoneFreesTheMutex /\ [PoolNext]_poolVars
        => SomeoneFreesTheMutex'
  <2> SUFFICES ASSUME PoolInv, SomeoneFreesTheMutex, [PoolNext]_poolVars
               PROVE  SomeoneFreesTheMutex'
    OBVIOUS
  <2> DEFINE Outside == {"loop", "lock", "run"}
  <2>1. PoolTypeOK /\ workerPc \in [Workers -> WorkerPcs]
    BY DEF PoolInv, PoolTypeOK
  <2>2. ASSUME NEW w \in Workers, BeginWait(w)
        PROVE  SomeoneFreesTheMutex'
    <3>1. cond' = Wait(cond, w) /\ cond \in ConditionType(Workers)
      BY <2>1, <2>2, CondParts DEF BeginWait
    <3>2. cond'.held = FALSE
      BY <3>1, WaitFields
    <3> QED
      BY <3>2 DEF SomeoneFreesTheMutex
  <2>3. ASSUME NEW w \in Workers, NEW to \in Outside,
               workerPc' = [workerPc EXCEPT ![w] = to]
        PROVE  SomeoneFreesTheMutex'
    <3>1. workerPc'[w] \in {"loop", "lock", "run"}
      BY <2>1, <2>3
    <3> QED
      BY <3>1 DEF SomeoneFreesTheMutex
  <2>4. ASSUME NEW w \in Workers, WorkerStep(w), ~BeginWait(w)
        PROVE  SomeoneFreesTheMutex'
    <3>1. \E to \in Outside : workerPc' = [workerPc EXCEPT ![w] = to]
      BY <2>4
      DEF WorkerStep, Goes, WaitReturns, TakeTask, FindNoTask, TaskEnds
    <3> QED
      BY <2>3, <3>1
  <2>5. ASSUME NEW w \in Workers, StartThread(w)
        PROVE  SomeoneFreesTheMutex'
    <3>1. /\ cond' = cond /\ workerPc[w] = "new"
          /\ \A v \in Workers : v # w => workerPc'[v] = workerPc[v]
      BY <2>1, <2>5 DEF StartThread, Goes
    <3> QED
      BY <3>1 DEF SomeoneFreesTheMutex
  <2>6. ASSUME workerPc' = workerPc, cond'.held = cond.held
        PROVE  SomeoneFreesTheMutex'
    BY <2>6 DEF SomeoneFreesTheMutex
  <2>7. ASSUME NEW T \in SUBSET Workers, cond' = Woken(cond, T)
        PROVE  cond'.held = cond.held
    BY <2>1, <2>7, CondParts, WokenFields
  <2>8. CASE Start
    <3>1. cond.waiting \in SUBSET Workers /\ cond' = Woken(cond, cond.waiting)
      BY <2>1, <2>8, CondParts DEF Start, Broadcast
    <3> QED
      BY <2>6, <2>7, <2>8, <3>1 DEF Start
  <2>9. CASE SignalTask
    <3>1. PICK T \in SignalTargets(cond) : cond' = Woken(cond, T)
      BY <2>9 DEF SignalTask
    <3>2. T \in SUBSET Workers
      BY <2>1, <3>1, CondParts, Targets
    <3> QED
      BY <2>6, <2>7, <2>9, <3>1, <3>2 DEF SignalTask
  <2>10. ASSUME NEW w \in Workers, SpuriousWakeup(w)
         PROVE  SomeoneFreesTheMutex'
    <3>1. cond' = Woken(cond, {w}) /\ workerPc' = workerPc
      BY <2>10 DEF SpuriousWakeup
    <3> QED
      BY <2>6, <2>7, <3>1
  <2>11. CASE AddTask
    BY <2>6, <2>11 DEF AddTask
  <2>12. CASE UNCHANGED poolVars
    BY <2>6, <2>12 DEF poolVars
  <2> QED
    BY <2>2, <2>4, <2>5, <2>8, <2>9, <2>10, <2>11, <2>12 DEF PoolNext
<1> QED
  BY <1>1, <1>2, PoolInvariant, PTL DEF PoolSpec

-----------------------------------------------------------------------------
(* Lost signals *)

(* The workers that have been woken are finitely many.                     *)
LEMMA AwakeIsFinite ==
  ASSUME PoolTypeOK
  PROVE  /\ Awake \subseteq Workers
         /\ IsFiniteSet(Awake) /\ Cardinality(Awake) \in Nat
<1>1. Awake \subseteq Workers
  BY CondParts DEF Awake
<1>2. IsFiniteSet(Awake)
  BY <1>1, FS_Subset, PoolAssumption
<1> QED
  BY <1>1, <1>2, FS_CardinalityType

(* More workers awake bear more tasks.                                     *)
LEMMA MoreAwake ==
  ASSUME PoolTypeOK, PoolTypeOK', Awake \subseteq Awake'
  PROVE  /\ Cardinality(Awake) \in Nat /\ Cardinality(Awake') \in Nat
         /\ Cardinality(Awake) <= Cardinality(Awake')
<1>1. IsFiniteSet(Awake')
  <2>1. Awake' \subseteq Workers
    <3>1. cond'.signalled \subseteq {w \in Workers : workerPc'[w] = "wait"}
      BY DEF PoolTypeOK
    <3> QED
      BY <3>1 DEF Awake
  <2> QED
    BY <2>1, FS_Subset, PoolAssumption
<1> QED
  BY <1>1, AwakeIsFinite, FS_Subset, FS_CardinalityType

(* Tasks are left behind only by signals sent while nobody waits: every    *)
(* other signal has woken a worker that has yet to look at the deque.      *)
THEOREM OnlyLostSignalsLeaveTasks == PoolSpec => []LeftByLostSignals
<1>1. PoolInit => LeftByLostSignals
  <2> SUFFICES ASSUME PoolInit PROVE LeftByLostSignals
    OBVIOUS
  <2>1. Len(tasks) = 0 /\ lost = 0 /\ ~adding
    BY DEF PoolInit
  <2>2. Awake = {}
    BY DEF PoolInit, NewCondition, Awake
  <2> QED
    BY <2>1, <2>2, FS_EmptySet DEF LeftByLostSignals
<1>2. PoolInv /\ PoolInv' /\ LeftByLostSignals /\ [PoolNext]_poolVars
        => LeftByLostSignals'
  <2> SUFFICES ASSUME PoolInv, PoolInv', LeftByLostSignals,
                      [PoolNext]_poolVars
               PROVE  LeftByLostSignals'
    OBVIOUS
  <2> DEFINE A == Cardinality(Awake)
  <2>1. /\ PoolTypeOK /\ PoolTypeOK' /\ WokenOnce
        /\ lost \in Nat /\ adding \in BOOLEAN
        /\ workerPc \in [Workers -> WorkerPcs]
    BY DEF PoolInv, PoolTypeOK
  <2>2. Len(tasks) \in Nat /\ Len(tasks') \in Nat
    <3>1. tasks \in Seq(1..MaxTasks) /\ tasks' \in Seq(1..MaxTasks)
      BY <2>1 DEF PoolTypeOK
    <3> QED
      BY <3>1, LenProperties
  <2>3. IsFiniteSet(Awake) /\ A \in Nat
    BY <2>1, AwakeIsFinite
  <2>4. Len(tasks) <= lost + A + (IF adding THEN 1 ELSE 0)
    BY DEF LeftByLostSignals
  <2>5. ASSUME Awake \subseteq Awake', UNCHANGED <<tasks, lost, adding>>
        PROVE  LeftByLostSignals'
    <3>1. Cardinality(Awake') \in Nat /\ A <= Cardinality(Awake')
      BY <2>1, <2>5, MoreAwake
    <3> HIDE DEF A
    <3>2. Len(tasks) <= lost + Cardinality(Awake') + (IF adding THEN 1 ELSE 0)
      BY <2>1, <2>2, <2>3, <2>4, <3>1
    <3> QED
      BY <2>5, <3>2 DEF LeftByLostSignals
  <2>6. ASSUME NEW T \in SUBSET Workers, cond' = Woken(cond, T),
               workerPc' = workerPc, T \subseteq cond.waiting
        PROVE  Awake' = Awake \cup T
    <3>1. cond'.signalled = cond.signalled \cup T
      BY <2>1, <2>6, CondParts, WokenFields
    <3> QED
      BY <2>6, <3>1 DEF Awake
  <2>7. CASE AddTask
    <3>1. /\ ~adding /\ adding' = TRUE /\ lost' = lost
          /\ tasks' = Append(tasks, added + 1) /\ Awake' = Awake
      BY <2>7 DEF AddTask, Awake
    <3>2. Len(tasks') = Len(tasks) + 1
      BY <2>1, <3>1, AppendProperties DEF PoolTypeOK
    <3> HIDE DEF A
    <3>3. Len(tasks') <= lost + A + 1
      BY <2>1, <2>2, <2>3, <2>4, <3>1, <3>2
    <3> QED
      BY <3>1, <3>3 DEF LeftByLostSignals, A
  <2>8. CASE SignalTask
    <3>1. PICK T \in SignalTargets(cond) :
            /\ cond' = Woken(cond, T)
            /\ lost' = IF T = {} THEN lost + 1 ELSE lost
      BY <2>8 DEF SignalTask
    <3>2. /\ T \in SUBSET Workers /\ T \subseteq cond.waiting
          /\ T # {} => \E t \in cond.waiting : T = {t}
      BY <2>1, <3>1, CondParts, Targets
    <3>3. /\ adding /\ adding' = FALSE /\ tasks' = tasks
          /\ workerPc' = workerPc
      BY <2>8 DEF SignalTask
    <3>4. Awake' = Awake \cup T
      BY <2>6, <3>1, <3>2, <3>3
    <3>5. CASE T = {}
      <4>1. Awake' = Awake /\ lost' = lost + 1
        BY <3>1, <3>4, <3>5
      <4> HIDE DEF A
      <4>2. Len(tasks) <= lost + 1 + A + 0
        BY <2>1, <2>2, <2>3, <2>4, <3>3
      <4> QED
        BY <3>3, <4>1, <4>2 DEF LeftByLostSignals, A
    <3>6. CASE T # {}
      <4>1. PICK t \in cond.waiting : T = {t}
        BY <3>2, <3>6
      <4>2. t \notin Awake
        BY <2>1, <4>1, CondParts DEF Awake, WokenOnce
      <4>3. Cardinality(Awake') = A + 1
        BY <2>3, <3>4, <4>1, <4>2, FS_AddElement
      <4>4. lost' = lost
        BY <3>1, <3>6
      <4> HIDE DEF A
      <4>5. Len(tasks) <= lost + (A + 1) + 0
        BY <2>1, <2>2, <2>3, <2>4, <3>3
      <4> QED
        BY <3>3, <4>3, <4>4, <4>5 DEF LeftByLostSignals
    <3> QED
      BY <3>5, <3>6
  <2>9. ASSUME NEW w \in Workers, TakeTask(w)
        PROVE  LeftByLostSignals'
    <3>1. /\ workerPc' = [workerPc EXCEPT ![w] = "run"]
          /\ workerPc[w] = "lock" /\ tasks # <<>> /\ tasks' = Tail(tasks)
          /\ UNCHANGED <<cond, adding, lost>>
      BY <2>9 DEF TakeTask, Goes
    <3>2. Len(tasks') = Len(tasks) - 1
      BY <2>1, <3>1, HeadTailProperties DEF PoolTypeOK
    <3>3. w \in Awake /\ w \notin cond.signalled
      BY <2>1, <3>1, CondParts DEF Awake
    <3>4. Awake' = Awake \ {w}
      BY <2>1, <3>1, <3>3 DEF Awake
    <3>5. Cardinality(Awake') = A - 1
      BY <2>3, <3>3, <3>4, FS_RemoveElement
    <3> HIDE DEF A
    <3>6. Len(tasks') <= lost + (A - 1) + (IF adding THEN 1 ELSE 0)
      BY <2>1, <2>2, <2>3, <2>4, <3>2
    <3> QED
      BY <3>1, <3>5, <3>6 DEF LeftByLostSignals
  <2>10. ASSUME NEW w \in Workers, FindNoTask(w)
         PROVE  LeftByLostSignals'
    <3>1. tasks' = <<>> /\ UNCHANGED <<lost, adding>>
      BY <2>10 DEF FindNoTask
    <3>2. Cardinality(Awake') \in Nat
      <4>1. Awake' \subseteq Awake
        <5>1. cond' = cond /\ workerPc' = [workerPc EXCEPT ![w] = "run"]
          BY <2>10 DEF FindNoTask, Goes
        <5> QED
          BY <2>1, <5>1 DEF Awake
      <4> QED
        BY <2>3, <4>1, FS_Subset, FS_CardinalityType
    <3>3. Len(tasks') = 0
      BY <3>1
    <3> QED
      BY <2>1, <3>1, <3>2, <3>3 DEF LeftByLostSignals
  <2>11. CASE Start
    <3>1. /\ cond.waiting \in SUBSET Workers
          /\ cond' = Woken(cond, cond.waiting)
      BY <2>1, <2>11, CondParts DEF Start, Broadcast
    <3>2. Awake \subseteq Awake'
      BY <2>6, <2>11, <3>1 DEF Start
    <3> QED
      BY <2>5, <2>11, <3>2 DEF Start
  <2>12. ASSUME NEW w \in Workers, SpuriousWakeup(w)
         PROVE  LeftByLostSignals'
    <3>1. Awake \subseteq Awake'
      BY <2>6, <2>12 DEF SpuriousWakeup
    <3> QED
      BY <2>5, <2>12, <3>1 DEF SpuriousWakeup
  <2>13. ASSUME NEW w \in Workers, BeginWait(w)
         PROVE  LeftByLostSignals'
    <3>1. cond'.signalled = cond.signalled
      <4>1. cond \in ConditionType(Workers) /\ cond' = Wait(cond, w)
        BY <2>1, <2>13, CondParts DEF BeginWait
      <4> QED
        BY <4>1, WaitFields
    <3>2. Awake \subseteq Awake'
      BY <2>1, <2>13, <3>1 DEF BeginWait, Goes, Awake
    <3> QED
      BY <2>5, <2>13, <3>2 DEF BeginWait
  <2>14. ASSUME NEW w \in Workers, WaitReturns(w)
         PROVE  LeftByLostSignals'
    <3>1. cond'.signalled = cond.signalled \ {w}
      <4>1. cond \in ConditionType(Workers) /\ cond' = Returned(cond, w)
        BY <2>1, <2>14, CondParts DEF WaitReturns
      <4> QED
        BY <4>1, ReturnedFields
    <3>2. Awake \subseteq Awake'
      BY <2>1, <2>14, <3>1 DEF WaitReturns, Goes, Awake
    <3> QED
      BY <2>5, <2>14, <3>2 DEF WaitReturns
  <2>15. ASSUME NEW w \in Workers, StartThread(w) \/ TaskEnds(w)
         PROVE  LeftByLostSignals'
    <3>1. /\ cond' = cond /\ workerPc[w] # "lock"
          /\ \A v \in Workers : v # w => workerPc'[v] = workerPc[v]
          /\ UNCHANGED <<tasks, lost, adding>>
      BY <2>1, <2>15 DEF StartThread, TaskEnds, Goes
    <3>2. Awake \subseteq Awake'
      BY <3>1 DEF Awake
    <3> QED
      BY <2>5, <3>1, <3>2
  <2>16. CASE UNCHANGED poolVars
    <3>1. Awake \subseteq Awake' /\ UNCHANGED <<tasks, lost, adding>>
      BY <2>16 DEF poolVars, Awake
    <3> QED
      BY <2>5, <3>1
  <2> QED
    BY <2>7, <2>8, <2>9, <2>10, <2>11, <2>12, <2>13, <2>14, <2>15, <2>16
    DEF PoolNext, WorkerStep
<1> QED
  BY <1>1, <1>2, PoolInvariant, PTL DEF PoolSpec

-----------------------------------------------------------------------------
(* EventLoopThread: every interleaving of the owner and the thread, without *)
(* a bound.                                                                *)

(* What the calls of the owner and the thread do to _loopReadyCond.        *)
LEMMA ReadyKept ==
  ASSUME ready \in ConditionType({Owner})
  PROVE  /\ Wait(ready, Owner) \in ConditionType({Owner})
         /\ Returned(ready, Owner) \in ConditionType({Owner})
         /\ Woken(ready, {Owner}) \in ConditionType({Owner})
         /\ Broadcast(ready) \in ConditionType({Owner})
BY DEF ConditionType, Wait, Returned, Woken, Broadcast

-----------------------------------------------------------------------------
(* Every member of the object and every place in its code keeps its type   *)
(* under every step of the two threads.                                    *)
THEOREM ThreadTypeCorrect == ThreadSpec => []ThreadTypeOK
<1>1. ThreadInit => ThreadTypeOK
  <2>1. NewCondition \in ConditionType({Owner})
    BY DEF NewCondition, ConditionType
  <2>2. ThreadInit => ready \in ConditionType({Owner})
    BY <2>1, Zenon DEF ThreadInit
  <2>3. ThreadInit => /\ ownerPc \in OwnerPcs /\ threadPc \in ThreadPcs
                      /\ joins \in Nat
                      /\ stopped \in {"no", "early", "running", "skipped"}
    BY DEF ThreadInit, OwnerPcs, ThreadPcs
  <2>4. ThreadInit => /\ hasLoop \in BOOLEAN /\ started \in BOOLEAN
                      /\ looping \in BOOLEAN /\ destroying \in BOOLEAN
                      /\ missed \in BOOLEAN
    BY DEF ThreadInit
  <2> QED
    BY <2>2, <2>3, <2>4 DEF ThreadTypeOK
<1>2. ThreadTypeOK /\ [ThreadNext]_threadVars => ThreadTypeOK'
  <2> SUFFICES ASSUME ThreadTypeOK, [ThreadNext]_threadVars
               PROVE  ThreadTypeOK'
    OBVIOUS
  <2>0. ready' \in ConditionType({Owner})
    <3>1. CASE UNCHANGED ready
      BY <3>1 DEF ThreadTypeOK
    <3>2. CASE CallWait \/ WaitEnds \/ WakesSpuriously \/ BroadcastReady
      BY <3>2, ReadyKept
      DEF ThreadTypeOK, CallWait, WaitEnds, WakesSpuriously, BroadcastReady
    <3> QED
      BY <3>1, <3>2
      DEF ThreadNext, OwnerRuns, OwnerCalls, ThreadRuns, TestLoop, JoinReturns,
          CreateThread, CreateFails, Stop, Join, Destroy, StoreLoop,
          StoreStarted, EnterLoop, LoopEnds, CallbackStops, threadVars
  <2> USE <2>0 DEF ThreadTypeOK, OwnerPcs, ThreadPcs, OwnerGoes, loopVars
  <2>1. CASE OwnerRuns
    <3>1. CASE TestLoop
      BY <3>1 DEF TestLoop
    <3>2. CASE CallWait \/ WaitEnds
      BY <3>2 DEF CallWait, WaitEnds
    <3>3. CASE JoinReturns
      BY <3>3 DEF JoinReturns
    <3> QED
      BY <2>1, <3>1, <3>2, <3>3 DEF OwnerRuns
  <2>2. CASE OwnerCalls
    BY <2>2 DEF OwnerCalls, CreateThread, CreateFails, Stop, StopBody,
                StopFinds, Join, Destroy
  <2>3. CASE ThreadRuns
    BY <2>3 DEF ThreadRuns, StoreLoop, StoreStarted, BroadcastReady, EnterLoop,
                LoopEnds
  <2>4. CASE CallbackStops \/ WakesSpuriously
    <3>1. CASE CallbackStops
      BY <3>1, <2>0 DEF CallbackStops
    <3>2. CASE WakesSpuriously
      BY <3>2, <2>0, ZenonT(30) DEF WakesSpuriously
    <3> QED
      BY <2>4, <3>1, <3>2
  <2>5. CASE UNCHANGED threadVars
    BY <2>5, ZenonT(30) DEF threadVars
  <2> QED
    BY <2>1, <2>2, <2>3, <2>4, <2>5 DEF ThreadNext
<1> QED
  BY <1>1, <1>2, PTL DEF ThreadSpec

-----------------------------------------------------------------------------
(* What the owner and the thread know of each other *)

(* How far the thread has come.                                            *)
StoredLoop == threadPc \notin {"none", "store loop"}
StoredStarted == threadPc \notin {"none", "store loop", "store started"}
HasBroadcast == threadPc \in {"enter", "loop", "ended"}

(* What the shared members say of the thread.                              *)
MembersInv ==
  /\ hasLoop <=> StoredLoop
  /\ started <=> StoredStarted

(* An owner that is about to wait, or waits, after the broadcast missed it. *)
WaitInv ==
  HasBroadcast /\ (ownerPc = "call wait" \/ Owner \in ready.waiting) => missed

(* The owner is out of start() only with a loop there or no thread at all; *)
(* it leaves the destructor with the thread ended or before _started.      *)
OwnerInv ==
  /\ ownerPc = "new" => threadPc = "none"
  /\ ownerPc \in {"up", "join"} => hasLoop \/ threadPc = "none"
  /\ DestroyedThreadEnded

ThreadInv == MembersInv /\ WaitInv /\ OwnerInv

(* The inductive invariant: the members tell how far the thread is, and    *)
(* the owner's place in its code follows from them.                        *)
THEOREM ThreadInvariant == ThreadSpec => []ThreadInv
<1> USE DEF ThreadInv, MembersInv, WaitInv, OwnerInv, StoredLoop,
            StoredStarted, HasBroadcast, DestroyedThreadEnded
<1>1. ThreadInit => ThreadInv
  BY DEF ThreadInit, NewCondition
<1>2. ThreadTypeOK /\ ThreadInv /\ [ThreadNext]_threadVars => ThreadInv'
  <2> SUFFICES ASSUME ThreadTypeOK, ThreadInv, [ThreadNext]_threadVars
               PROVE  ThreadInv'
    OBVIOUS
  <2> USE DEF OwnerGoes, loopVars, ThreadPcs, OwnerPcs
  <2>0. /\ threadPc \in ThreadPcs
        /\ ownerPc \in OwnerPcs
        /\ hasLoop \in BOOLEAN /\ started \in BOOLEAN /\ missed \in BOOLEAN
        /\ ready \in [held : BOOLEAN, waiting : SUBSET {Owner},
                      signalled : SUBSET {Owner}]
    BY DEF ThreadTypeOK, ConditionType
  <2>1. CASE CreateThread
    BY <2>0, <2>1 DEF CreateThread
  <2>2. CASE CreateFails
    BY <2>0, <2>2 DEF CreateFails
  <2>3. CASE TestLoop
    BY <2>0, <2>3 DEF TestLoop
  <2>4. CASE CallWait
    <3>1. MembersInv' /\ OwnerInv'
      BY <2>0, <2>4 DEF CallWait
    <3>2. WaitInv'
      BY <2>0, <2>4 DEF CallWait
    <3> QED
      BY <3>1, <3>2
  <2>5. CASE WaitEnds
    BY <2>0, <2>5 DEF WaitEnds, Returned
  <2>6. CASE WakesSpuriously
    BY <2>0, <2>6 DEF WakesSpuriously, Woken
  <2>7. CASE StoreLoop
    BY <2>0, <2>7 DEF StoreLoop
  <2>8. CASE StoreStarted
    BY <2>0, <2>8 DEF StoreStarted
  <2>9. CASE BroadcastReady
    BY <2>0, <2>9 DEF BroadcastReady, Broadcast, Woken
  <2>10. CASE EnterLoop
    BY <2>0, <2>10 DEF EnterLoop
  <2>11. CASE CallbackStops
    BY <2>0, <2>11 DEF CallbackStops
  <2>12. CASE LoopEnds
    BY <2>0, <2>12 DEF LoopEnds
  <2>13. CASE Stop
    BY <2>0, <2>13 DEF Stop, StopBody, StopFinds
  <2>14. CASE Join
    BY <2>0, <2>14 DEF Join
  <2>15. CASE JoinReturns
    BY <2>0, <2>15 DEF JoinReturns
  <2>16. CASE Destroy
    BY <2>0, <2>16 DEF Destroy, StopBody, StopFinds
  <2>17. CASE UNCHANGED threadVars
    BY <2>0, <2>17 DEF threadVars
  <2> QED
    BY <2>1, <2>2, <2>3, <2>4, <2>5, <2>6, <2>7, <2>8, <2>9, <2>10, <2>11,
       <2>12, <2>13, <2>14, <2>15, <2>16, <2>17
    DEF ThreadNext, OwnerRuns, OwnerCalls, ThreadRuns
<1> QED
  BY <1>1, <1>2, ThreadTypeCorrect, PTL DEF ThreadSpec

(* start() sleeps with the loop ready only if the broadcast came between   *)
(* its test of _loop and its wait.                                         *)
THEOREM SleepsOnlyIfTheBroadcastIsMissed == ThreadSpec => []SleepsOnlyIfMissed
<1>1. ThreadInv => SleepsOnlyIfMissed
  BY DEF ThreadInv, WaitInv, HasBroadcast, SleepsOnlyIfMissed
<1> QED
  BY <1>1, ThreadInvariant, PTL

(* ~EventLoopThread returns with the thread ended, or never made, unless   *)
(* it came before the thread stored _started.                              *)
THEOREM DestructorWaitsForTheThread == ThreadSpec => []DestroyedThreadEnded
<1>1. ThreadInv => DestroyedThreadEnded
  BY DEF ThreadInv, OwnerInv
<1> QED
  BY <1>1, ThreadInvariant, PTL

-----------------------------------------------------------------------------
(* ByteBuffer: for every initial and maximum size and every sequence of    *)
(* appends, retrieves and shrinks.                                         *)

(* A buffer whose vector has not been spoiled holds its size within its    *)
(* capacity.                                                               *)
SizeInv == size <= capacity

(* The inductive invariant: the types alone are not inductive, since that  *)
(* an index stays a natural number rests on the queue.                     *)
BufferInv ==
  BufferTypeOK /\ SizeInv /\ BufferIsQueue /\ SpoiledOnlyIfMadeSmall

-----------------------------------------------------------------------------
(* The vector's memory *)

(* What moving the vector keeps.                                           *)
LEMMA MovedKeeps ==
  ASSUME BufferTypeOK, SizeInv, NEW n \in Nat, size <= n
  PROVE  /\ Moved(n) \in Seq(0..MaxBytes)
         /\ Len(Moved(n)) = n
         /\ \A i \in 1..size : Moved(n)[i] = memory[i]
<1>1. memory \in Seq(0..MaxBytes) /\ size \in Nat /\ size <= Len(memory)
  BY DEF BufferTypeOK, SizeInv, capacity
<1>2. \A i \in 1..size : memory[i] \in 0..MaxBytes
  <2>1. Len(memory) \in Nat
    BY <1>1, LenProperties
  <2>2. \A i \in 1..Len(memory) : memory[i] \in 0..MaxBytes
    BY <1>1, ElementOfSeq
  <2> QED
    BY <1>1, <2>1, <2>2
<1>3. Moved(n) \in [1..n -> 0..MaxBytes]
  BY <1>1, <1>2, BufferAssumption DEF Moved
<1>4. \A i \in 1..size : Moved(n)[i] = memory[i]
  BY <1>1 DEF Moved
<1> QED
  BY <1>3, <1>4, FunctionIsSequence

(* What copying len bytes behind the write index does to the vector.       *)
LEMMA CopiedWrites ==
  ASSUME BufferTypeOK, NEW m \in Seq(0..MaxBytes), NEW len \in Nat,
         appended + len <= MaxBytes
  PROVE  /\ Copied(m, len) \in Seq(0..MaxBytes)
         /\ Len(Copied(m, len)) = Len(m)
         /\ \A i \in 1..Len(m) :
              Copied(m, len)[i] = IF writeIndex < i /\ i <= writeIndex + len
                                  THEN appended + (i - writeIndex) ELSE m[i]
<1>1. /\ Len(m) \in Nat /\ DOMAIN m = 1..Len(m)
      /\ \A i \in 1..Len(m) : m[i] \in 0..MaxBytes
  BY ElementOfSeq, LenProperties
<1>2. writeIndex \in Nat /\ appended \in Nat /\ MaxBytes \in Nat
  BY BufferAssumption DEF BufferTypeOK
<1>3. Copied(m, len) \in [1..Len(m) -> 0..MaxBytes]
  BY <1>1, <1>2 DEF Copied
<1>4. \A i \in 1..Len(m) :
        Copied(m, len)[i] = IF writeIndex < i /\ i <= writeIndex + len
                            THEN appended + (i - writeIndex) ELSE m[i]
  BY <1>1 DEF Copied
<1> QED
  BY <1>1, <1>3, <1>4, FunctionIsSequence

-----------------------------------------------------------------------------
(* The invariant *)

(* What the invariant says of the sizes and the indices.                   *)
LEMMA Unfolded ==
  ASSUME BufferInv
  PROVE  /\ memory \in Seq(0..MaxBytes) /\ Len(memory) \in Nat
         /\ size \in Nat /\ readIndex \in Nat /\ writeIndex \in Nat
         /\ appended \in 0..MaxBytes /\ retrieved \in 0..MaxBytes
         /\ madeSmall \in BOOLEAN /\ spoiled \in BOOLEAN
         /\ size <= Len(memory)
         /\ spoiled => madeSmall
         /\ ~madeSmall => size = Len(memory)
         /\ ~spoiled => /\ readIndex <= writeIndex
                        /\ writeIndex <= Len(memory)
                        /\ appended - retrieved = writeIndex - readIndex
<1>1. BufferTypeOK /\ SizeInv /\ BufferIsQueue /\ SpoiledOnlyIfMadeSmall
  BY DEF BufferInv
<1>2. /\ memory \in Seq(0..MaxBytes)
      /\ size \in Nat /\ readIndex \in Nat /\ writeIndex \in Nat
      /\ appended \in 0..MaxBytes /\ retrieved \in 0..MaxBytes
      /\ madeSmall \in BOOLEAN /\ spoiled \in BOOLEAN
  BY <1>1 DEF BufferTypeOK
<1>3. Len(memory) \in Nat
  BY <1>2, LenProperties
<1>4. size <= Len(memory)
  BY <1>1 DEF SizeInv, capacity
<1>5. (spoiled => madeSmall) /\ (~madeSmall => size = Len(memory))
  BY <1>1 DEF SpoiledOnlyIfMadeSmall, capacity
<1>6. ~spoiled => /\ readIndex <= writeIndex
                  /\ writeIndex <= Len(memory)
                  /\ appended - retrieved = writeIndex - readIndex
  BY <1>1 DEF BufferIsQueue, capacity, ReadableBytes
<1> QED
  BY <1>2, <1>3, <1>4, <1>5, <1>6

(* Appending keeps the queue as long as every byte in it is within the     *)
(* size of a vector that moves.                                            *)
LEMMA AppendKeeps ==
  ASSUME BufferInv, ~spoiled, NEW len \in Nat, AppendBytes(len)
  PROVE  BufferInv'
<1> USE BufferAssumption
<1>1. /\ memory \in Seq(0..MaxBytes) /\ Len(memory) \in Nat /\ size \in Nat
      /\ readIndex \in Nat /\ writeIndex \in Nat
      /\ appended \in 0..MaxBytes /\ retrieved \in 0..MaxBytes
      /\ madeSmall \in BOOLEAN
      /\ size <= Len(memory)
      /\ readIndex <= writeIndex /\ writeIndex <= Len(memory)
      /\ appended - retrieved = writeIndex - readIndex
      /\ \A i \in 1..(writeIndex - readIndex) :
           memory[readIndex + i] = retrieved + i
      /\ ~madeSmall => size = Len(memory)
  BY Unfolded DEF BufferInv, BufferIsQueue, ReadableBytes
<1>2. /\ appended' = appended + len /\ writeIndex' = writeIndex + len
      /\ appended + len <= MaxBytes
      /\ UNCHANGED <<readIndex, retrieved, madeSmall>>
  BY DEF AppendBytes
<1>3. appended' \in 0..MaxBytes
  BY <1>1, <1>2
<1>4. CASE AppendInPlace(len)
  <2>1. /\ len <= Len(memory) - writeIndex
        /\ memory' = Copied(memory, len)
        /\ UNCHANGED <<size, spoiled>>
    BY <1>4 DEF AppendInPlace, WritableBytes, capacity
  <2>2. /\ memory' \in Seq(0..MaxBytes) /\ Len(memory') = Len(memory)
        /\ \A i \in 1..Len(memory) :
             memory'[i] = IF writeIndex < i /\ i <= writeIndex + len
                          THEN appended + (i - writeIndex) ELSE memory[i]
    BY <1>1, <1>2, <2>1, CopiedWrites DEF BufferInv
  <2>3. ASSUME NEW i \in 1..(writeIndex' - readIndex')
        PROVE  memory'[readIndex' + i] = retrieved' + i
    <3>1. readIndex + i \in 1..Len(memory) /\ readIndex' + i = readIndex + i
      BY <1>1, <1>2, <2>1
    <3>2. CASE i <= writeIndex - readIndex
      BY <1>1, <1>2, <2>2, <3>1, <3>2
    <3>3. CASE i > writeIndex - readIndex
      <4>1. /\ writeIndex < readIndex + i /\ readIndex + i <= writeIndex + len
            /\ appended + ((readIndex + i) - writeIndex) = retrieved + i
        BY <1>1, <1>2, <3>1, <3>3
      <4>2. memory'[readIndex + i] = appended + ((readIndex + i) - writeIndex)
        BY <2>2, <3>1, <4>1
      <4> QED
        BY <1>2, <3>1, <4>1, <4>2
    <3> QED
      BY <3>2, <3>3, <1>1
  <2>4. BufferTypeOK'
    <3>1. writeIndex' \in Nat
      BY <1>1, <1>2
    <3>2. spoiled' \in BOOLEAN
      BY <2>1, Unfolded
    <3> QED
      BY <1>1, <1>2, <1>3, <2>1, <2>2, <3>1, <3>2 DEF BufferTypeOK
  <2>5. BufferIsQueue'
    <3>1. /\ readIndex' <= writeIndex' /\ writeIndex' <= Len(memory')
          /\ appended' - retrieved' = writeIndex' - readIndex'
      BY <1>1, <1>2, <2>1, <2>2
    <3> QED
      BY <2>3, <3>1 DEF BufferIsQueue, capacity, ReadableBytes
  <2>6. SizeInv' /\ SpoiledOnlyIfMadeSmall'
    BY <1>1, <1>2, <2>1, <2>2 DEF SizeInv, SpoiledOnlyIfMadeSmall, capacity
  <2> QED
    BY <2>4, <2>5, <2>6 DEF BufferInv
<1>5. CASE AppendMoving(len)
  <2> DEFINE n == RoomFor(len)
  <2>1. /\ n \in Nat /\ size <= n /\ writeIndex + len <= n
        /\ size' = n /\ spoiled' = (writeIndex > size)
        /\ memory' = Copied(Moved(n), len)
    BY <1>1, <1>5 DEF AppendMoving, RoomFor, capacity
  <2> HIDE DEF n
  <2>2. /\ Moved(n) \in Seq(0..MaxBytes) /\ Len(Moved(n)) = n
        /\ \A i \in 1..size : Moved(n)[i] = memory[i]
    BY <2>1, MovedKeeps DEF BufferInv
  <2>3. /\ memory' \in Seq(0..MaxBytes) /\ Len(memory') = n
        /\ \A i \in 1..n :
             memory'[i] = IF writeIndex < i /\ i <= writeIndex + len
                          THEN appended + (i - writeIndex) ELSE Moved(n)[i]
    BY <1>2, <2>1, <2>2, CopiedWrites DEF BufferInv
  <2>4. ASSUME ~spoiled', NEW i \in 1..(writeIndex' - readIndex')
        PROVE  memory'[readIndex' + i] = retrieved' + i
    <3>1. readIndex + i \in 1..n /\ readIndex' + i = readIndex + i
      BY <1>1, <1>2, <2>1
    <3>2. CASE i <= writeIndex - readIndex
      <4>1. writeIndex <= size
        BY <1>1, <2>1, <2>4
      <4>2. readIndex + i \in 1..size
        BY <1>1, <1>2, <3>2, <4>1
      <4>3. memory'[readIndex + i] = memory[readIndex + i]
        BY <1>1, <2>2, <2>3, <3>1, <3>2, <4>2
      <4> QED
        BY <1>1, <1>2, <3>1, <3>2, <4>3
    <3>3. CASE i > writeIndex - readIndex
      <4>1. /\ writeIndex < readIndex + i /\ readIndex + i <= writeIndex + len
            /\ appended + ((readIndex + i) - writeIndex) = retrieved + i
        BY <1>1, <1>2, <3>1, <3>3
      <4>2. memory'[readIndex + i] = appended + ((readIndex + i) - writeIndex)
        BY <2>3, <3>1, <4>1
      <4> QED
        BY <1>2, <3>1, <4>1, <4>2
    <3> QED
      BY <3>2, <3>3, <1>1
  <2>5. BufferTypeOK'
    <3>1. writeIndex' \in Nat /\ spoiled' \in BOOLEAN /\ size' \in Nat
      BY <1>1, <1>2, <2>1
    <3> QED
      BY <1>1, <1>2, <1>3, <2>3, <3>1 DEF BufferTypeOK
  <2>6. BufferIsQueue'
    <3>1. /\ readIndex' <= writeIndex' /\ writeIndex' <= Len(memory')
          /\ appended' - retrieved' = writeIndex' - readIndex'
      BY <1>1, <1>2, <2>1, <2>3
    <3> QED
      BY <2>4, <3>1 DEF BufferIsQueue, capacity, ReadableBytes
  <2>7. SizeInv'
    BY <2>1, <2>3 DEF SizeInv, capacity
  <2>8. SpoiledOnlyIfMadeSmall'
    BY <1>1, <1>2, <2>1, <2>3 DEF SpoiledOnlyIfMadeSmall, capacity
  <2> QED
    BY <2>5, <2>6, <2>7, <2>8 DEF BufferInv
<1> QED
  BY <1>4, <1>5 DEF AppendBytes

(* Types, queue and sizes are kept by every call.                          *)
THEOREM BufferInvariant == BufferSpec => []BufferInv
<1> USE BufferAssumption
<1>1. BufferInit => BufferInv
  <2> SUFFICES ASSUME BufferInit PROVE BufferInv
    OBVIOUS
  <2>1. /\ size = kInitialBufferSize /\ readIndex = 0 /\ writeIndex = 0
        /\ appended = 0 /\ retrieved = 0 /\ ~madeSmall /\ ~spoiled
        /\ madeSmall \in BOOLEAN /\ spoiled \in BOOLEAN
        /\ memory = [i \in 1..kInitialBufferSize |-> 0]
    BY DEF BufferInit
  <2> 0 \in 0..MaxBytes
    OBVIOUS
  <2>2. memory \in Seq(0..MaxBytes) /\ Len(memory) = kInitialBufferSize
    <3>1. memory \in [1..kInitialBufferSize -> 0..MaxBytes]
      BY <2>1
    <3> QED
      BY <3>1, FunctionIsSequence
  <2>3. BufferTypeOK
    <3>1. size \in Nat /\ appended \in 0..MaxBytes /\ retrieved \in 0..MaxBytes
      BY <2>1
    <3> QED
      BY <2>1, <2>2, <3>1 DEF BufferTypeOK
  <2>4. BufferIsQueue
    BY <2>1, <2>2 DEF BufferIsQueue, capacity, ReadableBytes
  <2>5. SizeInv /\ SpoiledOnlyIfMadeSmall
    BY <2>1, <2>2 DEF SizeInv, SpoiledOnlyIfMadeSmall, capacity
  <2> QED
    BY <2>3, <2>4, <2>5 DEF BufferInv
<1>2. BufferInv /\ [BufferNext]_bufferVars => BufferInv'
  <2> SUFFICES ASSUME BufferInv, [BufferNext]_bufferVars
               PROVE  BufferInv'
    OBVIOUS
  <2>0. /\ size \in Nat /\ Len(memory) \in Nat /\ MaxBytes \in Nat
        /\ readIndex \in Nat /\ writeIndex \in Nat
        /\ appended \in Nat /\ appended <= MaxBytes
        /\ retrieved \in Nat
        /\ ~spoiled => /\ readIndex <= writeIndex
                       /\ writeIndex <= Len(memory)
                       /\ appended - retrieved = writeIndex - readIndex
    <3>1. appended \in 0..MaxBytes /\ retrieved \in 0..MaxBytes
      BY Unfolded
    <3> QED
      BY <3>1, Unfolded
  <2>1. ASSUME ~spoiled, NEW len \in 0..MaxLen, AppendBytes(len)
        PROVE  BufferInv'
    BY <2>1, AppendKeeps
  <2>2. ASSUME ~spoiled, NEW len \in 0..MaxLen, RetrievePart(len)
        PROVE  BufferInv'
    <3>1. /\ len \in Nat /\ len < writeIndex - readIndex
          /\ readIndex' = readIndex + len /\ retrieved' = retrieved + len
          /\ UNCHANGED <<size, memory, writeIndex, appended, madeSmall, spoiled>>
      BY <2>2 DEF RetrievePart, ReadableBytes
    <3>2. BufferTypeOK'
      <4>1. readIndex' \in Nat /\ retrieved' \in 0..MaxBytes
        BY <2>0, <2>2, <3>1
      <4> QED
        BY <3>1, <4>1, Unfolded DEF BufferTypeOK
    <3>3. ASSUME NEW i \in 1..(writeIndex' - readIndex')
          PROVE  memory'[readIndex' + i] = retrieved' + i
      <4>1. len + i \in 1..ReadableBytes
        BY <2>0, <3>1 DEF ReadableBytes
      <4>2. memory[readIndex + (len + i)] = retrieved + (len + i)
        BY <2>2, <4>1 DEF BufferInv, BufferIsQueue
      <4>3. readIndex' + i = readIndex + (len + i)
        BY <2>0, <3>1
      <4>4. retrieved' + i = retrieved + (len + i)
        BY <2>0, <3>1
      <4> QED
        BY <3>1, <4>2, <4>3, <4>4
    <3>4. /\ readIndex' <= writeIndex' /\ writeIndex' <= Len(memory')
          /\ appended' - retrieved' = writeIndex' - readIndex'
      <4>1. Len(memory') = Len(memory)
        BY <3>1
      <4>2. /\ readIndex \in Nat /\ writeIndex \in Nat
            /\ appended \in Nat /\ retrieved \in Nat
            /\ writeIndex <= Len(memory)
            /\ appended - retrieved = writeIndex - readIndex
        BY <2>0, <2>2
      <4>3. /\ readIndex + len <= writeIndex
            /\ appended - (retrieved + len) = writeIndex - (readIndex + len)
        BY <3>1, <4>2
      <4> QED
        BY <3>1, <4>1, <4>2, <4>3
    <3>5. BufferIsQueue'
      BY <3>3, <3>4 DEF BufferIsQueue, capacity, ReadableBytes
    <3>6. SizeInv' /\ SpoiledOnlyIfMadeSmall'
      BY <3>1, Unfolded DEF SizeInv, SpoiledOnlyIfMadeSmall, capacity
    <3> QED
      BY <3>2, <3>5, <3>6 DEF BufferInv
  <2>3. ASSUME ~spoiled, RetrieveRest
        PROVE  BufferInv'
    <3>1. /\ readIndex' = 0 /\ writeIndex' = 0
          /\ retrieved' = retrieved + (writeIndex - readIndex)
          /\ UNCHANGED <<memory, appended, spoiled>>
      BY <2>3 DEF RetrieveRest, ReadableBytes
    <3>2. /\ size' \in Nat /\ madeSmall' \in BOOLEAN
          /\ size' <= Len(memory)
          /\ ~madeSmall' => size' = Len(memory)
      <4>1. CASE size > kMaximumBufferBytes
        <5>1. size' = kInitialBufferSize /\ madeSmall' = TRUE
          BY <2>3, <4>1 DEF RetrieveRest
        <5> QED
          BY <4>1, <5>1, Unfolded
      <4>2. CASE ~(size > kMaximumBufferBytes)
        <5>1. size' = size /\ madeSmall' = madeSmall
          BY <2>3, <4>2 DEF RetrieveRest
        <5> QED
          BY <5>1, Unfolded
      <4> QED
        BY <4>1, <4>2
    <3>3. retrieved' = appended
      BY <2>0, <2>3, <3>1
    <3>4. BufferTypeOK'
      <4>1. readIndex' \in Nat /\ writeIndex' \in Nat
        BY <3>1
      <4> QED
        BY <3>1, <3>2, <3>3, <4>1, Unfolded DEF BufferTypeOK
    <3>5. BufferIsQueue'
      <4>1. appended' - retrieved' = 0 /\ writeIndex' <= Len(memory')
        BY <2>0, <3>1, <3>3
      <4> QED
        BY <3>1, <4>1 DEF BufferIsQueue, capacity, ReadableBytes
    <3>6. SizeInv'
      BY <3>1, <3>2 DEF SizeInv, capacity
    <3>7. SpoiledOnlyIfMadeSmall'
      BY <2>3, <3>1, <3>2 DEF SpoiledOnlyIfMadeSmall, capacity
    <3> QED
      BY <3>4, <3>5, <3>6, <3>7 DEF BufferInv
  <2>4. ASSUME ~spoiled, Shrink
        PROVE  BufferInv'
    <3>1. /\ memory' = Moved(size) /\ spoiled' = (writeIndex > size)
          /\ size < Len(memory)
          /\ UNCHANGED <<size, readIndex, writeIndex, appended, retrieved,
                         madeSmall>>
      BY <2>4 DEF Shrink, capacity
    <3>2. /\ memory' \in Seq(0..MaxBytes) /\ Len(memory') = size
          /\ \A i \in 1..size : memory'[i] = memory[i]
      <4>1. BufferTypeOK /\ SizeInv
        BY DEF BufferInv
      <4> QED
        BY <2>0, <3>1, <4>1, MovedKeeps
    <3>3. madeSmall /\ spoiled' \in BOOLEAN
      BY <3>1, Unfolded
    <3>4. BufferTypeOK'
      BY <3>1, <3>2, <3>3, Unfolded DEF BufferTypeOK
    <3>5. ASSUME ~spoiled' PROVE writeIndex <= size
      <4>1. ~(writeIndex > size)
        BY <3>1, <3>5, Zenon
      <4> QED
        BY <2>0, <4>1
    <3>6. ASSUME ~spoiled', NEW i \in 1..(writeIndex' - readIndex')
          PROVE  memory'[readIndex' + i] = retrieved' + i
      <4>1. readIndex + i \in 1..size
        <5>1. writeIndex <= size
          BY <3>6, <3>5
        <5>2. i \in 1..(writeIndex - readIndex)
          BY <3>1
        <5> QED
          BY <2>0, <5>1, <5>2
      <4>2. memory[readIndex + i] = retrieved + i
        BY <2>4, <3>1, <3>6 DEF BufferInv, BufferIsQueue, ReadableBytes
      <4> QED
        BY <3>1, <3>2, <4>1, <4>2
    <3>7. ~spoiled' => /\ readIndex' <= writeIndex'
                       /\ writeIndex' <= Len(memory')
                       /\ appended' - retrieved' = writeIndex' - readIndex'
      <4>1. /\ readIndex' = readIndex /\ writeIndex' = writeIndex
            /\ appended' = appended /\ retrieved' = retrieved
        BY <3>1
      <4>2. /\ readIndex <= writeIndex
            /\ appended - retrieved = writeIndex - readIndex
        BY <2>0, <2>4
      <4> QED
        BY <3>2, <3>5, <4>1, <4>2
    <3>8. BufferIsQueue'
      BY <3>6, <3>7 DEF BufferIsQueue, capacity, ReadableBytes
    <3>9. SizeInv'
      BY <3>1, <3>2, Unfolded DEF SizeInv, capacity
    <3>10. SpoiledOnlyIfMadeSmall'
      BY <3>1, <3>2, <3>3, Unfolded DEF SpoiledOnlyIfMadeSmall, capacity
    <3> QED
      BY <3>4, <3>8, <3>9, <3>10 DEF BufferInv
  <2>5. CASE UNCHANGED bufferVars
    BY <2>5 DEF bufferVars, BufferInv, BufferTypeOK, SizeInv, BufferIsQueue,
                SpoiledOnlyIfMadeSmall, capacity, ReadableBytes
  <2> QED
    BY <2>1, <2>2, <2>3, <2>4, <2>5 DEF BufferNext
<1> QED
  BY <1>1, <1>2, PTL DEF BufferSpec

(* Every variable of the buffer keeps its type.                            *)
THEOREM BufferTypeCorrect == BufferSpec => []BufferTypeOK
<1>1. BufferInv => BufferTypeOK
  BY DEF BufferInv
<1> QED
  BY <1>1, BufferInvariant, PTL

(* Until its memory is spoiled the buffer is a queue: the bytes between    *)
(* the indices are those appended and not retrieved, in order.             *)
THEOREM TheBufferIsAQueue == BufferSpec => []BufferIsQueue
<1>1. BufferInv => BufferIsQueue
  BY DEF BufferInv
<1> QED
  BY <1>1, BufferInvariant, PTL

(* Only a buffer that was made small after kMaximumBufferBytes is spoiled. *)
THEOREM SmallBuffersAreSafe == BufferSpec => []SpoiledOnlyIfMadeSmall
<1>1. BufferInv => SpoiledOnlyIfMadeSmall
  BY DEF BufferInv
<1> QED
  BY <1>1, BufferInvariant, PTL

-----------------------------------------------------------------------------
(* MCLibrary *)

(* A step of the run is a step of one component; the others stand still.   *)
LEMMA EachMovesOrStays ==
  [Next]_libraryVars =>
    /\ [PoolNext]_poolVars
    /\ [ThreadNext]_threadVars
    /\ [TimerNext]_timerVars
    /\ [ClientNext]_clientVars
    /\ [PollersNext]_pollersVars
    /\ [BufferNext]_bufferVars
    /\ UNCHANGED part
<1>1. PoolMoves => /\ PoolNext
                   /\ UNCHANGED <<part, threadVars, timerVars, clientVars,
                                  pollersVars, bufferVars>>
  BY DEF PoolMoves
<1>2. ThreadMoves => /\ ThreadNext
                     /\ UNCHANGED <<part, poolVars, timerVars, clientVars,
                                    pollersVars, bufferVars>>
  BY DEF ThreadMoves
<1>3. TimersMove => /\ TimerNext
                    /\ UNCHANGED <<part, poolVars, threadVars, clientVars,
                                   pollersVars, bufferVars>>
  BY DEF TimersMove
<1>4. ClientMoves => /\ ClientNext
                     /\ UNCHANGED <<part, poolVars, threadVars, timerVars,
                                    pollersVars, bufferVars>>
  BY DEF ClientMoves
<1>5. PollersMove => /\ PollersNext
                     /\ UNCHANGED <<part, poolVars, threadVars, timerVars,
                                    clientVars, bufferVars>>
  BY DEF PollersMove
<1>6. BufferMoves => /\ BufferNext
                     /\ UNCHANGED <<part, poolVars, threadVars, timerVars,
                                    clientVars, pollersVars>>
  BY DEF BufferMoves
<1>7. UNCHANGED libraryVars =>
        UNCHANGED <<part, poolVars, threadVars, timerVars, clientVars,
                    pollersVars, bufferVars>>
  BY DEF libraryVars
<1> QED
  BY <1>1, <1>2, <1>3, <1>4, <1>5, <1>6, <1>7 DEF Next

(* The run keeps the promises of each of its components: it implements the *)
(* specification of every one.                                             *)
THEOREM LibraryIsItsComponents ==
  Spec => /\ PoolSpec /\ ThreadSpec /\ TimerSpec
          /\ ClientSpec /\ PollersSpec /\ BufferSpec
<1>1. Init => /\ PoolInit /\ ThreadInit /\ TimerInit
              /\ ClientInit /\ PollersInit /\ BufferInit
  BY DEF Init
<1> QED
  BY <1>1, EachMovesOrStays, PTL
     DEF Spec, PoolSpec, ThreadSpec, TimerSpec, ClientSpec, PollersSpec, BufferSpec

(* Every variable of every component keeps its type in the run.            *)
THEOREM LibraryTypeCorrect ==
  Spec => []TypeOK
<1>1. Init => part \in Parts
  BY DEF Init
<1>2. part \in Parts /\ [Next]_libraryVars => (part \in Parts)'
  BY EachMovesOrStays
<1>3. Spec => [](part \in Parts)
  BY <1>1, <1>2, PTL DEF Spec
<1>4. ASSUME part \in Parts, PoolTypeOK, ThreadTypeOK, TimerTypeOK,
             ClientTypeOK, PollersTypeOK, BufferTypeOK
      PROVE  TypeOK
  BY <1>4 DEF TypeOK
<1> QED
  BY <1>3, <1>4, LibraryIsItsComponents, PoolTypeCorrect, ThreadTypeCorrect,
     TimersTypeCorrect, ClientTypeCorrect, PollersTypeCorrect, BufferTypeCorrect,
     PTL

(* All the safety properties the run checks hold of it, for any constants. *)
THEOREM LibraryIsSafe ==
  Spec => [](/\ TakenInOrder /\ LeftByLostSignals /\ SomeoneFreesTheMutex
             /\ SleepsOnlyIfMissed /\ DestroyedThreadEnded
             /\ OnSchedule /\ RunsAsOften /\ DeletedIsGone
             /\ WatchesItsOwn /\ SocketsHaveOwners
             /\ PollersAgree /\ ReportsAsAsked
             /\ BufferIsQueue /\ SpoiledOnlyIfMadeSmall)
BY LibraryIsItsComponents, TasksAreTakenInOrder, OnlyLostSignalsLeaveTasks,
   TheMutexIsFreed, SleepsOnlyIfTheBroadcastIsMissed, DestructorWaitsForTheThread,
   TimersKeepTheirSchedule, TimersRunAsOften, DeletedTimersAreGone,
   ClientWatchesItsOwn, ClientSocketsHaveOwners, PollersStayInStep, PollersReport,
   TheBufferIsAQueue, SmallBuffersAreSafe, PTL
=============================================================================
