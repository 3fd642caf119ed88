----------------------------- MODULE ThreadPool -----------------------------
(***************************************************************************)
(* base/ThreadPool.cc with base/Thread.cc, base/Condition.cc and           *)
(* base/Mutex.cc: a deque of tasks and workers that wait, take the oldest  *)
(* task if there is one, run it and wait again.                            *)
(*                                                                         *)
(* _mutex protects the deque, not the wait: a worker is woken only if it   *)
(* is in Wait when the signal is sent.  Anyone may add a task at any time, *)
(* a running task included.  pthread_create may fail, which Start ignores; *)
(* a wait may end without a signal, as POSIX allows.                       *)
(***************************************************************************)
EXTENDS Naturals, Sequences, FiniteSets, Condition

CONSTANTS
  Workers,    \* the threads of _threads
  MaxTasks    \* how many tasks are added (a bound of the model)

ASSUME PoolAssumption == IsFiniteSet(Workers) /\ MaxTasks \in Nat

NoTask == 0    \* the empty Task of a worker that found the deque empty

VARIABLES
  tasks,       \* _tasks
  adding,      \* AddTask has _mutex: it has pushed and not yet signalled
  cond,        \* _cond
  begun,       \* Start has returned: _started
  workerPc,    \* where each worker is
  task,        \* t of RunTask in each worker
  added,       \* history: how many tasks were added; they are 1..added
  taken,       \* history: the tasks taken, oldest first
  lost         \* history: how many signals found nobody waiting

poolVars == <<tasks, adding, cond, begun, workerPc, task, added, taken, lost>>

(* A worker is a Thread not started ("new"), before Wait ("loop"), inside  *)
(* it ("wait"), before _mutex.Lock() ("lock") or in its task ("run").      *)
(* "failed" is a thread that pthread_create did not make.                  *)
WorkerPcs == {"new", "failed", "loop", "wait", "lock", "run"}

PoolTypeOK ==
  /\ tasks \in Seq(1..MaxTasks)
  /\ adding \in BOOLEAN
  /\ cond \in ConditionType(Workers)
  /\ cond.waiting \cup cond.signalled \subseteq
       {w \in Workers : workerPc[w] = "wait"}
  /\ begun \in BOOLEAN
  /\ workerPc \in [Workers -> WorkerPcs]
  /\ task \in [Workers -> 0..MaxTasks]
  /\ added \in 0..MaxTasks
  /\ taken \in Seq(1..MaxTasks)
  /\ lost \in Nat

PoolInit ==
  /\ tasks = <<>>
  /\ adding = FALSE
  /\ cond = NewCondition
  /\ begun = FALSE
  /\ workerPc = [w \in Workers |-> "new"]
  /\ task = [w \in Workers |-> NoTask]
  /\ added = 0
  /\ taken = <<>>
  /\ lost = 0

Goes(w, from, to) ==
  /\ workerPc[w] = from
  /\ workerPc' = [workerPc EXCEPT ![w] = to]

-----------------------------------------------------------------------------
(* Start and AddTask *)

StartThread(w) ==
  /\ Goes(w, "new", "loop") \/ Goes(w, "new", "failed")
  /\ UNCHANGED <<tasks, adding, cond, begun, task, added, taken, lost>>

Start ==
  /\ ~begun
  /\ \A w \in Workers : workerPc[w] # "new"
  /\ cond' = Broadcast(cond)
  /\ begun' = TRUE
  /\ UNCHANGED <<tasks, adding, workerPc, task, added, taken, lost>>

AddTask ==
  /\ ~adding
  /\ added < MaxTasks
  /\ adding' = TRUE
  /\ added' = added + 1
  /\ tasks' = Append(tasks, added + 1)
  /\ UNCHANGED <<cond, begun, workerPc, task, taken, lost>>

(* Mutant: only the first task of a backlog is signalled.                  *)
SignalIfFirst ==
  /\ adding
  /\ adding' = FALSE
  /\ \E T \in SignalTargets(cond) :
       /\ cond' = IF Len(tasks) = 1 THEN Woken(cond, T) ELSE cond
       /\ lost' = IF T = {} THEN lost + 1 ELSE lost
  /\ UNCHANGED <<tasks, begun, workerPc, task, added, taken>>

SignalTask ==
  /\ adding
  /\ adding' = FALSE
  /\ \E T \in SignalTargets(cond) :
       /\ cond' = Woken(cond, T)
       /\ lost' = IF T = {} THEN lost + 1 ELSE lost
  /\ UNCHANGED <<tasks, begun, workerPc, task, added, taken>>

-----------------------------------------------------------------------------
(* RunTask *)

BeginWait(w) ==
  /\ Goes(w, "loop", "wait")
  /\ cond' = Wait(cond, w)
  /\ UNCHANGED <<tasks, adding, begun, task, added, taken, lost>>

SpuriousWakeup(w) ==
  /\ w \in cond.waiting
  /\ cond' = Woken(cond, {w})
  /\ UNCHANGED <<tasks, adding, begun, workerPc, task, added, taken, lost>>

WaitReturns(w) ==
  /\ Goes(w, "wait", "lock")
  /\ MayReturn(cond, w)
  /\ cond' = Returned(cond, w)
  /\ UNCHANGED <<tasks, adding, begun, task, added, taken, lost>>

(* Mutant: the front of the deque is copied and not popped.                *)
PeekTask(w) ==
  /\ Goes(w, "lock", "run")
  /\ ~adding
  /\ tasks # <<>>
  /\ task' = [task EXCEPT ![w] = Head(tasks)]
  /\ taken' = Append(taken, Head(tasks))
  /\ UNCHANGED <<tasks, adding, cond, begun, added, lost>>

TakeTask(w) ==
  /\ Goes(w, "lock", "run")
  /\ ~adding
  /\ tasks # <<>>
  /\ task' = [task EXCEPT ![w] = Head(tasks)]
  /\ tasks' = Tail(tasks)
  /\ taken' = Append(taken, Head(tasks))
  /\ UNCHANGED <<adding, cond, begun, added, lost>>

(* Mutant: a worker that finds nothing ends.                               *)
LeaveIfEmpty(w) ==
  /\ Goes(w, "lock", "failed")
  /\ ~adding
  /\ tasks = <<>>
  /\ UNCHANGED <<tasks, adding, cond, begun, task, added, taken, lost>>

FindNoTask(w) ==
  /\ Goes(w, "lock", "run")
  /\ ~adding
  /\ tasks = <<>>
  /\ UNCHANGED <<tasks, adding, cond, begun, task, added, taken, lost>>

TaskEnds(w) ==
  /\ Goes(w, "run", "loop")
  /\ task' = [task EXCEPT ![w] = NoTask]
  /\ UNCHANGED <<tasks, adding, cond, begun, added, taken, lost>>

-----------------------------------------------------------------------------
WorkerStep(w) ==
  \/ BeginWait(w) \/ WaitReturns(w) \/ TakeTask(w) \/ FindNoTask(w)
  \/ TaskEnds(w)

PoolNext ==
  \/ Start \/ AddTask \/ SignalTask
  \/ \E w \in Workers : StartThread(w) \/ WorkerStep(w) \/ SpuriousWakeup(w)

PoolSpec == PoolInit /\ [][PoolNext]_poolVars

-----------------------------------------------------------------------------
(* Properties *)

(* AddTask and RunTask keep _tasks a FIFO: every task added is taken once, *)
(* in the order of AddTask, or still queued, whatever the workers do.      *)
TakenInOrder == taken \o tasks = [i \in 1..added |-> i]

(* The workers that have been woken and have not looked at the deque yet.  *)
Awake == cond.signalled \cup {w \in Workers : workerPc[w] = "lock"}

(* Tasks stay behind in _tasks only by signals that found nobody waiting:  *)
(* a task whose AddTask woke a worker has a worker of its own on its way.  *)
LeftByLostSignals ==
  Len(tasks) <= lost + Cardinality(Awake) + (IF adding THEN 1 ELSE 0)

(* The condition's mutex is never locked with every worker inside Wait:    *)
(* one is on its way to its next Wait, which frees the mutex it may never  *)
(* have locked, so that woken workers of Wait do not wait for each other.  *)
SomeoneFreesTheMutex ==
  cond.held => \E w \in Workers : workerPc[w] \in {"loop", "lock", "run"}

(* A worker that is woken returns from Wait, looks at the deque and comes  *)
(* back to Wait, if tasks end and a mutex that is free again and again is  *)
(* got in the end.                                                         *)
WokenComesBack ==
  \A w \in Workers : w \in cond.signalled ~> workerPc[w] = "loop"

(* "when return, fetch next task from queue" (ThreadPool.cc:72): once a    *)
(* worker has taken a task and come back, the workers do not all sleep     *)
(* while a task whose signal was sent is queued.                           *)
FetchesNextTask ==
  ~ /\ taken # <<>>
    /\ tasks # <<>>
    /\ ~adding
    /\ begun
    /\ \A w \in Workers : w \in cond.waiting
=============================================================================
