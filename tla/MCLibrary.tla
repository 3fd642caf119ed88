----------------------------- MODULE MCLibrary -----------------------------
(***************************************************************************)
(* The components that share no state with one another, in one run: part,  *)
(* chosen at the start, says which of them moves, and the others stay in   *)
(* their initial states.  Model values and bounds are in the .cfg.         *)
(***************************************************************************)
EXTENDS ThreadPool, EventLoopThread, TimerQueue, TcpClient, Pollers, ByteBuffer

(* Without is the SelectSeq of the standard module.                        *)
ASSUME WithoutSelects ==
  \A s \in BoundedSeq(1..3, 4), S \in SUBSET (1..3) :
    Without(s, S) = SelectSeq(s, LAMBDA e : e \notin S)

VARIABLE part

Parts == {"pool", "thread", "timers", "client", "pollers", "buffer"}
libraryVars == <<part, poolVars, threadVars, timerVars, clientVars,
                 pollersVars, bufferVars>>

Init ==
  /\ part \in Parts
  /\ PoolInit /\ ThreadInit /\ TimerInit /\ ClientInit /\ BufferInit
  /\ PollersInit
  /\ part # "pollers" => chanFd = [c \in Handles |-> CHOOSE fd \in PollFds : TRUE]

PoolMoves ==
  /\ part = "pool" /\ PoolNext
  /\ UNCHANGED <<part, threadVars, timerVars, clientVars, pollersVars,
                 bufferVars>>
ThreadMoves ==
  /\ part = "thread" /\ ThreadNext
  /\ UNCHANGED <<part, poolVars, timerVars, clientVars, pollersVars, bufferVars>>
TimersMove ==
  /\ part = "timers" /\ TimerNext
  /\ UNCHANGED <<part, poolVars, threadVars, clientVars, pollersVars, bufferVars>>
ClientMoves ==
  /\ part = "client" /\ ClientNext
  /\ UNCHANGED <<part, poolVars, threadVars, timerVars, pollersVars, bufferVars>>
PollersMove ==
  /\ part = "pollers" /\ PollersNext
  /\ UNCHANGED <<part, poolVars, threadVars, timerVars, clientVars, bufferVars>>
BufferMoves ==
  /\ part = "buffer" /\ BufferNext
  /\ UNCHANGED <<part, poolVars, threadVars, timerVars, clientVars, pollersVars>>

Next ==
  \/ PoolMoves \/ ThreadMoves \/ TimersMove \/ ClientMoves \/ PollersMove
  \/ BufferMoves

Spec == Init /\ [][Next]_libraryVars

(* A worker of the pool goes on whenever it can again and again: tasks end *)
(* and a mutex is not kept from a thread that wants it for ever.  A thread *)
(* in AddTask sends its signal; the threads of an EventLoopThread, a loop  *)
(* with timers and one with a client run; a peer answers connect().        *)
Fairness ==
  /\ \A w \in Workers : SF_workerPc(part = "pool" /\ WorkerStep(w))
  /\ WF_adding(part = "pool" /\ SignalTask)
  /\ WF_ownerPc(part = "thread" /\ OwnerRuns)
  /\ WF_threadPc(part = "thread" /\ ThreadRuns)
  /\ WF_timerVars(part = "timers" /\ TimerLoop)
  /\ WF_clientVars(part = "client" /\ \E a \in Attempts : LoopOf(a))
  /\ WF_clientVars(part = "client" /\ \E a \in Attempts : Answer(a))

FairSpec == Spec /\ Fairness

(* Every component's variables keep their types.                           *)
TypeOK ==
  /\ part \in Parts
  /\ PoolTypeOK /\ ThreadTypeOK /\ TimerTypeOK /\ ClientTypeOK
  /\ PollersTypeOK /\ BufferTypeOK
=============================================================================
