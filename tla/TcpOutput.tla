------------------------------ MODULE TcpOutput ------------------------------
(***************************************************************************)
(* The output of one established TcpConnection: Write, WriteInLoop,        *)
(* HandleWrite and ShutdownWrite of net/TcpConnection.cc, the write        *)
(* interest of its channel and what its loop does with them.               *)
(*                                                                         *)
(* Bytes go to the kernel directly while the channel has no write          *)
(* interest, else through _writeBuf.  Other threads write through the      *)
(* loop's functors, the user's callbacks in the loop write at once.        *)
(* A handler of the loop is one step; the kernel decides in it how many    *)
(* bytes it takes.  The connection is held by its user throughout.         *)
(***************************************************************************)
EXTENDS Naturals, Sequences, SequencesExt

CONSTANTS
  MaxWrites,   \* how many calls of Write (a bound of the model)
  Lengths,     \* how many bytes a call may write
  FullKernel   \* whether the kernel may take nothing of a direct write

ASSUME OutputAssumption ==
  /\ MaxWrites \in Nat
  /\ Lengths \subseteq Nat \ {0}
  /\ FullKernel \in BOOLEAN

Garbage == <<0, 0>>    \* a byte nobody wrote
Bytes == (Nat \X Nat)  \* <<w, i>>: the i-th byte of the w-th call of Write

VARIABLES
  status,      \* _status
  writeOn,     \* the channel's _isWriteEnabled
  interest,    \* the channel's _events, and so epoll's, have kWriteEvent
  writeBuf,    \* _writeBuf
  wire,        \* the bytes the kernel has taken
  shut,        \* shutdown(SHUT_WR) was called on the socket
  peer,        \* "open" or "closed"
  loopPc,      \* "poll", "event", "read", "functors", "complete" or "killed"
  rEvents,     \* the events of _rEvents still to handle
  pending,     \* functors waiting, oldest first
  todo,        \* how many of them the loop has swapped out
  made,        \* calls of Write so far
  written,     \* history: the bytes WriteInLoop accepted, in order
  completed    \* history: Len(wire) when a completion was last queued

outVars == <<writeOn, interest, writeBuf, wire, written, completed>>
vars == <<status, writeOn, interest, writeBuf, wire, shut, peer, loopPc,
          rEvents, pending, todo, made, written, completed>>

(* The user's code runs in the loop.                                       *)
InCallback == loopPc \in {"read", "complete"}

Functor(op, bytes) == [op |-> op, bytes |-> bytes]
WriteComplete == Functor("WriteComplete", <<>>)

TypeOK ==
  /\ status \in {"Connected", "Disconnecting", "Disconnected"}
  /\ writeOn \in BOOLEAN
  /\ interest \in BOOLEAN
  /\ writeBuf \in Seq(Bytes)
  /\ wire \in Seq(Bytes)
  /\ shut \in BOOLEAN
  /\ peer \in {"open", "closed"}
  /\ loopPc \in {"poll", "event", "read", "functors", "complete", "killed"}
  /\ rEvents \subseteq {"IN", "OUT"}
  /\ pending \in Seq([op : {"WriteInLoop", "ShutdownWriteInLoop",
                            "WriteComplete"}, bytes : Seq(Bytes)])
  /\ todo \in 0..Len(pending)
  /\ made \in 0..MaxWrites
  /\ written \in Seq(Bytes)
  /\ completed \in 0..Len(wire)

Init ==
  /\ status = "Connected"
  /\ writeOn = FALSE
  /\ interest = FALSE
  /\ writeBuf = <<>>
  /\ wire = <<>>
  /\ shut = FALSE
  /\ peer = "open"
  /\ loopPc = "poll"
  /\ rEvents = {}
  /\ pending = <<>>
  /\ todo = 0
  /\ made = 0
  /\ written = <<>>
  /\ completed = 0

-----------------------------------------------------------------------------
(* Writing *)

EnableWrite == interest' = TRUE /\ writeOn' = TRUE
DisableWrite == interest' = FALSE /\ writeOn' = FALSE

(* write() on a socket that is shut down raises SIGPIPE, which nothing in  *)
(* the code ignores: the process ends.  So it may once the peer has closed. *)
BreaksPipe ==
  /\ shut \/ peer = "closed"
  /\ loopPc' = "killed"
  /\ UNCHANGED <<outVars, status>>

(* ::write takes the first n bytes.                                        *)
Taken(bytes, n) == wire' = wire \o SubSeq(bytes, 1, n)
Rest(bytes, n) == SubSeq(bytes, n + 1, Len(bytes))

(* Each case of WriteInLoop says what it does to the output and what it    *)
(* leaves of the loop's functors, of which queue are left without it.      *)
Refuse(queue) ==
  /\ status = "Disconnected"
  /\ UNCHANGED outVars
  /\ pending' = queue

Buffer(bytes, queue) ==
  /\ status # "Disconnected"
  /\ writeOn
  /\ writeBuf' = writeBuf \o bytes
  /\ written' = written \o bytes
  /\ UNCHANGED <<writeOn, interest, wire, completed>>
  /\ pending' = queue

WriteWhole(bytes, queue) ==
  /\ status # "Disconnected" /\ ~writeOn /\ ~shut
  /\ Taken(bytes, Len(bytes))
  /\ written' = written \o bytes
  /\ pending' = Append(queue, WriteComplete)
  /\ completed' = Len(wire')
  /\ UNCHANGED <<writeOn, interest, writeBuf>>

(* Mutant: the write interest is not switched on.                          *)
WritePartUnwatched(bytes, queue) ==
  /\ status # "Disconnected" /\ ~writeOn /\ ~shut
  /\ \E n \in 1 .. Len(bytes) - 1 :
       /\ Taken(bytes, n)
       /\ writeBuf' = writeBuf \o Rest(bytes, n)
  /\ written' = written \o bytes
  /\ UNCHANGED <<writeOn, interest, completed>>
  /\ pending' = queue

WritePart(bytes, queue) ==
  /\ status # "Disconnected" /\ ~writeOn /\ ~shut
  /\ \E n \in 1 .. Len(bytes) - 1 :
       /\ Taken(bytes, n)
       /\ writeBuf' = writeBuf \o Rest(bytes, n)
  /\ EnableWrite
  /\ written' = written \o bytes
  /\ UNCHANGED completed
  /\ pending' = queue

(* write() fails with EAGAIN: writeLen is -1, less than len, so this is    *)
(* the same branch: what is appended is len + 1 bytes from buf - 1.        *)
WriteFails(bytes, queue) ==
  /\ FullKernel
  /\ status # "Disconnected" /\ ~writeOn /\ ~shut
  /\ writeBuf' = writeBuf \o <<Garbage>> \o bytes
  /\ EnableWrite
  /\ written' = written \o bytes
  /\ UNCHANGED <<wire, completed>>
  /\ pending' = queue

WriteInLoop(bytes, queue) ==
  \/ Refuse(queue)
  \/ Buffer(bytes, queue)
  \/ WriteWhole(bytes, queue)
  \/ WritePart(bytes, queue)
  \/ WriteFails(bytes, queue)

DirectWriteBreaks == status # "Disconnected" /\ ~writeOn /\ BreaksPipe

-----------------------------------------------------------------------------
(* The loop *)

(* Input (data or the end of the stream) is reported while the channel is  *)
(* registered, room for output if it asks for it.                          *)
Poll ==
  /\ loopPc = "poll"
  /\ \E events \in SUBSET {"IN", "OUT"} :
       /\ status = "Disconnected" => events = {}
       /\ "OUT" \in events => interest
       /\ rEvents' = events
  /\ loopPc' = "event"
  /\ UNCHANGED <<status, outVars, shut, peer, pending, todo, made>>

(* HandleRead of data calls the user's read callback.                      *)
ReadMessage ==
  /\ loopPc = "event"
  /\ "IN" \in rEvents
  /\ rEvents' = rEvents \ {"IN"}
  /\ loopPc' = "read"
  /\ UNCHANGED <<status, outVars, shut, peer, pending, todo, made>>

(* HandleRead of the end of the stream: HandleClose.  DisableAll leaves    *)
(* _isWriteEnabled as it is.                                               *)
ReadEnd ==
  /\ loopPc = "event"
  /\ "IN" \in rEvents
  /\ peer = "closed"
  /\ rEvents' = rEvents \ {"IN"}
  /\ status' = "Disconnected"
  /\ interest' = FALSE
  /\ UNCHANGED <<writeOn, writeBuf, wire, written, completed, shut, peer,
                 loopPc, pending, todo, made>>

(* Mutant: what was sent is not retrieved from the buffer if some is left. *)
FlushWithoutRetrieve ==
  \E n \in 1 .. Len(writeBuf) :
    /\ Taken(writeBuf, n)
    /\ writeBuf' = IF n = Len(writeBuf) THEN <<>> ELSE writeBuf
    /\ IF n = Len(writeBuf)
       THEN /\ DisableWrite
            /\ pending' = Append(pending, WriteComplete)
            /\ completed' = Len(wire')
       ELSE UNCHANGED <<writeOn, interest, pending, completed>>

(* Mutant: a buffer that is emptied is not reported.                       *)
FlushUnreported ==
  \E n \in 1 .. Len(writeBuf) :
    /\ Taken(writeBuf, n)
    /\ writeBuf' = Rest(writeBuf, n)
    /\ IF n = Len(writeBuf)
       THEN DisableWrite
       ELSE UNCHANGED <<writeOn, interest>>
    /\ UNCHANGED <<pending, completed>>

(* Mutant: the write interest is dropped after a partial write.            *)
FlushOnce ==
  \E n \in 1 .. Len(writeBuf) :
    /\ Taken(writeBuf, n)
    /\ writeBuf' = Rest(writeBuf, n)
    /\ DisableWrite
    /\ IF n = Len(writeBuf)
       THEN /\ pending' = Append(pending, WriteComplete)
            /\ completed' = Len(wire')
       ELSE UNCHANGED <<pending, completed>>

(* The write of HandleWrite, of which the kernel takes at least a byte.    *)
Flush ==
  \E n \in 1 .. Len(writeBuf) :
    /\ Taken(writeBuf, n)
    /\ writeBuf' = Rest(writeBuf, n)
    /\ IF n = Len(writeBuf)
       THEN /\ DisableWrite
            /\ pending' = Append(pending, WriteComplete)
            /\ completed' = Len(wire')
       ELSE UNCHANGED <<writeOn, interest, pending, completed>>

(* Nothing buffered: the write interest goes (WriteInterest says that this *)
(* never happens with the channel enabled for writing).                    *)
FlushBuffered ==
  IF writeBuf = <<>>
  THEN DisableWrite /\ UNCHANGED <<writeBuf, wire, completed, pending>>
  ELSE ~shut /\ Flush

(* HandleWrite, after the read callback if both were reported.             *)
HandleWrite ==
  /\ loopPc = "event"
  /\ rEvents = {"OUT"}
  /\ rEvents' = {}
  /\ \/ /\ status = "Disconnected" \/ ~writeOn
        /\ UNCHANGED <<status, outVars, loopPc, pending>>
     \/ /\ status # "Disconnected" /\ writeOn
        /\ FlushBuffered
        /\ UNCHANGED <<status, loopPc, written>>
     \/ /\ status # "Disconnected" /\ writeOn /\ writeBuf # <<>>
        /\ BreaksPipe
        /\ UNCHANGED pending
  /\ UNCHANGED <<shut, peer, todo, made>>

(* Mutant: one functor too many is counted.                                *)
SwapOneTooMany ==
  /\ loopPc = "event"
  /\ rEvents = {}
  /\ todo' = Len(pending) + 1
  /\ loopPc' = "functors"
  /\ UNCHANGED <<status, outVars, shut, peer, rEvents, pending, made>>

(* tmpPendingFunctors.swap(_pendingFunctors)                               *)
SwapFunctors ==
  /\ loopPc = "event"
  /\ rEvents = {}
  /\ todo' = Len(pending)
  /\ loopPc' = "functors"
  /\ UNCHANGED <<status, outVars, shut, peer, rEvents, pending, made>>

FunctorsDone ==
  /\ loopPc = "functors"
  /\ todo = 0
  /\ loopPc' = "poll"
  /\ UNCHANGED <<status, outVars, shut, peer, rEvents, pending, todo, made>>

CallFunctor(op) ==
  /\ loopPc = "functors"
  /\ todo > 0
  /\ Head(pending).op = op
  /\ todo' = todo - 1
  /\ UNCHANGED <<peer, rEvents, made>>

CallWriteInLoop ==
  /\ CallFunctor("WriteInLoop")
  /\ \/ /\ WriteInLoop(Head(pending).bytes, Tail(pending))
        /\ UNCHANGED <<status, loopPc>>
     \/ /\ DirectWriteBreaks
        /\ pending' = Tail(pending)
  /\ UNCHANGED shut

(* ShutdownWriteInLoop, whatever _writeBuf still holds.                    *)
ShutdownWriteInLoop ==
  /\ shut' = TRUE
  /\ status' = IF status = "Connected" THEN "Disconnecting" ELSE status

CallShutdownWriteInLoop ==
  /\ CallFunctor("ShutdownWriteInLoop")
  /\ ShutdownWriteInLoop
  /\ pending' = Tail(pending)
  /\ UNCHANGED <<outVars, loopPc>>

CallWriteComplete ==
  /\ CallFunctor("WriteComplete")
  /\ pending' = Tail(pending)
  /\ loopPc' = "complete"
  /\ UNCHANGED <<status, outVars, shut>>

CallbackReturns ==
  /\ InCallback
  /\ loopPc' = IF loopPc = "read" THEN "event" ELSE "functors"
  /\ UNCHANGED <<status, outVars, shut, peer, rEvents, pending, todo, made>>

-----------------------------------------------------------------------------
(* The user and the peer *)

NextBytes(n) == [i \in 1..n |-> <<made + 1, i>>]

(* Write in a callback of the loop is WriteInLoop.                         *)
WriteInCallback(n) ==
  /\ InCallback
  /\ made < MaxWrites
  /\ made' = made + 1
  /\ \/ WriteInLoop(NextBytes(n), pending) /\ UNCHANGED <<status, loopPc>>
     \/ DirectWriteBreaks /\ UNCHANGED pending
  /\ UNCHANGED <<shut, peer, rEvents, todo>>

(* Write in another thread; its buffer lasts until the functor has run.    *)
WriteElsewhere(n) ==
  /\ loopPc # "killed"
  /\ made < MaxWrites
  /\ made' = made + 1
  /\ pending' = Append(pending, Functor("WriteInLoop", NextBytes(n)))
  /\ UNCHANGED <<status, outVars, shut, peer, loopPc, rEvents, todo>>

ShutdownInCallback ==
  /\ InCallback
  /\ ~shut
  /\ ShutdownWriteInLoop
  /\ UNCHANGED <<outVars, peer, loopPc, rEvents, pending, todo, made>>

ShutdownElsewhere ==
  /\ loopPc # "killed"
  /\ ~shut
  /\ \A i \in DOMAIN pending : pending[i].op # "ShutdownWriteInLoop"
  /\ pending' = Append(pending, Functor("ShutdownWriteInLoop", <<>>))
  /\ UNCHANGED <<status, outVars, shut, peer, loopPc, rEvents, todo, made>>

PeerCloses ==
  /\ peer = "open"
  /\ peer' = "closed"
  /\ UNCHANGED <<status, outVars, shut, loopPc, rEvents, pending, todo, made>>

-----------------------------------------------------------------------------
LoopStep ==
  \/ Poll \/ ReadMessage \/ ReadEnd \/ HandleWrite
  \/ SwapFunctors \/ FunctorsDone
  \/ CallWriteInLoop \/ CallShutdownWriteInLoop \/ CallWriteComplete
  \/ CallbackReturns

UserStep ==
  \/ \E n \in Lengths : WriteInCallback(n) \/ WriteElsewhere(n)
  \/ ShutdownInCallback \/ ShutdownElsewhere

Next == LoopStep \/ UserStep \/ PeerCloses

Spec == Init /\ [][Next]_vars

(* The loop runs, and a peer that stays reads: the socket has room again.  *)
PollFindsRoom == Poll /\ "OUT" \in rEvents'
FairSpec == Spec /\ WF_vars(LoopStep) /\ SF_vars(PollFindsRoom)

-----------------------------------------------------------------------------
(* Properties *)

(* What the kernel has, followed by what is buffered, is what was written: *)
(* direct, partial and buffered writes lose, repeat and reorder no byte.   *)
Stream == wire \o writeBuf = written

(* Bytes wait in _writeBuf exactly while the channel asks for room: they   *)
(* are never stranded, and an idle socket never keeps the loop busy.       *)
WriteInterest ==
  status # "Disconnected" =>
    /\ writeOn <=> writeBuf # <<>>
    /\ interest = writeOn

(* Whenever the output has drained, the write-complete callback has been   *)
(* queued after its last byte.                                             *)
DrainIsReported == writeBuf = <<>> => completed = Len(written)

(* The connection is the abstract stream of bytes, and every byte written  *)
(* goes out unless the connection is closed, shut down or the process      *)
(* ends.                                                                   *)
Output == INSTANCE ByteStream WITH
            sent <- wire,
            broken <- (shut \/ status = "Disconnected" \/ loopPc = "killed")

ImplementsByteStream == Output!SSpec
=============================================================================
