--------------------------- MODULE TcpOutput_proofs ---------------------------
(***************************************************************************)
(* Proofs about TcpOutput.tla for any number and any lengths of writes.    *)
(* What depends on the bytes is proved for a kernel that takes at least a  *)
(* byte of every direct write, ~FullKernel: MCTcpOutputFull.cfg shows the  *)
(* bytes lost otherwise.                                                   *)
(***************************************************************************)
EXTENDS TcpOutput, SequenceLemmas

-----------------------------------------------------------------------------
(* The parts of the invariant *)

(* What the functors of the loop are.                                      *)
Functors == [op : {"WriteInLoop", "ShutdownWriteInLoop", "WriteComplete"},
             bytes : Seq(Bytes)]

OutType ==
  /\ writeOn \in BOOLEAN
  /\ interest \in BOOLEAN
  /\ writeBuf \in Seq(Bytes)
  /\ wire \in Seq(Bytes)
  /\ written \in Seq(Bytes)
  /\ completed \in 0..Len(wire)

LoopType ==
  /\ status \in {"Connected", "Disconnecting", "Disconnected"}
  /\ shut \in BOOLEAN
  /\ peer \in {"open", "closed"}
  /\ loopPc \in {"poll", "event", "read", "functors", "complete", "killed"}
  /\ rEvents \subseteq {"IN", "OUT"}
  /\ pending \in Seq(Functors)
  /\ todo \in 0..Len(pending)
  /\ made \in 0..MaxWrites

(* The stream and its report rest on each other: what the kernel has is    *)
(* all that was written exactly when the buffer is empty.                  *)
OutInv ==
  /\ OutType
  /\ WriteInterest
  /\ ~FullKernel => Stream /\ DrainIsReported

LEMMA TypeParts == TypeOK <=> OutType /\ LoopType
BY DEF TypeOK, OutType, LoopType, Functors

(* Nothing has happened to the output, and a closed connection stays so.   *)
LEMMA OutKept ==
  ASSUME OutInv, UNCHANGED outVars,
         status' # "Disconnected" => status # "Disconnected"
  PROVE  OutInv'
BY DEF OutInv, OutType, outVars, WriteInterest, Stream, DrainIsReported

(* The write-complete functor is one the loop can hold.                    *)
LEMMA CompleteIsFunctor == WriteComplete \in Functors
<1>1. <<>> \in Seq(Bytes)
  BY EmptySeq
<1> QED
  BY <1>1 DEF WriteComplete, Functor, Functors

(* Without write interest nothing is buffered and the kernel has it all.   *)
LEMMA NothingBuffered ==
  ASSUME OutInv, status # "Disconnected", ~writeOn
  PROVE  /\ writeBuf = <<>>
         /\ ~FullKernel => wire = written
<1>1. writeBuf = <<>> /\ wire \in Seq(Bytes)
  BY DEF OutInv, OutType, WriteInterest
<1>2. wire \o <<>> = wire
  BY <1>1, ConcatEmptySeq
<1> QED
  BY <1>1, <1>2 DEF OutInv, Stream

(* ConcatAssociative for bytes.                                            *)
LEMMA BytesAssociate ==
  \A s, t, u \in Seq(Bytes) : (s \o t) \o u = s \o (t \o u)
BY ConcatAssociative

-----------------------------------------------------------------------------
(* Writing *)

(* WriteInLoop behind a buffer: the bytes join it.                         *)
LEMMA BufferKeeps ==
  ASSUME OutInv, NEW bytes \in Seq(Bytes), NEW queue, Buffer(bytes, queue),
         UNCHANGED status
  PROVE  OutInv'
<1>1. /\ writeBuf \in Seq(Bytes) /\ wire \in Seq(Bytes)
      /\ written \in Seq(Bytes) /\ completed \in 0..Len(wire)
      /\ writeOn \in BOOLEAN /\ interest \in BOOLEAN
  BY DEF OutInv, OutType
<1>2. /\ writeBuf' = writeBuf \o bytes /\ written' = written \o bytes
      /\ UNCHANGED <<writeOn, interest, wire, completed, status>>
      /\ status # "Disconnected" /\ writeOn
  BY DEF Buffer
<1>3. writeBuf \o bytes \in Seq(Bytes) /\ written \o bytes \in Seq(Bytes)
  BY <1>1, ConcatProperties
<1>4. writeBuf # <<>> /\ interest = writeOn
  BY <1>2 DEF OutInv, WriteInterest
<1>5. writeBuf \o bytes # <<>>
  <2>1. Len(writeBuf \o bytes) = Len(writeBuf) + Len(bytes)
    BY <1>1, ConcatProperties
  <2>2. Len(writeBuf) \in Nat \ {0} /\ Len(bytes) \in Nat
    BY <1>1, <1>4, EmptySeq, LenProperties
  <2>3. Len(writeBuf \o bytes) # 0
    BY <2>1, <2>2
  <2> QED
    BY <1>3, <2>3, EmptySeq
<1>6. OutType'
  BY <1>1, <1>2, <1>3 DEF OutType
<1>7. WriteInterest'
  BY <1>2, <1>4, <1>5 DEF WriteInterest
<1>8. ASSUME ~FullKernel PROVE Stream'
  <2>1. wire \o writeBuf = written
    BY <1>8 DEF OutInv, Stream
  <2>2. wire \o (writeBuf \o bytes) = (wire \o writeBuf) \o bytes
    BY <1>1, BytesAssociate
  <2> QED
    BY <1>2, <2>1, <2>2 DEF Stream
<1>9. DrainIsReported'
  BY <1>2, <1>5 DEF DrainIsReported
<1> QED
  BY <1>6, <1>7, <1>8, <1>9 DEF OutInv

(* WriteInLoop of bytes the kernel takes as a whole.                       *)
LEMMA WholeKeeps ==
  ASSUME OutInv, NEW bytes \in Seq(Bytes), NEW queue, WriteWhole(bytes, queue),
         UNCHANGED status
  PROVE  /\ OutInv'
         /\ wire' = wire \o bytes /\ written' = written \o bytes
<1>1. /\ writeBuf \in Seq(Bytes) /\ wire \in Seq(Bytes)
      /\ written \in Seq(Bytes)
      /\ writeOn \in BOOLEAN /\ interest \in BOOLEAN
  BY DEF OutInv, OutType
<1>2. /\ wire' = wire \o SubSeq(bytes, 1, Len(bytes))
      /\ written' = written \o bytes
      /\ completed' = Len(wire')
      /\ UNCHANGED <<writeOn, interest, writeBuf, status>>
      /\ status # "Disconnected" /\ ~writeOn
  BY DEF WriteWhole, Taken
<1>3. SubSeq(bytes, 1, Len(bytes)) = bytes
  BY SubSeqFull
<1>4. wire' = wire \o bytes
  BY <1>2, <1>3
<1>5. wire \o bytes \in Seq(Bytes) /\ written \o bytes \in Seq(Bytes)
  BY <1>1, ConcatProperties
<1>6. Len(wire') \in Nat
  BY <1>4, <1>5, LenProperties
<1>7. writeBuf = <<>> /\ (~FullKernel => wire = written)
  BY <1>2, NothingBuffered
<1>8. OutType'
  <2>1. completed' \in 0..Len(wire')
    BY <1>2, <1>6
  <2> QED
    BY <1>1, <1>2, <1>4, <1>5, <2>1 DEF OutType
<1>9. WriteInterest'
  BY <1>2, <1>7 DEF OutInv, WriteInterest
<1>10. ASSUME ~FullKernel PROVE Stream' /\ DrainIsReported'
  <2>1. wire' = written'
    BY <1>2, <1>4, <1>7, <1>10
  <2>2. wire' \o <<>> = wire'
    BY <1>4, <1>5, ConcatEmptySeq
  <2> QED
    BY <1>2, <1>7, <2>1, <2>2 DEF Stream, DrainIsReported
<1> QED
  BY <1>2, <1>4, <1>8, <1>9, <1>10 DEF OutInv

(* WriteInLoop of bytes of which the kernel takes some.                    *)
LEMMA PartKeeps ==
  ASSUME OutInv, NEW bytes \in Seq(Bytes), NEW queue, WritePart(bytes, queue),
         UNCHANGED status
  PROVE  /\ OutInv'
         /\ \E u \in Seq(Bytes) : wire' = wire \o u
         /\ written' = written \o bytes
<1>1. /\ writeBuf \in Seq(Bytes) /\ wire \in Seq(Bytes)
      /\ written \in Seq(Bytes) /\ completed \in 0..Len(wire)
  BY DEF OutInv, OutType
<1>2. PICK n \in 1 .. Len(bytes) - 1 :
        /\ wire' = wire \o SubSeq(bytes, 1, n)
        /\ writeBuf' = writeBuf \o SubSeq(bytes, n + 1, Len(bytes))
  BY DEF WritePart, Taken, Rest
<1>3. /\ written' = written \o bytes /\ completed' = completed
      /\ writeOn' = TRUE /\ interest' = TRUE
      /\ status # "Disconnected" /\ ~writeOn
  BY DEF WritePart, EnableWrite
<1>4. n \in 0..Len(bytes) /\ n < Len(bytes) /\ Len(bytes) \in Nat
  BY LenProperties
<1> DEFINE u == SubSeq(bytes, 1, n)
<1> DEFINE v == SubSeq(bytes, n + 1, Len(bytes))
<1>5. /\ u \in Seq(Bytes) /\ v \in Seq(Bytes) /\ Len(v) = Len(bytes) - n
      /\ u \o v = bytes
  BY <1>4, SplitAt
<1>6. wire' = wire \o u /\ writeBuf' = writeBuf \o v
  BY <1>2
<1> HIDE DEF u, v
<1>7. writeBuf = <<>> /\ (~FullKernel => wire = written)
  BY <1>3, NothingBuffered
<1>8. writeBuf' = v
  <2>1. <<>> \o v = v
    BY <1>5, ConcatEmptySeq
  <2> QED
    BY <1>6, <1>7, <2>1
<1>9. v # <<>>
  <2>1. Len(v) # 0
    BY <1>4, <1>5
  <2> QED
    BY <1>5, <2>1, EmptySeq
<1>10. /\ wire \o u \in Seq(Bytes) /\ Len(wire \o u) = Len(wire) + Len(u)
       /\ Len(u) \in Nat /\ Len(wire) \in Nat
       /\ written \o bytes \in Seq(Bytes)
  BY <1>1, <1>5, ConcatProperties, LenProperties
<1>11. OutType'
  <2>1. completed' \in 0..Len(wire')
    BY <1>1, <1>3, <1>6, <1>10
  <2> QED
    BY <1>3, <1>5, <1>6, <1>8, <1>10, <2>1 DEF OutType
<1>12. WriteInterest'
  BY <1>3, <1>8, <1>9 DEF WriteInterest
<1>13. ASSUME ~FullKernel PROVE Stream'
  <2>1. (wire \o u) \o v = wire \o (u \o v)
    <3>1. wire \in Seq(Bytes) /\ u \in Seq(Bytes) /\ v \in Seq(Bytes)
      BY <1>1, <1>5
    <3> QED
      BY <3>1, BytesAssociate, ZenonT(30)
  <2> QED
    BY <1>3, <1>5, <1>6, <1>7, <1>8, <1>13, <2>1 DEF Stream
<1>14. DrainIsReported'
  BY <1>8, <1>9 DEF DrainIsReported
<1> QED
  BY <1>3, <1>5, <1>6, <1>11, <1>12, <1>13, <1>14 DEF OutInv

(* WriteInLoop of bytes of which a full kernel takes none.                 *)
LEMMA FailKeeps ==
  ASSUME OutInv, NEW bytes \in Seq(Bytes), NEW queue, WriteFails(bytes, queue),
         UNCHANGED status
  PROVE  OutInv' /\ FullKernel
<1>1. /\ writeBuf \in Seq(Bytes) /\ wire \in Seq(Bytes)
      /\ written \in Seq(Bytes) /\ completed \in 0..Len(wire)
  BY DEF OutInv, OutType
<1>2. /\ writeBuf' = writeBuf \o <<Garbage>> \o bytes
      /\ written' = written \o bytes
      /\ writeOn' = TRUE /\ interest' = TRUE
      /\ UNCHANGED <<wire, completed>>
      /\ FullKernel /\ status # "Disconnected" /\ ~writeOn
  BY DEF WriteFails, EnableWrite
<1>3. writeBuf = <<>>
  BY <1>2, NothingBuffered
<1>4. <<Garbage>> \in Seq(Bytes) /\ Len(<<Garbage>>) = 1
  BY DEF Garbage, Bytes
<1>5. /\ writeBuf \o <<Garbage>> \in Seq(Bytes)
      /\ Len(writeBuf \o <<Garbage>>) = Len(writeBuf) + 1
  BY <1>1, <1>4, ConcatProperties
<1>6. /\ writeBuf \o <<Garbage>> \o bytes \in Seq(Bytes)
      /\ Len(writeBuf \o <<Garbage>> \o bytes) = Len(writeBuf) + 1 + Len(bytes)
      /\ written \o bytes \in Seq(Bytes)
  BY <1>1, <1>5, ConcatProperties
<1>7. Len(writeBuf) \in Nat /\ Len(bytes) \in Nat
  BY <1>1, LenProperties
<1>8. writeBuf' # <<>>
  <2>1. Len(writeBuf') # 0 /\ writeBuf' \in Seq(Bytes)
    BY <1>2, <1>6, <1>7
  <2> QED
    BY <2>1, EmptySeq
<1>9. OutType'
  BY <1>1, <1>2, <1>6 DEF OutType
<1>10. WriteInterest'
  BY <1>2, <1>8 DEF WriteInterest
<1> QED
  BY <1>2, <1>9, <1>10 DEF OutInv

(* The case of an empty buffer never happens in HandleWrite.               *)
LEMMA SomethingIsBuffered ==
  ASSUME WriteInterest, status # "Disconnected", writeOn, FlushBuffered
  PROVE  ~shut /\ Flush
BY DEF WriteInterest, FlushBuffered

(* The write of HandleWrite.                                               *)
LEMMA FlushKeeps ==
  ASSUME OutInv, status # "Disconnected", writeOn, Flush,
         UNCHANGED <<status, written>>
  PROVE  /\ OutInv'
         /\ \E u \in Seq(Bytes) : u # <<>> /\ wire' = wire \o u
         /\ pending' \in {pending, Append(pending, WriteComplete)}
<1>1. /\ writeBuf \in Seq(Bytes) /\ wire \in Seq(Bytes)
      /\ written \in Seq(Bytes) /\ completed \in 0..Len(wire)
      /\ interest = writeOn
  BY DEF OutInv, OutType, WriteInterest
<1>2. PICK n \in 1 .. Len(writeBuf) :
        /\ wire' = wire \o SubSeq(writeBuf, 1, n)
        /\ writeBuf' = SubSeq(writeBuf, n + 1, Len(writeBuf))
        /\ IF n = Len(writeBuf)
           THEN /\ DisableWrite
                /\ pending' = Append(pending, WriteComplete)
                /\ completed' = Len(wire')
           ELSE UNCHANGED <<writeOn, interest, pending, completed>>
  BY DEF Flush, Taken, Rest
<1>3. n \in 0..Len(writeBuf) /\ n \in Nat \ {0} /\ Len(writeBuf) \in Nat
  BY <1>1, LenProperties
<1> DEFINE u == SubSeq(writeBuf, 1, n)
<1> DEFINE v == SubSeq(writeBuf, n + 1, Len(writeBuf))
<1>4. /\ u \in Seq(Bytes) /\ Len(u) = n
      /\ v \in Seq(Bytes) /\ Len(v) = Len(writeBuf) - n
      /\ u \o v = writeBuf
  BY <1>1, <1>3, SplitAt
<1>5. wire' = wire \o u /\ writeBuf' = v
  BY <1>2
<1> HIDE DEF u, v
<1>6. u # <<>> /\ (v = <<>> <=> n = Len(writeBuf))
  <2>1. Len(u) # 0 /\ (Len(v) = 0 <=> n = Len(writeBuf))
    BY <1>3, <1>4
  <2> QED
    BY <1>4, <2>1, EmptySeq
<1>7. /\ wire \o u \in Seq(Bytes) /\ Len(wire \o u) = Len(wire) + Len(u)
      /\ Len(u) \in Nat /\ Len(wire) \in Nat
  BY <1>1, <1>4, ConcatProperties, LenProperties
<1>8. ASSUME ~FullKernel PROVE Stream'
  <2>1. (wire \o u) \o v = wire \o (u \o v)
    <3>1. wire \in Seq(Bytes) /\ u \in Seq(Bytes) /\ v \in Seq(Bytes)
      BY <1>1, <1>4
    <3> QED
      BY <3>1, BytesAssociate, ZenonT(30)
  <2>2. wire \o writeBuf = written
    BY <1>8 DEF OutInv, Stream
  <2> QED
    BY <1>4, <1>5, <2>1, <2>2 DEF Stream
<1>9. CASE n = Len(writeBuf)
  <2>1. /\ writeOn' = FALSE /\ interest' = FALSE /\ completed' = Len(wire')
        /\ pending' = Append(pending, WriteComplete)
    BY <1>2, <1>9 DEF DisableWrite
  <2>2. OutType'
    <3>1. completed' \in 0..Len(wire')
      BY <1>5, <1>7, <2>1
    <3> QED
      BY <1>1, <1>4, <1>5, <1>7, <2>1, <3>1 DEF OutType
  <2>3. WriteInterest'
    BY <1>5, <1>6, <1>9, <2>1 DEF WriteInterest
  <2>4. ASSUME ~FullKernel PROVE DrainIsReported'
    <3>1. wire' \o <<>> = written'
      BY <1>5, <1>6, <1>8, <1>9, <2>4 DEF Stream
    <3>2. wire' \o <<>> = wire'
      BY <1>5, <1>7, ConcatEmptySeq
    <3> QED
      BY <2>1, <3>1, <3>2 DEF DrainIsReported
  <2> QED
    BY <1>4, <1>5, <1>6, <1>8, <2>1, <2>2, <2>3, <2>4 DEF OutInv
<1>10. CASE n # Len(writeBuf)
  <2>1. UNCHANGED <<writeOn, interest, pending, completed>>
    BY <1>2, <1>10
  <2>2. OutType'
    <3>1. completed' \in 0..Len(wire')
      BY <1>1, <1>5, <1>7, <2>1
    <3>2. writeOn' \in BOOLEAN /\ interest' \in BOOLEAN
      BY <2>1 DEF OutInv, OutType
    <3> QED
      BY <1>1, <1>4, <1>5, <1>7, <3>1, <3>2 DEF OutType
  <2>3. WriteInterest'
    BY <1>1, <1>5, <1>6, <1>10, <2>1 DEF WriteInterest
  <2>4. DrainIsReported'
    BY <1>5, <1>6, <1>10 DEF DrainIsReported
  <2> QED
    BY <1>4, <1>5, <1>6, <1>8, <2>1, <2>2, <2>3, <2>4 DEF OutInv
<1> QED
  BY <1>9, <1>10

(* WriteInLoop as a whole: what it does to the stream and to the functors. *)
LEMMA WriteInLoopKeeps ==
  ASSUME OutInv, NEW bytes \in Seq(Bytes), NEW queue,
         WriteInLoop(bytes, queue), UNCHANGED status
  PROVE  /\ OutInv'
         /\ pending' \in {queue, Append(queue, WriteComplete)}
         /\ ~FullKernel =>
              \/ UNCHANGED <<wire, written>>
              \/ /\ written' = written \o bytes
                 /\ \E u \in Seq(Bytes) :
                      /\ wire' = wire \o u
                      /\ shut \/ status = "Disconnected" => wire' = wire
<1>1. wire \in Seq(Bytes) /\ <<>> \in Seq(Bytes) /\ wire \o <<>> = wire
  BY ConcatEmptySeq, EmptySeq DEF OutInv, OutType
<1>2. CASE Refuse(queue)
  <2>1. UNCHANGED outVars /\ pending' = queue
    BY <1>2 DEF Refuse
  <2>2. OutInv'
    BY <2>1, OutKept
  <2> QED
    BY <2>1, <2>2 DEF outVars
<1>3. CASE Buffer(bytes, queue)
  <2>1. OutInv'
    BY <1>3, BufferKeeps
  <2>2. /\ written' = written \o bytes /\ wire' = wire
        /\ pending' = queue
    BY <1>3 DEF Buffer
  <2> QED
    BY <1>1, <2>1, <2>2
<1>4. CASE WriteWhole(bytes, queue)
  <2>1. OutInv' /\ wire' = wire \o bytes /\ written' = written \o bytes
    BY <1>4, WholeKeeps
  <2>2. /\ pending' = Append(queue, WriteComplete)
        /\ ~shut /\ status # "Disconnected"
    BY <1>4 DEF WriteWhole
  <2> QED
    BY <2>1, <2>2
<1>5. CASE WritePart(bytes, queue)
  <2>1. /\ OutInv' /\ written' = written \o bytes
        /\ \E u \in Seq(Bytes) : wire' = wire \o u
    BY <1>5, PartKeeps
  <2>2. pending' = queue /\ ~shut /\ status # "Disconnected"
    BY <1>5 DEF WritePart
  <2> QED
    BY <2>1, <2>2
<1>6. CASE WriteFails(bytes, queue)
  <2>1. OutInv' /\ FullKernel
    BY <1>6, FailKeeps
  <2>2. pending' = queue
    BY <1>6 DEF WriteFails
  <2> QED
    BY <2>1, <2>2
<1> QED
  BY <1>2, <1>3, <1>4, <1>5, <1>6 DEF WriteInLoop

(* The functors of a queue that grows or loses its head.                   *)
LEMMA QueueGrows ==
  ASSUME NEW q \in Seq(Functors), NEW f \in Functors
  PROVE  /\ Append(q, f) \in Seq(Functors) /\ Len(Append(q, f)) = Len(q) + 1
         /\ Len(q) \in Nat
BY AppendProperties, LenProperties

LEMMA QueueShrinks ==
  ASSUME NEW q \in Seq(Functors), NEW n \in 0..Len(q), n > 0
  PROVE  /\ Head(q) \in Functors /\ Head(q).bytes \in Seq(Bytes)
         /\ Tail(q) \in Seq(Functors) /\ Len(Tail(q)) = Len(q) - 1
         /\ n - 1 \in 0..Len(Tail(q))
<1>1. q # <<>> /\ Len(q) \in Nat
  <2>1. Len(q) \in Nat /\ Len(q) # 0
    BY LenProperties
  <2> QED
    BY <2>1, EmptySeq
<1>2. Head(q) \in Functors /\ Tail(q) \in Seq(Functors)
      /\ Len(Tail(q)) = Len(q) - 1
  BY <1>1, HeadTailProperties
<1>3. Head(q).bytes \in Seq(Bytes)
  BY <1>2 DEF Functors
<1> QED
  BY <1>1, <1>2, <1>3

(* WriteInLoop leaves the functors well-formed, and as many as there were. *)
LEMMA WriteInLoopQueue ==
  ASSUME NEW queue \in Seq(Functors), NEW n \in 0..Len(queue),
         pending' \in {queue, Append(queue, WriteComplete)}
  PROVE  pending' \in Seq(Functors) /\ n \in 0..Len(pending')
<1>1. /\ Append(queue, WriteComplete) \in Seq(Functors)
      /\ Len(Append(queue, WriteComplete)) = Len(queue) + 1
      /\ Len(queue) \in Nat
  BY CompleteIsFunctor, QueueGrows
<1> QED
  BY <1>1

(* The bytes of a write are bytes.                                         *)
LEMMA NextBytesAreBytes ==
  ASSUME LoopType, NEW n \in Lengths
  PROVE  NextBytes(n) \in Seq(Bytes) /\ Len(NextBytes(n)) = n /\ n \in Nat \ {0}
<1>1. made \in Nat /\ n \in Nat \ {0}
  BY OutputAssumption DEF LoopType
<1>2. NextBytes(n) \in [1..n -> Bytes]
  BY <1>1 DEF NextBytes, Bytes
<1> QED
  BY <1>1, <1>2, FunctionIsSequence

-----------------------------------------------------------------------------
(* The invariant *)

LEMMA InitHolds == Init => OutInv /\ LoopType
<1> SUFFICES ASSUME Init PROVE OutInv /\ LoopType
  OBVIOUS
<1>1. <<>> \in Seq(Bytes) /\ <<>> \in Seq(Functors)
  BY EmptySeq
<1>2. writeBuf = <<>> /\ wire = <<>> /\ written = <<>> /\ pending = <<>>
  BY DEF Init
<1>3. /\ writeBuf \in Seq(Bytes) /\ wire \in Seq(Bytes)
      /\ written \in Seq(Bytes) /\ pending \in Seq(Functors)
  BY <1>1, <1>2, Zenon
<1>4. Len(wire) = 0 /\ Len(written) = 0 /\ Len(pending) = 0
  BY <1>2
<1>5. <<>> \o <<>> = <<>>
  BY <1>1, ConcatEmptySeq
<1>6. Stream
  BY <1>2, <1>5, Zenon DEF Stream
<1>7. /\ completed = 0 /\ todo = 0 /\ made = 0
      /\ writeOn = FALSE /\ interest = FALSE /\ shut = FALSE
      /\ status = "Connected" /\ peer = "open" /\ loopPc = "poll"
      /\ rEvents = {}
  BY DEF Init
<1>8. OutType
  <2>1. writeOn \in BOOLEAN /\ interest \in BOOLEAN
    BY <1>7
  <2>2. completed \in 0..Len(wire)
    BY <1>4, <1>7
  <2> QED
    BY <1>3, <2>1, <2>2, Zenon DEF OutType
<1>9. WriteInterest
  BY <1>2, <1>7 DEF WriteInterest
<1>10. DrainIsReported
  BY <1>4, <1>7 DEF DrainIsReported
<1>11. LoopType
  <2>1. todo \in 0..Len(pending) /\ made \in 0..MaxWrites
    BY <1>4, <1>7, OutputAssumption
  <2>2. /\ status \in {"Connected", "Disconnecting", "Disconnected"}
        /\ shut \in BOOLEAN
        /\ peer \in {"open", "closed"}
        /\ loopPc \in {"poll", "event", "read", "functors", "complete", "killed"}
        /\ rEvents \subseteq {"IN", "OUT"}
    BY <1>7
  <2> QED
    BY <1>3, <2>1, <2>2, Zenon DEF LoopType
<1> QED
  BY <1>6, <1>8, <1>9, <1>10, <1>11 DEF OutInv

(* What every step keeps, whoever takes it.                                *)
LEMMA StepKeeps == OutInv /\ LoopType /\ [Next]_vars => OutInv' /\ LoopType'
<1> SUFFICES ASSUME OutInv, LoopType, [Next]_vars
             PROVE  OutInv' /\ LoopType'
  OBVIOUS
<1>0. /\ pending \in Seq(Functors) /\ Len(pending) \in Nat
      /\ todo \in 0..Len(pending) /\ todo \in Nat
  BY LenProperties DEF LoopType
<1>1. CASE Poll
  <2>1. UNCHANGED outVars /\ UNCHANGED status
    BY <1>1 DEF Poll
  <2>2. OutInv'
    BY <2>1, OutKept
  <2> QED
    BY <1>1, <2>2 DEF Poll, LoopType
<1>2. CASE ReadMessage \/ SwapFunctors \/ FunctorsDone \/ CallbackReturns
  <2>1. UNCHANGED outVars /\ UNCHANGED status
    BY <1>2 DEF ReadMessage, SwapFunctors, FunctorsDone, CallbackReturns
  <2>2. OutInv'
    BY <2>1, OutKept
  <2>3. /\ loopPc' \in {"poll", "event", "read", "functors"}
        /\ rEvents' \subseteq rEvents
        /\ UNCHANGED <<status, shut, peer, pending, made>>
        /\ todo' \in {todo, Len(pending)}
    BY <1>2 DEF ReadMessage, SwapFunctors, FunctorsDone, CallbackReturns
  <2>4. Len(pending) \in 0..Len(pending)
    BY <1>0
  <2> QED
    BY <1>0, <2>2, <2>3, <2>4 DEF LoopType
<1>3. CASE ReadEnd
  <2>1. /\ status' = "Disconnected" /\ interest' = FALSE
        /\ UNCHANGED <<writeOn, writeBuf, wire, written, completed>>
    BY <1>3 DEF ReadEnd
  <2>2. OutInv'
    BY <2>1
    DEF OutInv, OutType, WriteInterest, Stream, DrainIsReported
  <2> QED
    BY <1>3, <2>2 DEF ReadEnd, LoopType
<1>4. CASE HandleWrite
  <2>1. /\ rEvents' = {} /\ UNCHANGED <<shut, peer, todo, made>>
    BY <1>4 DEF HandleWrite
  <2>2. CASE UNCHANGED <<status, outVars, loopPc, pending>>
    <3>1. OutInv'
      BY <2>2, OutKept
    <3> QED
      BY <2>1, <2>2, <3>1 DEF LoopType
  <2>3. CASE /\ status # "Disconnected" /\ writeOn /\ FlushBuffered
             /\ UNCHANGED <<status, loopPc, written>>
    <3>0. Flush
      BY <2>3, SomethingIsBuffered DEF OutInv
    <3>1. OutInv' /\ pending' \in {pending, Append(pending, WriteComplete)}
      BY <2>3, <3>0, FlushKeeps
    <3>2. pending' \in Seq(Functors) /\ todo \in 0..Len(pending')
      BY <1>0, <3>1, WriteInLoopQueue
    <3> QED
      BY <2>1, <2>3, <3>1, <3>2 DEF LoopType
  <2>4. CASE BreaksPipe /\ UNCHANGED pending
    <3>1. UNCHANGED <<outVars, status>> /\ loopPc' = "killed"
      BY <2>4 DEF BreaksPipe
    <3>2. OutInv'
      BY <3>1, OutKept
    <3> QED
      BY <2>1, <2>4, <3>1, <3>2 DEF LoopType
  <2> QED
    BY <1>4, <2>2, <2>3, <2>4 DEF HandleWrite
<1>5. CASE CallWriteInLoop
  <2>1. /\ todo > 0 /\ todo' = todo - 1
        /\ UNCHANGED <<peer, rEvents, made, shut>>
    BY <1>5 DEF CallWriteInLoop, CallFunctor
  <2>2. /\ Head(pending).bytes \in Seq(Bytes)
        /\ Tail(pending) \in Seq(Functors)
        /\ todo - 1 \in 0..Len(Tail(pending))
    BY <1>0, <2>1, QueueShrinks
  <2>3. CASE /\ WriteInLoop(Head(pending).bytes, Tail(pending))
             /\ UNCHANGED <<status, loopPc>>
    <3>1. /\ OutInv'
          /\ pending' \in {Tail(pending), Append(Tail(pending), WriteComplete)}
      BY <2>2, <2>3, WriteInLoopKeeps
    <3>2. pending' \in Seq(Functors) /\ todo' \in 0..Len(pending')
      BY <2>1, <2>2, <3>1, WriteInLoopQueue
    <3> QED
      BY <2>1, <2>3, <3>1, <3>2 DEF LoopType
  <2>4. CASE DirectWriteBreaks /\ pending' = Tail(pending)
    <3>1. UNCHANGED <<outVars, status>> /\ loopPc' = "killed"
      BY <2>4 DEF DirectWriteBreaks, BreaksPipe
    <3>2. OutInv'
      BY <3>1, OutKept
    <3> QED
      BY <2>1, <2>2, <2>4, <3>1, <3>2 DEF LoopType
  <2> QED
    BY <1>5, <2>3, <2>4 DEF CallWriteInLoop
<1>6. CASE CallShutdownWriteInLoop
  <2>1. /\ todo > 0 /\ todo' = todo - 1 /\ pending' = Tail(pending)
        /\ UNCHANGED <<peer, rEvents, made, loopPc>> /\ UNCHANGED outVars
        /\ shut' = TRUE
        /\ status' = IF status = "Connected" THEN "Disconnecting" ELSE status
    BY <1>6 DEF CallShutdownWriteInLoop, CallFunctor, ShutdownWriteInLoop
  <2>2. Tail(pending) \in Seq(Functors) /\ todo - 1 \in 0..Len(Tail(pending))
    BY <1>0, <2>1, QueueShrinks
  <2>3. OutInv'
    BY <2>1, OutKept
  <2> QED
    BY <2>1, <2>2, <2>3 DEF LoopType
<1>7. CASE CallWriteComplete
  <2>1. /\ todo > 0 /\ todo' = todo - 1 /\ pending' = Tail(pending)
        /\ UNCHANGED <<peer, rEvents, made, status, shut>>
        /\ UNCHANGED outVars /\ loopPc' = "complete"
    BY <1>7 DEF CallWriteComplete, CallFunctor
  <2>2. Tail(pending) \in Seq(Functors) /\ todo - 1 \in 0..Len(Tail(pending))
    BY <1>0, <2>1, QueueShrinks
  <2>3. OutInv'
    BY <2>1, OutKept
  <2> QED
    BY <2>1, <2>2, <2>3 DEF LoopType
<1>8. ASSUME NEW n \in Lengths, WriteInCallback(n)
      PROVE  OutInv' /\ LoopType'
  <2>1. /\ made < MaxWrites /\ made' = made + 1
        /\ UNCHANGED <<shut, peer, rEvents, todo>>
    BY <1>8 DEF WriteInCallback
  <2>2. made' \in 0..MaxWrites
    BY <2>1, OutputAssumption DEF LoopType
  <2>3. CASE WriteInLoop(NextBytes(n), pending) /\ UNCHANGED <<status, loopPc>>
    <3>1. OutInv' /\ pending' \in {pending, Append(pending, WriteComplete)}
      BY <2>3, NextBytesAreBytes, WriteInLoopKeeps
    <3>2. pending' \in Seq(Functors) /\ todo \in 0..Len(pending')
      BY <1>0, <3>1, WriteInLoopQueue
    <3> QED
      BY <2>1, <2>2, <2>3, <3>1, <3>2 DEF LoopType
  <2>4. CASE DirectWriteBreaks /\ UNCHANGED pending
    <3>1. UNCHANGED <<outVars, status>> /\ loopPc' = "killed"
      BY <2>4 DEF DirectWriteBreaks, BreaksPipe
    <3>2. OutInv'
      BY <3>1, OutKept
    <3> QED
      BY <2>1, <2>2, <2>4, <3>1, <3>2 DEF LoopType
  <2> QED
    BY <1>8, <2>3, <2>4 DEF WriteInCallback
<1>9. ASSUME NEW n \in Lengths, WriteElsewhere(n)
      PROVE  OutInv' /\ LoopType'
  <2> DEFINE f == Functor("WriteInLoop", NextBytes(n))
  <2>1. /\ made < MaxWrites /\ made' = made + 1
        /\ pending' = Append(pending, f)
        /\ UNCHANGED <<status, outVars, shut, peer, loopPc, rEvents, todo>>
    BY <1>9 DEF WriteElsewhere
  <2>2. f \in Functors
    BY NextBytesAreBytes DEF Functor, Functors
  <2> HIDE DEF f
  <2>3. pending' \in Seq(Functors) /\ Len(pending') = Len(pending) + 1
    BY <1>0, <2>1, <2>2, QueueGrows
  <2>4. todo' \in 0..Len(pending') /\ made' \in 0..MaxWrites
    BY <1>0, <2>1, <2>3, OutputAssumption DEF LoopType
  <2>5. OutInv'
    BY <2>1, OutKept
  <2> QED
    BY <2>1, <2>3, <2>4, <2>5 DEF LoopType
<1>10. CASE ShutdownInCallback
  <2>1. /\ UNCHANGED outVars
        /\ UNCHANGED <<peer, loopPc, rEvents, pending, todo, made>>
        /\ shut' = TRUE
        /\ status' = IF status = "Connected" THEN "Disconnecting" ELSE status
    BY <1>10 DEF ShutdownInCallback, ShutdownWriteInLoop
  <2>2. OutInv'
    BY <2>1, OutKept
  <2> QED
    BY <2>1, <2>2 DEF LoopType
<1>11. CASE ShutdownElsewhere
  <2> DEFINE f == Functor("ShutdownWriteInLoop", <<>>)
  <2>1. /\ pending' = Append(pending, f)
        /\ UNCHANGED <<status, outVars, shut, peer, loopPc, rEvents, todo, made>>
    BY <1>11 DEF ShutdownElsewhere
  <2>2. f \in Functors
    <3>1. <<>> \in Seq(Bytes)
      BY EmptySeq
    <3> QED
      BY <3>1 DEF Functor, Functors
  <2> HIDE DEF f
  <2>3. pending' \in Seq(Functors) /\ Len(pending') = Len(pending) + 1
    BY <1>0, <2>1, <2>2, QueueGrows
  <2>4. todo' \in 0..Len(pending')
    BY <1>0, <2>1, <2>3
  <2>5. OutInv'
    BY <2>1, OutKept
  <2> QED
    BY <2>1, <2>3, <2>4, <2>5 DEF LoopType
<1>12. CASE PeerCloses
  <2>1. /\ UNCHANGED outVars /\ peer' = "closed"
        /\ UNCHANGED <<status, shut, loopPc, rEvents, pending, todo, made>>
    BY <1>12 DEF PeerCloses
  <2>2. OutInv'
    BY <2>1, OutKept
  <2> QED
    BY <2>1, <2>2 DEF LoopType
<1>13. CASE UNCHANGED vars
  <2>1. UNCHANGED outVars /\ UNCHANGED status
    BY <1>13 DEF vars, outVars
  <2>2. OutInv'
    BY <2>1, OutKept
  <2> QED
    BY <1>13, <2>2 DEF vars, LoopType
<1> QED
  BY <1>1, <1>2, <1>3, <1>4, <1>5, <1>6, <1>7, <1>8, <1>9, <1>10, <1>11,
     <1>12, <1>13
  DEF Next, LoopStep, UserStep

(* The inductive invariant of the output: types, write interest and, for a *)
(* kernel that takes a byte of every direct write, the stream.             *)
THEOREM OutputInvariant == Spec => [](OutInv /\ LoopType)
BY InitHolds, StepKeeps, PTL DEF Spec

(* Every variable of the output keeps its type, with a full kernel too.    *)
THEOREM OutputTypeCorrect == Spec => []TypeOK
<1>1. OutInv /\ LoopType => TypeOK
  BY TypeParts DEF OutInv
<1> QED
  BY <1>1, OutputInvariant, PTL

(* Bytes are never stranded in _writeBuf without write interest, and an    *)
(* empty _writeBuf never keeps it: with a full kernel too.                 *)
THEOREM BufferedMeansInterested == Spec => []WriteInterest
<1>1. OutInv => WriteInterest
  BY DEF OutInv
<1> QED
  BY <1>1, OutputInvariant, PTL

(* No byte is lost, repeated or reordered by direct, partial and buffered  *)
(* writes, as long as the kernel takes a byte of every direct write.       *)
THEOREM StreamIsKept ==
  ASSUME ~FullKernel
  PROVE  Spec => []Stream
<1>1. OutInv => Stream
  BY DEF OutInv
<1> QED
  BY <1>1, OutputInvariant, PTL

(* Whenever the output has drained, its completion was queued after its    *)
(* last byte, under the same assumption.                                   *)
THEOREM DrainsAreReported ==
  ASSUME ~FullKernel
  PROVE  Spec => []DrainIsReported
<1>1. OutInv => DrainIsReported
  BY DEF OutInv
<1> QED
  BY <1>1, OutputInvariant, PTL

-----------------------------------------------------------------------------
(* The refinement *)

(* What broken stands for in the abstract stream.                          *)
Broken == shut \/ status = "Disconnected" \/ loopPc = "killed"

(* What grows at its end keeps what it was for a prefix.                   *)
LEMMA GrownIsPrefix ==
  ASSUME NEW s \in Seq(Bytes), NEW t \in Seq(Bytes)
  PROVE  /\ Output!IsPrefix(s, s \o t)
         /\ Len(s) \in Nat /\ Len(s \o t) \in Nat /\ Len(s) <= Len(s \o t)
         /\ SubSeq(s \o t, 1, Len(s)) = s
         /\ t # <<>> => Len(s \o t) > Len(s) /\ s \o t # s
<1>1. /\ Len(s \o t) = Len(s) + Len(t)
      /\ Len(s) \in Nat /\ Len(t) \in Nat
      /\ SubSeq(s \o t, 1, Len(s)) = s
  BY ConcatIsPrefix
<1>2. SubSeq(s, 1, Len(s)) = s
  BY SubSeqFull
<1>3. Len(s \o t) \in Nat /\ Len(s) <= Len(s \o t)
  BY <1>1
<1>4. Output!IsPrefix(s, s \o t)
  BY <1>1, <1>2, <1>3 DEF Output!IsPrefix
<1>5. ASSUME t # <<>>
      PROVE  Len(s \o t) > Len(s) /\ s \o t # s
  <2>1. Len(t) # 0
    BY <1>5, EmptySeq
  <2>2. Len(s \o t) > Len(s)
    BY <1>1, <2>1
  <2>3. ~(Len(s) > Len(s))
    BY <1>1
  <2> QED
    BY <2>2, <2>3, Zenon
<1> QED
  BY <1>1, <1>3, <1>4, <1>5

(* More of what was written is sent: a Send of the abstract stream.        *)
LEMMA FlushesAreSends ==
  ASSUME OutType, OutType', Stream', NEW u \in Seq(Bytes), u # <<>>,
         wire' = wire \o u, written' = written, ~Broken, ~Broken'
  PROVE  Output!Send
<1>1. /\ wire \in Seq(Bytes) /\ wire' \in Seq(Bytes)
      /\ writeBuf' \in Seq(Bytes) /\ written' = wire' \o writeBuf'
  BY DEF OutType, Stream
<1>2. Len(wire') > Len(wire) /\ Len(wire) \in Nat
  BY <1>1, GrownIsPrefix
<1>3. /\ Len(wire') \in Nat /\ Len(written') \in Nat
      /\ Len(wire') <= Len(written') /\ SubSeq(written', 1, Len(wire')) = wire'
  BY <1>1, GrownIsPrefix
<1>4. Len(wire') \in (Len(wire) + 1)..Len(written)
  BY <1>2, <1>3
<1> QED
  BY <1>3, <1>4 DEF Output!Send, Broken

(* What is written and sent in one step of a connection that is the        *)
(* stream before and after: a Write of the abstract stream, or nothing.    *)
LEMMA WritesAreWrites ==
  ASSUME OutType, OutType', Stream, Stream',
         NEW bytes \in Seq(Bytes), written' = written \o bytes,
         NEW u \in Seq(Bytes), wire' = wire \o u,
         UNCHANGED Broken, Broken => wire' = wire
  PROVE  Output!Write \/ Output!Send \/ UNCHANGED Output!svars
<1>1. /\ wire \in Seq(Bytes) /\ written \in Seq(Bytes)
      /\ wire' \in Seq(Bytes) /\ writeBuf' \in Seq(Bytes)
      /\ written' = wire' \o writeBuf'
  BY DEF OutType, Stream
<1>2. Output!IsPrefix(wire, wire') /\ Output!IsPrefix(written, written')
  BY <1>1, GrownIsPrefix
<1>3. Output!IsPrefix(wire', written')
  BY <1>1, GrownIsPrefix
<1>4. CASE bytes # <<>>
  <2>1. written # written'
    <3>1. written \in Seq(Bytes) /\ bytes # <<>>
      BY <1>1, <1>4
    <3>2. written \o bytes # written
      BY <3>1, GrownIsPrefix, Zenon
    <3> QED
      BY <3>2
  <2> QED
    BY <1>2, <1>3, <2>1 DEF Output!Write, Output!IsStrictPrefix, Broken
<1>5. CASE bytes = <<>>
  <2>1. written' = written
    BY <1>1, <1>5, ConcatEmptySeq
  <2>2. CASE u = <<>>
    <3>1. wire' = wire
      BY <1>1, <2>2, ConcatEmptySeq
    <3> QED
      BY <2>1, <3>1 DEF Output!svars, Broken
  <2>3. CASE u # <<>>
    <3>1. ~Broken /\ ~Broken'
      BY <1>1, <2>3, GrownIsPrefix
    <3> QED
      BY <2>1, <2>3, <3>1, FlushesAreSends
  <2> QED
    BY <2>2, <2>3
<1> QED
  BY <1>4, <1>5

(* A step that leaves the bytes alone may break the connection.            *)
LEMMA OthersBreak ==
  ASSUME UNCHANGED <<wire, written>>, Broken \in BOOLEAN, Broken => Broken'
  PROVE  Output!Break \/ UNCHANGED Output!svars
<1>1. CASE Broken
  BY <1>1 DEF Output!svars, Broken
<1>2. CASE ~Broken /\ Broken'
  BY <1>2 DEF Output!Break, Broken
<1>3. CASE ~Broken /\ ~Broken'
  BY <1>3 DEF Output!svars, Broken
<1> QED
  BY <1>1, <1>2, <1>3

(* Every step of the connection is a step of the abstract stream or leaves *)
(* it alone: the safety part of ImplementsByteStream, for a kernel that    *)
(* takes a byte of every direct write.                                     *)
THEOREM ImplementsStream ==
  ASSUME ~FullKernel
  PROVE  Spec => Output!SSafety
<1>1. Init => Output!SInit
  BY DEF Init, Output!SInit
<1>2. /\ OutInv /\ LoopType /\ (OutInv /\ LoopType)' /\ [Next]_vars
      => [Output!SNext]_(Output!svars)
  <2> SUFFICES ASSUME OutInv, LoopType, OutInv', LoopType', [Next]_vars
               PROVE  [Output!SNext]_(Output!svars)
    OBVIOUS
  <2>1. /\ OutType /\ OutType' /\ Stream /\ Stream'
        /\ Broken \in BOOLEAN
    BY DEF OutInv, LoopType, Broken
  <2>2. Output!Write \/ Output!Send \/ Output!Break => Output!SNext
    BY DEF Output!SNext
  <2>3. ASSUME UNCHANGED outVars, Broken => Broken'
        PROVE  [Output!SNext]_(Output!svars)
    BY <2>1, <2>2, <2>3, OthersBreak DEF outVars
  <2>4. ASSUME NEW bytes \in Seq(Bytes), NEW queue,
               WriteInLoop(bytes, queue), UNCHANGED <<status, shut, loopPc>>,
               loopPc # "killed"
        PROVE  [Output!SNext]_(Output!svars)
    <3>1. \/ UNCHANGED <<wire, written>>
          \/ /\ written' = written \o bytes
             /\ \E u \in Seq(Bytes) :
                  /\ wire' = wire \o u
                  /\ shut \/ status = "Disconnected" => wire' = wire
      BY <2>4, WriteInLoopKeeps
    <3>2. UNCHANGED Broken /\ (Broken <=> shut \/ status = "Disconnected")
      BY <2>4 DEF Broken
    <3>3. CASE UNCHANGED <<wire, written>>
      BY <2>1, <2>2, <3>2, <3>3, OthersBreak
    <3>4. CASE /\ written' = written \o bytes
               /\ \E u \in Seq(Bytes) :
                    /\ wire' = wire \o u
                    /\ shut \/ status = "Disconnected" => wire' = wire
      BY <2>1, <2>2, <3>2, <3>4, WritesAreWrites
    <3> QED
      BY <3>1, <3>3, <3>4
  <2>5. ASSUME BreaksPipe, UNCHANGED shut
        PROVE  [Output!SNext]_(Output!svars)
    BY <2>3, <2>5 DEF BreaksPipe, Broken
  <2>6. CASE \/ Poll \/ ReadMessage \/ SwapFunctors \/ FunctorsDone
             \/ CallbackReturns \/ CallWriteComplete
    <3>1. UNCHANGED outVars /\ UNCHANGED <<status, shut>> /\ loopPc # "killed"
      BY <2>6
      DEF Poll, ReadMessage, SwapFunctors, FunctorsDone, CallbackReturns,
          CallWriteComplete, CallFunctor, InCallback
    <3> QED
      BY <2>3, <3>1 DEF Broken
  <2>7. CASE ReadEnd
    <3>1. /\ UNCHANGED <<wire, written>> /\ UNCHANGED <<shut, loopPc>>
          /\ status' = "Disconnected"
      BY <2>7 DEF ReadEnd
    <3>2. Broken => Broken'
      BY <3>1 DEF Broken
    <3> QED
      BY <2>1, <2>2, <3>1, <3>2, OthersBreak
  <2>8. CASE HandleWrite
    <3>1. UNCHANGED shut /\ loopPc # "killed"
      BY <2>8 DEF HandleWrite
    <3>2. CASE UNCHANGED <<status, outVars, loopPc, pending>>
      BY <2>3, <3>1, <3>2 DEF Broken
    <3>3. CASE /\ status # "Disconnected" /\ writeOn /\ FlushBuffered
               /\ UNCHANGED <<status, loopPc, written>>
      <4>0. Flush /\ ~shut
        BY <3>3, SomethingIsBuffered DEF OutInv
      <4>1. \E u \in Seq(Bytes) : u # <<>> /\ wire' = wire \o u
        BY <3>3, <4>0, FlushKeeps
      <4>2. ~Broken /\ ~Broken'
        BY <3>1, <3>3, <4>0 DEF Broken
      <4> QED
        BY <2>1, <2>2, <3>3, <4>0, <4>1, <4>2, FlushesAreSends
    <3>4. CASE BreaksPipe
      BY <2>5, <3>1, <3>4
    <3> QED
      BY <2>8, <3>2, <3>3, <3>4 DEF HandleWrite
  <2>9. CASE CallWriteInLoop
    <3>1. UNCHANGED shut /\ loopPc # "killed" /\ todo > 0
      BY <2>9 DEF CallWriteInLoop, CallFunctor
    <3>2. Head(pending).bytes \in Seq(Bytes)
      <4>1. pending \in Seq(Functors) /\ todo \in 0..Len(pending)
        BY DEF LoopType
      <4> QED
        BY <3>1, <4>1, QueueShrinks
    <3>3. CASE /\ WriteInLoop(Head(pending).bytes, Tail(pending))
               /\ UNCHANGED <<status, loopPc>>
      BY <2>4, <3>1, <3>2, <3>3
    <3>4. CASE DirectWriteBreaks
      BY <2>5, <3>1, <3>4 DEF DirectWriteBreaks
    <3> QED
      BY <2>9, <3>3, <3>4 DEF CallWriteInLoop
  <2>10. CASE CallShutdownWriteInLoop \/ ShutdownInCallback
    <3>1. UNCHANGED outVars /\ shut' = TRUE
      BY <2>10
      DEF CallShutdownWriteInLoop, ShutdownInCallback, ShutdownWriteInLoop
    <3> QED
      BY <2>3, <3>1 DEF Broken
  <2>11. ASSUME NEW n \in Lengths, WriteInCallback(n)
         PROVE  [Output!SNext]_(Output!svars)
    <3>1. UNCHANGED shut /\ loopPc # "killed"
      BY <2>11 DEF WriteInCallback, InCallback
    <3>2. CASE /\ WriteInLoop(NextBytes(n), pending)
               /\ UNCHANGED <<status, loopPc>>
      BY <2>4, <3>1, <3>2, NextBytesAreBytes
    <3>3. CASE DirectWriteBreaks
      BY <2>5, <3>1, <3>3 DEF DirectWriteBreaks
    <3> QED
      BY <2>11, <3>2, <3>3 DEF WriteInCallback
  <2>12. CASE \/ \E n \in Lengths : WriteElsewhere(n)
              \/ ShutdownElsewhere \/ PeerCloses
    <3>1. UNCHANGED outVars /\ UNCHANGED <<status, shut, loopPc>>
      BY <2>12 DEF WriteElsewhere, ShutdownElsewhere, PeerCloses
    <3> QED
      BY <2>3, <3>1 DEF Broken
  <2>13. CASE UNCHANGED vars
    <3>1. UNCHANGED outVars /\ UNCHANGED <<status, shut, loopPc>>
      BY <2>13 DEF vars, outVars
    <3> QED
      BY <2>3, <3>1 DEF Broken
  <2> QED
    BY <2>6, <2>7, <2>8, <2>9, <2>10, <2>11, <2>12, <2>13
    DEF Next, LoopStep, UserStep
<1> QED
  BY <1>1, <1>2, OutputInvariant, PTL DEF Spec, Output!SSafety
=============================================================================
