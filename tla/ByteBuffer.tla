----------------------------- MODULE ByteBuffer -----------------------------
(***************************************************************************)
(* base/ByteBuffer.cc: a vector of bytes with a read and a write index,    *)
(* the read and the write buffer of every TcpConnection.                   *)
(*                                                                         *)
(* WritableBytes counts up to the vector's capacity and MakeRoom copies up *)
(* to its size.  The two are the same until Retrieve has made a big vector *)
(* small again; bytes written past the size are lost when it moves next    *)
(* (a write there is undefined: as built it reaches the vector's memory).  *)
(* The bytes of the stream are numbered from 1 as they are appended; 0 is  *)
(* a byte nobody wrote.  memory is the vector's memory, capacity included. *)
(***************************************************************************)
EXTENDS Naturals, Sequences

CONSTANTS
  kInitialBufferSize,
  kMaximumBufferBytes,
  MaxLen,     \* how much is appended at once (a bound of the model)
  MaxBytes    \* how much altogether (a bound of the model)

ASSUME BufferAssumption ==
  /\ kInitialBufferSize \in Nat \ {0}
  /\ kMaximumBufferBytes \in Nat
  /\ kInitialBufferSize <= kMaximumBufferBytes
  /\ MaxLen \in Nat
  /\ MaxBytes \in Nat

VARIABLES
  size,        \* _buf.size()
  memory,      \* _buf's memory, capacity() bytes of it
  readIndex,   \* _readIndex
  writeIndex,  \* _writeIndex
  appended,    \* how many bytes have been appended
  retrieved,   \* how many have been retrieved
  madeSmall,   \* history: Retrieve has made the vector small again
  spoiled      \* history: the vector moved with bytes past its size

bufferVars == <<size, memory, readIndex, writeIndex, appended, retrieved,
                madeSmall, spoiled>>

capacity == Len(memory)
ReadableBytes == writeIndex - readIndex
WritableBytes == capacity - writeIndex

BufferTypeOK ==
  /\ size \in Nat
  /\ memory \in Seq(0..MaxBytes)
  /\ readIndex \in Nat
  /\ writeIndex \in Nat
  /\ appended \in 0..MaxBytes
  /\ retrieved \in 0..MaxBytes
  /\ madeSmall \in BOOLEAN
  /\ spoiled \in BOOLEAN

BufferInit ==
  /\ size = kInitialBufferSize
  /\ memory = [i \in 1..kInitialBufferSize |-> 0]
  /\ readIndex = 0
  /\ writeIndex = 0
  /\ appended = 0
  /\ retrieved = 0
  /\ madeSmall = FALSE
  /\ spoiled = FALSE

-----------------------------------------------------------------------------
(* The vector's memory, moved to a place for n bytes: the first size bytes *)
(* come along.                                                             *)
Moved(n) == [i \in 1..n |-> IF i <= size THEN memory[i] ELSE 0]

(* The bytes of the stream in m after len more are copied to WriteBegin.   *)
Copied(m, len) ==
  [i \in DOMAIN m |->
     IF writeIndex < i /\ i <= writeIndex + len
     THEN appended + (i - writeIndex) ELSE m[i]]

RoomFor(len) == (capacity + len) * 2

(* Append of bytes that fit, of which ReadFd appends as many as read gave. *)
AppendInPlace(len) ==
  /\ len <= WritableBytes
  /\ memory' = Copied(memory, len)
  /\ UNCHANGED <<size, spoiled>>

(* Mutant: MakeRoom reserves and does not resize.                          *)
AppendReserving(len) ==
  /\ len > WritableBytes
  /\ memory' = Copied(Moved(RoomFor(len)), len)
  /\ UNCHANGED size
  /\ spoiled' = (writeIndex > size)

(* Append of bytes that do not, with MakeRoom.                             *)
AppendMoving(len) ==
  /\ len > WritableBytes
  /\ memory' = Copied(Moved(RoomFor(len)), len)
  /\ size' = RoomFor(len)
  /\ spoiled' = (writeIndex > size)

AppendBytes(len) ==
  /\ appended + len <= MaxBytes
  /\ AppendInPlace(len) \/ AppendMoving(len)
  /\ appended' = appended + len
  /\ writeIndex' = writeIndex + len
  /\ UNCHANGED <<readIndex, retrieved, madeSmall>>

-----------------------------------------------------------------------------
(* Retrieve of a part; more than there is, is ignored.                     *)
RetrievePart(len) ==
  /\ len < ReadableBytes
  /\ readIndex' = readIndex + len
  /\ retrieved' = retrieved + len
  /\ UNCHANGED <<size, memory, writeIndex, appended, madeSmall, spoiled>>

(* Mutant: the read index goes back and the write index does not.          *)
RetrieveRestOfRead ==
  /\ readIndex' = 0
  /\ retrieved' = appended
  /\ UNCHANGED <<size, memory, writeIndex, appended, madeSmall, spoiled>>

(* Retrieve of all, as RetrieveAll does.                                   *)
RetrieveRest ==
  /\ readIndex' = 0
  /\ writeIndex' = 0
  /\ retrieved' = retrieved + ReadableBytes
  /\ IF size > kMaximumBufferBytes
     THEN size' = kInitialBufferSize /\ madeSmall' = TRUE
     ELSE UNCHANGED <<size, madeSmall>>
  /\ UNCHANGED <<memory, appended, spoiled>>

(* Shrink moves the vector to a place of its size.                         *)
Shrink ==
  /\ size < capacity
  /\ memory' = Moved(size)
  /\ spoiled' = (writeIndex > size)
  /\ UNCHANGED <<size, readIndex, writeIndex, appended, retrieved, madeSmall>>

BufferNext ==
  /\ ~spoiled    \* the behaviour is undefined from there on
  /\ \/ \E len \in 0..MaxLen : AppendBytes(len) \/ RetrievePart(len)
     \/ RetrieveRest
     \/ Shrink

BufferSpec == BufferInit /\ [][BufferNext]_bufferVars

-----------------------------------------------------------------------------
(* Properties *)

(* The buffer is a queue of bytes: what is between the indices are the     *)
(* bytes appended and not retrieved yet, in order and all of them,         *)
(* wherever the vector has moved.                                          *)
BufferIsQueue ==
  ~spoiled =>
    /\ readIndex <= writeIndex
    /\ writeIndex <= capacity
    /\ appended - retrieved = ReadableBytes
    /\ \A i \in 1..ReadableBytes : memory[readIndex + i] = retrieved + i

(* A buffer that was never made small again has its size for its capacity  *)
(* and loses nothing: below kMaximumBufferBytes every byte is kept.        *)
SpoiledOnlyIfMadeSmall ==
  /\ spoiled => madeSmall
  /\ ~madeSmall => size = capacity
=============================================================================
