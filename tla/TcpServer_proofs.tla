--------------------------- MODULE TcpServer_proofs ---------------------------
(***************************************************************************)
(* Proofs about TcpServer.tla, for any connections, descriptors and names  *)
(* and with every liberty of the user and the peers: stop(), ForceCloses   *)
(* of any number and at any time, and names that come back.  The poller's  *)
(* table and the kernel agree, and a functor bound to a raw this finds its *)
(* connection alive but for the four causes of RawFunctorsSafe.            *)
(***************************************************************************)
EXTENDS TcpServer, FiniteSetTheorems, SequenceTheorems, TLAPS

-----------------------------------------------------------------------------
(* The parts of the invariant *)

(* The connections stop() has passed.                                      *)
Visited == {visited[i] : i \in 1..Len(visited)}

(* The connections that the functors of a queue share.                     *)
Sharing(q) == {q[i].con : i \in {j \in 1..Len(q) : q[j].op \in SharedOps}}

LiveAmong(acc, m, q, kp, del) ==
  {k \in acc : (\E n \in Names : m[n] = k) \/ k \in Sharing(q) \/ k \in kp} \ del

(* The connections that are alive.                                         *)
Live == LiveAmong(accepted, connectionMap, pending, kept, deleted)

(* Functors are bound to constructed connections, and a connection that    *)
(* waits for the RemoveConnectionInLoop of stop() waits for one, and has   *)
(* not had it: stop() visits each connection once.                         *)
QueueOK(q, acc, vis, del) ==
  /\ q \in Seq(Functors)
  /\ \A i \in 1..Len(q) : q[i].con \in acc
  /\ \A i \in 1..Len(q) :
       q[i].op = "RemoveConnectionInLoop" =>
         /\ q[i].con \in vis
         /\ q[i].con \notin del
         /\ \A j \in 1..Len(q) : q[j] = q[i] => j = i

Objects ==
  /\ accepted \subseteq Conns
  /\ fd \in [Conns -> Fds \cup {0}]
  /\ name \in [Conns -> Names \cup {NoConn}]
  /\ \A k \in accepted : fd[k] \in Fds /\ name[k] \in Names

Holders ==
  /\ connectionMap \in [Names -> accepted \cup {NoConn}]
  /\ QueueOK(pending, accepted, Visited, deleted)
  /\ todo \in 0..Len(pending)
  /\ kept \subseteq accepted
  /\ closing \in accepted \cup {NoConn}
  /\ visited \in Seq(Conns)
  /\ deleted \subseteq Visited

Pollers ==
  [channelMap : [Fds -> Conns \cup {NoConn}],
   index : [Conns -> {"initial", "added", "deleted"}],
   kernel : [Fds -> [channel : Conns \cup {NoConn}, events : {{}, {"read"}}]]]

(* An added channel is in the table; what the kernel watches is in the     *)
(* table, and belongs to the live connection on that descriptor, if there  *)
(* is one.                                                                 *)
Agrees(p, fds, acc, live) ==
  /\ \A k \in Conns :
       p.index[k] = "added" => k \in acc /\ p.channelMap[fds[k]] = k
  /\ \A f \in Fds :
       p.kernel[f] # NotWatched =>
         /\ p.channelMap[f] = p.kernel[f].channel
         /\ \A j \in live : fds[j] = f => p.channelMap[f] = j

(* No two live connections have the same descriptor.                       *)
OneOwner(fds, live) == \A j, k \in live : fds[j] = fds[k] => j = k

ServerInv ==
  /\ Objects
  /\ Holders
  /\ poller \in Pollers
  /\ Agrees(poller, fd, accepted, Live)
  /\ OneOwner(fd, Live)

-----------------------------------------------------------------------------
(* The queue and who is alive *)

(* A set of naturals that is not empty has its least element.              *)
LEMMA LeastIsMember ==
  ASSUME NEW S, S \subseteq Nat, S # {}
  PROVE  Min(S) \in S
<1> DEFINE Belows == {0..n : n \in S}
<1>1. \A n \in S : 0..n \in FiniteSubsetsOf(Nat)
  <2>1. ASSUME NEW n \in S PROVE 0..n \subseteq Nat /\ IsFiniteSet(0..n)
    <3>1. n \in Int /\ 0 \in Int
      OBVIOUS
    <3>2. IsFiniteSet(0..n)
      BY <3>1, FS_Interval, Zenon
    <3> QED
      BY <3>2
  <2> QED
    BY <2>1 DEF FiniteSubsetsOf
<1>2. PICK B \in Belows :
        \A C \in Belows : ~(<<C, B>> \in StrictSubsetOrdering(Nat))
  <2>1. Belows \subseteq FiniteSubsetsOf(Nat) /\ Belows # {}
    BY <1>1
  <2> HIDE DEF Belows
  <2> QED
    BY <2>1, FS_StrictSubsetOrderingWellFounded, WFMin
<1>3. PICK x \in S : B = 0..x
  OBVIOUS
<1>4. ASSUME NEW y \in S PROVE x <= y
  <2> SUFFICES ASSUME y < x PROVE FALSE
    OBVIOUS
  <2>1. /\ 0..y \subseteq 0..x /\ 0..x \subseteq Nat
        /\ x \in 0..x /\ x \notin 0..y
    OBVIOUS
  <2>2. 0..y # 0..x
    BY <2>1, Zenon
  <2>3. <<0..y, 0..x>> \in StrictSubsetOrdering(Nat)
    BY <2>1, <2>2 DEF StrictSubsetOrdering
  <2> QED
    BY <1>2, <1>3, <2>3
<1> QED
  BY <1>4 DEF Min

(* What is left of a queue when its first functor is called.               *)
LEMMA QueueTail ==
  ASSUME NEW q, NEW acc, NEW vis, NEW del, QueueOK(q, acc, vis, del),
         q # <<>>
  PROVE  /\ Head(q) \in Functors /\ Head(q).con \in acc
         /\ Head(q).op \in SharedOps => Head(q).con \in Sharing(q)
         /\ Len(q) \in Nat \ {0} /\ Len(Tail(q)) = Len(q) - 1
         /\ QueueOK(Tail(q), acc, vis, del)
         /\ Sharing(Tail(q)) \subseteq Sharing(q)
         /\ Head(q).op = "RemoveConnectionInLoop" =>
              /\ Head(q).con \in vis /\ Head(q).con \notin del
              /\ QueueOK(Tail(q), acc, vis, del \cup {Head(q).con})
<1>1. q \in Seq(Functors)
  BY DEF QueueOK
<1>2. /\ Head(q) \in Functors /\ Head(q) = q[1]
      /\ Tail(q) \in Seq(Functors) /\ Len(Tail(q)) = Len(q) - 1
      /\ \A i \in 1..Len(Tail(q)) : Tail(q)[i] = q[i + 1]
      /\ Len(q) \in Nat \ {0}
  BY <1>1, HeadTailProperties, EmptySeq
<1>3. \A i \in 1..Len(Tail(q)) : i + 1 \in 1..Len(q) /\ Tail(q)[i] = q[i + 1]
  BY <1>2
<1>4. 1 \in 1..Len(q)
  BY <1>2
<1> DEFINE t == Tail(q)
<1> HIDE DEF t
<1>5. QueueOK(t, acc, vis, del)
  <2>1. \A i \in 1..Len(t) : t[i].con \in acc
    BY <1>3 DEF t, QueueOK
  <2>2. ASSUME NEW i \in 1..Len(t), t[i].op = "RemoveConnectionInLoop"
        PROVE  /\ t[i].con \in vis /\ t[i].con \notin del
               /\ \A j \in 1..Len(t) : t[j] = t[i] => j = i
    <3>1. q[i + 1] = t[i] /\ i + 1 \in 1..Len(q)
      BY <1>3 DEF t
    <3>2. /\ q[i + 1].con \in vis /\ q[i + 1].con \notin del
          /\ \A j \in 1..Len(q) : q[j] = q[i + 1] => j = i + 1
      BY <2>2, <3>1 DEF QueueOK
    <3>3. ASSUME NEW j \in 1..Len(t), t[j] = t[i] PROVE j = i
      <4>1. q[j + 1] = q[i + 1] /\ j + 1 \in 1..Len(q)
        BY <1>3, <3>1, <3>3 DEF t
      <4>2. j + 1 = i + 1
        BY <3>2, <4>1
      <4> QED
        BY <4>2
    <3> QED
      BY <3>1, <3>2, <3>3
  <2> QED
    BY <1>2, <2>1, <2>2 DEF QueueOK, t
<1>6. Sharing(t) \subseteq Sharing(q)
  BY <1>3 DEF Sharing, t
<1>7. ASSUME Head(q).op = "RemoveConnectionInLoop"
      PROVE  /\ Head(q).con \in vis /\ Head(q).con \notin del
             /\ QueueOK(t, acc, vis, del \cup {Head(q).con})
  <2>1. /\ q[1].con \in vis /\ q[1].con \notin del
        /\ \A j \in 1..Len(q) : q[j] = q[1] => j = 1
    BY <1>2, <1>4, <1>7 DEF QueueOK
  <2>2. ASSUME NEW i \in 1..Len(t), t[i].op = "RemoveConnectionInLoop"
        PROVE  t[i].con # q[1].con
    <3>1. q[i + 1] = t[i] /\ i + 1 \in 1..Len(q) /\ i + 1 # 1
      BY <1>3 DEF t
    <3>2. q[i + 1] # q[1]
      BY <2>1, <3>1
    <3>3. q[i + 1] \in Functors /\ q[1] \in Functors
      BY <1>1, <1>4, <3>1, ElementOfSeq
    <3>4. q[i + 1].op = q[1].op
      BY <1>2, <1>7, <2>2, <3>1
    <3> QED
      BY <3>1, <3>2, <3>3, <3>4 DEF Functors, Functor
  <2> QED
    BY <1>2, <1>5, <2>1, <2>2 DEF QueueOK
<1>8. /\ Head(q).con \in acc
      /\ Head(q).op \in SharedOps => Head(q).con \in Sharing(q)
  BY <1>2, <1>4 DEF QueueOK, Sharing
<1> QED
  BY <1>2, <1>5, <1>6, <1>7, <1>8 DEF t

(* A functor that is not stop()'s joins a queue.                           *)
LEMMA QueueAppend ==
  ASSUME NEW q, NEW acc, NEW vis, NEW del, QueueOK(q, acc, vis, del),
         NEW f \in Functors, f.con \in acc, f.op # "RemoveConnectionInLoop"
  PROVE  /\ QueueOK(Append(q, f), acc, vis, del)
         /\ Len(q) \in Nat /\ Len(Append(q, f)) = Len(q) + 1
         /\ Sharing(Append(q, f)) \subseteq Sharing(q) \cup {f.con}
         /\ f.op \notin SharedOps => Sharing(Append(q, f)) \subseteq Sharing(q)
<1>1. q \in Seq(Functors) /\ Len(q) \in Nat
  BY LenProperties DEF QueueOK
<1> DEFINE a == Append(q, f)
<1>2. /\ a \in Seq(Functors) /\ Len(a) = Len(q) + 1
      /\ \A i \in 1..Len(q) : a[i] = q[i]
      /\ a[Len(q) + 1] = f
  BY <1>1, AppendProperties
<1> HIDE DEF a
<1>3. \A i \in 1..Len(a) : (i \in 1..Len(q) /\ a[i] = q[i]) \/ a[i] = f
  BY <1>1, <1>2
<1>4. QueueOK(a, acc, vis, del)
  <2>1. \A i \in 1..Len(a) : a[i].con \in acc
    BY <1>3 DEF QueueOK
  <2>2. ASSUME NEW i \in 1..Len(a), a[i].op = "RemoveConnectionInLoop"
        PROVE  /\ a[i].con \in vis /\ a[i].con \notin del
               /\ \A j \in 1..Len(a) : a[j] = a[i] => j = i
    <3>1. i \in 1..Len(q) /\ a[i] = q[i]
      BY <1>3, <2>2
    <3>2. /\ q[i].con \in vis /\ q[i].con \notin del
          /\ \A j \in 1..Len(q) : q[j] = q[i] => j = i
      BY <2>2, <3>1 DEF QueueOK
    <3>3. ASSUME NEW j \in 1..Len(a), a[j] = a[i] PROVE j = i
      <4>1. j \in 1..Len(q) /\ a[j] = q[j]
        BY <1>3, <2>2, <3>3
      <4> QED
        BY <3>1, <3>2, <3>3, <4>1
    <3> QED
      BY <3>1, <3>2, <3>3
  <2> QED
    BY <1>2, <2>1, <2>2 DEF QueueOK
<1>5. Sharing(a) \subseteq Sharing(q) \cup {f.con}
  BY <1>3 DEF Sharing
<1>6. f.op \notin SharedOps => Sharing(a) \subseteq Sharing(q)
  BY <1>3 DEF Sharing
<1> QED
  BY <1>1, <1>2, <1>4, <1>5, <1>6 DEF a

(* A queue, and then the same functor n times.                             *)
Repeated(q, f, n) == q \o [i \in 1..n |-> f]

(* So does any number of them, all the same.                               *)
LEMMA QueueConcat ==
  ASSUME NEW q, NEW acc, NEW vis, NEW del, QueueOK(q, acc, vis, del),
         NEW f \in Functors, f.con \in acc, f.op \notin SharedOps, NEW n \in Nat,
         NEW c, c = Repeated(q, f, n)
  PROVE  /\ QueueOK(c, acc, vis, del)
         /\ Len(q) \in Nat /\ Len(c) = Len(q) + n
         /\ \A i \in 1..Len(q) : i \in 1..Len(c) /\ c[i] = q[i]
         /\ \A i \in 1..Len(c) : (i \in 1..Len(q) /\ c[i] = q[i]) \/ c[i] = f
         /\ Sharing(c) \subseteq Sharing(q)
<1> DEFINE r == [i \in 1..n |-> f]
<1>1. q \in Seq(Functors) /\ Len(q) \in Nat
  BY LenProperties DEF QueueOK
<1>2. r \in Seq(Functors) /\ Len(r) = n /\ \A i \in 1..n : r[i] = f
  OBVIOUS
<1> HIDE DEF r
<1>3. /\ c \in Seq(Functors) /\ Len(c) = Len(q) + n
      /\ \A i \in 1..(Len(q) + n) :
           c[i] = IF i <= Len(q) THEN q[i] ELSE r[i - Len(q)]
  <2>1. c = q \o r
    BY DEF r, Repeated
  <2>2. /\ q \o r \in Seq(Functors) /\ Len(q \o r) = Len(q) + Len(r)
        /\ \A i \in 1..(Len(q) + Len(r)) :
             (q \o r)[i] = IF i <= Len(q) THEN q[i] ELSE r[i - Len(q)]
    BY <1>1, <1>2, ConcatProperties
  <2> QED
    BY <1>2, <2>1, <2>2
<1>4. \A i \in 1..Len(c) : (i \in 1..Len(q) /\ c[i] = q[i]) \/ c[i] = f
  <2> TAKE i \in 1..Len(c)
  <2>1. CASE i <= Len(q)
    BY <1>1, <1>3, <2>1
  <2>2. CASE ~(i <= Len(q))
    <3>1. i - Len(q) \in 1..n
      BY <1>1, <1>3, <2>2
    <3> QED
      BY <1>2, <1>3, <2>2, <3>1
  <2> QED
    BY <2>1, <2>2
<1>5. \A i \in 1..Len(q) : i \in 1..Len(c) /\ c[i] = q[i]
  BY <1>1, <1>3
<1>6. f.op # "RemoveConnectionInLoop"
  BY DEF SharedOps
<1>7. QueueOK(c, acc, vis, del)
  <2>1. \A i \in 1..Len(c) : c[i].con \in acc
    BY <1>4 DEF QueueOK
  <2>2. ASSUME NEW i \in 1..Len(c), c[i].op = "RemoveConnectionInLoop"
        PROVE  /\ c[i].con \in vis /\ c[i].con \notin del
               /\ \A j \in 1..Len(c) : c[j] = c[i] => j = i
    <3>1. i \in 1..Len(q) /\ c[i] = q[i]
      BY <1>4, <1>6, <2>2
    <3>2. /\ q[i].con \in vis /\ q[i].con \notin del
          /\ \A j \in 1..Len(q) : q[j] = q[i] => j = i
      BY <2>2, <3>1 DEF QueueOK
    <3>3. ASSUME NEW j \in 1..Len(c), c[j] = c[i] PROVE j = i
      BY <1>4, <1>6, <2>2, <3>1, <3>2, <3>3
    <3> QED
      BY <3>1, <3>2, <3>3
  <2> QED
    BY <1>3, <2>1, <2>2 DEF QueueOK
<1>8. Sharing(c) \subseteq Sharing(q)
  BY <1>4 DEF Sharing
<1> QED
  BY <1>1, <1>3, <1>4, <1>5, <1>7, <1>8

(* Live is what Alive says.                                                *)
LEMMA LiveIsAlive ==
  ASSUME Objects, Holders
  PROVE  /\ \A k \in Conns : Alive(k) <=> k \in Live
         /\ Live \subseteq accepted
         /\ Sharing(pending) \subseteq Live \cup deleted
         /\ kept \subseteq Live \cup deleted
         /\ \A n \in Names : connectionMap[n] # NoConn =>
              connectionMap[n] \in Live \cup deleted
<1>1. pending \in Seq(Functors) /\ DOMAIN pending = 1..Len(pending)
  BY LenProperties DEF Holders, QueueOK
<1>2. \A k : InQueue(k) <=> k \in Sharing(pending)
  BY <1>1 DEF InQueue, Sharing
<1>3. \A k : Alive(k) <=> k \in Live
  BY <1>2, Zenon DEF Alive, Held, InMap, Live, LiveAmong
<1>4. Live \subseteq accepted
  BY DEF Live, LiveAmong
<1>5. Sharing(pending) \subseteq accepted
  BY DEF Holders, QueueOK, Sharing
<1>6. kept \subseteq accepted
  BY DEF Holders
<1>7. \A n \in Names : connectionMap[n] \in accepted \cup {NoConn}
  BY DEF Holders
<1> QED
  BY <1>3, <1>4, <1>5, <1>6, <1>7 DEF Live, LiveAmong

-----------------------------------------------------------------------------
(* The poller *)

(* What the poller's operations need to know of a live connection.         *)
LEMMA LiveChannel ==
  ASSUME Objects, NEW p \in Pollers, NEW live \in SUBSET accepted, NEW k \in live
  PROVE  /\ k \in Conns /\ k # NoConn /\ fd[k] \in Fds
         /\ p.channelMap \in [Fds -> Conns \cup {NoConn}]
         /\ p.index \in [Conns -> {"initial", "added", "deleted"}]
         /\ p.kernel \in [Fds -> [channel : Conns \cup {NoConn},
                                  events : {{}, {"read"}}]]
BY ConnsAssumption DEF Objects, Pollers, NoConn

(* UpdateChannel of a live connection's channel.                           *)
LEMMA UpdateAgrees ==
  ASSUME Objects, NEW p \in Pollers, NEW live \in SUBSET accepted,
         Agrees(p, fd, accepted, live), OneOwner(fd, live),
         NEW k \in live, NEW events \in {{}, {"read"}}
  PROVE  /\ UpdateChannel(p, k, fd[k], events) \in Pollers
         /\ Agrees(UpdateChannel(p, k, fd[k], events), fd, accepted, live)
<1> DEFINE f == fd[k]
           w == Watched(k, events)
           added == [p EXCEPT !.channelMap[f] = k, !.index[k] = "added",
                              !.kernel[f] = w]
           modified == [p EXCEPT !.kernel[f] = w]
<1>1. /\ k \in Conns /\ k # NoConn /\ f \in Fds /\ k \in accepted
      /\ p.channelMap \in [Fds -> Conns \cup {NoConn}]
      /\ p.index \in [Conns -> {"initial", "added", "deleted"}]
      /\ p.kernel \in [Fds -> [channel : Conns \cup {NoConn},
                               events : {{}, {"read"}}]]
  BY LiveChannel
<1>2. w \in [channel : Conns \cup {NoConn}, events : {{}, {"read"}}]
      /\ w.channel = k
  BY <1>1 DEF Watched
<1>3. \A j \in live : fd[j] = f => j = k
  BY DEF OneOwner
<1> HIDE DEF f, w
<1>4. CASE UpdateChannel(p, k, f, events) = p
  BY <1>4 DEF f
<1>5. CASE /\ UpdateChannel(p, k, f, events) = added
           /\ p.channelMap[f] = NoChannel
  <2>1. added \in Pollers
    BY <1>1, <1>2 DEF Pollers
  <2>2. /\ added.channelMap = [p.channelMap EXCEPT ![f] = k]
        /\ added.index = [p.index EXCEPT ![k] = "added"]
        /\ added.kernel = [p.kernel EXCEPT ![f] = w]
    BY DEF Pollers
  <2> DEFINE a == added
  <2> HIDE DEF a
  <2>3. ASSUME NEW j \in Conns, a.index[j] = "added"
        PROVE  j \in accepted /\ a.channelMap[fd[j]] = j
    <3>1. CASE j = k
      BY <1>1, <2>2, <3>1 DEF a, f
    <3>2. CASE j # k
      <4>1. p.index[j] = "added"
        BY <1>1, <2>2, <2>3, <3>2 DEF a
      <4>2. j \in accepted /\ p.channelMap[fd[j]] = j /\ fd[j] \in Fds
        BY <4>1 DEF Agrees, Objects
      <4>3. fd[j] # f
        BY <1>5, <4>2, ConnsAssumption
      <4> QED
        BY <1>1, <2>2, <4>2, <4>3 DEF a
    <3> QED
      BY <3>1, <3>2
  <2>4. ASSUME NEW g \in Fds, a.kernel[g] # NotWatched
        PROVE  /\ a.channelMap[g] = a.kernel[g].channel
               /\ \A j \in live : fd[j] = g => a.channelMap[g] = j
    <3>1. CASE g = f
      BY <1>1, <1>2, <1>3, <2>2, <3>1 DEF a
    <3>2. CASE g # f
      BY <1>1, <2>2, <2>4, <3>2 DEF a, Agrees
    <3> QED
      BY <3>1, <3>2
  <2>5. Agrees(a, fd, accepted, live)
    BY <2>3, <2>4 DEF Agrees
  <2> QED
    BY <1>5, <2>1, <2>5 DEF a, f
<1>6. CASE /\ UpdateChannel(p, k, f, events) = modified
           /\ p.index[k] = "added"
  <2>1. modified \in Pollers
    BY <1>1, <1>2 DEF Pollers
  <2>2. /\ modified.channelMap = p.channelMap
        /\ modified.index = p.index
        /\ modified.kernel = [p.kernel EXCEPT ![f] = w]
    BY DEF Pollers
  <2> DEFINE m == modified
  <2> HIDE DEF m
  <2>3. p.channelMap[f] = k
    BY <1>1, <1>6 DEF Agrees, f
  <2>4. ASSUME NEW g \in Fds, m.kernel[g] # NotWatched
        PROVE  /\ m.channelMap[g] = m.kernel[g].channel
               /\ \A j \in live : fd[j] = g => m.channelMap[g] = j
    <3>1. CASE g = f
      BY <1>1, <1>2, <1>3, <2>2, <2>3, <3>1 DEF m
    <3>2. CASE g # f
      BY <1>1, <2>2, <2>4, <3>2 DEF m, Agrees
    <3> QED
      BY <3>1, <3>2
  <2>5. Agrees(m, fd, accepted, live)
    BY <2>2, <2>4 DEF Agrees, m
  <2> QED
    BY <1>6, <2>1, <2>5 DEF m, f
<1> QED
  BY <1>4, <1>5, <1>6 DEF UpdateChannel, AddChannel, ModifyChannel, w

(* RemoveChannel of a live connection's channel.                           *)
LEMMA RemoveAgrees ==
  ASSUME Objects, NEW p \in Pollers, NEW live \in SUBSET accepted,
         Agrees(p, fd, accepted, live), OneOwner(fd, live), NEW k \in live
  PROVE  /\ RemoveChannel(p, k, fd[k]) \in Pollers
         /\ Agrees(RemoveChannel(p, k, fd[k]), fd, accepted, live)
<1> DEFINE f == fd[k]
           removed == [p EXCEPT !.channelMap[f] = NoChannel,
                                !.index[k] = "deleted",
                                !.kernel[f] = NotWatched]
<1>1. /\ k \in Conns /\ k # NoConn /\ f \in Fds /\ k \in accepted
      /\ p.channelMap \in [Fds -> Conns \cup {NoConn}]
      /\ p.index \in [Conns -> {"initial", "added", "deleted"}]
      /\ p.kernel \in [Fds -> [channel : Conns \cup {NoConn},
                               events : {{}, {"read"}}]]
  BY LiveChannel
<1> HIDE DEF f
<1>2. CASE RemoveChannel(p, k, f) = p
  BY <1>2 DEF f
<1>3. CASE /\ RemoveChannel(p, k, f) = removed
           /\ p.kernel[f] # NotWatched
  <2>1. NotWatched \in [channel : Conns \cup {NoConn}, events : {{}, {"read"}}]
    BY DEF NotWatched, Watched, NoConn
  <2>2. removed \in Pollers
    BY <1>1, <2>1 DEF Pollers, NoConn
  <2>3. /\ removed.channelMap = [p.channelMap EXCEPT ![f] = NoChannel]
        /\ removed.index = [p.index EXCEPT ![k] = "deleted"]
        /\ removed.kernel = [p.kernel EXCEPT ![f] = NotWatched]
    BY DEF Pollers
  <2> DEFINE r == removed
  <2> HIDE DEF r
  <2>4. p.channelMap[f] = k
    BY <1>1, <1>3 DEF Agrees, f
  <2>5. ASSUME NEW j \in Conns, r.index[j] = "added"
        PROVE  j \in accepted /\ r.channelMap[fd[j]] = j
    <3>1. j # k /\ p.index[j] = "added"
      BY <1>1, <2>3, <2>5 DEF r
    <3>2. j \in accepted /\ p.channelMap[fd[j]] = j /\ fd[j] \in Fds
      BY <3>1 DEF Agrees, Objects
    <3>3. fd[j] # f
      BY <2>4, <3>1, <3>2
    <3> QED
      BY <1>1, <2>3, <3>2, <3>3 DEF r
  <2>6. ASSUME NEW g \in Fds, r.kernel[g] # NotWatched
        PROVE  /\ r.channelMap[g] = r.kernel[g].channel
               /\ \A j \in live : fd[j] = g => r.channelMap[g] = j
    <3>1. g # f
      BY <1>1, <2>3, <2>6 DEF r
    <3> QED
      BY <1>1, <2>3, <2>6, <3>1 DEF r, Agrees
  <2>7. Agrees(r, fd, accepted, live)
    BY <2>5, <2>6 DEF Agrees
  <2> QED
    BY <1>3, <2>2, <2>7 DEF r, f
<1> QED
  BY <1>2, <1>3 DEF RemoveChannel, CtlModOrDel

(* Silenced, and then Unregistered, of a live connection.                  *)
LEMMA ClosingAgrees ==
  ASSUME ServerInv, NEW k \in Live
  PROVE  /\ Silenced(k) \in Pollers
         /\ Agrees(Silenced(k), fd, accepted, Live)
         /\ Unregistered(Silenced(k), k) \in Pollers
         /\ Agrees(Unregistered(Silenced(k), k), fd, accepted, Live)
         /\ Unregistered(poller, k) \in Pollers
         /\ Agrees(Unregistered(poller, k), fd, accepted, Live)
<1>1. /\ Objects /\ OneOwner(fd, Live) /\ poller \in Pollers
      /\ Agrees(poller, fd, accepted, Live) /\ Live \in SUBSET accepted
  BY LiveIsAlive DEF ServerInv
<1>2. Silenced(k) \in Pollers /\ Agrees(Silenced(k), fd, accepted, Live)
  BY <1>1, UpdateAgrees DEF Silenced
<1> QED
  BY <1>1, <1>2, RemoveAgrees DEF Unregistered

-----------------------------------------------------------------------------
(* Steps *)

(* A step that constructs nothing: what holds a connection that is alive   *)
(* held it before, and the poller still agrees for those that were alive.  *)
LEMMA StepKeeps ==
  ASSUME ServerInv,
         UNCHANGED <<accepted, fd, name>>,
         connectionMap' \in [Names -> accepted \cup {NoConn}],
         \A n \in Names : connectionMap'[n] # NoConn =>
           connectionMap'[n] = connectionMap[n],
         QueueOK(pending', accepted, Visited', deleted'),
         Sharing(pending') \subseteq Live \cup deleted,
         todo' \in 0..Len(pending'),
         kept' \subseteq Live \cup deleted, kept' \subseteq accepted,
         closing' \in accepted \cup {NoConn},
         visited' \in Seq(Conns),
         deleted \subseteq deleted', deleted' \subseteq Visited',
         poller' \in Pollers,
         Agrees(poller', fd, accepted, Live)
  PROVE  ServerInv'
<1>1. Objects' /\ Holders'
  BY DEF ServerInv, Objects, Holders
<1>2. \A n \in Names : connectionMap'[n] # NoConn =>
        connectionMap'[n] \in Live \cup deleted
  BY LiveIsAlive DEF ServerInv
<1>3. Live' \subseteq Live
  <2>1. Live' = LiveAmong(accepted, connectionMap', pending', kept', deleted')
    BY DEF Live
  <2>2. ASSUME NEW k \in LiveAmong(accepted, connectionMap', pending', kept', deleted')
        PROVE  k \in Live
    <3>1. /\ k \in accepted /\ k \notin deleted
          /\ (\E n \in Names : connectionMap'[n] = k) \/ k \in Sharing(pending')
                \/ k \in kept'
      BY DEF LiveAmong
    <3>2. k # NoConn
      BY <3>1, ConnsAssumption DEF ServerInv, Objects, NoConn
    <3> QED
      BY <1>2, <3>1, <3>2
  <2> QED
    BY <2>1, <2>2
<1>4. Agrees(poller', fd', accepted', Live')
  BY <1>3 DEF Agrees
<1>5. OneOwner(fd', Live')
  BY <1>3 DEF ServerInv, OneOwner
<1> QED
  BY <1>1, <1>4, <1>5 DEF ServerInv

(* A step that only looks at all this.                                     *)
LEMMA ObservingKeeps ==
  ASSUME ServerInv,
         UNCHANGED <<poller, objVars, connectionMap, pending, visited, kept>>,
         todo' \in 0..Len(pending), closing' \in accepted \cup {NoConn}
  PROVE  ServerInv'
<1>1. Objects'
  BY DEF ServerInv, Objects, objVars
<1>2. Holders'
  BY DEF ServerInv, Holders, objVars, Visited
<1>3. Live' = Live
  BY DEF Live, objVars
<1> QED
  BY <1>1, <1>2, <1>3 DEF ServerInv, objVars

(* The map after it has lost the entry of a connection.                    *)
LEMMA ErasedMap ==
  ASSUME ServerInv, NEW k \in accepted,
         connectionMap' = ErasedFromMap(k) \/ UNCHANGED connectionMap
  PROVE  /\ connectionMap' \in [Names -> accepted \cup {NoConn}]
         /\ \A n \in Names : connectionMap'[n] # NoConn =>
              connectionMap'[n] = connectionMap[n]
<1>1. /\ connectionMap \in [Names -> accepted \cup {NoConn}]
      /\ name[k] \in Names
  BY DEF ServerInv, Objects, Holders
<1> QED
  BY <1>1 DEF ErasedFromMap

(* HandleClose of a live connection.                                       *)
LEMMA HandleCloseAgrees ==
  ASSUME ServerInv, NEW k \in Live, HandleClose(k)
  PROVE  /\ connectionMap' = ErasedFromMap(k) \/ UNCHANGED connectionMap
         /\ poller' \in Pollers
         /\ Agrees(poller', fd, accepted, Live)
<1>1. poller \in Pollers /\ Agrees(poller, fd, accepted, Live)
  BY DEF ServerInv
<1> QED
  BY <1>1, ClosingAgrees DEF HandleClose

(* RemoveConnectionInLoop of a live connection.                            *)
LEMMA RemoveConnectionAgrees ==
  ASSUME ServerInv, NEW k \in Live, RemoveConnectionInLoop(k)
  PROVE  /\ connectionMap' = ErasedFromMap(k) \/ UNCHANGED connectionMap
         /\ deleted' = deleted \/ deleted' = deleted \cup {k}
         /\ poller' \in Pollers
         /\ Agrees(poller', fd, accepted, Live)
<1>1. poller \in Pollers /\ Agrees(poller, fd, accepted, Live)
  BY DEF ServerInv
<1> QED
  BY <1>1, ClosingAgrees DEF RemoveConnectionInLoop

(* A functor bound to a raw this is not stop()'s, and shares nothing.      *)
LEMMA RawFunctor ==
  ASSUME NEW op \in RawOps, NEW k \in Conns
  PROVE  /\ Functor(op, k) \in Functors
         /\ Functor(op, k).con = k
         /\ Functor(op, k).op # "RemoveConnectionInLoop"
         /\ Functor(op, k).op \notin SharedOps
BY DEF Functor, Functors, RawOps, SharedOps

(* The functor that CallFunctor takes.                                     *)
LEMMA CalledFunctor ==
  ASSUME ServerInv, NEW op \in SharedOps \cup RawOps, NEW k \in Conns,
         CallFunctor(op, k)
  PROVE  /\ k \in accepted
         /\ op \in SharedOps => k \in Sharing(pending)
         /\ Len(pending) \in Nat \ {0}
         /\ Len(Tail(pending)) = Len(pending) - 1
         /\ todo' \in 0..Len(Tail(pending))
         /\ QueueOK(Tail(pending), accepted, Visited, deleted)
         /\ Sharing(Tail(pending)) \subseteq Sharing(pending)
         /\ op = "RemoveConnectionInLoop" =>
              /\ k \in Visited /\ k \notin deleted
              /\ QueueOK(Tail(pending), accepted, Visited, deleted \cup {k})
<1>1. /\ QueueOK(pending, accepted, Visited, deleted)
      /\ pending \in Seq(Functors) /\ todo \in 0..Len(pending)
  BY DEF ServerInv, Holders, QueueOK
<1>2. todo > 0 /\ Head(pending) = Functor(op, k) /\ todo' = todo - 1
  BY DEF CallFunctor
<1>3. pending # <<>>
  <2>1. Len(pending) # 0
    <3>1. Len(pending) \in Nat
      BY <1>1, LenProperties
    <3> QED
      BY <1>1, <1>2, <3>1
  <2> QED
    BY <1>1, <2>1, EmptySeq
<1>4. Functor(op, k).op = op /\ Functor(op, k).con = k
  BY DEF Functor
<1>5. /\ Head(pending).con \in accepted
      /\ Head(pending).op \in SharedOps => Head(pending).con \in Sharing(pending)
      /\ Len(pending) \in Nat \ {0} /\ Len(Tail(pending)) = Len(pending) - 1
      /\ QueueOK(Tail(pending), accepted, Visited, deleted)
      /\ Sharing(Tail(pending)) \subseteq Sharing(pending)
      /\ Head(pending).op = "RemoveConnectionInLoop" =>
           /\ Head(pending).con \in Visited /\ Head(pending).con \notin deleted
           /\ QueueOK(Tail(pending), accepted, Visited,
                      deleted \cup {Head(pending).con})
  BY <1>1, <1>3, QueueTail
<1>6. todo' \in 0..Len(Tail(pending))
  BY <1>1, <1>2, <1>5
<1> QED
  BY <1>2, <1>4, <1>5, <1>6

(* A step in which only the poller, the map and the queue change.          *)
LEMMA LoopStepKeeps ==
  ASSUME ServerInv,
         UNCHANGED <<objVars, visited, kept, closing>>,
         connectionMap' \in [Names -> accepted \cup {NoConn}],
         \A n \in Names : connectionMap'[n] # NoConn =>
           connectionMap'[n] = connectionMap[n],
         QueueOK(pending', accepted, Visited, deleted),
         Sharing(pending') \subseteq Sharing(pending),
         todo' \in 0..Len(pending'),
         poller' \in Pollers,
         Agrees(poller', fd, accepted, Live)
  PROVE  ServerInv'
<1>1. UNCHANGED <<accepted, fd, name, visited, kept, closing, deleted>>
  BY DEF objVars
<1>2. Visited' = Visited
  BY <1>1 DEF Visited
<1>3. /\ Sharing(pending) \subseteq Live \cup deleted
      /\ kept \subseteq Live \cup deleted
  BY LiveIsAlive DEF ServerInv
<1>4. /\ kept \subseteq accepted /\ closing \in accepted \cup {NoConn}
      /\ visited \in Seq(Conns) /\ deleted \subseteq Visited
  BY DEF ServerInv, Holders
<1> QED
  BY <1>1, <1>2, <1>3, <1>4, StepKeeps

-----------------------------------------------------------------------------
(* The invariant *)

(* accept() returns a descriptor that no live connection has.              *)
LEMMA FreeFd ==
  ASSUME Objects, Holders, Fds \ OpenFds # {}
  PROVE  LowestFreeFd \in Fds /\ \A k \in Live : fd[k] # LowestFreeFd
<1>1. Fds \ OpenFds \subseteq Nat
  BY ConnsAssumption DEF Fds
<1>2. LowestFreeFd \in Fds \ OpenFds
  BY <1>1, LeastIsMember DEF LowestFreeFd
<1>3. \A k \in Live : fd[k] \in OpenFds
  BY LiveIsAlive DEF OpenFds, Objects
<1> QED
  BY <1>2, <1>3

(* A new connection gets a descriptor of its own and a fresh file.         *)
LEMMA NewConnectionKeeps ==
  ASSUME ServerInv, NEW k \in Conns, NEW n \in Names, HandleNewConnection(k, n)
  PROVE  ServerInv'
<1> DEFINE f == LowestFreeFd
           g == Functor("ConnectionEstablished", k)
<1>1. /\ k \notin accepted
      /\ accepted' = accepted \cup {k}
      /\ fd' = [fd EXCEPT ![k] = f]
      /\ poller' = [poller EXCEPT !.kernel[f] = NotWatched]
      /\ name' = [name EXCEPT ![k] = n]
      /\ connectionMap' = [connectionMap EXCEPT ![n] = k]
      /\ pending' = Append(pending, g)
      /\ UNCHANGED <<deleted, todo, visited, kept, closing>>
  BY DEF HandleNewConnection, CloseFd, mainVars, userVars
<1>2. f \in Fds /\ \A j \in Live : fd[j] # f
  BY FreeFd DEF ServerInv, HandleNewConnection
<1>3. /\ g \in Functors /\ g.con = k /\ g.op # "RemoveConnectionInLoop"
  BY DEF Functor, Functors, SharedOps
<1> HIDE DEF f, g
<1>4. Objects'
  <2>1. accepted' \subseteq Conns
    BY <1>1 DEF ServerInv, Objects
  <2>2. fd' \in [Conns -> Fds \cup {0}] /\ name' \in [Conns -> Names \cup {NoConn}]
    BY <1>1, <1>2 DEF ServerInv, Objects
  <2>3. \A j \in accepted' : fd'[j] \in Fds /\ name'[j] \in Names
    BY <1>1, <1>2 DEF ServerInv, Objects
  <2> QED
    BY <2>1, <2>2, <2>3 DEF Objects
<1>5. Visited' = Visited
  BY <1>1 DEF Visited
<1>6. /\ QueueOK(pending', accepted', Visited, deleted)
      /\ Sharing(pending') \subseteq Sharing(pending) \cup {k}
      /\ Len(pending) \in Nat /\ Len(pending') = Len(pending) + 1
  <2>1. QueueOK(pending, accepted', Visited, deleted)
    BY <1>1 DEF ServerInv, Holders, QueueOK
  <2>2. g.con \in accepted'
    BY <1>1, <1>3
  <2> QED
    BY <1>1, <1>3, <2>1, <2>2, QueueAppend
<1>7. Holders'
  <2>1. connectionMap' \in [Names -> accepted' \cup {NoConn}]
    BY <1>1 DEF ServerInv, Holders
  <2>2. todo' \in 0..Len(pending')
    BY <1>1, <1>6 DEF ServerInv, Holders
  <2> QED
    BY <1>1, <1>5, <1>6, <2>1, <2>2 DEF ServerInv, Holders
<1>8. Live' \subseteq Live \cup {k}
  <2>1. Live' = LiveAmong(accepted', connectionMap', pending', kept, deleted)
    BY <1>1 DEF Live
  <2>2. ASSUME NEW j \in LiveAmong(accepted', connectionMap', pending', kept, deleted),
               j # k
        PROVE  j \in Live
    <3>1. /\ j \in accepted /\ j \notin deleted
          /\ (\E m \in Names : connectionMap'[m] = j) \/ j \in Sharing(pending)
                \/ j \in kept
      BY <1>1, <1>6, <2>2 DEF LiveAmong
    <3>2. \A m \in Names : connectionMap'[m] = j => connectionMap[m] = j
      BY <1>1, <2>2 DEF ServerInv, Holders
    <3> QED
      BY <3>1, <3>2 DEF Live, LiveAmong
  <2> QED
    BY <2>1, <2>2
<1>9. Live \subseteq accepted /\ accepted \subseteq Conns
  BY LiveIsAlive DEF ServerInv, Objects
<1>10. /\ fd'[k] = f
       /\ \A j \in Conns : j # k => fd'[j] = fd[j]
  BY <1>1 DEF ServerInv, Objects
<1>11. OneOwner(fd', Live')
  <2>1. \A i, j \in Live \cup {k} : fd'[i] = fd'[j] => i = j
    BY <1>2, <1>9, <1>10 DEF ServerInv, OneOwner
  <2> QED
    BY <1>8, <2>1 DEF OneOwner
<1>12. /\ poller' \in Pollers
       /\ poller'.channelMap = poller.channelMap
       /\ poller'.index = poller.index
       /\ poller'.kernel = [poller.kernel EXCEPT ![f] = NotWatched]
       /\ poller.kernel \in [Fds -> [channel : Conns \cup {NoConn},
                                     events : {{}, {"read"}}]]
  <2>1. poller \in Pollers
    BY DEF ServerInv
  <2>2. NotWatched \in [channel : Conns \cup {NoConn}, events : {{}, {"read"}}]
    BY DEF NotWatched, Watched, NoConn
  <2> QED
    BY <1>1, <1>2, <2>1, <2>2 DEF Pollers
<1>13. Agrees(poller', fd', accepted', Live')
  <2>1. ASSUME NEW j \in Conns, poller'.index[j] = "added"
        PROVE  j \in accepted' /\ poller'.channelMap[fd'[j]] = j
    <3>1. j \in accepted /\ poller.channelMap[fd[j]] = j
      BY <1>12, <2>1 DEF ServerInv, Agrees
    <3> QED
      BY <1>1, <1>10, <1>12, <3>1
  <2>2. ASSUME NEW h \in Fds, poller'.kernel[h] # NotWatched
        PROVE  /\ poller'.channelMap[h] = poller'.kernel[h].channel
               /\ \A j \in Live' : fd'[j] = h => poller'.channelMap[h] = j
    <3>1. h # f /\ poller'.kernel[h] = poller.kernel[h]
      BY <1>2, <1>12, <2>2
    <3>2. /\ poller.channelMap[h] = poller.kernel[h].channel
          /\ \A j \in Live : fd[j] = h => poller.channelMap[h] = j
      BY <2>2, <3>1 DEF ServerInv, Agrees
    <3>3. \A j \in Live' : fd'[j] = h => j \in Live /\ fd[j] = h
      BY <1>8, <1>9, <1>10, <3>1
    <3> QED
      BY <1>12, <3>1, <3>2, <3>3
  <2> QED
    BY <2>1, <2>2 DEF Agrees
<1> QED
  BY <1>4, <1>7, <1>11, <1>12, <1>13 DEF ServerInv

(* stop()'s functor joins the queue.                                       *)
LEMMA QueueVisit ==
  ASSUME NEW q, NEW acc, NEW vis, NEW del, QueueOK(q, acc, vis, del),
         NEW k \in Conns, k \in acc, k \notin vis, del \subseteq vis
  PROVE  LET a == Append(q, Functor("RemoveConnectionInLoop", k))
         IN  /\ QueueOK(a, acc, vis \cup {k}, del)
             /\ Len(q) \in Nat /\ Len(a) = Len(q) + 1
             /\ Sharing(a) \subseteq Sharing(q) \cup {k}
<1> DEFINE f == Functor("RemoveConnectionInLoop", k)
           a == Append(q, f)
<1>1. f \in Functors /\ f.con = k
  BY DEF Functor, Functors, SharedOps
<1>2. q \in Seq(Functors) /\ Len(q) \in Nat
  BY LenProperties DEF QueueOK
<1> HIDE DEF f
<1>3. /\ a \in Seq(Functors) /\ Len(a) = Len(q) + 1
      /\ \A i \in 1..Len(q) : a[i] = q[i]
      /\ a[Len(q) + 1] = f
  BY <1>1, <1>2, AppendProperties
<1> HIDE DEF a
<1>4. \A i \in 1..Len(a) :
        (i \in 1..Len(q) /\ a[i] = q[i]) \/ (i = Len(q) + 1 /\ a[i] = f)
  BY <1>2, <1>3
<1>5. \A i \in 1..Len(a) : a[i].con \in acc
  BY <1>1, <1>4 DEF QueueOK
<1>6. ASSUME NEW i \in 1..Len(a), a[i].op = "RemoveConnectionInLoop"
      PROVE  /\ a[i].con \in vis \cup {k} /\ a[i].con \notin del
             /\ \A j \in 1..Len(a) : a[j] = a[i] => j = i
  <2>1. \A j \in 1..Len(q) : q[j] # f
    BY <1>1 DEF QueueOK, f, Functor
  <2>2. CASE i \in 1..Len(q) /\ a[i] = q[i]
    <3>1. /\ q[i].con \in vis /\ q[i].con \notin del
          /\ \A j \in 1..Len(q) : q[j] = q[i] => j = i
      BY <1>6, <2>2 DEF QueueOK
    <3> QED
      BY <1>4, <2>1, <2>2, <3>1
  <2>3. CASE i = Len(q) + 1 /\ a[i] = f
    BY <1>1, <1>4, <2>1, <2>3
  <2> QED
    BY <1>4, <2>2, <2>3
<1>7. Sharing(a) \subseteq Sharing(q) \cup {k}
  BY <1>1, <1>4 DEF Sharing
<1> QED
  BY <1>2, <1>3, <1>5, <1>6, <1>7 DEF QueueOK, a, f

(* stop() passes one connection more.                                      *)
LEMMA VisitsGrow ==
  ASSUME visited \in Seq(Conns), NEW k \in Conns, visited' = <<k>> \o visited
  PROVE  visited' \in Seq(Conns) /\ Visited' = Visited \cup {k}
<1>0. Len(visited) \in Nat /\ DOMAIN visited = 1..Len(visited)
  BY LenProperties
<1> DEFINE u == <<k>>
           v == u \o visited
<1>1. u \in Seq(Conns) /\ Len(u) = 1 /\ u[1] = k
  OBVIOUS
<1> HIDE DEF u
<1>2. /\ v \in Seq(Conns) /\ Len(v) = 1 + Len(visited)
      /\ \A i \in 1..(1 + Len(visited)) :
           v[i] = IF i <= 1 THEN u[i] ELSE visited[i - 1]
  <2>1. /\ u \o visited \in Seq(Conns)
        /\ Len(u \o visited) = Len(u) + Len(visited)
        /\ \A i \in 1..(Len(u) + Len(visited)) : (u \o visited)[i] =
             IF i <= Len(u) THEN u[i] ELSE visited[i - Len(u)]
    BY <1>0, <1>1, ConcatProperties
  <2> QED
    BY <1>1, <2>1
<1>3. visited' = v
  BY DEF u
<1> HIDE DEF v
<1>4. Visited' = {v[i] : i \in 1..Len(v)}
  BY <1>3 DEF Visited
<1>5. \A i \in 1..Len(v) : v[i] \in Visited \cup {k}
  <2>1. ASSUME NEW i \in 1..Len(v) PROVE v[i] \in Visited \cup {k}
    <3>1. CASE i = 1
      BY <1>0, <1>1, <1>2, <3>1
    <3>2. CASE i # 1
      <4>1. i - 1 \in 1..Len(visited) /\ v[i] = visited[i - 1]
        BY <1>0, <1>2, <3>2
      <4> QED
        BY <4>1 DEF Visited
    <3> QED
      BY <3>1, <3>2
  <2> QED
    BY <2>1
<1>6. k \in Visited' /\ Visited \subseteq Visited'
  <2>1. 1 \in 1..Len(v) /\ v[1] = k
    BY <1>0, <1>1, <1>2
  <2>2. ASSUME NEW i \in 1..Len(visited)
        PROVE  i + 1 \in 1..Len(v) /\ v[i + 1] = visited[i]
    <3>1. i + 1 \in 1..(1 + Len(visited)) /\ ~(i + 1 <= 1) /\ i + 1 - 1 = i
      BY <1>0
    <3> QED
      BY <1>2, <3>1
  <2> QED
    BY <1>4, <2>1, <2>2 DEF Visited
<1> QED
  BY <1>2, <1>3, <1>4, <1>5, <1>6

(* stop() visits a connection that is alive, and only once.                *)
LEMMA StopVisitsKeeps ==
  ASSUME ServerInv, NEW k \in Conns, StopVisits(k)
  PROVE  ServerInv'
<1> DEFINE a == Append(pending, Functor("RemoveConnectionInLoop", k))
<1>1. /\ pending' = a /\ visited' = <<k>> \o visited
      /\ UNCHANGED <<poller, accepted, fd, name, deleted, connectionMap, todo,
                     kept, closing>>
      /\ InMap(k) /\ \A i \in DOMAIN visited : visited[i] # k
  BY DEF StopVisits, objVars, userVars
<1>2. /\ visited \in Seq(Conns) /\ Len(visited) \in Nat
      /\ DOMAIN visited = 1..Len(visited)
  BY LenProperties DEF ServerInv, Holders
<1>3. visited' \in Seq(Conns) /\ Visited' = Visited \cup {k}
  BY <1>1, <1>2, VisitsGrow
<1>4. k \notin Visited
  BY <1>1, <1>2 DEF Visited
<1>5. deleted \subseteq Visited /\ k \in accepted /\ k \in Live
  <2>1. deleted \subseteq Visited
    BY DEF ServerInv, Holders
  <2>2. k # NoConn
    BY ConnsAssumption DEF NoConn
  <2>3. k \in Live \cup deleted
    <3>1. PICK n \in Names : connectionMap[n] = k
      BY <1>1 DEF InMap
    <3>2. \A m \in Names : connectionMap[m] # NoConn =>
            connectionMap[m] \in Live \cup deleted
      BY LiveIsAlive DEF ServerInv
    <3> QED
      BY <2>2, <3>1, <3>2
  <2>4. k \in Live
    BY <1>4, <2>1, <2>3
  <2> QED
    BY <2>1, <2>4, LiveIsAlive DEF ServerInv
<1>6. /\ QueueOK(a, accepted, Visited \cup {k}, deleted)
      /\ Len(pending) \in Nat /\ Len(a) = Len(pending) + 1
      /\ Sharing(a) \subseteq Sharing(pending) \cup {k}
  <2>1. QueueOK(pending, accepted, Visited, deleted)
    BY DEF ServerInv, Holders
  <2> QED
    BY <1>4, <1>5, <2>1, QueueVisit
<1> HIDE DEF a
<1>7. /\ connectionMap \in [Names -> accepted \cup {NoConn}]
      /\ todo \in 0..Len(pending)
      /\ closing \in accepted \cup {NoConn}
      /\ kept \subseteq accepted
      /\ poller \in Pollers
      /\ Agrees(poller, fd, accepted, Live)
  BY DEF ServerInv, Holders
<1>8. /\ Sharing(pending) \subseteq Live \cup deleted
      /\ kept \subseteq Live \cup deleted
  BY LiveIsAlive DEF ServerInv
<1>9. todo' \in 0..Len(pending')
  BY <1>1, <1>6, <1>7
<1>10. /\ QueueOK(pending', accepted, Visited', deleted')
       /\ Sharing(pending') \subseteq Live \cup deleted
       /\ deleted' \subseteq Visited'
  BY <1>1, <1>3, <1>5, <1>6, <1>8
<1> QED
  BY <1>1, <1>3, <1>7, <1>8, <1>9, <1>10, StepKeeps

(* The user's read callback keeps the pointer and calls ForceClose, on a   *)
(* connection that is alive.                                               *)
LEMMA ReadMessageKeeps ==
  ASSUME ServerInv, ReadMessage
  PROVE  ServerInv'
<1> DEFINE k == current.con
           f == Functor("ForceCloseInLoop", k)
<1>1. /\ Alive(k) /\ k \in accepted
      /\ kept' \in {kept, kept \cup ({k} \cap Kept)}
      /\ UNCHANGED <<poller, accepted, fd, name, deleted, connectionMap, todo,
                     visited, closing>>
  BY DEF ReadMessage, NextCall, mainVars, Alive
<1>2. k \in Live /\ k \in Conns
  BY <1>1, LiveIsAlive DEF ServerInv, Objects
<1>3. /\ f \in Functors /\ f.con = k /\ f.op \notin SharedOps
  BY <1>2, RawFunctor DEF RawOps
<1>4. PICK n \in Nat : pending' = Repeated(pending, f, n)
  <2>1. PICK n \in 0..MaxForceCloses : ForceCloses(k, n)
    BY DEF ReadMessage
  <2>2. pending' = Repeated(pending, f, n)
    BY <2>1 DEF ForceCloses, Repeated
  <2> QED
    BY <2>1, <2>2, ConnsAssumption
<1> HIDE DEF f
<1>5. /\ connectionMap \in [Names -> accepted \cup {NoConn}]
      /\ QueueOK(pending, accepted, Visited, deleted)
      /\ todo \in 0..Len(pending)
      /\ closing \in accepted \cup {NoConn}
      /\ kept \subseteq accepted
      /\ visited \in Seq(Conns) /\ deleted \subseteq Visited
      /\ poller \in Pollers
      /\ Agrees(poller, fd, accepted, Live)
  BY DEF ServerInv, Holders
<1>6. /\ QueueOK(pending', accepted, Visited, deleted)
      /\ Len(pending) \in Nat /\ Len(pending') = Len(pending) + n
      /\ Sharing(pending') \subseteq Sharing(pending)
  BY <1>1, <1>3, <1>4, <1>5, QueueConcat
<1>7. /\ Sharing(pending) \subseteq Live \cup deleted
      /\ kept \subseteq Live \cup deleted
  BY LiveIsAlive DEF ServerInv
<1>8. Visited' = Visited
  BY <1>1 DEF Visited
<1>9. todo' \in 0..Len(pending')
  BY <1>1, <1>5, <1>6
<1>10. /\ QueueOK(pending', accepted, Visited', deleted')
       /\ Sharing(pending') \subseteq Live \cup deleted
  BY <1>1, <1>6, <1>7, <1>8
<1>11. kept' \subseteq Live \cup deleted /\ kept' \subseteq accepted
  BY <1>1, <1>2, <1>5, <1>7
<1> HIDE DEF k
<1> QED
  BY <1>1, <1>5, <1>8, <1>9, <1>10, <1>11, StepKeeps

(* stop()'s functor finds its connection alive and is the last one for it. *)
LEMMA RemoveFunctorKeeps ==
  ASSUME ServerInv, NEW k \in Conns, CallRemoveConnectionInLoop(k)
  PROVE  ServerInv'
<1>1. /\ CallFunctor("RemoveConnectionInLoop", k)
      /\ pending' = Tail(pending) /\ RemoveConnectionInLoop(k)
  BY DEF CallRemoveConnectionInLoop
<1>2. UNCHANGED <<accepted, fd, name, visited, kept, closing>>
  BY <1>1 DEF CallFunctor, mainVars, userVars
<1>3. /\ k \in accepted /\ k \in Sharing(pending)
      /\ todo' \in 0..Len(Tail(pending))
      /\ Sharing(Tail(pending)) \subseteq Sharing(pending)
      /\ k \in Visited /\ k \notin deleted
      /\ QueueOK(Tail(pending), accepted, Visited, deleted)
      /\ QueueOK(Tail(pending), accepted, Visited, deleted \cup {k})
  BY <1>1, CalledFunctor DEF SharedOps
<1>4. /\ Sharing(pending) \subseteq Live \cup deleted
      /\ kept \subseteq Live \cup deleted
  BY LiveIsAlive DEF ServerInv
<1>5. k \in Live
  BY <1>3, <1>4
<1>6. /\ connectionMap' = ErasedFromMap(k) \/ UNCHANGED connectionMap
      /\ deleted' = deleted \/ deleted' = deleted \cup {k}
      /\ poller' \in Pollers
      /\ Agrees(poller', fd, accepted, Live)
  BY <1>1, <1>5, RemoveConnectionAgrees
<1>7. /\ connectionMap' \in [Names -> accepted \cup {NoConn}]
      /\ \A n \in Names : connectionMap'[n] # NoConn =>
           connectionMap'[n] = connectionMap[n]
  BY <1>3, <1>6, ErasedMap
<1>8. Visited' = Visited
  BY <1>2 DEF Visited
<1>9. /\ kept \subseteq accepted /\ closing \in accepted \cup {NoConn}
      /\ visited \in Seq(Conns) /\ deleted \subseteq Visited
  BY DEF ServerInv, Holders
<1>10. /\ QueueOK(pending', accepted, Visited', deleted')
       /\ Sharing(pending') \subseteq Live \cup deleted
       /\ todo' \in 0..Len(pending')
       /\ deleted \subseteq deleted' /\ deleted' \subseteq Visited'
  BY <1>1, <1>3, <1>4, <1>6, <1>8, <1>9
<1> QED
  BY <1>2, <1>4, <1>6, <1>7, <1>9, <1>10, StepKeeps

(* The call of a functor that destroys nothing, with what it queues.       *)
LEMMA CallAndAppend ==
  ASSUME ServerInv, NEW op \in SharedOps \cup RawOps, NEW k \in Conns,
         CallFunctor(op, k), UNCHANGED deleted,
         \/ pending' = Tail(pending)
         \/ pending' = Append(Tail(pending), Functor("ConnectionEstablishedInLoop", k)),
         connectionMap' = ErasedFromMap(k) \/ UNCHANGED connectionMap,
         poller' \in Pollers,
         Agrees(poller', fd, accepted, Live)
  PROVE  ServerInv'
<1> DEFINE t == Tail(pending)
           f == Functor("ConnectionEstablishedInLoop", k)
<1>1. UNCHANGED <<objVars, visited, kept, closing>>
  BY DEF CallFunctor, mainVars, userVars, objVars
<1>2. /\ k \in accepted /\ Len(t) \in Nat
      /\ todo' \in 0..Len(t)
      /\ QueueOK(t, accepted, Visited, deleted)
      /\ Sharing(t) \subseteq Sharing(pending)
  <2>1. /\ k \in accepted /\ Len(pending) \in Nat \ {0}
        /\ Len(t) = Len(pending) - 1 /\ todo' \in 0..Len(t)
        /\ QueueOK(t, accepted, Visited, deleted)
        /\ Sharing(t) \subseteq Sharing(pending)
    BY CalledFunctor, Zenon
  <2> HIDE DEF t
  <2>2. Len(t) \in Nat
    BY <2>1
  <2> QED
    BY <2>1, <2>2
<1>3. /\ f \in Functors /\ f.con = k /\ f.op # "RemoveConnectionInLoop"
      /\ f.op \notin SharedOps
  BY RawFunctor DEF RawOps
<1>4. pending' = t \/ pending' = Append(t, f)
  OBVIOUS
<1> HIDE DEF t, f
<1>5. /\ QueueOK(Append(t, f), accepted, Visited, deleted)
      /\ Len(Append(t, f)) = Len(t) + 1
      /\ Sharing(Append(t, f)) \subseteq Sharing(t)
  BY <1>2, <1>3, QueueAppend
<1>6. /\ QueueOK(pending', accepted, Visited, deleted)
      /\ Sharing(pending') \subseteq Sharing(pending)
      /\ todo' \in 0..Len(pending')
  <2>1. CASE pending' = t
    BY <1>2, <2>1
  <2>2. CASE pending' = Append(t, f)
    <3>1. todo' \in 0..(Len(t) + 1)
      BY <1>2
    <3>2. todo' \in 0..Len(pending')
      BY <1>5, <2>2, <3>1
    <3> QED
      BY <1>2, <1>5, <2>2, <3>2
  <2> QED
    BY <1>4, <2>1, <2>2
<1>7. /\ connectionMap' \in [Names -> accepted \cup {NoConn}]
      /\ \A n \in Names : connectionMap'[n] # NoConn =>
           connectionMap'[n] = connectionMap[n]
  BY <1>2, ErasedMap
<1> QED
  BY <1>1, <1>6, <1>7, LoopStepKeeps

(* HandleClose by a callback of the channel.                               *)
LEMMA CloseCallbackKeeps ==
  ASSUME ServerInv, NEW k, Alive(k), HandleClose(k),
         UNCHANGED <<objVars, visited, kept, closing, pending, todo>>
  PROVE  ServerInv'
<1>1. k \in Live /\ k \in accepted
  <2>1. k \in Conns
    BY DEF Alive, ServerInv, Objects
  <2> QED
    BY <2>1, LiveIsAlive DEF ServerInv
<1>2. /\ connectionMap' = ErasedFromMap(k) \/ UNCHANGED connectionMap
      /\ poller' \in Pollers
      /\ Agrees(poller', fd, accepted, Live)
  BY <1>1, HandleCloseAgrees
<1>3. /\ connectionMap' \in [Names -> accepted \cup {NoConn}]
      /\ \A n \in Names : connectionMap'[n] # NoConn =>
           connectionMap'[n] = connectionMap[n]
  BY <1>1, <1>2, ErasedMap
<1>4. /\ QueueOK(pending', accepted, Visited, deleted)
      /\ Sharing(pending') \subseteq Sharing(pending)
      /\ todo' \in 0..Len(pending')
  BY DEF ServerInv, Holders
<1> QED
  BY <1>2, <1>3, <1>4, LoopStepKeeps

(* The steps of the I/O thread.                                            *)
LEMMA IoStepKeeps ==
  ASSUME ServerInv, IoStep
  PROVE  ServerInv'
<1>0. /\ todo \in 0..Len(pending) /\ closing \in accepted \cup {NoConn}
      /\ Len(pending) \in Nat
      /\ poller \in Pollers /\ Agrees(poller, fd, accepted, Live)
  BY LenProperties DEF ServerInv, Holders, QueueOK
<1>1. CASE Poll
  BY <1>0, <1>1, ObservingKeeps DEF Poll, mainVars, userVars
<1>2. ASSUME NEW e \in active, HandleEvent(e) PROVE ServerInv'
  BY <1>0, <1>2, ObservingKeeps DEF HandleEvent, mainVars, userVars
<1>3. CASE CloseOrErrorCallback
  BY <1>3, CloseCallbackKeeps
  DEF CloseOrErrorCallback, NextCall, mainVars, userVars, objVars
<1>4. CASE ReadEnd
  <2>1. /\ Alive(current.con)
        /\ UNCHANGED <<objVars, visited, kept, closing, pending, todo>>
    BY <1>4 DEF ReadEnd, NextCall, mainVars, userVars, objVars
  <2>2. \/ UNCHANGED <<connectionMap, poller>>
        \/ HandleClose(current.con)
    BY <1>4 DEF ReadEnd
  <2>3. CASE UNCHANGED <<connectionMap, poller>>
    BY <1>0, <2>1, <2>3, ObservingKeeps
  <2> QED
    BY <2>1, <2>2, <2>3, CloseCallbackKeeps
<1>5. CASE ReadMessage
  BY <1>5, ReadMessageKeeps
<1>6. CASE CallbackOnDestroyed
  BY <1>0, <1>6, ObservingKeeps
  DEF CallbackOnDestroyed, NextCall, mainVars, userVars, objVars
<1>7. CASE EventHandled
  BY <1>0, <1>7, ObservingKeeps DEF EventHandled, mainVars, userVars
<1>8. CASE SwapFunctors
  BY <1>0, <1>8, ObservingKeeps DEF SwapFunctors, mainVars, userVars
<1>9. CASE FunctorsDone
  BY <1>0, <1>9, ObservingKeeps DEF FunctorsDone, mainVars, userVars
<1>10. ASSUME NEW k \in Conns, CallEstablished(k) PROVE ServerInv'
  BY <1>0, <1>10, CallAndAppend DEF CallEstablished, SharedOps
<1>11. ASSUME NEW k \in Conns, CallEstablishedInLoop(k) PROVE ServerInv'
  <2>1. /\ CallFunctor("ConnectionEstablishedInLoop", k)
        /\ pending' = Tail(pending) /\ Alive(k)
        /\ UNCHANGED <<connectionMap, deleted>>
        /\ \/ poller' = UpdateChannel(poller, k, fd[k], {"read"})
           \/ poller' = poller
    BY <1>11 DEF CallEstablishedInLoop
  <2>2. k \in Live /\ Live \in SUBSET accepted
    BY <2>1, LiveIsAlive DEF ServerInv
  <2>3. poller' \in Pollers /\ Agrees(poller', fd, accepted, Live)
    BY <1>0, <2>1, <2>2, UpdateAgrees DEF ServerInv
  <2> QED
    BY <2>1, <2>3, CallAndAppend DEF RawOps
<1>12. ASSUME NEW k \in Conns, CallForceCloseInLoop(k) PROVE ServerInv'
  <2>1. /\ CallFunctor("ForceCloseInLoop", k)
        /\ pending' = Tail(pending) /\ Alive(k)
        /\ UNCHANGED deleted
        /\ HandleClose(k) \/ UNCHANGED <<connectionMap, poller>>
    BY <1>12 DEF CallForceCloseInLoop
  <2>2. k \in Live
    BY <2>1, LiveIsAlive DEF ServerInv
  <2>3. /\ connectionMap' = ErasedFromMap(k) \/ UNCHANGED connectionMap
        /\ poller' \in Pollers
        /\ Agrees(poller', fd, accepted, Live)
    BY <1>0, <2>1, <2>2, HandleCloseAgrees
  <2> QED
    BY <2>1, <2>3, CallAndAppend DEF RawOps
<1>13. ASSUME NEW k \in Conns, CallRemoveConnectionInLoop(k) PROVE ServerInv'
  BY <1>13, RemoveFunctorKeeps
<1>14. ASSUME NEW k \in Conns, NEW op \in RawOps, CallOnDestroyed(op, k)
       PROVE  ServerInv'
  BY <1>0, <1>14, CallAndAppend DEF CallOnDestroyed
<1> QED
  BY <1>1, <1>2, <1>3, <1>4, <1>5, <1>6, <1>7, <1>8, <1>9, <1>10, <1>11, <1>12,
     <1>13, <1>14 DEF IoStep

(* The user's append of a ForceCloseInLoop, outside the loop.              *)
LEMMA LateForceCloseQueuesKeeps ==
  ASSUME ServerInv, LateForceCloseQueues
  PROVE  ServerInv'
<1> DEFINE f == Functor("ForceCloseInLoop", closing)
<1>1. /\ pending' = Append(pending, f) /\ closing' = NoConn /\ closing # NoConn
      /\ UNCHANGED <<poller, objVars, connectionMap, todo, visited, kept>>
  BY DEF LateForceCloseQueues, mainVars
<1>2. /\ connectionMap \in [Names -> accepted \cup {NoConn}]
      /\ QueueOK(pending, accepted, Visited, deleted)
      /\ todo \in 0..Len(pending)
      /\ closing \in accepted /\ closing \in Conns
      /\ kept \subseteq accepted
      /\ visited \in Seq(Conns) /\ deleted \subseteq Visited
      /\ poller \in Pollers
      /\ Agrees(poller, fd, accepted, Live)
  BY <1>1 DEF ServerInv, Holders, Objects
<1>3. /\ f \in Functors /\ f.con = closing
      /\ f.op # "RemoveConnectionInLoop" /\ f.op \notin SharedOps
  BY <1>2, RawFunctor DEF RawOps
<1> HIDE DEF f
<1>4. /\ QueueOK(Append(pending, f), accepted, Visited, deleted)
      /\ Len(pending) \in Nat /\ Len(Append(pending, f)) = Len(pending) + 1
      /\ Sharing(Append(pending, f)) \subseteq Sharing(pending)
  BY <1>2, <1>3, QueueAppend
<1>5. /\ Sharing(pending) \subseteq Live \cup deleted
      /\ kept \subseteq Live \cup deleted
  BY LiveIsAlive DEF ServerInv
<1>6. Visited' = Visited
  BY <1>1 DEF Visited
<1>7. /\ QueueOK(pending', accepted, Visited', deleted')
      /\ Sharing(pending') \subseteq Live \cup deleted
      /\ todo' \in 0..Len(pending')
  BY <1>1, <1>2, <1>4, <1>5, <1>6 DEF objVars
<1>8. UNCHANGED <<accepted, fd, name, deleted>>
  BY <1>1 DEF objVars
<1> QED
  BY <1>1, <1>2, <1>5, <1>6, <1>7, <1>8, StepKeeps

(* The user lets a pointer go.                                             *)
LEMMA UserDropsKeeps ==
  ASSUME ServerInv, NEW k \in Conns, UserDrops(k)
  PROVE  ServerInv'
<1>1. /\ kept' = kept \ {k}
      /\ UNCHANGED <<poller, accepted, fd, name, deleted, connectionMap,
                     pending, todo, visited, closing>>
  BY DEF UserDrops, objVars, mainVars
<1>2. /\ connectionMap \in [Names -> accepted \cup {NoConn}]
      /\ QueueOK(pending, accepted, Visited, deleted)
      /\ todo \in 0..Len(pending)
      /\ closing \in accepted \cup {NoConn}
      /\ kept \subseteq accepted
      /\ visited \in Seq(Conns) /\ deleted \subseteq Visited
      /\ poller \in Pollers
      /\ Agrees(poller, fd, accepted, Live)
  BY DEF ServerInv, Holders
<1>3. /\ Sharing(pending) \subseteq Live \cup deleted
      /\ kept \subseteq Live \cup deleted
  BY LiveIsAlive DEF ServerInv
<1>4. Visited' = Visited
  BY <1>1 DEF Visited
<1>5. kept' \subseteq Live \cup deleted /\ kept' \subseteq accepted
  BY <1>1, <1>2, <1>3
<1> QED
  BY <1>1, <1>2, <1>3, <1>4, <1>5, StepKeeps

(* At the start nothing is alive and nothing is watched.                   *)
LEMMA InitHolds ==
  ASSUME Init
  PROVE  ServerInv
<1>1. Objects
  BY DEF Init, Objects
<1>2. /\ pending = <<>> /\ <<>> \in Seq(Functors) /\ Len(pending) = 0
      /\ visited = <<>> /\ <<>> \in Seq(Conns)
  BY EmptySeq DEF Init
<1>3. Holders
  BY <1>2 DEF Init, Holders, QueueOK
<1>4. poller \in Pollers
  BY DEF Init, NewPoller, Pollers, NotWatched, Watched, NoConn
<1>5. Agrees(poller, fd, accepted, Live)
  BY DEF Init, NewPoller, Agrees
<1>6. OneOwner(fd, Live)
  BY DEF Init, OneOwner, Live, LiveAmong
<1> QED
  BY <1>1, <1>3, <1>4, <1>5, <1>6 DEF ServerInv

(* Every step of TcpServer.tla keeps the invariant.                        *)
THEOREM ServerInvariant == Spec => []ServerInv
<1>1. Init => ServerInv
  BY InitHolds
<1>2. ServerInv /\ [Next]_vars => ServerInv'
  <2> SUFFICES ASSUME ServerInv, [Next]_vars PROVE ServerInv'
    OBVIOUS
  <2>0. /\ todo \in 0..Len(pending) /\ closing \in accepted \cup {NoConn}
        /\ kept \subseteq accepted
    BY DEF ServerInv, Holders
  <2>1. CASE UNCHANGED vars
    BY <2>0, <2>1, ObservingKeeps DEF vars, objVars
  <2>2. CASE IoStep
    BY <2>2, IoStepKeeps
  <2>3. ASSUME NEW k \in Conns, NEW n \in Names, HandleNewConnection(k, n)
        PROVE  ServerInv'
    BY <2>3, NewConnectionKeeps
  <2>4. CASE StopBegins
    BY <2>0, <2>4, ObservingKeeps DEF StopBegins, userVars
  <2>5. ASSUME NEW k \in Conns, StopVisits(k) PROVE ServerInv'
    BY <2>5, StopVisitsKeeps
  <2>6. CASE StopEnds
    BY <2>0, <2>6, ObservingKeeps DEF StopEnds, userVars
  <2>7. ASSUME NEW k \in Conns, LateForceClose(k) PROVE ServerInv'
    BY <2>0, <2>7, ObservingKeeps DEF LateForceClose, mainVars
  <2>8. ASSUME NEW k \in Conns, UserDrops(k) PROVE ServerInv'
    BY <2>8, UserDropsKeeps
  <2>9. CASE LateForceCloseQueues
    BY <2>9, LateForceCloseQueuesKeeps
  <2>10. ASSUME NEW k \in Conns, PeerSends(k) PROVE ServerInv'
    BY <2>0, <2>10, ObservingKeeps DEF PeerSends, mainVars, userVars
  <2>11. ASSUME NEW k \in Conns, PeerLeaves(k) PROVE ServerInv'
    BY <2>0, <2>11, ObservingKeeps DEF PeerLeaves, mainVars, userVars
  <2> QED
    BY <2>1, <2>2, <2>3, <2>4, <2>5, <2>6, <2>7, <2>8, <2>9, <2>10, <2>11
    DEF Next, MainStep, UserStep, PeerStep
<1> QED
  BY <1>1, <1>2, PTL DEF Spec

(* Whatever the user and the peers do, what the kernel watches for a       *)
(* descriptor is what the poller's table has for it.                       *)
THEOREM KernelAgreesWithTable == Spec => []KernelMatchesTable
<1>1. ServerInv => KernelMatchesTable
  BY DEF ServerInv, Agrees, KernelMatchesTable
<1> QED
  BY <1>1, ServerInvariant, PTL

-----------------------------------------------------------------------------
(* Types *)

(* The types of the variables that ServerInv does not speak of.            *)
RestTyped ==
  /\ peer \in [Conns -> {"none", "open", "closed", "reset"}]
  /\ data \in [Conns -> 0..MaxData]
  /\ status \in [Conns -> Statuses]
  /\ ioPc \in {"poll", "events", "handle", "functors"}
  /\ \A e \in active : e.con \in Conns /\ e.events \subseteq {"IN", "ERR", "HUP"}
  /\ current.con \in Conns \cup {NoConn}
  /\ current = [con |-> current.con, calls |-> current.calls]
  /\ mainPc \in {"serve", "stop", "stopped"}
  /\ kept \subseteq Kept
  /\ closing \in LateClosed \cup {NoConn}
  /\ lateClosed \subseteq LateClosed
  /\ ups \in [Conns -> Nat] /\ downs \in [Conns -> Nat]
  /\ touched \subseteq {"HandleEvent", "callback", "stop",
                       "ConnectionDestoryInLoop"}
  /\ orphaned \subseteq Functors
  /\ closedAgain \subseteq Conns
  /\ lost \subseteq Conns

(* What the map has under a constructed connection's name is a connection. *)
LEMMA DisplacedTyped ==
  ASSUME ServerInv, NEW n \in Names, NEW k
  PROVE  Displaced(n, k) \subseteq accepted /\ Displaced(n, k) \subseteq Conns
<1>1. connectionMap[n] \in accepted \cup {NoConn} /\ accepted \subseteq Conns
  BY DEF ServerInv, Holders, Objects
<1> QED
  BY <1>1 DEF Displaced

(* HandleClose keeps the types of what it writes.                          *)
LEMMA HandleCloseTyped ==
  ASSUME ServerInv, RestTyped, NEW k \in Conns, k \in accepted, HandleClose(k)
  PROVE  /\ status' \in [Conns -> Statuses] /\ downs' \in [Conns -> Nat]
         /\ lost' \subseteq Conns
<1>1. \A s \in Statuses : [status EXCEPT ![k] = s] \in [Conns -> Statuses]
  BY DEF RestTyped
<1>2. [downs EXCEPT ![k] = @ + 1] \in [Conns -> Nat]
  BY DEF RestTyped
<1>3. Displaced(name[k], k) \subseteq Conns
  BY DisplacedTyped DEF ServerInv, Objects
<1> QED
  BY <1>1, <1>2, <1>3 DEF HandleClose, RestTyped, Statuses

(* The handlers of the I/O thread keep the types.                          *)
LEMMA HandlersTyped ==
  ASSUME ServerInv, RestTyped,
         CloseOrErrorCallback \/ ReadEnd \/ ReadMessage \/ CallbackOnDestroyed
  PROVE  RestTyped'
<1> DEFINE c == Tail(current.calls)
<1>1. /\ ioPc' = "handle" /\ active' = active /\ mainPc' = mainPc
      /\ current' = [current EXCEPT !.calls = c]
  BY DEF CloseOrErrorCallback, ReadEnd, ReadMessage, CallbackOnDestroyed,
         NextCall, mainVars
<1> HIDE DEF c
<1>2. /\ current'.con \in Conns \cup {NoConn}
      /\ current' = [con |-> current'.con, calls |-> current'.calls]
  BY <1>1 DEF RestTyped
<1>3. /\ peer' = peer /\ closing' = closing /\ lateClosed' = lateClosed
      /\ ups' = ups
      /\ touched' \subseteq touched \cup {"HandleEvent", "callback"}
  BY DEF CloseOrErrorCallback, ReadEnd, ReadMessage, CallbackOnDestroyed,
         kernelVars, userVars
<1>4. data' = data \/ data' = [data EXCEPT ![current.con] = 0]
  BY DEF CloseOrErrorCallback, ReadEnd, ReadMessage, CallbackOnDestroyed,
         kernelVars
<1>5. data' \in [Conns -> 0..MaxData]
  BY <1>4, ConnsAssumption DEF RestTyped
<1>6. kept' \subseteq Kept
  BY DEF CloseOrErrorCallback, ReadEnd, ReadMessage, CallbackOnDestroyed,
         userVars, RestTyped
<1>7. /\ status' \in [Conns -> Statuses] /\ downs' \in [Conns -> Nat]
      /\ lost' \subseteq Conns
  <2>1. \/ UNCHANGED <<status, downs, lost>>
        \/ /\ HandleClose(current.con)
           /\ current.con \in Conns /\ current.con \in accepted
        \/ /\ status' = [status EXCEPT ![current.con] = "Disconnecting"]
           /\ UNCHANGED <<downs, lost>>
    BY DEF CloseOrErrorCallback, ReadEnd, ReadMessage, CallbackOnDestroyed,
           ForceCloses, Alive, ServerInv, Objects, history
  <2> QED
    BY <2>1, HandleCloseTyped DEF RestTyped, Statuses
<1>8. ioPc' \in {"poll", "events", "handle", "functors"}
  BY <1>1
<1>9. touched' \subseteq {"HandleEvent", "callback", "stop",
                         "ConnectionDestoryInLoop"}
  BY <1>3 DEF RestTyped
<1>10. orphaned' \subseteq Functors /\ closedAgain' \subseteq Conns
  <2>1. orphaned' = orphaned
    BY DEF CloseOrErrorCallback, ReadEnd, ReadMessage, CallbackOnDestroyed,
           history
  <2>2. \/ closedAgain' = closedAgain
        \/ closedAgain' = closedAgain \cup {current.con} /\ current.con \in Conns
    BY DEF CloseOrErrorCallback, ReadEnd, ReadMessage, CallbackOnDestroyed,
           ForceCloses, Alive, ServerInv, Objects, history
  <2> QED
    BY <2>1, <2>2 DEF RestTyped
<1> QED
  BY <1>1, <1>2, <1>3, <1>5, <1>6, <1>7, <1>8, <1>9, <1>10 DEF RestTyped

(* The functors keep the types.                                            *)
LEMMA FunctorsTyped ==
  ASSUME ServerInv, RestTyped, NEW k \in Conns,
         \/ CallEstablished(k) \/ CallEstablishedInLoop(k)
         \/ CallForceCloseInLoop(k) \/ CallRemoveConnectionInLoop(k)
         \/ \E op \in RawOps : CallOnDestroyed(op, k)
  PROVE  RestTyped'
<1>1. UNCHANGED <<peer, data, ioPc, active, current, mainPc, kept, closing,
                  lateClosed>>
  BY DEF CallEstablished, CallEstablishedInLoop, CallForceCloseInLoop,
         CallRemoveConnectionInLoop, CallOnDestroyed, CallFunctor, kernelVars,
         ioVars, mainVars, userVars
<1>2. ups' = ups \/ ups' = [ups EXCEPT ![k] = @ + 1]
  BY DEF CallEstablished, CallEstablishedInLoop, CallForceCloseInLoop,
         CallRemoveConnectionInLoop, CallOnDestroyed
<1>3. \/ touched' = touched
      \/ touched' = touched \cup {"ConnectionDestoryInLoop"}
  BY DEF CallEstablished, CallEstablishedInLoop, CallForceCloseInLoop,
         CallRemoveConnectionInLoop, CallOnDestroyed, RemoveConnectionInLoop
<1>4. k \in accepted
  <2>1. \E op \in SharedOps \cup RawOps : CallFunctor(op, k)
    BY DEF CallEstablished, CallEstablishedInLoop, CallForceCloseInLoop,
           CallRemoveConnectionInLoop, CallOnDestroyed, SharedOps, RawOps
  <2> QED
    BY <2>1, CalledFunctor
<1>5. /\ status' \in [Conns -> Statuses] /\ downs' \in [Conns -> Nat]
      /\ lost' \subseteq Conns
  <2>1. \/ UNCHANGED <<status, downs, lost>>
        \/ HandleClose(k)
        \/ /\ status' = [status EXCEPT ![k] = "Connected"]
           /\ UNCHANGED <<downs, lost>>
        \/ /\ \/ UNCHANGED <<status, downs>>
              \/ /\ status' = [status EXCEPT ![k] = "Disconnected"]
                 /\ downs' = [downs EXCEPT ![k] = @ + 1]
           /\ lost' = lost \cup Displaced(name[k], k)
    BY DEF CallEstablished, CallEstablishedInLoop, CallForceCloseInLoop,
           CallRemoveConnectionInLoop, CallOnDestroyed, RemoveConnectionInLoop,
           history
  <2>2. Displaced(name[k], k) \subseteq Conns
    BY <1>4, DisplacedTyped DEF ServerInv, Objects
  <2> QED
    BY <1>4, <2>1, <2>2, HandleCloseTyped DEF RestTyped, Statuses
<1>6. ups' \in [Conns -> Nat]
  BY <1>2 DEF RestTyped
<1>7. touched' \subseteq {"HandleEvent", "callback", "stop",
                         "ConnectionDestoryInLoop"}
  BY <1>3 DEF RestTyped
<1>8. orphaned' \subseteq Functors /\ closedAgain' = closedAgain
  <2>1. \/ orphaned' = orphaned
        \/ \E op \in RawOps : orphaned' = orphaned \cup {Functor(op, k)}
    BY DEF CallEstablished, CallEstablishedInLoop, CallForceCloseInLoop,
           CallRemoveConnectionInLoop, CallOnDestroyed, history
  <2>2. closedAgain' = closedAgain
    BY DEF CallEstablished, CallEstablishedInLoop, CallForceCloseInLoop,
           CallRemoveConnectionInLoop, CallOnDestroyed, history
  <2> QED
    BY <2>1, <2>2, RawFunctor DEF RestTyped
<1> QED
  BY <1>1, <1>5, <1>6, <1>7, <1>8 DEF RestTyped

(* The other steps of the I/O thread keep the types.                       *)
LEMMA LoopTyped ==
  ASSUME ServerInv, RestTyped,
         \/ Poll \/ \E e \in active : HandleEvent(e)
         \/ EventHandled \/ SwapFunctors \/ FunctorsDone
  PROVE  RestTyped'
<1>1. UNCHANGED <<peer, data, status, mainPc, kept, closing, lateClosed, ups,
                  downs, orphaned, closedAgain, lost>>
  BY DEF Poll, HandleEvent, EventHandled, SwapFunctors, FunctorsDone,
         kernelVars, mainVars, userVars, history
<1>2. touched' \subseteq touched \cup {"HandleEvent"}
  BY DEF Poll, HandleEvent, EventHandled, SwapFunctors, FunctorsDone
<1>3. touched' \subseteq {"HandleEvent", "callback", "stop",
                         "ConnectionDestoryInLoop"}
  BY <1>2 DEF RestTyped
<1>4. ioPc' \in {"poll", "events", "handle", "functors"}
  BY DEF Poll, HandleEvent, EventHandled, SwapFunctors, FunctorsDone
<1>5. \A e \in active' : e.con \in Conns /\ e.events \subseteq {"IN", "ERR", "HUP"}
  <2>1. CASE Poll
    <3>1. \A k : REvents(k) \subseteq {"IN", "ERR", "HUP"}
      BY DEF REvents
    <3> QED
      BY <2>1, <3>1 DEF Poll
  <2>2. CASE ~Poll
    BY <2>2 DEF HandleEvent, EventHandled, SwapFunctors, FunctorsDone, RestTyped
  <2> QED
    BY <2>1, <2>2
<1>6. /\ current'.con \in Conns \cup {NoConn}
      /\ current' = [con |-> current'.con, calls |-> current'.calls]
  <2>1. ASSUME NEW e \in active, HandleEvent(e)
        PROVE  /\ current'.con \in Conns \cup {NoConn}
               /\ current' = [con |-> current'.con, calls |-> current'.calls]
    <3> DEFINE c == Callbacks(e.events)
    <3>1. current' = [con |-> e.con, calls |-> c] /\ e.con \in Conns
      BY <2>1 DEF HandleEvent, RestTyped
    <3> HIDE DEF c
    <3> QED
      BY <3>1
  <2>2. EventHandled => current' = [current EXCEPT !.con = NoConn]
    BY DEF EventHandled
  <2>3. Poll \/ SwapFunctors \/ FunctorsDone => current' = current
    BY DEF Poll, SwapFunctors, FunctorsDone
  <2> QED
    BY <2>1, <2>2, <2>3 DEF RestTyped
<1> QED
  BY <1>1, <1>3, <1>4, <1>5, <1>6 DEF RestTyped

(* The steps of the other threads and of the peers keep the types.         *)
LEMMA OthersTyped ==
  ASSUME ServerInv, RestTyped, MainStep \/ UserStep \/ PeerStep
  PROVE  RestTyped'
<1>1. UNCHANGED <<ioPc, active, current, ups, downs>>
  BY DEF MainStep, UserStep, PeerStep, HandleNewConnection, StopBegins,
         StopVisits, StopEnds, LateForceClose, LateForceCloseQueues, UserDrops,
         PeerSends, PeerLeaves, ioVars
<1>2. \/ UNCHANGED peer
      \/ \E k \in Conns : \E p \in {"open", "closed", "reset"} :
           peer' = [peer EXCEPT ![k] = p]
  BY DEF MainStep, UserStep, PeerStep, HandleNewConnection, StopBegins,
         StopVisits, StopEnds, LateForceClose, LateForceCloseQueues, UserDrops,
         PeerSends, PeerLeaves, kernelVars
<1>3. peer' \in [Conns -> {"none", "open", "closed", "reset"}]
  BY <1>2 DEF RestTyped
<1>4. \/ UNCHANGED data
      \/ \E k \in Conns : data[k] < MaxData /\ data' = [data EXCEPT ![k] = @ + 1]
  BY DEF MainStep, UserStep, PeerStep, HandleNewConnection, StopBegins,
         StopVisits, StopEnds, LateForceClose, LateForceCloseQueues, UserDrops,
         PeerSends, PeerLeaves, kernelVars
<1>5. data' \in [Conns -> 0..MaxData]
  BY <1>4, ConnsAssumption DEF RestTyped
<1>6. \/ UNCHANGED status
      \/ \E k \in Conns : status' = [status EXCEPT ![k] = "Disconnecting"]
  BY DEF MainStep, UserStep, PeerStep, HandleNewConnection, StopBegins,
         StopVisits, StopEnds, LateForceClose, LateForceCloseQueues, UserDrops,
         PeerSends, PeerLeaves
<1>7. status' \in [Conns -> Statuses]
  BY <1>6 DEF RestTyped, Statuses
<1>8. /\ mainPc' \in {"serve", "stop", "stopped"}
      /\ kept' \subseteq Kept
      /\ closing' \in LateClosed \cup {NoConn} /\ lateClosed' \subseteq LateClosed
  BY DEF MainStep, UserStep, PeerStep, HandleNewConnection, StopBegins,
         StopVisits, StopEnds, LateForceClose, LateForceCloseQueues, UserDrops,
         PeerSends, PeerLeaves, mainVars, userVars, RestTyped
<1>9. touched' \subseteq touched \cup {"stop"}
  BY DEF MainStep, UserStep, PeerStep, HandleNewConnection, StopBegins,
         StopVisits, StopEnds, LateForceClose, LateForceCloseQueues, UserDrops,
         PeerSends, PeerLeaves
<1>10. touched' \subseteq {"HandleEvent", "callback", "stop",
                          "ConnectionDestoryInLoop"}
  BY <1>9 DEF RestTyped
<1>11. UNCHANGED <<orphaned, closedAgain>> /\ lost' \subseteq Conns
  <2>1. /\ UNCHANGED <<orphaned, closedAgain>>
        /\ \/ UNCHANGED lost
           \/ \E k \in Conns, n \in Names : lost' = lost \cup Displaced(n, k)
    BY DEF MainStep, UserStep, PeerStep, HandleNewConnection, StopBegins,
           StopVisits, StopEnds, LateForceClose, LateForceCloseQueues,
           UserDrops, PeerSends, PeerLeaves, history
  <2> QED
    BY <2>1, DisplacedTyped DEF RestTyped
<1> QED
  BY <1>1, <1>3, <1>5, <1>7, <1>8, <1>10, <1>11 DEF RestTyped

(* The types of the rest are kept.                                         *)
LEMMA RestCorrect == Spec => []RestTyped
<1>1. Init => RestTyped
  BY ConnsAssumption DEF Init, RestTyped, Statuses
<1>2. ServerInv /\ RestTyped /\ [Next]_vars => RestTyped'
  <2>1. RestTyped /\ UNCHANGED vars => RestTyped'
    BY DEF vars, RestTyped, history
  <2> QED
    BY <2>1, HandlersTyped, FunctorsTyped, LoopTyped, OthersTyped
    DEF Next, IoStep
<1> QED
  BY <1>1, <1>2, ServerInvariant, PTL DEF Spec

(* Every variable of TcpServer.tla keeps its type.                         *)
THEOREM ServerTypeCorrect == Spec => []TypeOK
<1>1. ServerInv /\ RestTyped => TypeOK
  <2> SUFFICES ASSUME ServerInv, RestTyped PROVE TypeOK
    OBVIOUS
  <2>1. Objects /\ poller \in Pollers
    BY DEF ServerInv
  <2>2. /\ connectionMap \in [Names -> Conns \cup {NoConn}]
        /\ pending \in Seq(Functors) /\ todo \in 0..Len(pending)
        /\ visited \in Seq(Conns)
    BY <2>1 DEF ServerInv, Holders, QueueOK, Objects
  <2>3. deleted \subseteq Conns
    BY <2>2, ElementOfSeq DEF ServerInv, Holders, Visited
  <2> QED
    BY <2>1, <2>2, <2>3 DEF Objects, Pollers, RestTyped, TypeOK
<1> QED
  BY <1>1, ServerInvariant, RestCorrect, PTL
-----------------------------------------------------------------------------
(* Raw functors: the invariant *)

EstablishOps == {"ConnectionEstablished", "ConnectionEstablishedInLoop"}

Close(k) == Functor("ForceCloseInLoop", k)
Waits(q, k) == \E i \in 1..Len(q) : q[i] = Close(k)

(* A connection waits for its establishment once, and only before it.      *)
EstablishesOnce(q, st) ==
  \A i \in 1..Len(q) :
    q[i].op \in EstablishOps =>
      /\ st[q[i].con] = "Connecting"
      /\ \A j \in 1..Len(q) :
           q[j].con = q[i].con /\ q[j].op \in EstablishOps => j = i

(* What HandleEvent may still have to call: the read comes last.           *)
Calls == {<<>>, <<"close">>, <<"error">>, <<"close", "error">>, <<"read">>,
          <<"error", "read">>}

(* Each channel is in _activeChannels once, and not again when handled.    *)
Handling ==
  /\ current \in [con : Conns \cup {NoConn}, calls : Calls]
  /\ ioPc \in {"poll", "functors"} => active = {}
  /\ \A e \in active :
       /\ e.con \in Conns
       /\ \A d \in active : d.con = e.con => d = e
       /\ ioPc = "handle" => e.con # current.con

(* Before its establishment no event and no user reaches a connection, and *)
(* before it is constructed it is not established.                         *)
Untouched ==
  \A k \in Conns :
    /\ k \notin accepted => status[k] = "Connecting"
    /\ status[k] = "Connecting" =>
         /\ \A f \in Fds : poller.kernel[f].channel # k
         /\ \A e \in active : e.con # k
         /\ current.con # k /\ closing # k /\ k \notin kept
         /\ ~Waits(pending, k)

(* Those whose ForceCloses may find them gone.                             *)
Careless == closedAgain \cup lateClosed

Open(k) ==
  \/ status[k] \in {"Connecting", "Connected"}
  \/ status[k] = "Disconnecting" /\ k \notin Careless

(* The map holds an open connection, unless stop() or another connection   *)
(* of its name may have taken it out.                                      *)
Named ==
  \A k \in accepted :
    Open(k) => k \in Visited \cup lost \/ connectionMap[name[k]] = k

(* The ForceClose of a read callback is called before the next poll, with  *)
(* nothing in between that could close the connection first.               *)
SoonClosed ==
  \A k \in Conns \ Careless :
    \A i \in 1..Len(pending) :
      pending[i] = Close(k) =>
        /\ status[k] = "Disconnecting"
        /\ \A j \in 1..Len(pending) : pending[j] = Close(k) => j = i
        /\ ioPc # "poll"
        /\ \A e \in active : e.con # k
        /\ ioPc = "handle" /\ current.con = k => current.calls = <<>>
        /\ ioPc = "functors" => i <= todo

RawInv ==
  /\ Handling
  /\ EstablishesOnce(pending, status)
  /\ Untouched
  /\ Named
  /\ SoonClosed
  /\ closing \in lateClosed \cup {NoConn}
  /\ RawFunctorsSafe

-----------------------------------------------------------------------------
(* Raw functors: queues and callbacks *)

(* The functors of the rest of a queue.                                    *)
LEMMA TailIndex ==
  ASSUME NEW q \in Seq(Functors), q # <<>>
  PROVE  /\ Head(q) = q[1] /\ 1 \in 1..Len(q) /\ Len(q) \in Nat
         /\ Len(Tail(q)) \in Nat /\ Len(Tail(q)) = Len(q) - 1
         /\ \A i \in 1..Len(Tail(q)) :
              i + 1 \in 1..Len(q) /\ Tail(q)[i] = q[i + 1]
<1>1. /\ Head(q) = q[1] /\ Len(Tail(q)) = Len(q) - 1
      /\ \A i \in 1..Len(Tail(q)) : Tail(q)[i] = q[i + 1]
      /\ Len(q) \in Nat \ {0}
  BY HeadTailProperties, EmptySeq
<1> QED
  BY <1>1

(* The functors of a queue that one more has joined.                       *)
LEMMA AppendIndex ==
  ASSUME NEW q \in Seq(Functors), NEW f \in Functors
  PROVE  /\ Len(Append(q, f)) = Len(q) + 1 /\ Len(q) \in Nat
         /\ \A i \in 1..Len(Append(q, f)) :
              \/ (i \in 1..Len(q) /\ Append(q, f)[i] = q[i])
              \/ i = Len(q) + 1 /\ Append(q, f)[i] = f
<1>1. /\ Len(Append(q, f)) = Len(q) + 1 /\ Len(q) \in Nat
      /\ \A i \in 1..Len(q) : Append(q, f)[i] = q[i]
      /\ Append(q, f)[Len(q) + 1] = f
  BY AppendProperties, LenProperties
<1> QED
  BY <1>1

(* What waits for its establishment once still does when nothing of the    *)
(* kind joins the queue.                                                   *)
LEMMA StillEstablishesOnce ==
  ASSUME NEW q, NEW r, NEW st, NEW st2, EstablishesOnce(q, st),
         \A i \in 1..Len(r) :
           r[i].op \in EstablishOps => i \in 1..Len(q) /\ r[i] = q[i],
         \A i \in 1..Len(q) : q[i].con \in Conns,
         \A k \in Conns : st[k] = "Connecting" => st2[k] = "Connecting"
  PROVE  EstablishesOnce(r, st2)
BY DEF EstablishesOnce

(* What waits in the rest of a queue, when its head has been called.       *)
LEMMA RestEstablishesOnce ==
  ASSUME NEW q \in Seq(Functors), q # <<>>, NEW st, NEW st2,
         EstablishesOnce(q, st),
         \A i \in 1..Len(q) : q[i].con \in Conns,
         \A k \in Conns : \/ st[k] = "Connecting" => st2[k] = "Connecting"
                          \/ k = Head(q).con /\ Head(q).op \in EstablishOps
  PROVE  /\ EstablishesOnce(Tail(q), st2)
         /\ Head(q).op \in EstablishOps =>
              \A i \in 1..Len(Tail(q)) :
                ~(Tail(q)[i].con = Head(q).con /\ Tail(q)[i].op \in EstablishOps)
<1> DEFINE t == Tail(q)
<1>1. /\ Head(q) = q[1] /\ 1 \in 1..Len(q) /\ Len(q) \in Nat
      /\ Len(t) \in Nat
      /\ \A i \in 1..Len(t) : i + 1 \in 1..Len(q) /\ t[i] = q[i + 1]
  BY TailIndex
<1> HIDE DEF t
<1>3. Head(q).op \in EstablishOps =>
        \A i \in 1..Len(t) : ~(t[i].con = Head(q).con /\ t[i].op \in EstablishOps)
  <2>1. ASSUME Head(q).op \in EstablishOps, NEW i \in 1..Len(t),
               t[i].con = Head(q).con, t[i].op \in EstablishOps
        PROVE  FALSE
    <3>1. i + 1 \in 1..Len(q) /\ q[i + 1].con = q[1].con
          /\ q[i + 1].op \in EstablishOps /\ q[1].op \in EstablishOps
      BY <1>1, <2>1
    <3>2. i + 1 = 1
      BY <1>1, <3>1 DEF EstablishesOnce
    <3> QED
      BY <3>2
  <2> QED
    BY <2>1
<1>4. EstablishesOnce(t, st2)
  <2>1. ASSUME NEW i \in 1..Len(t), t[i].op \in EstablishOps
        PROVE  /\ st2[t[i].con] = "Connecting"
               /\ \A j \in 1..Len(t) :
                    t[j].con = t[i].con /\ t[j].op \in EstablishOps => j = i
    <3>1. i + 1 \in 1..Len(q) /\ t[i] = q[i + 1]
      BY <1>1
    <3>2. /\ st[q[i + 1].con] = "Connecting"
          /\ \A j \in 1..Len(q) :
               q[j].con = q[i + 1].con /\ q[j].op \in EstablishOps => j = i + 1
      BY <2>1, <3>1 DEF EstablishesOnce
    <3>3. st2[t[i].con] = "Connecting"
      <4>1. ~(t[i].con = Head(q).con /\ Head(q).op \in EstablishOps)
        BY <1>3, <2>1
      <4> QED
        BY <3>1, <3>2, <4>1
    <3>4. ASSUME NEW j \in 1..Len(t), t[j].con = t[i].con, t[j].op \in EstablishOps
          PROVE  j = i
      <4>1. j + 1 \in 1..Len(q) /\ t[j] = q[j + 1]
        BY <1>1
      <4>2. j + 1 = i + 1
        BY <3>1, <3>2, <3>4, <4>1
      <4> QED
        BY <4>2
    <3> QED
      BY <3>3, <3>4
  <2> QED
    BY <2>1 DEF EstablishesOnce
<1> QED
  BY <1>3, <1>4 DEF t

(* What waits when the next establishment joins the queue.                 *)
LEMMA MoreEstablishesOnce ==
  ASSUME NEW q \in Seq(Functors), NEW f \in Functors, NEW st,
         EstablishesOnce(q, st), st[f.con] = "Connecting",
         \A i \in 1..Len(q) : ~(q[i].con = f.con /\ q[i].op \in EstablishOps)
  PROVE  EstablishesOnce(Append(q, f), st)
<1> DEFINE a == Append(q, f)
<1>1. /\ Len(q) \in Nat /\ Len(a) = Len(q) + 1
      /\ \A i \in 1..Len(a) : \/ i \in 1..Len(q) /\ a[i] = q[i]
                              \/ i = Len(q) + 1 /\ a[i] = f
  BY AppendIndex
<1> HIDE DEF a
<1>2. ASSUME NEW i \in 1..Len(a), a[i].op \in EstablishOps
      PROVE  /\ st[a[i].con] = "Connecting"
             /\ \A j \in 1..Len(a) :
                  a[j].con = a[i].con /\ a[j].op \in EstablishOps => j = i
  <2>1. CASE i \in 1..Len(q) /\ a[i] = q[i]
    <3>1. /\ st[q[i].con] = "Connecting"
          /\ \A j \in 1..Len(q) :
               q[j].con = q[i].con /\ q[j].op \in EstablishOps => j = i
      BY <1>2, <2>1 DEF EstablishesOnce
    <3> QED
      BY <1>1, <1>2, <2>1, <3>1
  <2>2. CASE i = Len(q) + 1 /\ a[i] = f
    BY <1>1, <1>2, <2>2
  <2> QED
    BY <1>1, <2>1, <2>2
<1> QED
  BY <1>2 DEF EstablishesOnce, a

(* The concatenation of two sequences of one element.                      *)
LEMMA PairOfTwo ==
  ASSUME NEW a, NEW b
  PROVE  <<a>> \o <<b>> = <<a, b>>
<1> DEFINE S == {a, b}
           u == <<a>>
           v == <<b>>
           w == u \o v
<1>1. /\ u \in Seq(S) /\ v \in Seq(S) /\ <<a, b>> \in Seq(S)
      /\ Len(u) = 1 /\ Len(v) = 1 /\ Len(<<a, b>>) = 2
      /\ u[1] = a /\ v[1] = b
  OBVIOUS
<1>2. /\ w \in Seq(S) /\ Len(w) = Len(u) + Len(v)
      /\ \A i \in 1..(Len(u) + Len(v)) :
           w[i] = IF i <= Len(u) THEN u[i] ELSE v[i - Len(u)]
  <2> HIDE DEF S, u, v
  <2> QED
    BY <1>1, ConcatProperties
<1>3. Len(w) = 2 /\ w[1] = a /\ w[2] = b
  BY <1>1, <1>2
<1> HIDE DEF w
<1>4. \A i \in 1..2 : w[i] = <<a, b>>[i]
  BY <1>3
<1> QED
  BY <1>1, <1>2, <1>3, <1>4, SeqEqual DEF w

(* What is left to call after the next callback.                           *)
LEMMA RestOfCalls ==
  ASSUME NEW c \in Calls, c # <<>>
  PROVE  /\ Tail(c) \in Calls
         /\ Tail(c) # <<>> => c \notin {<<>>, <<"read">>}
         /\ Tail(c) \notin {<<>>, <<"read">>} => c \notin {<<>>, <<"read">>}
         /\ Head(c) # "read" => c \notin {<<>>, <<"read">>}
         /\ Head(c) = "read" => Tail(c) = <<>>
<1>1. CASE c = <<"close">>
  BY <1>1 DEF Calls
<1>2. CASE c = <<"error">>
  BY <1>2 DEF Calls
<1>3. CASE c = <<"close", "error">>
  <2>1. Tail(c) = <<"error">> /\ Head(c) = "close"
    BY <1>3
  <2> QED
    BY <1>3, <2>1 DEF Calls
<1>4. CASE c = <<"read">>
  BY <1>4 DEF Calls
<1>5. CASE c = <<"error", "read">>
  <2>1. Tail(c) = <<"read">> /\ Head(c) = "error"
    BY <1>5
  <2> QED
    BY <1>5, <2>1 DEF Calls
<1> QED
  BY <1>1, <1>2, <1>3, <1>4, <1>5 DEF Calls

(* What HandleEvent calls.                                                 *)
LEMMA CallsOfEvents ==
  ASSUME NEW events
  PROVE  /\ Callbacks(events) \in Calls
         /\ Callbacks(events) \notin {<<>>, <<"read">>} =>
              "ERR" \in events \/ "HUP" \in events
<1> DEFINE Names3 == {"close", "error", "read"}
           empty == <<>>
           close == <<"close">>
           error == <<"error">>
           read == <<"read">>
<1>1. /\ empty \in Seq(Names3) /\ close \in Seq(Names3)
      /\ error \in Seq(Names3) /\ read \in Seq(Names3)
  OBVIOUS
<1>2. /\ close \o error = <<"close", "error">>
      /\ error \o read = <<"error", "read">>
  BY PairOfTwo, Zenon
<1>3. /\ close \o error \in Seq(Names3)
      /\ \A s \in Seq(Names3) : s \o empty = s /\ empty \o s = s
  <2> HIDE DEF Names3, close, error
  <2> QED
    BY <1>1, ConcatProperties, ConcatEmptySeq
<1>4. {empty, close, error, close \o error, read, error \o read} = Calls
  BY <1>2 DEF Calls
<1>5. Callbacks(events) =
        (IF "HUP" \in events /\ "IN" \notin events THEN close ELSE empty)
        \o (IF "ERR" \in events THEN error ELSE empty)
        \o (IF "IN" \in events THEN read ELSE empty)
  BY DEF Callbacks
<1> HIDE DEF Names3, empty, close, error, read
<1>6. CASE "IN" \in events
  BY <1>1, <1>3, <1>4, <1>5, <1>6 DEF empty, read
<1>7. CASE "IN" \notin events
  BY <1>1, <1>3, <1>4, <1>5, <1>7 DEF empty, read
<1> QED
  BY <1>6, <1>7

-----------------------------------------------------------------------------
(* Raw functors: the steps *)

(* What the invariants say of the queue.                                   *)
LEMMA QueueTyped ==
  ASSUME ServerInv
  PROVE  /\ pending \in Seq(Functors) /\ Len(pending) \in Nat
         /\ todo \in 0..Len(pending)
         /\ \A i \in 1..Len(pending) :
              /\ pending[i] \in Functors
              /\ pending[i].con \in accepted /\ pending[i].con \in Conns
         /\ \A i \in 1..Len(pending) :
              pending[i].op = "RemoveConnectionInLoop" => pending[i].con \in Visited
         /\ accepted \subseteq Conns /\ kept \subseteq accepted
         /\ deleted \subseteq Visited
<1>1. /\ pending \in Seq(Functors) /\ todo \in 0..Len(pending)
      /\ kept \subseteq accepted /\ deleted \subseteq Visited
      /\ accepted \subseteq Conns
      /\ \A i \in 1..Len(pending) : pending[i].con \in accepted
      /\ \A i \in 1..Len(pending) :
           pending[i].op = "RemoveConnectionInLoop" => pending[i].con \in Visited
  BY DEF ServerInv, Holders, Objects, QueueOK
<1>2. Len(pending) \in Nat /\ \A i \in 1..Len(pending) : pending[i] \in Functors
  BY <1>1, LenProperties, ElementOfSeq
<1> QED
  BY <1>1, <1>2

(* A connection that is not alive is not open, unless the map has lost it. *)
LEMMA OpenIsAlive ==
  ASSUME ServerInv, RawInv, NEW k \in accepted, ~Alive(k), Open(k)
  PROVE  k \in Visited \cup lost
<1>1. k \in Visited \cup lost \/ connectionMap[name[k]] = k
  BY DEF RawInv, Named
<1>2. name[k] \in Names /\ deleted \subseteq Visited
  BY QueueTyped DEF ServerInv, Objects
<1>3. connectionMap[name[k]] = k => Held(k)
  BY <1>2 DEF Held, InMap
<1> QED
  BY <1>1, <1>2, <1>3 DEF Alive

(* Steps that the invariant does not speak of.                             *)
LEMMA QuietKeepsRaw ==
  ASSUME RawInv,
         UNCHANGED <<poller, accepted, name, status, connectionMap, ioPc, active,
                     current, pending, todo, visited, closing, lateClosed,
                     history>>,
         kept' \subseteq kept
  PROVE  RawInv'
<1>1. Visited' = Visited /\ Careless' = Careless
  BY DEF Visited, Careless, history
<1>2. \A k : Open(k)' <=> Open(k)
  BY <1>1 DEF Open
<1>3. Handling' /\ EstablishesOnce(pending, status)'
  BY DEF RawInv, Handling
<1>4. Untouched'
  BY DEF RawInv, Untouched
<1>5. Named'
  BY <1>1, <1>2 DEF RawInv, Named, history
<1>6. SoonClosed'
  BY <1>1 DEF RawInv, SoonClosed
<1>7. RawFunctorsSafe'
  BY DEF RawInv, RawFunctorsSafe, history
<1> QED
  BY <1>3, <1>4, <1>5, <1>6, <1>7 DEF RawInv

(* A raw functor that found its connection gone keeps its excuse.          *)
LEMMA ExcusesStay ==
  ASSUME RawInv, Visited \subseteq Visited', visited \in Seq(Conns),
         visited' \in Seq(Conns),
         UNCHANGED orphaned, lost \subseteq lost',
         Careless \subseteq Careless'
  PROVE  RawFunctorsSafe'
<1>1. /\ DOMAIN visited = 1..Len(visited)
      /\ DOMAIN visited' = 1..Len(visited')
  BY LenProperties
<1>2. ASSUME NEW f \in orphaned
      PROVE  \/ \E i \in DOMAIN visited' : visited'[i] = f.con
             \/ f.con \in lost'
             \/ f.op = "ForceCloseInLoop" /\ f.con \in Careless'
  <2>1. \/ f.con \in Visited
        \/ f.con \in lost
        \/ f.op = "ForceCloseInLoop" /\ f.con \in Careless
    BY <1>1 DEF RawInv, RawFunctorsSafe, Visited, Careless
  <2> QED
    BY <1>1, <2>1 DEF Visited
<1> QED
  BY <1>2 DEF RawFunctorsSafe, Careless

(* The steps of the loop between the handlers.                             *)
LEMMA LoopKeepsRaw ==
  ASSUME ServerInv, RestTyped, RawInv,
         \/ Poll \/ \E e \in active : HandleEvent(e)
         \/ EventHandled \/ SwapFunctors \/ FunctorsDone
  PROVE  RawInv'
<1>1. /\ UNCHANGED <<poller, accepted, name, status, connectionMap, pending,
                     visited, kept, closing, lateClosed, history>>
      /\ UNCHANGED <<orphaned, lost, closedAgain>>
  BY DEF Poll, HandleEvent, EventHandled, SwapFunctors, FunctorsDone, objVars,
         mainVars, userVars, history
<1>2. Visited' = Visited /\ Careless' = Careless
  BY <1>1 DEF Visited, Careless
<1>3. Named'
  <2>1. \A k : Open(k)' <=> Open(k)
    BY <1>1, <1>2 DEF Open
  <2> QED
    BY <1>1, <1>2, <2>1 DEF RawInv, Named
<1>4. RawFunctorsSafe'
  BY <1>1 DEF RawInv, RawFunctorsSafe
<1>5. EstablishesOnce(pending, status)' /\ closing' \in lateClosed' \cup {NoConn}
  BY <1>1 DEF RawInv
<1>6. /\ pending \in Seq(Functors) /\ Len(pending) \in Nat
      /\ todo \in 0..Len(pending)
  BY QueueTyped
<1>7. Handling' /\ Untouched' /\ SoonClosed'
  <2>1. CASE Poll
    <3>1. /\ ioPc = "poll" /\ ioPc' = "events" /\ current' = current
          /\ active' = {[con |-> k, events |-> REvents(k)] :
                          k \in {j \in Conns : IsWatched(j) /\ REvents(j) # {}}}
      BY <2>1 DEF Poll
    <3>2. \A e \in active' :
            /\ e.con \in Conns /\ IsWatched(e.con)
            /\ \A d \in active' : d.con = e.con => d = e
      BY <3>1
    <3>3. \A e \in active' : status[e.con] # "Connecting"
      BY <3>2 DEF RawInv, Untouched, IsWatched, Alive, ServerInv, Objects
    <3>4. Handling'
      BY <3>1, <3>2 DEF RawInv, Handling
    <3>5. Untouched'
      BY <1>1, <3>1, <3>3 DEF RawInv, Untouched
    <3>6. SoonClosed'
      BY <1>1, <1>2, <3>1 DEF RawInv, SoonClosed
    <3> QED
      BY <3>4, <3>5, <3>6
  <2>2. ASSUME NEW e \in active, HandleEvent(e)
        PROVE  Handling' /\ Untouched' /\ SoonClosed'
    <3> DEFINE c == Callbacks(e.events)
    <3>1. /\ ioPc = "events" /\ ioPc' = "handle" /\ active' = active \ {e}
          /\ current' = [con |-> e.con, calls |-> c]
          /\ c \in Calls
      BY <2>2, CallsOfEvents DEF HandleEvent
    <3> HIDE DEF c
    <3>2. /\ e.con \in Conns
          /\ \A d \in active : d.con = e.con => d = e
          /\ \A b, d \in active : d.con = b.con => d = b
      BY DEF RawInv, Handling
    <3>3. /\ current' \in [con : Conns \cup {NoConn}, calls : Calls]
          /\ current'.con = e.con
      BY <3>1, <3>2
    <3>4. Handling'
      BY <3>1, <3>2, <3>3 DEF RawInv, Handling
    <3>5. Untouched'
      BY <1>1, <3>1, <3>3 DEF RawInv, Untouched
    <3>6. SoonClosed'
      BY <1>1, <1>2, <3>1, <3>3 DEF RawInv, SoonClosed
    <3> QED
      BY <3>4, <3>5, <3>6
  <2>3. CASE EventHandled
    <3>1. /\ ioPc = "handle" /\ ioPc' = "events" /\ active' = active
          /\ current' = [current EXCEPT !.con = NoConn]
      BY <2>3 DEF EventHandled
    <3>2. current' \in [con : Conns \cup {NoConn}, calls : Calls]
      BY <3>1 DEF RawInv, Handling
    <3>3. current'.con = NoConn /\ NoConn \notin Conns
      BY <3>1, ConnsAssumption DEF RawInv, Handling, NoConn
    <3>4. Handling'
      BY <3>1, <3>2 DEF RawInv, Handling
    <3>5. Untouched'
      BY <1>1, <3>1, <3>3 DEF RawInv, Untouched
    <3>6. SoonClosed'
      BY <1>1, <1>2, <3>1, <3>3 DEF RawInv, SoonClosed
    <3> QED
      BY <3>4, <3>5, <3>6
  <2>4. CASE SwapFunctors
    <3>1. /\ ioPc = "events" /\ ioPc' = "functors" /\ active = {}
          /\ active' = active /\ current' = current /\ todo' = Len(pending)
      BY <2>4 DEF SwapFunctors
    <3>2. Handling'
      BY <3>1 DEF RawInv, Handling
    <3>3. Untouched'
      BY <1>1, <3>1 DEF RawInv, Untouched
    <3>4. SoonClosed'
      BY <1>1, <1>2, <1>6, <3>1 DEF RawInv, SoonClosed
    <3> QED
      BY <3>2, <3>3, <3>4
  <2>5. CASE FunctorsDone
    <3>1. /\ ioPc = "functors" /\ ioPc' = "poll" /\ todo = 0
          /\ active' = active /\ current' = current /\ todo' = todo
      BY <2>5 DEF FunctorsDone
    <3>2. Handling'
      BY <3>1 DEF RawInv, Handling
    <3>3. Untouched'
      BY <1>1, <3>1 DEF RawInv, Untouched
    <3>4. \A k \in Conns \ Careless : ~Waits(pending, k)
      BY <1>6, <3>1 DEF RawInv, SoonClosed, Waits
    <3>5. SoonClosed'
      BY <1>1, <1>2, <3>4 DEF SoonClosed, Waits
    <3> QED
      BY <3>2, <3>3, <3>5
  <2> QED
    BY <2>1, <2>2, <2>3, <2>4, <2>5
<1> QED
  BY <1>3, <1>4, <1>5, <1>7 DEF RawInv

(* UpdateChannel and RemoveChannel let the kernel watch the channel they   *)
(* are given, if anything new.                                             *)
LEMMA KernelChannels ==
  ASSUME NEW p \in Pollers, NEW k, NEW f \in Fds, NEW events
  PROVE  /\ \A g \in Fds : UpdateChannel(p, k, f, events).kernel[g].channel
                             \in {p.kernel[g].channel, k}
         /\ \A g \in Fds : RemoveChannel(p, k, f).kernel[g].channel
                             \in {p.kernel[g].channel, NoConn}
<1> DEFINE w == Watched(k, events)
<1>1. w.channel = k /\ NotWatched.channel = NoConn
  BY DEF Watched, NotWatched, NoConn
<1> HIDE DEF w
<1>2. p.kernel \in [Fds -> [channel : Conns \cup {NoConn}, events : {{}, {"read"}}]]
  BY DEF Pollers
<1>3. \/ UpdateChannel(p, k, f, events).kernel = p.kernel
      \/ UpdateChannel(p, k, f, events).kernel = [p.kernel EXCEPT ![f] = w]
  BY DEF UpdateChannel, AddChannel, ModifyChannel, w, Pollers
<1>4. \/ RemoveChannel(p, k, f).kernel = p.kernel
      \/ RemoveChannel(p, k, f).kernel = [p.kernel EXCEPT ![f] = NotWatched]
  BY DEF RemoveChannel, Pollers
<1> QED
  BY <1>1, <1>2, <1>3, <1>4

(* What HandleClose and stop()'s RemoveConnectionInLoop do to the others.  *)
LEMMA ClosingEffects ==
  ASSUME ServerInv, RestTyped, NEW k \in Live,
         HandleClose(k) \/ RemoveConnectionInLoop(k)
  PROVE  /\ status' \in {status, [status EXCEPT ![k] = "Disconnected"]}
         /\ HandleClose(k) => status'[k] = "Disconnected"
         /\ RemoveConnectionInLoop(k) =>
              status' = status \/ status[k] = "Connected"
         /\ \A f \in Fds : poller'.kernel[f].channel
                             \in {poller.kernel[f].channel, k, NoConn}
         /\ RemoveConnectionInLoop(k) /\ status[k] # "Connected" =>
              \A f \in Fds : poller'.kernel[f].channel
                                \in {poller.kernel[f].channel, NoConn}
         /\ lost \subseteq lost'
         /\ \A j \in accepted :
              j # k /\ connectionMap[name[j]] = j =>
                connectionMap'[name[j]] = j \/ j \in lost'
<1>1. /\ k \in accepted /\ k \in Conns /\ fd[k] \in Fds /\ name[k] \in Names
      /\ poller \in Pollers /\ Agrees(poller, fd, accepted, Live)
      /\ OneOwner(fd, Live) /\ Objects /\ Live \in SUBSET accepted
  BY LiveIsAlive DEF ServerInv, Objects
<1>2. /\ \A f \in Fds : poller'.kernel[f].channel
                          \in {poller.kernel[f].channel, k, NoConn}
      /\ RemoveConnectionInLoop(k) /\ status[k] # "Connected" =>
           \A f \in Fds : poller'.kernel[f].channel
                             \in {poller.kernel[f].channel, NoConn}
  <2> DEFINE s == Silenced(k)
  <2>1. s \in Pollers
    BY <1>1, UpdateAgrees DEF Silenced
  <2>2. \A f \in Fds : s.kernel[f].channel \in {poller.kernel[f].channel, k}
    BY <1>1, KernelChannels DEF Silenced
  <2> HIDE DEF s
  <2>3. \A f \in Fds : RemoveChannel(s, k, fd[k]).kernel[f].channel
                         \in {s.kernel[f].channel, NoConn}
    BY <1>1, <2>1, KernelChannels
  <2>4. \A f \in Fds : RemoveChannel(poller, k, fd[k]).kernel[f].channel
                         \in {poller.kernel[f].channel, NoConn}
    BY <1>1, KernelChannels
  <2>5. poller' \in {poller, s, RemoveChannel(s, k, fd[k]),
                     RemoveChannel(poller, k, fd[k])}
    BY DEF HandleClose, RemoveConnectionInLoop, Unregistered, s
  <2>6. RemoveConnectionInLoop(k) /\ status[k] # "Connected" =>
          poller' \in {poller, RemoveChannel(poller, k, fd[k])}
    BY DEF RemoveConnectionInLoop, Unregistered
  <2> QED
    BY <2>2, <2>3, <2>4, <2>5, <2>6
<1>3. /\ status' \in {status, [status EXCEPT ![k] = "Disconnected"]}
      /\ HandleClose(k) => status'[k] = "Disconnected"
      /\ RemoveConnectionInLoop(k) => status' = status \/ status[k] = "Connected"
  BY <1>1 DEF HandleClose, RemoveConnectionInLoop, RestTyped
<1>4. \/ UNCHANGED <<connectionMap, lost>>
      \/ /\ connectionMap' = ErasedFromMap(k)
         /\ lost' = lost \cup Displaced(name[k], k)
  BY DEF HandleClose, RemoveConnectionInLoop
<1>5. ASSUME NEW j \in accepted, j # k, connectionMap[name[j]] = j
      PROVE  connectionMap'[name[j]] = j \/ j \in lost'
  <2>1. connectionMap \in [Names -> accepted \cup {NoConn}] /\ name[j] \in Names
    BY DEF ServerInv, Holders, Objects
  <2>2. j # NoConn
    BY ConnsAssumption DEF ServerInv, Objects, NoConn
  <2> QED
    BY <1>1, <1>4, <1>5, <2>1, <2>2 DEF ErasedFromMap, Displaced
<1> QED
  BY <1>2, <1>3, <1>4, <1>5

(* Whoever is open stays known, whichever connection closes.               *)
LEMMA ClosingKeepsNamed ==
  ASSUME ServerInv, RestTyped, RawInv, NEW k \in Live,
         HandleClose(k) \/ (RemoveConnectionInLoop(k) /\ k \in Visited),
         UNCHANGED <<accepted, name, visited, closedAgain, lateClosed, orphaned>>
  PROVE  Named' /\ RawFunctorsSafe'
<1>1. Visited' = Visited /\ Careless' = Careless
  BY DEF Visited, Careless
<1>2. /\ status' \in {status, [status EXCEPT ![k] = "Disconnected"]}
      /\ HandleClose(k) => status'[k] = "Disconnected"
      /\ lost \subseteq lost'
      /\ \A j \in accepted :
           j # k /\ connectionMap[name[j]] = j =>
             connectionMap'[name[j]] = j \/ j \in lost'
  BY ClosingEffects
<1>3. Named'
  <2>1. ASSUME NEW j \in accepted, Open(j)'
        PROVE  j \in Visited \cup lost' \/ connectionMap'[name[j]] = j
    <3>1. CASE j = k
      BY <1>1, <1>2, <2>1, <3>1 DEF Open
    <3>2. CASE j # k
      <4>1. Open(j)
        BY <1>1, <1>2, <2>1, <3>2, QueueTyped DEF Open, RestTyped
      <4> QED
        BY <1>2, <3>2, <4>1 DEF RawInv, Named
    <3> QED
      BY <3>1, <3>2
  <2> QED
    BY <1>1, <2>1 DEF Named
<1>4. RawFunctorsSafe'
  BY <1>1, <1>2, ExcusesStay DEF ServerInv, Holders
<1> QED
  BY <1>3, <1>4

(* What is next in HandleEvent.                                            *)
LEMMA NextCallGoesOn ==
  ASSUME ServerInv, RawInv, NEW call, NextCall(call), Alive(current.con)
  PROVE  /\ ioPc = "handle" /\ ioPc' = "handle" /\ current.calls # <<>>
         /\ current' \in [con : Conns \cup {NoConn}, calls : Calls]
         /\ current'.con = current.con
         /\ call = "read" => current'.calls = <<>>
         /\ current.con \in Live /\ current.con \in Conns
         /\ current.con \in accepted
         /\ status[current.con] # "Connecting"
         /\ current.con \notin Careless => ~Waits(pending, current.con)
         /\ UNCHANGED <<accepted, fd, name, active, todo, mainPc, visited>>
<1>1. /\ ioPc = "handle" /\ ioPc' = "handle" /\ current.calls # <<>>
      /\ Head(current.calls) = call
      /\ current' = [current EXCEPT !.calls = Tail(@)]
      /\ UNCHANGED <<accepted, fd, name, active, todo, mainPc, visited>>
  BY DEF NextCall, mainVars
<1>2. current \in [con : Conns \cup {NoConn}, calls : Calls]
  BY DEF RawInv, Handling
<1>3. /\ Tail(current.calls) \in Calls
      /\ call = "read" => Tail(current.calls) = <<>>
  BY <1>1, <1>2, RestOfCalls
<1>4. /\ current'.con = current.con /\ current'.calls = Tail(current.calls)
      /\ current' \in [con : Conns \cup {NoConn}, calls : Calls]
  <2> DEFINE t == Tail(current.calls)
  <2>1. t \in Calls
    BY <1>3
  <2>2. current' = [current EXCEPT !.calls = t]
    BY <1>1
  <2> HIDE DEF t
  <2>3. /\ current'.con = current.con /\ current'.calls = t
        /\ current' \in [con : Conns \cup {NoConn}, calls : Calls]
    BY <1>2, <2>1, <2>2
  <2> QED
    BY <2>3 DEF t
<1>5. /\ current.con \in Live /\ current.con \in Conns
      /\ current.con \in accepted
  <2>1. current.con \in accepted /\ accepted \subseteq Conns
    BY DEF Alive, ServerInv, Objects
  <2> QED
    BY <2>1, LiveIsAlive DEF ServerInv
<1>6. status[current.con] # "Connecting"
  BY <1>5 DEF RawInv, Untouched
<1>7. current.con \notin Careless => ~Waits(pending, current.con)
  BY <1>1, <1>5 DEF RawInv, SoonClosed, Waits
<1> QED
  BY <1>1, <1>3, <1>4, <1>5, <1>6, <1>7

(* The callbacks that close, or do nothing.                                *)
LEMMA CallbacksKeepRaw ==
  ASSUME ServerInv, RestTyped, RawInv,
         CloseOrErrorCallback \/ ReadEnd \/ CallbackOnDestroyed
  PROVE  RawInv'
<1>1. CASE CallbackOnDestroyed
  <2> DEFINE t == Tail(current.calls)
  <2>1. /\ ioPc = "handle" /\ ioPc' = "handle" /\ current.calls # <<>>
        /\ current' = [current EXCEPT !.calls = t]
        /\ UNCHANGED <<poller, accepted, name, status, connectionMap, active,
                       pending, todo, visited, kept, closing, lateClosed,
                       orphaned, lost, closedAgain>>
    BY <1>1 DEF CallbackOnDestroyed, NextCall, mainVars, userVars, history
  <2>2. current \in [con : Conns \cup {NoConn}, calls : Calls]
    BY DEF RawInv, Handling
  <2>3. t \in Calls
    BY <2>1, <2>2, RestOfCalls
  <2> HIDE DEF t
  <2>4. /\ current' \in [con : Conns \cup {NoConn}, calls : Calls]
        /\ current'.con = current.con
    BY <2>1, <2>2, <2>3
  <2>5. Visited' = Visited /\ Careless' = Careless
    BY <2>1 DEF Visited, Careless
  <2>6. Handling' /\ EstablishesOnce(pending, status)' /\ Untouched'
    BY <2>1, <2>4 DEF RawInv, Handling, Untouched
  <2>7. Named'
    <3>1. \A k : Open(k)' <=> Open(k)
      BY <2>1, <2>5 DEF Open
    <3> QED
      BY <2>1, <2>5, <3>1 DEF RawInv, Named
  <2>8. SoonClosed'
    BY <2>1, <2>4, <2>5 DEF RawInv, SoonClosed
  <2>9. RawFunctorsSafe' /\ closing' \in lateClosed' \cup {NoConn}
    BY <2>1 DEF RawInv, RawFunctorsSafe
  <2> QED
    BY <2>6, <2>7, <2>8, <2>9 DEF RawInv
<1>2. CASE CloseOrErrorCallback \/ ReadEnd
  <2> DEFINE k == current.con
  <2>1. /\ \E call : NextCall(call)
        /\ Alive(k)
        /\ UNCHANGED <<pending, kept, closing, lateClosed, orphaned, closedAgain>>
        /\ HandleClose(k) \/ UNCHANGED <<status, connectionMap, poller, lost>>
    BY <1>2 DEF CloseOrErrorCallback, ReadEnd, userVars
  <2>2. /\ ioPc = "handle" /\ ioPc' = "handle"
        /\ current' \in [con : Conns \cup {NoConn}, calls : Calls]
        /\ current'.con = k /\ k \in Live /\ k \in Conns
        /\ status[k] # "Connecting"
        /\ k \notin Careless => ~Waits(pending, k)
        /\ UNCHANGED <<accepted, fd, name, active, todo, mainPc, visited>>
    BY <2>1, NextCallGoesOn
  <2> HIDE DEF k
  <2>3. Visited' = Visited /\ Careless' = Careless
    BY <2>1, <2>2 DEF Visited, Careless
  <2>4. /\ status' \in {status, [status EXCEPT ![k] = "Disconnected"]}
        /\ \A f \in Fds : poller'.kernel[f].channel
                            \in {poller.kernel[f].channel, k, NoConn}
    BY <2>1, <2>2, ClosingEffects
  <2>5. \A j \in Conns : j # k => status'[j] = status[j]
    BY <2>4 DEF RestTyped
  <2>6. \A j \in Conns : status'[j] = "Connecting" <=> status[j] = "Connecting"
    BY <2>2, <2>4 DEF RestTyped
  <2>7. Handling'
    BY <2>2 DEF RawInv, Handling, k
  <2>8. EstablishesOnce(pending, status)'
    <3>1. EstablishesOnce(pending, status) /\ pending' = pending
      BY <2>1 DEF RawInv
    <3>2. \A i \in 1..Len(pending) : pending[i].con \in Conns
      BY QueueTyped
    <3> QED
      BY <2>6, <3>1, <3>2, StillEstablishesOnce
  <2>9. Untouched'
    <3>1. NoConn \notin Conns
      BY ConnsAssumption DEF NoConn
    <3> QED
      BY <2>1, <2>2, <2>4, <2>6, <3>1 DEF RawInv, Untouched, k
  <2>10. Named' /\ RawFunctorsSafe'
    <3>1. CASE HandleClose(k)
      BY <2>1, <2>2, <3>1, ClosingKeepsNamed
    <3>2. CASE UNCHANGED <<status, connectionMap, poller, lost>>
      <4>1. \A j : Open(j)' <=> Open(j)
        BY <2>3, <3>2 DEF Open
      <4> QED
        BY <2>1, <2>2, <2>3, <3>2, <4>1 DEF RawInv, Named, RawFunctorsSafe
    <3> QED
      BY <2>1, <3>1, <3>2
  <2>11. SoonClosed'
    <3>1. ASSUME NEW j \in Conns \ Careless, NEW i \in 1..Len(pending),
                 pending[i] = Close(j)
          PROVE  /\ status'[j] = "Disconnecting"
                 /\ \A h \in 1..Len(pending) : pending[h] = Close(j) => h = i
                 /\ \A e \in active : e.con # j
                 /\ j # k
      BY <2>2, <2>5, <3>1 DEF RawInv, SoonClosed, Waits
    <3> QED
      BY <2>1, <2>2, <2>3, <3>1 DEF SoonClosed
  <2> QED
    BY <2>1, <2>7, <2>8, <2>9, <2>10, <2>11 DEF RawInv
<1> QED
  BY <1>1, <1>2

(* The read callback, with its ForceCloses: when it is the first of the    *)
(* connection, nothing else of it is left to be handled.                   *)
LEMMA ReadMessageKeepsRaw ==
  ASSUME ServerInv, RestTyped, RawInv, ReadMessage
  PROVE  RawInv'
<1> DEFINE k == current.con
           f == Functor("ForceCloseInLoop", k)
<1>1. /\ NextCall("read") /\ Alive(k)
      /\ kept' \in {kept, kept \cup ({k} \cap Kept)}
      /\ UNCHANGED <<poller, connectionMap, closing, lateClosed, orphaned, lost>>
  BY DEF ReadMessage
<1>2. /\ ioPc = "handle" /\ ioPc' = "handle"
      /\ current' \in [con : Conns \cup {NoConn}, calls : Calls]
      /\ current'.con = k /\ current'.calls = <<>>
      /\ k \in Live /\ k \in Conns /\ k \in accepted
      /\ status[k] # "Connecting"
      /\ k \notin Careless => ~Waits(pending, k)
      /\ UNCHANGED <<accepted, fd, name, active, todo, mainPc, visited>>
  BY <1>1, NextCallGoesOn
<1>3. PICK n \in 0..MaxForceCloses :
        /\ status' = IF n = 0 THEN status ELSE [status EXCEPT ![k] = "Disconnecting"]
        /\ pending' = Repeated(pending, f, n)
        /\ closedAgain' = IF n > 1 \/ (n = 1 /\ status[k] # "Connected")
                          THEN closedAgain \cup {k} ELSE closedAgain
  <2>1. PICK n \in 0..MaxForceCloses : ForceCloses(k, n)
    BY DEF ReadMessage
  <2> QED
    BY <2>1 DEF ForceCloses, Repeated
<1>4. /\ f \in Functors /\ f.con = k /\ f.op \notin SharedOps /\ f = Close(k)
      /\ f.op \notin EstablishOps
  BY <1>2, RawFunctor DEF RawOps, Close, EstablishOps, Functor
<1>5. /\ QueueOK(pending, accepted, Visited, deleted)
      /\ visited \in Seq(Conns)
      /\ \A i \in 1..Len(pending) : pending[i].con \in Conns
  BY QueueTyped DEF ServerInv, Holders
<1>6. n \in Nat
  BY ConnsAssumption
<1> HIDE DEF f, k
<1>7. /\ Len(pending) \in Nat /\ Len(pending') = Len(pending) + n
      /\ \A i \in 1..Len(pending') :
           (i \in 1..Len(pending) /\ pending'[i] = pending[i]) \/ pending'[i] = f
      /\ \A i \in 1..Len(pending) : pending'[i] = pending[i]
  BY <1>2, <1>3, <1>4, <1>5, <1>6, QueueConcat
<1>8. /\ Visited' = Visited /\ Careless \subseteq Careless'
      /\ Careless' \subseteq Careless \cup {k}
      /\ k \notin Careless' => n = 0 \/ (n = 1 /\ status[k] = "Connected")
  BY <1>1, <1>2, <1>3, <1>6 DEF Visited, Careless
<1>9. /\ status' \in {status, [status EXCEPT ![k] = "Disconnecting"]}
      /\ \A j \in Conns : j # k => status'[j] = status[j]
      /\ \A j \in Conns : status'[j] = "Connecting" <=> status[j] = "Connecting"
  BY <1>2, <1>3 DEF RestTyped
<1>10. Handling'
  BY <1>2 DEF RawInv, Handling, k
<1>11. EstablishesOnce(pending, status)'
  <2>1. EstablishesOnce(pending, status)
    BY DEF RawInv
  <2>2. \A i \in 1..Len(pending') :
          pending'[i].op \in EstablishOps =>
            i \in 1..Len(pending) /\ pending'[i] = pending[i]
    BY <1>4, <1>7
  <2> QED
    BY <1>5, <1>9, <2>1, <2>2, StillEstablishesOnce
<1>12. Untouched'
  <2>1. \A j \in Conns : j # k => f # Close(j)
    BY <1>4 DEF Close, Functor
  <2>2. \A j \in Conns : j # k => (Waits(pending', j) => Waits(pending, j))
    BY <1>7, <2>1 DEF Waits
  <2> QED
    BY <1>1, <1>2, <1>9, <2>2 DEF RawInv, Untouched, k
<1>13. Named'
  <2>1. \A j \in accepted : Open(j)' => Open(j)
    BY <1>2, <1>3, <1>6, <1>8, <1>9, QueueTyped DEF Open
  <2> QED
    BY <1>1, <1>2, <1>8, <2>1 DEF RawInv, Named
<1>14. SoonClosed'
  <2>1. ASSUME NEW j \in Conns \ Careless', NEW i \in 1..Len(pending'),
               pending'[i] = Close(j)
        PROVE  /\ status'[j] = "Disconnecting"
               /\ \A h \in 1..Len(pending') : pending'[h] = Close(j) => h = i
               /\ \A e \in active : e.con # j
    <3>1. CASE j = k
      <4>1. ~Waits(pending, k)
        BY <1>2, <1>8, <2>1, <3>1
      <4>2. \A h \in 1..Len(pending') :
              pending'[h] = Close(j) => h \notin 1..Len(pending)
        <5>1. \A h \in 1..Len(pending) : pending[h] # Close(j)
          BY <3>1, <4>1 DEF Waits
        <5>2. ASSUME NEW h \in 1..Len(pending'), h \in 1..Len(pending)
              PROVE  pending'[h] # Close(j)
          BY <1>7, <5>1, <5>2
        <5> QED
          BY <5>2
      <4>3. n = 1
        <5>1. n # 0
          BY <1>7, <2>1, <4>2
        <5> QED
          BY <1>8, <2>1, <3>1, <5>1
      <4>4. status'[k] = "Disconnecting"
        BY <1>2, <1>3, <4>3 DEF RestTyped
      <4>5. \A h \in 1..Len(pending') : pending'[h] = Close(j) => h = i
        <5>1. Len(pending') = Len(pending) + 1
          BY <1>7, <4>3
        <5>2. \A h \in 1..(Len(pending) + 1) :
                h \notin 1..Len(pending) => h = Len(pending) + 1
          BY <1>7
        <5> QED
          BY <2>1, <4>2, <5>1, <5>2
      <4>6. \A e \in active : e.con # j
        BY <1>2, <3>1 DEF RawInv, Handling, k
      <4> QED
        BY <3>1, <4>4, <4>5, <4>6
    <3>2. CASE j # k
      <4>1. f # Close(j)
        BY <1>4, <3>2 DEF Close, Functor
      <4>2. j \in Conns \ Careless
        BY <1>8, <2>1
      <4> QED
        BY <1>7, <1>9, <2>1, <3>2, <4>1, <4>2 DEF RawInv, SoonClosed
    <3> QED
      BY <3>1, <3>2
  <2> QED
    BY <1>2, <2>1 DEF SoonClosed
<1>15. RawFunctorsSafe' /\ closing' \in lateClosed' \cup {NoConn}
  BY <1>1, <1>2, <1>5, <1>8, ExcusesStay DEF RawInv
<1> QED
  BY <1>10, <1>11, <1>12, <1>13, <1>14, <1>15 DEF RawInv

(* The functor that is called: what the invariants say of it.              *)
LEMMA CalledHead ==
  ASSUME ServerInv, RawInv, NEW op \in SharedOps \cup RawOps, NEW k \in Conns,
         CallFunctor(op, k)
  PROVE  /\ pending \in Seq(Functors) /\ pending # <<>>
         /\ Head(pending).op = op /\ Head(pending).con = k
         /\ k \in accepted
         /\ op \in EstablishOps => status[k] = "Connecting"
         /\ op = "ForceCloseInLoop" =>
              /\ Head(pending) = Close(k) /\ Waits(pending, k)
              /\ status[k] # "Connecting"
              /\ k \notin Careless => status[k] = "Disconnecting"
         /\ op = "RemoveConnectionInLoop" => k \in Visited
         /\ ioPc = "functors" /\ todo \in Nat /\ todo > 0 /\ todo' = todo - 1
         /\ UNCHANGED <<accepted, fd, name, ioPc, active, current, visited, kept,
                        closing, lateClosed>>
<1>1. /\ ioPc = "functors" /\ todo > 0 /\ Head(pending) = Functor(op, k)
      /\ todo' = todo - 1
      /\ UNCHANGED <<accepted, fd, name, ioPc, active, current, visited, kept,
                     closing, lateClosed>>
  BY DEF CallFunctor, ioVars, mainVars, userVars
<1>2. /\ pending \in Seq(Functors) /\ Len(pending) \in Nat
      /\ todo \in 0..Len(pending)
  BY QueueTyped
<1>3. pending # <<>>
  <2>1. Len(pending) # 0
    BY <1>1, <1>2
  <2> QED
    BY <1>2, <2>1, EmptySeq
<1>4. Head(pending) = pending[1] /\ 1 \in 1..Len(pending)
  BY <1>2, <1>3, TailIndex
<1>5. Head(pending).op = op /\ Head(pending).con = k
  BY <1>1 DEF Functor
<1>6. k \in accepted /\ (op = "RemoveConnectionInLoop" => k \in Visited)
  BY <1>4, <1>5, QueueTyped
<1>7. op \in EstablishOps => status[k] = "Connecting"
  BY <1>4, <1>5 DEF RawInv, EstablishesOnce
<1>8. op = "ForceCloseInLoop" => Head(pending) = Close(k) /\ Waits(pending, k)
  BY <1>1, <1>4 DEF Waits, Close
<1>9. op = "ForceCloseInLoop" =>
        /\ status[k] # "Connecting"
        /\ k \notin Careless => status[k] = "Disconnecting"
  BY <1>4, <1>8 DEF RawInv, Untouched, SoonClosed
<1> QED
  BY <1>1, <1>2, <1>3, <1>5, <1>6, <1>7, <1>8, <1>9

(* A call leaves the ForceCloses behind it where they are.                 *)
LEMMA CallingKeepsSoon ==
  ASSUME ServerInv, RawInv, NEW op \in SharedOps \cup RawOps, NEW k \in Conns,
         CallFunctor(op, k), UNCHANGED closedAgain,
         \/ pending' = Tail(pending)
         \/ \E g \in Functors : /\ g.op \in EstablishOps
                                /\ pending' = Append(Tail(pending), g),
         \A j \in Conns : \/ status'[j] = status[j] \/ status[j] # "Disconnecting"
                          \/ j = k /\ op = "ForceCloseInLoop"
  PROVE  /\ SoonClosed'
         /\ \A j : Waits(pending', j) => Waits(pending, j)
<1>1. /\ pending \in Seq(Functors) /\ pending # <<>>
      /\ Head(pending).op = op /\ Head(pending).con = k
      /\ op = "ForceCloseInLoop" => Head(pending) = Close(k)
      /\ ioPc = "functors" /\ todo \in Nat /\ todo > 0 /\ todo' = todo - 1
      /\ UNCHANGED <<ioPc, active, current, lateClosed>>
  BY CalledHead
<1>2. /\ Head(pending) = pending[1] /\ 1 \in 1..Len(pending)
      /\ Len(pending) \in Nat /\ Len(Tail(pending)) \in Nat
      /\ Tail(pending) \in Seq(Functors)
      /\ \A i \in 1..Len(Tail(pending)) :
           i + 1 \in 1..Len(pending) /\ Tail(pending)[i] = pending[i + 1]
  BY <1>1, TailIndex, HeadTailProperties
<1>3. \A i \in 1..Len(pending') : \A j :
        pending'[i] = Close(j) =>
          i + 1 \in 1..Len(pending) /\ pending[i + 1] = Close(j)
  <2> DEFINE t == Tail(pending)
  <2>1. CASE pending' = t
    BY <1>2, <2>1
  <2>2. ASSUME NEW g \in Functors, g.op \in EstablishOps, pending' = Append(t, g)
        PROVE  \A i \in 1..Len(pending') : \A j :
                 pending'[i] = Close(j) =>
                   i + 1 \in 1..Len(pending) /\ pending[i + 1] = Close(j)
    <3>1. \A j : g # Close(j)
      BY <2>2 DEF EstablishOps, Close, Functor
    <3>2. \A i \in 1..Len(pending') :
            \/ i \in 1..Len(t) /\ pending'[i] = t[i]
            \/ pending'[i] = g
      <4> HIDE DEF t
      <4> QED
        BY <1>2, <2>2, AppendIndex DEF t
    <3> QED
      BY <1>2, <3>1, <3>2
  <2> QED
    BY <2>1, <2>2
<1>4. Careless' = Careless
  BY <1>1 DEF Careless
<1>5. ASSUME NEW j \in Conns \ Careless, NEW i \in 1..Len(pending'),
             pending'[i] = Close(j)
      PROVE  /\ status'[j] = "Disconnecting"
             /\ \A h \in 1..Len(pending') : pending'[h] = Close(j) => h = i
             /\ \A e \in active : e.con # j
             /\ i <= todo'
  <2>1. i + 1 \in 1..Len(pending) /\ pending[i + 1] = Close(j) /\ i \in Nat
    BY <1>3, <1>5
  <2>2. /\ status[j] = "Disconnecting"
        /\ \A h \in 1..Len(pending) : pending[h] = Close(j) => h = i + 1
        /\ \A e \in active : e.con # j
        /\ i + 1 <= todo
    BY <1>1, <2>1 DEF RawInv, SoonClosed
  <2>3. ~(j = k /\ op = "ForceCloseInLoop")
    BY <1>1, <1>2, <2>1, <2>2
  <2>4. status'[j] = "Disconnecting"
    BY <2>2, <2>3
  <2>5. \A h \in 1..Len(pending') : pending'[h] = Close(j) => h = i
    <3>1. ASSUME NEW h \in 1..Len(pending'), pending'[h] = Close(j) PROVE h = i
      <4>1. h + 1 = i + 1
        BY <1>3, <2>2, <3>1
      <4>2. h \in Nat \/ h \in Int
        OBVIOUS
      <4> QED
        BY <2>1, <4>1, <4>2
    <3> QED
      BY <3>1
  <2>6. i <= todo'
    BY <1>1, <2>1, <2>2
  <2> QED
    BY <2>2, <2>4, <2>5, <2>6
<1>6. SoonClosed'
  BY <1>1, <1>4, <1>5 DEF SoonClosed
<1>7. \A j : Waits(pending', j) => Waits(pending, j)
  BY <1>3 DEF Waits
<1> QED
  BY <1>6, <1>7

(* The calls of functors.                                                  *)
LEMMA FunctorsKeepRaw ==
  ASSUME ServerInv, RestTyped, RawInv, NEW k \in Conns,
         \/ CallEstablished(k) \/ CallEstablishedInLoop(k)
         \/ CallForceCloseInLoop(k) \/ CallRemoveConnectionInLoop(k)
         \/ \E op \in RawOps : CallOnDestroyed(op, k)
  PROVE  RawInv'
<1>1. PICK op \in SharedOps \cup RawOps :
        /\ CallFunctor(op, k)
        /\ \/ CallEstablished(k) /\ op = "ConnectionEstablished"
           \/ CallEstablishedInLoop(k) /\ op = "ConnectionEstablishedInLoop"
           \/ CallForceCloseInLoop(k) /\ op = "ForceCloseInLoop"
           \/ CallRemoveConnectionInLoop(k) /\ op = "RemoveConnectionInLoop"
           \/ CallOnDestroyed(op, k) /\ op \in RawOps
  BY DEF CallEstablished, CallEstablishedInLoop, CallForceCloseInLoop,
         CallRemoveConnectionInLoop, CallOnDestroyed, SharedOps, RawOps
<1>2. /\ pending \in Seq(Functors) /\ pending # <<>>
      /\ Head(pending).op = op /\ Head(pending).con = k
      /\ k \in accepted
      /\ op \in EstablishOps => status[k] = "Connecting"
      /\ op = "ForceCloseInLoop" =>
           /\ Waits(pending, k) /\ status[k] # "Connecting"
           /\ k \notin Careless => status[k] = "Disconnecting"
      /\ op = "RemoveConnectionInLoop" => k \in Visited
      /\ ioPc = "functors"
      /\ UNCHANGED <<accepted, fd, name, ioPc, active, current, visited, kept,
                     closing, lateClosed>>
  BY <1>1, CalledHead
<1>3. Handling' /\ closing' \in lateClosed' \cup {NoConn}
  BY <1>2 DEF RawInv, Handling
<1>4. closedAgain' = closedAgain
  BY <1>1 DEF CallEstablished, CallEstablishedInLoop, CallForceCloseInLoop,
              CallRemoveConnectionInLoop, CallOnDestroyed, history
<1>5. Visited' = Visited /\ Careless' = Careless
  BY <1>2, <1>4 DEF Visited, Careless
<1>6. /\ EstablishesOnce(pending, status)
      /\ \A i \in 1..Len(pending) : pending[i].con \in Conns
  BY QueueTyped DEF RawInv
<1>7. CASE CallEstablished(k) /\ op = "ConnectionEstablished"
  <2> DEFINE g == Functor("ConnectionEstablishedInLoop", k)
  <2>1. /\ pending' = Append(Tail(pending), g)
        /\ UNCHANGED <<poller, status, connectionMap, orphaned, lost>>
    BY <1>7 DEF CallEstablished, history
  <2>2. /\ g \in Functors /\ g.con = k /\ g.op \in EstablishOps
        /\ op \in EstablishOps
    BY <1>7 DEF Functor, Functors, RawOps, EstablishOps
  <2> HIDE DEF g
  <2>3. EstablishesOnce(Append(Tail(pending), g), status)
    <3>1. /\ EstablishesOnce(Tail(pending), status)
          /\ \A i \in 1..Len(Tail(pending)) :
               ~(Tail(pending)[i].con = k /\ Tail(pending)[i].op \in EstablishOps)
      BY <1>2, <1>6, <2>2, RestEstablishesOnce
    <3>2. Tail(pending) \in Seq(Functors)
      BY <1>2, HeadTailProperties
    <3> QED
      BY <1>2, <2>2, <3>1, <3>2, MoreEstablishesOnce
  <2>4. SoonClosed' /\ \A j : Waits(pending', j) => Waits(pending, j)
    BY <1>1, <1>4, <2>1, <2>2, CallingKeepsSoon
  <2>5. Untouched'
    BY <1>2, <2>1, <2>4 DEF RawInv, Untouched
  <2>6. Named'
    <3>1. \A j : Open(j)' <=> Open(j)
      BY <1>5, <2>1 DEF Open
    <3> QED
      BY <1>2, <1>5, <2>1, <3>1 DEF RawInv, Named
  <2>7. RawFunctorsSafe'
    BY <1>2, <1>4, <2>1 DEF RawInv, RawFunctorsSafe
  <2> QED
    BY <1>3, <2>1, <2>3, <2>4, <2>5, <2>6, <2>7 DEF RawInv
<1>8. CASE CallEstablishedInLoop(k) /\ op = "ConnectionEstablishedInLoop"
  <2>1. status[k] = "Connecting" /\ op \in EstablishOps
    BY <1>2, <1>8 DEF EstablishOps
  <2>2. /\ pending' = Tail(pending)
        /\ poller' = UpdateChannel(poller, k, fd[k], {"read"})
        /\ status' = [status EXCEPT ![k] = "Connected"]
        /\ UNCHANGED <<connectionMap, orphaned, lost>>
    BY <1>8, <2>1 DEF CallEstablishedInLoop, history
  <2>3. \A f \in Fds : poller'.kernel[f].channel \in {poller.kernel[f].channel, k}
    <3>1. poller \in Pollers /\ fd[k] \in Fds
      BY <1>2 DEF ServerInv, Objects
    <3> QED
      BY <2>2, <3>1, KernelChannels
  <2>4. \A j \in Conns : j # k => status'[j] = status[j]
    BY <2>2 DEF RestTyped
  <2>5. EstablishesOnce(pending', status')
    <3>1. \A j \in Conns :
            \/ status[j] = "Connecting" => status'[j] = "Connecting"
            \/ j = Head(pending).con /\ Head(pending).op \in EstablishOps
      BY <1>2, <2>1, <2>4
    <3> QED
      BY <1>2, <1>6, <2>2, <3>1, RestEstablishesOnce
  <2>6. SoonClosed' /\ \A j : Waits(pending', j) => Waits(pending, j)
    BY <1>1, <1>4, <2>1, <2>2, <2>4, CallingKeepsSoon
  <2>7. status'[k] = "Connected"
    BY <2>2 DEF RestTyped
  <2>8. Untouched'
    BY <1>2, <2>3, <2>4, <2>6, <2>7 DEF RawInv, Untouched
  <2>9. Named'
    <3>1. \A j \in accepted : Open(j)' => Open(j)
      BY <1>5, <2>1, <2>4, QueueTyped DEF Open
    <3> QED
      BY <1>2, <1>5, <2>2, <3>1 DEF RawInv, Named
  <2>10. RawFunctorsSafe'
    BY <1>2, <1>4, <2>2 DEF RawInv, RawFunctorsSafe
  <2> QED
    BY <1>3, <2>5, <2>6, <2>8, <2>9, <2>10 DEF RawInv
<1>9. CASE \/ CallForceCloseInLoop(k) /\ op = "ForceCloseInLoop"
           \/ CallRemoveConnectionInLoop(k) /\ op = "RemoveConnectionInLoop"
  <2>1. /\ pending' = Tail(pending)
        /\ orphaned' = orphaned
        /\ k \in Live
        /\ \/ HandleClose(k) /\ op = "ForceCloseInLoop"
           \/ /\ RemoveConnectionInLoop(k) /\ k \in Visited
              /\ op = "RemoveConnectionInLoop"
           \/ UNCHANGED <<status, connectionMap, poller, lost>>
    <3>1. CASE CallForceCloseInLoop(k) /\ op = "ForceCloseInLoop"
      <4>1. k \in Live
        BY <3>1, LiveIsAlive DEF CallForceCloseInLoop, ServerInv
      <4> QED
        BY <3>1, <4>1 DEF CallForceCloseInLoop
    <3>2. CASE CallRemoveConnectionInLoop(k) /\ op = "RemoveConnectionInLoop"
      <4>1. /\ CallFunctor("RemoveConnectionInLoop", k)
            /\ "RemoveConnectionInLoop" \in SharedOps
        BY <3>2 DEF CallRemoveConnectionInLoop, SharedOps
      <4>2. k \in Sharing(pending) /\ k \notin deleted
        BY <4>1, CalledFunctor
      <4>3. k \in Live
        BY <4>2, LiveIsAlive DEF ServerInv
      <4> QED
        BY <1>2, <3>2, <4>3 DEF CallRemoveConnectionInLoop
    <3> QED
      BY <1>9, <3>1, <3>2
  <2>2. op \notin EstablishOps
    BY <1>9 DEF EstablishOps
  <2>3. /\ status' \in {status, [status EXCEPT ![k] = "Disconnected"]}
        /\ RemoveConnectionInLoop(k) /\ op = "RemoveConnectionInLoop" =>
             status' = status \/ status[k] = "Connected"
        /\ \A f \in Fds : poller'.kernel[f].channel
                            \in {poller.kernel[f].channel, k, NoConn}
        /\ RemoveConnectionInLoop(k) /\ status[k] # "Connected" =>
             \A f \in Fds : poller'.kernel[f].channel
                               \in {poller.kernel[f].channel, NoConn}
    BY <2>1, ClosingEffects
  <2>4. \A j \in Conns : j # k => status'[j] = status[j]
    BY <2>3 DEF RestTyped
  <2>5. status' = status \/ (status[k] # "Connecting" /\ status'[k] = "Disconnected")
    BY <1>2, <1>9, <2>1, <2>3 DEF RestTyped
  <2>6. \A j \in Conns : status'[j] = "Connecting" <=> status[j] = "Connecting"
    BY <2>4, <2>5
  <2>7. EstablishesOnce(pending', status')
    BY <1>2, <1>6, <2>1, <2>6, RestEstablishesOnce
  <2>8. SoonClosed' /\ \A j : Waits(pending', j) => Waits(pending, j)
    <3>1. \A j \in Conns : \/ status'[j] = status[j] \/ status[j] # "Disconnecting"
                           \/ j = k /\ op = "ForceCloseInLoop"
      BY <1>9, <2>1, <2>3, <2>4
    <3> QED
      BY <1>1, <1>4, <2>1, <3>1, CallingKeepsSoon
  <2>9. Untouched'
    <3>1. ASSUME NEW j \in Conns, status'[j] = "Connecting", NEW f \in Fds
          PROVE  poller'.kernel[f].channel # j
      <4>1. /\ poller.kernel[f].channel # j /\ status[j] = "Connecting"
            /\ j # NoConn
        BY <2>6, <3>1, ConnsAssumption DEF RawInv, Untouched, NoConn
      <4>2. CASE j # k \/ UNCHANGED poller
        BY <2>1, <2>3, <4>1, <4>2
      <4>3. CASE j = k /\ RemoveConnectionInLoop(k)
        BY <2>3, <4>1, <4>3
      <4>4. j = k => op # "ForceCloseInLoop"
        BY <1>2, <4>1
      <4> QED
        BY <2>1, <4>2, <4>3, <4>4
    <3> QED
      BY <1>2, <2>6, <2>8, <3>1 DEF RawInv, Untouched
  <2>10. Named' /\ RawFunctorsSafe'
    <3>1. CASE UNCHANGED <<status, connectionMap, poller, lost>>
      <4>1. \A j : Open(j)' <=> Open(j)
        BY <1>5, <3>1 DEF Open
      <4> QED
        BY <1>2, <1>4, <1>5, <2>1, <3>1, <4>1
        DEF RawInv, Named, RawFunctorsSafe
    <3> QED
      BY <1>2, <1>4, <2>1, <3>1, ClosingKeepsNamed
  <2> QED
    BY <1>3, <2>7, <2>8, <2>9, <2>10 DEF RawInv
<1>10. CASE CallOnDestroyed(op, k) /\ op \in RawOps
  <2>1. /\ pending' = Tail(pending) /\ ~Alive(k)
        /\ orphaned' = orphaned \cup {Functor(op, k)}
        /\ UNCHANGED <<poller, status, connectionMap, lost>>
    BY <1>10 DEF CallOnDestroyed
  <2>2. EstablishesOnce(pending', status')
    BY <1>2, <1>6, <2>1, RestEstablishesOnce
  <2>3. SoonClosed' /\ \A j : Waits(pending', j) => Waits(pending, j)
    BY <1>1, <1>4, <2>1, CallingKeepsSoon
  <2>4. Untouched'
    BY <1>2, <2>1, <2>3 DEF RawInv, Untouched
  <2>5. Named'
    <3>1. \A j : Open(j)' <=> Open(j)
      BY <1>5, <2>1 DEF Open
    <3> QED
      BY <1>2, <1>5, <2>1, <3>1 DEF RawInv, Named
  <2>6. \/ k \in Visited \/ k \in lost
        \/ op = "ForceCloseInLoop" /\ k \in Careless
    <3>1. op \in EstablishOps \/ op = "ForceCloseInLoop"
      BY <1>10 DEF RawOps, EstablishOps
    <3>2. Open(k) \/ (op = "ForceCloseInLoop" /\ k \in Careless)
      BY <1>2, <3>1 DEF Open
    <3> QED
      BY <1>2, <2>1, <3>2, OpenIsAlive
  <2>7. RawFunctorsSafe'
    <3>1. DOMAIN visited = 1..Len(visited)
      BY LenProperties DEF ServerInv, Holders
    <3>2. Functor(op, k).op = op /\ Functor(op, k).con = k
      BY DEF Functor
    <3>3. ASSUME NEW f \in orphaned'
          PROVE  \/ \E i \in DOMAIN visited : visited[i] = f.con
                 \/ f.con \in lost
                 \/ f.op = "ForceCloseInLoop" /\ f.con \in closedAgain \cup lateClosed
      BY <2>1, <2>6, <3>1, <3>2 DEF RawInv, RawFunctorsSafe, Visited, Careless
    <3> QED
      BY <1>2, <1>4, <2>1, <3>3 DEF RawFunctorsSafe
  <2> QED
    BY <1>3, <2>2, <2>3, <2>4, <2>5, <2>7 DEF RawInv
<1> QED
  BY <1>1, <1>7, <1>8, <1>9, <1>10

(* A new connection, and the one of its name that the map may lose.        *)
LEMMA AcceptKeepsRaw ==
  ASSUME ServerInv, RestTyped, RawInv, NEW k \in Conns, NEW n \in Names,
         HandleNewConnection(k, n)
  PROVE  RawInv'
<1> DEFINE g == Functor("ConnectionEstablished", k)
           f == LowestFreeFd
<1>1. /\ k \notin accepted /\ accepted' = accepted \cup {k}
      /\ poller' = [poller EXCEPT !.kernel[f] = NotWatched]
      /\ name' = [name EXCEPT ![k] = n]
      /\ connectionMap' = [connectionMap EXCEPT ![n] = k]
      /\ lost' = lost \cup Displaced(n, k)
      /\ pending' = Append(pending, g)
      /\ UNCHANGED <<status, ioPc, active, current, todo, visited, kept, closing,
                     lateClosed, orphaned, closedAgain>>
  BY DEF HandleNewConnection, CloseFd, ioVars, mainVars, userVars
<1>2. /\ g \in Functors /\ g.con = k /\ \A j : g # Close(j)
  BY DEF Functor, Functors, SharedOps, Close
<1> HIDE DEF g, f
<1>3. /\ pending \in Seq(Functors) /\ Len(pending) \in Nat
      /\ todo \in 0..Len(pending)
      /\ \A i \in 1..Len(pending) : pending[i].con \in accepted
      /\ accepted \subseteq Conns /\ visited \in Seq(Conns)
  BY QueueTyped DEF ServerInv, Holders
<1>4. /\ Len(pending') = Len(pending) + 1
      /\ \A i \in 1..Len(pending') : \A j :
           pending'[i] = Close(j) =>
             i \in 1..Len(pending) /\ pending[i] = pending'[i]
  BY <1>1, <1>2, <1>3, AppendIndex
<1>5. \A j : Waits(pending', j) => Waits(pending, j)
  BY <1>4 DEF Waits
<1>6. Visited' = Visited /\ Careless' = Careless
  BY <1>1 DEF Visited, Careless
<1>7. EstablishesOnce(pending, status)'
  <2>1. status[k] = "Connecting" /\ EstablishesOnce(pending, status)
    BY <1>1 DEF RawInv, Untouched
  <2>2. \A i \in 1..Len(pending) : pending[i].con # k
    BY <1>1, <1>3
  <2> QED
    BY <1>1, <1>2, <1>3, <2>1, <2>2, MoreEstablishesOnce
<1>8. Handling'
  BY <1>1 DEF RawInv, Handling
<1>9. Untouched'
  <2>1. poller'.kernel = [poller.kernel EXCEPT ![f] = NotWatched]
        /\ poller.kernel \in [Fds -> [channel : Conns \cup {NoConn},
                                      events : {{}, {"read"}}]]
    BY <1>1 DEF ServerInv, Pollers
  <2>2. NotWatched.channel = NoConn /\ NoConn \notin Conns
    BY ConnsAssumption DEF NotWatched, Watched, NoConn
  <2>3. \A h \in Fds : poller'.kernel[h].channel \in {poller.kernel[h].channel, NoConn}
    BY <2>1, <2>2
  <2> QED
    BY <1>1, <1>5, <2>2, <2>3 DEF RawInv, Untouched
<1>10. Named'
  <2>1. ASSUME NEW j \in accepted', Open(j)'
        PROVE  j \in Visited \cup lost' \/ connectionMap'[name'[j]] = j
    <3>1. CASE j = k
      BY <1>1, <3>1 DEF ServerInv, Objects, Holders
    <3>2. CASE j # k
      <4>1. j \in accepted /\ j \in Conns /\ name'[j] = name[j] /\ name[j] \in Names
        BY <1>1, <1>3, <3>2 DEF ServerInv, Objects
      <4>2. Open(j)
        BY <1>1, <1>6, <2>1 DEF Open
      <4>3. j \in Visited \cup lost \/ connectionMap[name[j]] = j
        BY <4>1, <4>2 DEF RawInv, Named
      <4>4. j # NoConn
        BY <4>1, ConnsAssumption DEF NoConn
      <4>5. connectionMap \in [Names -> accepted \cup {NoConn}]
        BY DEF ServerInv, Holders
      <4> QED
        BY <1>1, <3>2, <4>1, <4>3, <4>4, <4>5 DEF Displaced
    <3> QED
      BY <3>1, <3>2
  <2> QED
    BY <1>6, <2>1 DEF Named
<1>11. SoonClosed'
  <2>1. ASSUME NEW j \in Conns \ Careless, NEW i \in 1..Len(pending'),
               pending'[i] = Close(j)
        PROVE  /\ status[j] = "Disconnecting"
               /\ \A h \in 1..Len(pending') : pending'[h] = Close(j) => h = i
               /\ ioPc # "poll"
               /\ \A e \in active : e.con # j
               /\ ioPc = "handle" /\ current.con = j => current.calls = <<>>
               /\ ioPc = "functors" => i <= todo
    BY <1>4, <2>1 DEF RawInv, SoonClosed
  <2> QED
    BY <1>1, <1>6, <2>1 DEF SoonClosed
<1>12. RawFunctorsSafe' /\ closing' \in lateClosed' \cup {NoConn}
  BY <1>1, <1>3, <1>6, ExcusesStay DEF RawInv
<1> QED
  BY <1>7, <1>8, <1>9, <1>10, <1>11, <1>12 DEF RawInv

(* A functor that joins the queue from outside the loop: it is stop()'s,   *)
(* or the ForceClose of a thread that can be overtaken.                    *)
LEMMA JoiningKeepsRaw ==
  ASSUME ServerInv, RestTyped, RawInv, NEW g \in Functors,
         pending' = Append(pending, g), g.op \notin EstablishOps,
         g.op = "ForceCloseInLoop" =>
           g.con \in Careless /\ status[g.con] # "Connecting",
         UNCHANGED <<poller, accepted, name, status, connectionMap, ioPc, active,
                     current, todo, kept, lateClosed, history>>,
         closing' \in {closing, NoConn},
         visited' \in Seq(Conns), Visited \subseteq Visited'
  PROVE  RawInv'
<1>1. /\ pending \in Seq(Functors) /\ Len(pending) \in Nat
      /\ todo \in 0..Len(pending)
      /\ \A i \in 1..Len(pending) : pending[i].con \in Conns
      /\ visited \in Seq(Conns)
  BY QueueTyped DEF ServerInv, Holders
<1>2. \A i \in 1..Len(pending') :
        (i \in 1..Len(pending) /\ pending'[i] = pending[i]) \/ pending'[i] = g
  BY <1>1, AppendIndex
<1>3. Careless' = Careless /\ UNCHANGED <<orphaned, lost, closedAgain>>
  BY DEF Careless, history
<1>4. \A k : g = Close(k) => k \in Careless /\ status[k] # "Connecting"
  BY DEF Close, Functor
<1>5. EstablishesOnce(pending, status)'
  <2>1. EstablishesOnce(pending, status)
    BY DEF RawInv
  <2>2. \A i \in 1..Len(pending') :
          pending'[i].op \in EstablishOps =>
            i \in 1..Len(pending) /\ pending'[i] = pending[i]
    BY <1>2
  <2> QED
    BY <2>1, <2>2 DEF EstablishesOnce
<1>6. Handling'
  BY DEF RawInv, Handling
<1>7. Untouched'
  <2>1. \A k : status[k] = "Connecting" /\ Waits(pending', k) => Waits(pending, k)
    BY <1>2, <1>4 DEF Waits
  <2>2. NoConn \notin Conns
    BY ConnsAssumption DEF NoConn
  <2> QED
    BY <2>1, <2>2 DEF RawInv, Untouched
<1>8. Named'
  <2>1. \A k : Open(k)' <=> Open(k)
    BY <1>3 DEF Open
  <2> QED
    BY <1>3, <2>1 DEF RawInv, Named
<1>9. SoonClosed'
  <2>1. ASSUME NEW k \in Conns \ Careless, NEW i \in 1..Len(pending'),
               pending'[i] = Close(k)
        PROVE  i \in 1..Len(pending) /\ pending[i] = Close(k)
    BY <1>2, <1>4, <2>1
  <2> QED
    BY <1>3, <2>1 DEF RawInv, SoonClosed
<1>10. RawFunctorsSafe' /\ closing' \in lateClosed' \cup {NoConn}
  BY <1>1, <1>3, ExcusesStay DEF RawInv
<1> QED
  BY <1>5, <1>6, <1>7, <1>8, <1>9, <1>10 DEF RawInv

(* The first half of a ForceClose outside the loop.                        *)
LEMMA LateForceCloseKeepsRaw ==
  ASSUME ServerInv, RestTyped, RawInv, NEW k \in Conns, LateForceClose(k)
  PROVE  RawInv'
<1>1. /\ k \in kept /\ closing' = k
      /\ lateClosed' = lateClosed \cup {k}
      /\ status' = [status EXCEPT ![k] = "Disconnecting"]
      /\ UNCHANGED <<poller, accepted, name, connectionMap, ioPc, active,
                     current, pending, todo, visited, kept, orphaned, lost,
                     closedAgain>>
  BY DEF LateForceClose, objVars, ioVars, mainVars, history
<1>2. /\ k \in accepted /\ status[k] # "Connecting"
      /\ status'[k] = "Disconnecting"
      /\ \A j \in Conns : j # k => status'[j] = status[j]
      /\ accepted \subseteq Conns /\ visited \in Seq(Conns)
  BY <1>1, QueueTyped DEF RawInv, Untouched, RestTyped, ServerInv, Holders
<1>3. Visited' = Visited /\ Careless' = Careless \cup {k}
  BY <1>1 DEF Visited, Careless
<1>4. Handling'
  BY <1>1 DEF RawInv, Handling
<1>5. EstablishesOnce(pending, status)'
  <2>1. EstablishesOnce(pending, status)
    BY DEF RawInv
  <2>2. \A i \in 1..Len(pending) : pending[i].con \in Conns
    BY QueueTyped
  <2>3. \A j \in Conns : status[j] = "Connecting" => status'[j] = "Connecting"
    BY <1>2
  <2>4. EstablishesOnce(pending, status')
    BY <2>1, <2>2, <2>3, StillEstablishesOnce
  <2> QED
    BY <1>1, <2>4
<1>6. Untouched'
  BY <1>1, <1>2 DEF RawInv, Untouched
<1>7. Named'
  <2>1. \A j \in accepted : Open(j)' => Open(j)
    BY <1>2, <1>3 DEF Open
  <2> QED
    BY <1>1, <1>3, <2>1 DEF RawInv, Named
<1>8. SoonClosed'
  BY <1>1, <1>2, <1>3 DEF RawInv, SoonClosed
<1>9. RawFunctorsSafe' /\ closing' \in lateClosed' \cup {NoConn}
  BY <1>1, <1>2, <1>3, ExcusesStay
<1> QED
  BY <1>4, <1>5, <1>6, <1>7, <1>8, <1>9 DEF RawInv

(* The steps outside the loop.                                             *)
LEMMA OutsideKeepsRaw ==
  ASSUME ServerInv, RestTyped, RawInv, MainStep \/ UserStep \/ PeerStep,
         ServerInv'
  PROVE  RawInv'
<1>1. ASSUME NEW k \in Conns, NEW n \in Names, HandleNewConnection(k, n)
      PROVE  RawInv'
  BY <1>1, AcceptKeepsRaw
<1>2. CASE \/ StopBegins \/ StopEnds
           \/ \E k \in Conns : UserDrops(k) \/ PeerSends(k) \/ PeerLeaves(k)
  BY <1>2, QuietKeepsRaw
  DEF StopBegins, StopEnds, UserDrops, PeerSends, PeerLeaves, objVars, ioVars,
      mainVars, userVars
<1>3. ASSUME NEW k \in Conns, StopVisits(k) PROVE RawInv'
  <2> DEFINE g == Functor("RemoveConnectionInLoop", k)
  <2>1. /\ pending' = Append(pending, g) /\ visited' = <<k>> \o visited
        /\ UNCHANGED <<poller, accepted, name, status, connectionMap, ioPc,
                       active, current, todo, kept, closing, lateClosed, history>>
    BY <1>3 DEF StopVisits, objVars, ioVars, userVars
  <2>2. /\ g \in Functors /\ g.op \notin EstablishOps
        /\ g.op # "ForceCloseInLoop"
    BY DEF Functor, Functors, SharedOps, EstablishOps
  <2> HIDE DEF g
  <2>3. visited' \in Seq(Conns) /\ Visited \subseteq Visited'
    BY <2>1, VisitsGrow DEF ServerInv, Holders
  <2> QED
    BY <2>1, <2>2, <2>3, JoiningKeepsRaw
<1>4. CASE LateForceCloseQueues
  <2> DEFINE g == Functor("ForceCloseInLoop", closing)
  <2>1. /\ pending' = Append(pending, g) /\ closing # NoConn /\ closing' = NoConn
        /\ UNCHANGED <<poller, accepted, name, status, connectionMap, ioPc,
                       active, current, todo, visited, kept, lateClosed, history>>
    BY <1>4 DEF LateForceCloseQueues, objVars, ioVars, mainVars
  <2>2. closing \in accepted /\ closing \in Conns /\ closing \in lateClosed
    BY <2>1, QueueTyped DEF ServerInv, Holders, RawInv
  <2>3. /\ g \in Functors /\ g.op \notin EstablishOps /\ g.con = closing
    BY <2>2 DEF Functor, Functors, RawOps, EstablishOps
  <2>4. closing \in Careless /\ status[closing] # "Connecting"
    BY <2>2 DEF RawInv, Untouched, Careless
  <2>5. visited' \in Seq(Conns) /\ Visited' = Visited
    BY <2>1 DEF ServerInv, Holders, Visited
  <2> HIDE DEF g
  <2> QED
    BY <2>1, <2>3, <2>4, <2>5, JoiningKeepsRaw
<1>5. ASSUME NEW k \in Conns, LateForceClose(k) PROVE RawInv'
  BY <1>5, LateForceCloseKeepsRaw
<1> QED
  BY <1>1, <1>2, <1>3, <1>4, <1>5 DEF MainStep, UserStep, PeerStep

(* At the start nothing waits and nothing is established.                  *)
LEMMA InitRaw ==
  ASSUME Init
  PROVE  RawInv
<1>1. /\ pending = <<>> /\ Len(pending) = 0 /\ closing = NoConn
      /\ accepted = {} /\ orphaned = {} /\ active = {} /\ kept = {}
      /\ status = [k \in Conns |-> "Connecting"]
      /\ current = [con |-> NoConn, calls |-> <<>>]
      /\ NoConn \notin Conns
  BY ConnsAssumption DEF Init, NoConn
<1>2. \A f \in Fds : poller.kernel[f].channel = NoConn
  BY DEF Init, NewPoller, NotWatched, Watched, NoConn
<1>3. Handling
  BY <1>1 DEF Handling, Calls
<1>4. EstablishesOnce(pending, status) /\ SoonClosed
  BY <1>1 DEF EstablishesOnce, SoonClosed
<1>5. Untouched
  BY <1>1, <1>2 DEF Untouched, Waits
<1> QED
  BY <1>1, <1>3, <1>4, <1>5 DEF RawInv, Named, RawFunctorsSafe

(* Where every raw functor comes from and what it will find, whatever the  *)
(* user, the peers and stop() do.                                          *)
THEOREM RawInvariant == Spec => [](ServerInv /\ RestTyped /\ RawInv)
<1>1. Init => RawInv
  BY InitRaw
<1>2. ServerInv /\ RestTyped /\ RawInv /\ [Next]_vars /\ ServerInv' => RawInv'
  <2> SUFFICES ASSUME ServerInv, RestTyped, RawInv, [Next]_vars, ServerInv'
               PROVE  RawInv'
    OBVIOUS
  <2>1. CASE UNCHANGED vars
    BY <2>1, QuietKeepsRaw DEF vars, history
  <2>2. CASE IoStep
    BY <2>2, LoopKeepsRaw, CallbacksKeepRaw, ReadMessageKeepsRaw, FunctorsKeepRaw
    DEF IoStep
  <2>3. CASE MainStep \/ UserStep \/ PeerStep
    BY <2>3, OutsideKeepsRaw
  <2> QED
    BY <2>1, <2>2, <2>3 DEF Next
<1> QED
  BY <1>1, <1>2, ServerInvariant, RestCorrect, PTL DEF Spec

(* A functor bound to a raw this finds its connection alive, but for the   *)
(* causes that RawFunctorsSafe names.                                      *)
THEOREM RawFunctorsFindTheLiving == Spec => []RawFunctorsSafe
<1>1. RawInv => RawFunctorsSafe
  BY DEF RawInv
<1> QED
  BY <1>1, RawInvariant, PTL
=============================================================================
