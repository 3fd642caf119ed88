------------------------- MODULE TcpServerLife_proofs -------------------------
(***************************************************************************)
(* Proofs about the life of the connections of TcpServer.tla, for any      *)
(* connections, descriptors, names and messages, and under the assumption  *)
(* Orderly, without which the code does not do what is proved here:        *)
(* nobody calls stop(), no name comes back while the map has it, nobody    *)
(* calls ForceClose outside the read callback, and the user keeps no       *)
(* pointer to a connection that its peer may reset.                        *)
(***************************************************************************)
EXTENDS TcpServer_proofs

Orderly ==
  /\ ~CanStop
  /\ ~NameReuse
  /\ LateClosed = {}
  /\ Kept \cap Resettable = {}

-----------------------------------------------------------------------------
(* The parts of the invariant *)

Up(k) == status[k] \in {"Connected", "Disconnecting"}

(* The status of a connection says what has been reported of it.           *)
Stages ==
  /\ status \in [Conns -> Statuses]
  /\ ups \in [Conns -> Nat] /\ downs \in [Conns -> Nat]
  /\ \A k \in Conns :
       /\ ups[k] = IF status[k] = "Connecting" THEN 0 ELSE 1
       /\ downs[k] = IF status[k] = "Disconnected" THEN 1 ELSE 0
       /\ k \notin accepted => status[k] = "Connecting"

(* The map has the connections that are not closed, under their names.     *)
Mapped ==
  /\ \A k \in accepted :
       status[k] # "Disconnected" => connectionMap[name[k]] = k
  /\ \A n \in Names :
       connectionMap[n] # NoConn =>
         /\ name[connectionMap[n]] = n
         /\ status[connectionMap[n]] # "Disconnected"

(* The poller has the connections that are up, under their descriptors.    *)
Tabled ==
  /\ \A f \in Fds :
       poller.channelMap[f] # NoConn =>
         /\ fd[poller.channelMap[f]] = f
         /\ Up(poller.channelMap[f])
  /\ \A k \in Conns :
       Up(k) =>
         /\ poller.channelMap[fd[k]] = k
         /\ poller.index[k] = "added"
         /\ poller.kernel[fd[k]] = Watched(k, {"read"})

(* Only connections that are up have events to handle, and only a reset    *)
(* lets HandleEvent go on after it has closed the connection.              *)
Events ==
  /\ \A e \in active :
       /\ Up(e.con)
       /\ "ERR" \in e.events \/ "HUP" \in e.events => e.con \in Resettable
  /\ ioPc = "handle" =>
       /\ current.con \in Conns
       /\ current.calls \notin {<<>>, <<"read">>} => current.con \in Resettable
       /\ current.calls # <<>> /\ ~Up(current.con) => current.con \in Resettable

Quiet ==
  /\ mainPc = "serve" /\ visited = <<>> /\ closing = NoConn
  /\ kept \subseteq Kept
  /\ peer \in [Conns -> {"none", "open", "closed", "reset"}]
  /\ \A k \in Conns : peer[k] = "reset" => k \in Resettable

(* What is known of the connections, and what is still to be done.         *)
Known == Stages /\ Mapped /\ Tabled
Doing == Events /\ Quiet

LifeInv == Known /\ Doing

-----------------------------------------------------------------------------
(* What the invariant says of a state *)

(* Who is alive, where it is, and what waits for it.                       *)
LEMMA Facts ==
  ASSUME Orderly, ServerInv, RawInv, LifeInv
  PROVE  /\ deleted = {}
         /\ \A k \in accepted :
              status[k] # "Disconnected" =>
                Alive(k) /\ k \in Live /\ fd[k] \in Fds /\ name[k] \in Names
         /\ \A k \in Conns : Up(k) => k \in accepted
         /\ \A k \in Conns :
              Alive(k) /\ status[k] = "Disconnected" => k \in kept
         /\ \A i \in 1..Len(pending) :
              /\ pending[i] \in Functors
              /\ pending[i].con \in accepted
              /\ pending[i].op # "RemoveConnectionInLoop"
<1>1. Visited = {}
  BY EmptySeq DEF LifeInv, Doing, Quiet, Visited
<1>2. deleted = {}
  BY <1>1 DEF ServerInv, Holders
<1>3. \A i \in 1..Len(pending) :
        /\ pending[i] \in Functors
        /\ pending[i].con \in accepted
        /\ pending[i].op # "RemoveConnectionInLoop"
  <2>1. QueueOK(pending, accepted, Visited, deleted)
    BY DEF ServerInv, Holders
  <2>2. \A i \in 1..Len(pending) : pending[i] \in Functors
    BY <2>1, ElementOfSeq DEF QueueOK
  <2> QED
    BY <1>1, <2>1, <2>2 DEF QueueOK
<1>4. ASSUME NEW k \in accepted, status[k] # "Disconnected"
      PROVE  Alive(k) /\ k \in Live /\ fd[k] \in Fds /\ name[k] \in Names
  <2>1. k \in Conns /\ fd[k] \in Fds /\ name[k] \in Names
    BY DEF ServerInv, Objects
  <2>2. connectionMap[name[k]] = k
    BY <1>4 DEF LifeInv, Known, Mapped
  <2>3. Alive(k)
    BY <1>2, <2>1, <2>2 DEF Alive, Held, InMap
  <2> QED
    BY <2>1, <2>3, LiveIsAlive DEF ServerInv
<1>5. \A k \in Conns : Up(k) => k \in accepted
  BY DEF LifeInv, Known, Stages, Up
<1>6. ASSUME NEW k \in Conns, Alive(k), status[k] = "Disconnected"
      PROVE  k \in kept
  <2>1. ~InMap(k)
    BY <1>6, ConnsAssumption DEF InMap, NoConn, LifeInv, Known, Mapped
  <2>2. ~InQueue(k)
    <3>1. pending \in Seq(Functors) /\ DOMAIN pending = 1..Len(pending)
      BY LenProperties DEF ServerInv, Holders, QueueOK
    <3>2. \A i \in 1..Len(pending) :
            pending[i].op = "ConnectionEstablished" => pending[i].con # k
      BY <1>6 DEF RawInv, EstablishesOnce, EstablishOps
    <3> QED
      BY <1>3, <3>1, <3>2 DEF InQueue, SharedOps
  <2> QED
    BY <1>6, <2>1, <2>2 DEF Alive, Held
<1> QED
  BY <1>2, <1>3, <1>4, <1>5, <1>6

(* The poller after the close of a connection that is up.                  *)
LEMMA ClosedPoller ==
  ASSUME Orderly, ServerInv, RawInv, LifeInv, NEW k \in Conns, Up(k)
  PROVE  /\ fd[k] \in Fds /\ k # NoConn
         /\ LET p == Unregistered(Silenced(k), k)
            IN  /\ p.channelMap = [poller.channelMap EXCEPT ![fd[k]] = NoConn]
                /\ p.index = [poller.index EXCEPT ![k] = "deleted"]
                /\ p.kernel = [poller.kernel EXCEPT ![fd[k]] = NotWatched]
<1> DEFINE f == fd[k]
           w == Watched(k, {})
           s == [poller EXCEPT !.kernel[f] = w]
           u == [s EXCEPT !.channelMap[f] = NoChannel, !.index[k] = "deleted",
                          !.kernel[f] = NotWatched]
<1>1. /\ k \in accepted /\ f \in Fds /\ k # NoChannel
      /\ poller \in Pollers
  BY Facts, ConnsAssumption DEF ServerInv, Up
<1>2. /\ poller.channelMap[f] = k /\ poller.index[k] = "added"
      /\ poller.kernel[f] = Watched(k, {"read"})
  BY DEF LifeInv, Known, Tabled
<1>3. Watched(k, {"read"}) # NotWatched /\ w # NotWatched
  BY <1>1 DEF Watched, NotWatched
<1>4. Silenced(k) = s
  BY <1>1, <1>2, <1>3
  DEF Silenced, UpdateChannel, ModifyChannel, CtlModOrDel
<1> HIDE DEF w
<1>5. /\ s.channelMap = poller.channelMap /\ s.index = poller.index
      /\ s.kernel = [poller.kernel EXCEPT ![f] = w]
      /\ s.kernel[f] = w
      /\ s \in [channelMap : {s.channelMap}, index : {s.index}, kernel : {s.kernel}]
  BY <1>1 DEF Pollers
<1> HIDE DEF s
<1>6. Unregistered(s, k) = u
  BY <1>3, <1>5 DEF Unregistered, RemoveChannel, CtlModOrDel
<1>7. /\ u.channelMap = [s.channelMap EXCEPT ![f] = NoChannel]
      /\ u.index = [s.index EXCEPT ![k] = "deleted"]
      /\ u.kernel = [s.kernel EXCEPT ![f] = NotWatched]
  BY <1>5
<1>8. u.kernel = [poller.kernel EXCEPT ![f] = NotWatched]
  BY <1>1, <1>5, <1>7 DEF Pollers
<1> HIDE DEF u
<1> QED
  BY <1>1, <1>4, <1>5, <1>6, <1>7, <1>8 DEF NoConn

(* The close of a connection that is up.                                   *)
LEMMA CloseKeepsKnown ==
  ASSUME Orderly, ServerInv, RawInv, LifeInv, NEW k \in Conns, Up(k), HandleClose(k),
         UNCHANGED <<accepted, fd, name, ups>>
  PROVE  /\ Known'
         /\ status' = [status EXCEPT ![k] = "Disconnected"]
<1> DEFINE f == fd[k]
<1>1. /\ k \in accepted /\ k \in Live /\ f \in Fds /\ k # NoConn
      /\ name[k] \in Names /\ connectionMap[name[k]] = k
      /\ status \in [Conns -> Statuses] /\ downs \in [Conns -> Nat]
  <2>1. k \in accepted /\ status[k] # "Disconnected"
    BY Facts DEF Up
  <2>2. k \in Live /\ f \in Fds /\ name[k] \in Names
    BY <2>1, Facts
  <2> QED
    BY <2>1, <2>2, ConnsAssumption DEF NoConn, LifeInv, Known, Mapped, Stages
<1>2. /\ status' = [status EXCEPT ![k] = "Disconnected"]
      /\ downs' = [downs EXCEPT ![k] = @ + 1]
      /\ connectionMap' = [connectionMap EXCEPT ![name[k]] = NoConn]
      /\ poller' = Unregistered(Silenced(k), k)
  BY <1>1 DEF HandleClose, InTheMap, ErasedFromMap, Up
<1>3. /\ poller'.channelMap = [poller.channelMap EXCEPT ![f] = NoConn]
      /\ poller'.index = [poller.index EXCEPT ![k] = "deleted"]
      /\ poller'.kernel = [poller.kernel EXCEPT ![f] = NotWatched]
  BY <1>2, ClosedPoller
<1>4. /\ status'[k] = "Disconnected" /\ status' \in [Conns -> Statuses]
      /\ \A j \in Conns : j # k => status'[j] = status[j]
  BY <1>1, <1>2 DEF Statuses
<1>5. Stages'
  <2>1. downs' \in [Conns -> Nat]
    BY <1>1, <1>2
  <2>2. ups' = ups
    OBVIOUS
  <2>3. ASSUME NEW j \in Conns
        PROVE  /\ ups'[j] = IF status'[j] = "Connecting" THEN 0 ELSE 1
               /\ downs'[j] = IF status'[j] = "Disconnected" THEN 1 ELSE 0
               /\ j \notin accepted' => status'[j] = "Connecting"
    <3>1. CASE j = k
      BY <1>1, <1>2, <1>4, <2>2, <3>1 DEF LifeInv, Known, Stages, Up
    <3>2. CASE j # k
      BY <1>1, <1>2, <1>4, <2>2, <3>2 DEF LifeInv, Known, Stages
    <3> QED
      BY <3>1, <3>2
  <2> QED
    BY <1>4, <2>1, <2>2, <2>3 DEF Stages, LifeInv, Known
<1>6. Mapped'
  <2>1. connectionMap \in [Names -> accepted \cup {NoConn}]
        /\ accepted \subseteq Conns
    BY DEF ServerInv, Holders, Objects
  <2>2. ASSUME NEW j \in accepted, status'[j] # "Disconnected"
        PROVE  connectionMap'[name[j]] = j
    <3>1. j # k /\ status[j] # "Disconnected" /\ name[j] \in Names
      BY <1>4, <2>1, <2>2 DEF ServerInv, Objects
    <3>2. connectionMap[name[j]] = j
      BY <3>1 DEF LifeInv, Known, Mapped
    <3> QED
      BY <1>1, <1>2, <2>1, <3>1, <3>2
  <2>3. ASSUME NEW n \in Names, connectionMap'[n] # NoConn
        PROVE  /\ name[connectionMap'[n]] = n
               /\ status'[connectionMap'[n]] # "Disconnected"
    <3>1. n # name[k] /\ connectionMap'[n] = connectionMap[n]
      BY <1>1, <1>2, <2>1, <2>3
    <3>2. /\ name[connectionMap[n]] = n
          /\ status[connectionMap[n]] # "Disconnected"
          /\ connectionMap[n] \in Conns
      BY <2>1, <2>3, <3>1 DEF LifeInv, Known, Mapped
    <3> QED
      BY <1>4, <3>1, <3>2
  <2> QED
    BY <2>2, <2>3 DEF Mapped
<1>7. Tabled'
  <2>1. poller \in Pollers
    BY DEF ServerInv
  <2>2. ASSUME NEW g \in Fds, poller'.channelMap[g] # NoConn
        PROVE  /\ fd[poller'.channelMap[g]] = g
               /\ status'[poller'.channelMap[g]] \in {"Connected", "Disconnecting"}
    <3>1. g # f /\ poller'.channelMap[g] = poller.channelMap[g]
      BY <1>1, <1>3, <2>1, <2>2 DEF Pollers
    <3>2. /\ fd[poller.channelMap[g]] = g /\ Up(poller.channelMap[g])
          /\ poller.channelMap[g] \in Conns
      BY <2>1, <2>2, <3>1 DEF LifeInv, Known, Tabled, Pollers
    <3> QED
      BY <1>4, <3>1, <3>2 DEF Up
  <2>3. ASSUME NEW j \in Conns, status'[j] \in {"Connected", "Disconnecting"}
        PROVE  /\ poller'.channelMap[fd[j]] = j
               /\ poller'.index[j] = "added"
               /\ poller'.kernel[fd[j]] = Watched(j, {"read"})
    <3>1. j # k /\ Up(j)
      BY <1>4, <2>3 DEF Up
    <3>2. j \in Live /\ fd[j] \in Fds
      BY <3>1, Facts DEF Up
    <3>3. fd[j] # f
      BY <1>1, <3>1, <3>2 DEF ServerInv, OneOwner
    <3>4. /\ poller.channelMap[fd[j]] = j
          /\ poller.index[j] = "added"
          /\ poller.kernel[fd[j]] = Watched(j, {"read"})
      BY <3>1 DEF LifeInv, Known, Tabled
    <3> QED
      BY <1>1, <1>3, <2>1, <3>1, <3>2, <3>3, <3>4 DEF Pollers
  <2> QED
    BY <2>2, <2>3 DEF Tabled, Up
<1> QED
  BY <1>2, <1>5, <1>6, <1>7 DEF Known

(* A step that does not touch what is known of the connections.            *)
LEMMA KnownStays ==
  ASSUME LifeInv,
         UNCHANGED <<status, connectionMap, poller, accepted, fd, name, ups, downs>>
  PROVE  Known'
BY DEF LifeInv, Known, Stages, Mapped, Tabled, Up

(* A connecting connection is registered for input: neither the poller's   *)
(* table nor the kernel has its descriptor.                                *)
LEMMA EstablishedPoller ==
  ASSUME Orderly, ServerInv, RawInv, LifeInv, NEW k \in accepted,
         status[k] = "Connecting"
  PROVE  /\ fd[k] \in Fds /\ k # NoConn /\ k \in Live
         /\ LET p == UpdateChannel(poller, k, fd[k], {"read"})
            IN  /\ p.channelMap = [poller.channelMap EXCEPT ![fd[k]] = k]
                /\ p.index = [poller.index EXCEPT ![k] = "added"]
                /\ p.kernel = [poller.kernel EXCEPT ![fd[k]] = Watched(k, {"read"})]
<1> DEFINE f == fd[k]
           w == Watched(k, {"read"})
           u == [poller EXCEPT !.channelMap[f] = k, !.index[k] = "added",
                               !.kernel[f] = w]
<1>1. /\ k \in Conns /\ k \in Live /\ f \in Fds /\ k # NoConn
      /\ poller \in Pollers /\ Live \subseteq accepted /\ accepted \subseteq Conns
  <2>1. k \in Live /\ f \in Fds
    BY Facts
  <2> QED
    BY <2>1, LiveIsAlive, ConnsAssumption DEF ServerInv, Objects, NoConn
<1>2. poller.channelMap[f] = NoConn
  <2> SUFFICES ASSUME poller.channelMap[f] # NoConn PROVE FALSE
    OBVIOUS
  <2>1. PICK j \in Conns : j = poller.channelMap[f]
    BY <1>1 DEF Pollers
  <2>2. fd[j] = f /\ Up(j)
    BY <1>1, <2>1 DEF LifeInv, Known, Tabled
  <2>3. j \in Live
    BY <2>2, Facts DEF Up
  <2>4. j = k
    BY <1>1, <2>2, <2>3 DEF ServerInv, OneOwner
  <2> QED
    BY <2>2, <2>4 DEF Up
<1>3. poller.kernel[f] = NotWatched
  BY <1>1, <1>2 DEF ServerInv, Agrees
<1>4. poller.index[k] # "added"
  BY <1>1, <1>2 DEF ServerInv, Agrees
<1>5. UpdateChannel(poller, k, f, {"read"}) = u
  BY <1>2, <1>3, <1>4 DEF UpdateChannel, AddChannel, CtlAdd, NoConn
<1> HIDE DEF w
<1>6. /\ u.channelMap = [poller.channelMap EXCEPT ![f] = k]
      /\ u.index = [poller.index EXCEPT ![k] = "added"]
      /\ u.kernel = [poller.kernel EXCEPT ![f] = w]
  BY <1>1 DEF Pollers
<1> HIDE DEF u
<1> QED
  BY <1>1, <1>5, <1>6 DEF w

(* The establishment of a connection.                                      *)
LEMMA EstablishKeepsKnown ==
  ASSUME Orderly, ServerInv, RawInv, LifeInv, NEW k \in accepted,
         status[k] = "Connecting",
         poller' = UpdateChannel(poller, k, fd[k], {"read"}),
         status' = [status EXCEPT ![k] = "Connected"],
         ups' = [ups EXCEPT ![k] = @ + 1],
         UNCHANGED <<accepted, fd, name, connectionMap, downs>>
  PROVE  Known'
<1> DEFINE f == fd[k]
<1>1. /\ f \in Fds /\ k # NoConn /\ k \in Live /\ k \in Conns
      /\ poller'.channelMap = [poller.channelMap EXCEPT ![f] = k]
      /\ poller'.index = [poller.index EXCEPT ![k] = "added"]
      /\ poller'.kernel = [poller.kernel EXCEPT ![f] = Watched(k, {"read"})]
      /\ poller \in Pollers
  BY EstablishedPoller DEF ServerInv, Objects
<1>2. /\ status \in [Conns -> Statuses] /\ ups \in [Conns -> Nat]
  BY DEF LifeInv, Known, Stages
<1>3. /\ status'[k] = "Connected" /\ status' \in [Conns -> Statuses]
      /\ \A j \in Conns : j # k => status'[j] = status[j]
  BY <1>1, <1>2 DEF Statuses
<1>4. Stages'
  <2>1. ups' \in [Conns -> Nat]
    BY <1>1, <1>2
  <2>2. ASSUME NEW j \in Conns
        PROVE  /\ ups'[j] = IF status'[j] = "Connecting" THEN 0 ELSE 1
               /\ downs'[j] = IF status'[j] = "Disconnected" THEN 1 ELSE 0
               /\ j \notin accepted' => status'[j] = "Connecting"
    <3>1. CASE j = k
      BY <1>1, <1>2, <1>3, <3>1 DEF LifeInv, Known, Stages
    <3>2. CASE j # k
      BY <1>1, <1>2, <1>3, <3>2 DEF LifeInv, Known, Stages
    <3> QED
      BY <3>1, <3>2
  <2> QED
    BY <1>3, <2>1, <2>2 DEF Stages, LifeInv, Known
<1>5. Mapped'
  <2>1. /\ \A n \in Names : connectionMap[n] # NoConn => connectionMap[n] \in Conns
        /\ accepted \subseteq Conns
    BY DEF ServerInv, Holders, Objects
  <2> QED
    BY <1>3, <2>1 DEF Mapped, LifeInv, Known
<1>6. Tabled'
  <2>1. ASSUME NEW g \in Fds, poller'.channelMap[g] # NoConn
        PROVE  /\ fd[poller'.channelMap[g]] = g
               /\ status'[poller'.channelMap[g]] \in {"Connected", "Disconnecting"}
    <3>1. CASE g = f
      BY <1>1, <1>3, <3>1 DEF Pollers
    <3>2. CASE g # f
      <4>1. poller'.channelMap[g] = poller.channelMap[g]
        BY <1>1, <3>2 DEF Pollers
      <4>2. /\ fd[poller.channelMap[g]] = g /\ Up(poller.channelMap[g])
            /\ poller.channelMap[g] \in Conns
        BY <1>1, <2>1, <4>1 DEF LifeInv, Known, Tabled, Pollers
      <4> QED
        BY <1>3, <4>1, <4>2 DEF Up
    <3> QED
      BY <3>1, <3>2
  <2>2. ASSUME NEW j \in Conns, status'[j] \in {"Connected", "Disconnecting"}
        PROVE  /\ poller'.channelMap[fd[j]] = j
               /\ poller'.index[j] = "added"
               /\ poller'.kernel[fd[j]] = Watched(j, {"read"})
    <3>1. CASE j = k
      BY <1>1, <3>1 DEF Pollers
    <3>2. CASE j # k
      <4>1. Up(j)
        BY <1>3, <2>2, <3>2 DEF Up
      <4>2. j \in Live /\ fd[j] \in Fds
        BY <4>1, Facts DEF Up
      <4>3. fd[j] # f
        BY <1>1, <3>2, <4>2 DEF ServerInv, OneOwner
      <4>4. /\ poller.channelMap[fd[j]] = j
            /\ poller.index[j] = "added"
            /\ poller.kernel[fd[j]] = Watched(j, {"read"})
        BY <4>1 DEF LifeInv, Known, Tabled
      <4> QED
        BY <1>1, <3>2, <4>2, <4>3, <4>4 DEF Pollers
    <3> QED
      BY <3>1, <3>2
  <2> QED
    BY <2>1, <2>2 DEF Tabled, Up
<1> QED
  BY <1>4, <1>5, <1>6 DEF Known

(* A new connection takes a free name and a free descriptor.               *)
LEMMA AcceptKeepsKnown ==
  ASSUME Orderly, ServerInv, RawInv, LifeInv, NEW k \in Conns, NEW n \in Names,
         HandleNewConnection(k, n)
  PROVE  Known'
<1> DEFINE f == LowestFreeFd
<1>1. /\ k \notin accepted
      /\ accepted' = accepted \cup {k}
      /\ fd' = [fd EXCEPT ![k] = f]
      /\ poller' = [poller EXCEPT !.kernel[f] = NotWatched]
      /\ name' = [name EXCEPT ![k] = n]
      /\ connectionMap' = [connectionMap EXCEPT ![n] = k]
      /\ connectionMap[n] = NoConn
      /\ UNCHANGED <<status, ups, downs>>
  BY DEF HandleNewConnection, CloseFd, NameFree, Orderly
<1>2. f \in Fds /\ \A j \in Live : fd[j] # f
  BY FreeFd DEF ServerInv, HandleNewConnection
<1> HIDE DEF f
<1>3. /\ poller \in Pollers /\ accepted \subseteq Conns
      /\ fd \in [Conns -> Fds \cup {0}]
      /\ name \in [Conns -> Names \cup {NoConn}]
      /\ connectionMap \in [Names -> accepted \cup {NoConn}]
      /\ k # NoConn
  BY ConnsAssumption DEF ServerInv, Objects, Holders, NoConn
<1>4. /\ fd'[k] = f /\ name'[k] = n
      /\ \A j \in Conns : j # k => fd'[j] = fd[j] /\ name'[j] = name[j]
  BY <1>1, <1>3
<1>5. status[k] = "Connecting"
  BY <1>1 DEF LifeInv, Known, Stages
<1>6. Stages'
  BY <1>1 DEF LifeInv, Known, Stages
<1>7. Mapped'
  <2>1. ASSUME NEW j \in accepted', status[j] # "Disconnected"
        PROVE  connectionMap'[name'[j]] = j
    <3>1. CASE j = k
      BY <1>1, <1>3, <1>4, <3>1
    <3>2. CASE j # k
      <4>1. j \in accepted /\ j \in Conns /\ name[j] \in Names
        BY <1>1, <1>3, <3>2 DEF ServerInv, Objects
      <4>2. connectionMap[name[j]] = j /\ j # NoConn
        BY <2>1, <4>1, ConnsAssumption DEF LifeInv, Known, Mapped, NoConn
      <4>3. name[j] # n
        BY <1>1, <4>2
      <4> QED
        BY <1>1, <1>3, <1>4, <3>2, <4>1, <4>2, <4>3
    <3> QED
      BY <3>1, <3>2
  <2>2. ASSUME NEW m \in Names, connectionMap'[m] # NoConn
        PROVE  /\ name'[connectionMap'[m]] = m
               /\ status[connectionMap'[m]] # "Disconnected"
    <3>1. CASE m = n
      BY <1>1, <1>3, <1>4, <1>5, <3>1
    <3>2. CASE m # n
      <4>1. connectionMap'[m] = connectionMap[m]
        BY <1>1, <1>3, <3>2
      <4>2. /\ connectionMap[m] \in accepted
            /\ name[connectionMap[m]] = m
            /\ status[connectionMap[m]] # "Disconnected"
        BY <1>3, <2>2, <4>1 DEF LifeInv, Known, Mapped
      <4> QED
        BY <1>1, <1>3, <1>4, <4>1, <4>2
    <3> QED
      BY <3>1, <3>2
  <2> QED
    BY <1>1, <2>1, <2>2 DEF Mapped
<1>8. Tabled'
  <2>1. /\ poller'.channelMap = poller.channelMap
        /\ poller'.index = poller.index
        /\ poller'.kernel = [poller.kernel EXCEPT ![f] = NotWatched]
    BY <1>1, <1>2, <1>3 DEF Pollers
  <2>2. ASSUME NEW g \in Fds, poller.channelMap[g] # NoConn
        PROVE  fd'[poller.channelMap[g]] = g /\ Up(poller.channelMap[g])
    <3>1. /\ poller.channelMap[g] \in Conns
          /\ fd[poller.channelMap[g]] = g /\ Up(poller.channelMap[g])
      BY <1>3, <2>2 DEF Pollers, LifeInv, Known, Tabled
    <3>2. poller.channelMap[g] # k
      BY <1>5, <3>1 DEF Up
    <3> QED
      BY <1>4, <3>1, <3>2
  <2>3. ASSUME NEW j \in Conns, Up(j)
        PROVE  /\ poller'.channelMap[fd'[j]] = j
               /\ poller'.index[j] = "added"
               /\ poller'.kernel[fd'[j]] = Watched(j, {"read"})
    <3>1. j # k /\ fd'[j] = fd[j]
      BY <1>4, <1>5, <2>3 DEF Up
    <3>2. j \in Live /\ fd[j] \in Fds
      BY <2>3, Facts DEF Up
    <3>3. /\ poller.channelMap[fd[j]] = j
          /\ poller.index[j] = "added"
          /\ poller.kernel[fd[j]] = Watched(j, {"read"})
      BY <2>3 DEF LifeInv, Known, Tabled
    <3> QED
      BY <1>2, <1>3, <2>1, <3>1, <3>2, <3>3 DEF Pollers
  <2> QED
    BY <1>1, <2>1, <2>2, <2>3 DEF Tabled, Up
<1> QED
  BY <1>6, <1>7, <1>8 DEF Known

(* A ForceClose of a connection that is up leaves it up.                   *)
LEMMA DisconnectingKeepsKnown ==
  ASSUME LifeInv, NEW k \in Conns, Up(k),
         status' = [status EXCEPT ![k] = "Disconnecting"],
         connectionMap \in [Names -> accepted \cup {NoConn}],
         accepted \subseteq Conns,
         poller.channelMap \in [Fds -> Conns \cup {NoConn}],
         UNCHANGED <<connectionMap, poller, accepted, fd, name, ups, downs>>
  PROVE  Known'
<1>1. /\ status \in [Conns -> Statuses] /\ k \in accepted
  BY DEF LifeInv, Known, Stages, Up
<1>2. /\ status'[k] = "Disconnecting" /\ status' \in [Conns -> Statuses]
      /\ \A j \in Conns : j # k => status'[j] = status[j]
  BY <1>1 DEF Statuses
<1>3. Stages'
  BY <1>1, <1>2 DEF LifeInv, Known, Stages, Up
<1>4. Mapped'
  BY <1>2 DEF LifeInv, Known, Mapped, Up
<1>5. Tabled'
  BY <1>2 DEF LifeInv, Known, Tabled, Up
<1> QED
  BY <1>3, <1>4, <1>5 DEF Known

-----------------------------------------------------------------------------
(* Polling and handling *)

-----------------------------------------------------------------------------
(* The steps *)

(* Only connections that are up are reported.                              *)
LEMMA PollKeepsLife ==
  ASSUME Orderly, ServerInv, RawInv, LifeInv, Poll
  PROVE  LifeInv'
<1>1. /\ ioPc = "poll" /\ ioPc' = "events"
      /\ active' = {[con |-> k, events |-> REvents(k)] :
                      k \in {j \in Conns : IsWatched(j) /\ REvents(j) # {}}}
      /\ UNCHANGED <<peer, poller, accepted, fd, name, status, connectionMap,
                     current, mainPc, visited, kept, closing, ups, downs>>
  BY DEF Poll, kernelVars, objVars, mainVars, userVars
<1>2. Known'
  BY <1>1, KnownStays
<1>3. ASSUME NEW k \in Conns, IsWatched(k)
      PROVE  /\ Up(k)
             /\ "ERR" \in REvents(k) \/ "HUP" \in REvents(k) => k \in Resettable
  <2>1. /\ k \in Live /\ fd[k] \in Fds /\ k # NoConn
        /\ poller.kernel[fd[k]].channel = k
    BY <1>3, LiveIsAlive, ConnsAssumption
    DEF ServerInv, Objects, IsWatched, Alive, NoConn
  <2>2. poller.kernel[fd[k]] # NotWatched
    BY <2>1 DEF NotWatched, Watched, NoConn
  <2>3. poller.channelMap[fd[k]] = k
    BY <2>1, <2>2 DEF ServerInv, Agrees
  <2>4. Up(k)
    BY <2>1, <2>3 DEF LifeInv, Known, Tabled
  <2>5. "ERR" \in REvents(k) \/ "HUP" \in REvents(k) => peer[k] = "reset"
    BY DEF REvents
  <2> QED
    BY <2>4, <2>5 DEF LifeInv, Doing, Quiet
<1>4. Events'
  BY <1>1, <1>3 DEF Events, Up
<1>5. Quiet'
  BY <1>1 DEF LifeInv, Doing, Quiet
<1> QED
  BY <1>2, <1>4, <1>5 DEF LifeInv, Doing

(* HandleEvent begins with a connection that is up.                        *)
LEMMA HandleEventKeepsLife ==
  ASSUME Orderly, ServerInv, RawInv, LifeInv, NEW e \in active, HandleEvent(e)
  PROVE  LifeInv'
<1>1. /\ active' = active \ {e}
      /\ current' = [con |-> e.con, calls |-> Callbacks(e.events)]
      /\ UNCHANGED <<peer, poller, accepted, fd, name, status, connectionMap,
                     mainPc, visited, kept, closing, ups, downs>>
  BY DEF HandleEvent, kernelVars, objVars, mainVars, userVars
<1>2. Known'
  BY <1>1, KnownStays
<1>3. /\ e.con \in Conns /\ Up(e.con)
      /\ "ERR" \in e.events \/ "HUP" \in e.events => e.con \in Resettable
  BY DEF RawInv, Handling, LifeInv, Doing, Events
<1>4. Callbacks(e.events) \notin {<<>>, <<"read">>} => e.con \in Resettable
  BY <1>3, CallsOfEvents
<1>5. current'.con = e.con /\ current'.calls = Callbacks(e.events)
  BY <1>1
<1>6. Events'
  BY <1>1, <1>3, <1>4, <1>5 DEF LifeInv, Doing, Events, Up
<1>7. Quiet'
  BY <1>1 DEF LifeInv, Doing, Quiet
<1> QED
  BY <1>2, <1>6, <1>7 DEF LifeInv, Doing

(* The callbacks left, and the connection, after a NextCall.               *)
LEMMA NextCallLeaves ==
  ASSUME Orderly, ServerInv, RawInv, LifeInv, NEW call, NextCall(call)
  PROVE  /\ ioPc = "handle" /\ ioPc' = "handle"
         /\ current.con \in Conns /\ current'.con = current.con
         /\ status[current.con] # "Connecting"
         /\ current'.calls # <<>> => current.con \in Resettable
         /\ current'.calls \notin {<<>>, <<"read">>} => current.con \in Resettable
         /\ call # "read" => current.con \in Resettable
         /\ call = "read" => current'.calls = <<>>
         /\ ~Up(current.con) => current.con \in Resettable
         /\ \A e \in active : e.con \in Conns /\ e.con # current.con
         /\ UNCHANGED <<accepted, fd, name, active, mainPc, visited>>
<1>1. /\ ioPc = "handle" /\ ioPc' = "handle" /\ current.calls # <<>>
      /\ Head(current.calls) = call
      /\ current' = [current EXCEPT !.calls = Tail(@)]
      /\ UNCHANGED <<accepted, fd, name, active, mainPc, visited>>
  BY DEF NextCall, mainVars
<1>2. /\ current \in [con : Conns \cup {NoConn}, calls : Calls]
      /\ current.con \in Conns /\ status[current.con] # "Connecting"
      /\ current.calls \notin {<<>>, <<"read">>} => current.con \in Resettable
      /\ ~Up(current.con) => current.con \in Resettable
      /\ \A e \in active : e.con \in Conns /\ e.con # current.con
  BY <1>1 DEF LifeInv, Doing, Events, RawInv, Handling, Untouched
<1>3. /\ Tail(current.calls) # <<>> => current.calls \notin {<<>>, <<"read">>}
      /\ Tail(current.calls) \notin {<<>>, <<"read">>} =>
           current.calls \notin {<<>>, <<"read">>}
      /\ call # "read" => current.calls \notin {<<>>, <<"read">>}
      /\ call = "read" => Tail(current.calls) = <<>>
  BY <1>1, <1>2, RestOfCalls
<1>4. current'.con = current.con /\ current'.calls = Tail(current.calls)
  <2> DEFINE t == Tail(current.calls)
  <2>1. current' = [current EXCEPT !.calls = t]
    BY <1>1
  <2> HIDE DEF t
  <2>2. current'.con = current.con /\ current'.calls = t
    BY <1>2, <2>1
  <2> QED
    BY <2>2 DEF t
<1> QED
  BY <1>1, <1>2, <1>3, <1>4

(* What is still to be done, while HandleEvent goes on: its connection     *)
(* stays as it is, is closed after a reset or by the last callback, or     *)
(* has ForceClose called on it by the last callback.                       *)
LEMMA HandlingGoesOn ==
  ASSUME Orderly, ServerInv, RawInv, LifeInv, NEW call, NextCall(call),
         UNCHANGED <<closing, peer>>, kept' \subseteq kept \cup Kept,
         \/ UNCHANGED status
         \/ /\ \E s : status' = [status EXCEPT ![current.con] = s]
            /\ call = "read" \/ current.con \in Resettable
  PROVE  Doing'
<1> DEFINE k == current.con
<1>1. /\ ioPc = "handle" /\ ioPc' = "handle"
      /\ k \in Conns /\ current'.con = k
      /\ current'.calls # <<>> => k \in Resettable
      /\ current'.calls \notin {<<>>, <<"read">>} => k \in Resettable
      /\ \A e \in active : e.con \in Conns /\ e.con # k
      /\ UNCHANGED <<active, mainPc, visited>>
  BY NextCallLeaves
<1>2. \A j \in Conns : j # k => status'[j] = status[j]
  BY <1>1 DEF LifeInv, Known, Stages
<1> HIDE DEF k
<1>3. Events'
  BY <1>1, <1>2 DEF LifeInv, Doing, Events, Up
<1>4. Quiet'
  BY <1>1 DEF LifeInv, Doing, Quiet
<1> QED
  BY <1>3, <1>4 DEF Doing

(* HandleClose by a callback closes a connection that is up, or finds it   *)
(* closed.                                                                 *)
LEMMA ClosingKeepsLife ==
  ASSUME Orderly, ServerInv, RawInv, LifeInv, NEW call, NextCall(call),
         call \in {"close", "error", "read"},
         \/ HandleClose(current.con)
         \/ UNCHANGED <<status, downs, connectionMap, poller>>,
         UNCHANGED <<kept, closing, peer, ups>>
  PROVE  LifeInv'
<1> DEFINE k == current.con
<1>1. /\ k \in Conns /\ status[k] # "Connecting"
      /\ call = "read" \/ k \in Resettable
      /\ UNCHANGED <<accepted, fd, name>>
  BY NextCallLeaves
<1>2. CASE UNCHANGED <<status, downs, connectionMap, poller>>
  BY <1>1, <1>2, KnownStays, HandlingGoesOn DEF LifeInv
<1>3. CASE HandleClose(k) /\ status[k] # "Disconnected"
  <2>1. Up(k)
    BY <1>1, <1>3 DEF Up, LifeInv, Known, Stages, Statuses
  <2>2. Known' /\ status' = [status EXCEPT ![k] = "Disconnected"]
    BY <1>1, <1>3, <2>1, CloseKeepsKnown
  <2>3. Doing'
    BY <1>1, <2>2, HandlingGoesOn
  <2> QED
    BY <2>2, <2>3 DEF LifeInv
<1>4. CASE HandleClose(k) /\ status[k] = "Disconnected"
  BY <1>2, <1>4 DEF HandleClose
<1> QED
  BY <1>2, <1>3, <1>4

(* The callback that reads is called on a connection that is up.           *)
LEMMA ReadsUp ==
  ASSUME Orderly, ServerInv, RawInv, LifeInv, NextCall("read"),
         Alive(current.con)
  PROVE  Up(current.con)
<1> SUFFICES ASSUME ~Up(current.con) PROVE FALSE
  OBVIOUS
<1>1. /\ current.con \in Conns /\ current.con \in Resettable
      /\ status[current.con] # "Connecting"
  BY NextCallLeaves
<1>2. status[current.con] = "Disconnected"
  BY <1>1 DEF Up, LifeInv, Known, Stages, Statuses
<1>3. current.con \in kept
  BY <1>1, <1>2, Facts
<1> QED
  BY <1>1, <1>3 DEF Orderly, LifeInv, Doing, Quiet

(* The read callback may keep the pointer and call ForceClose, as often as *)
(* it likes.                                                               *)
LEMMA ReadMessageKeepsLife ==
  ASSUME Orderly, ServerInv, RawInv, LifeInv, ReadMessage
  PROVE  LifeInv'
<1> DEFINE k == current.con
<1>1. /\ NextCall("read") /\ Alive(k)
      /\ \/ UNCHANGED status
         \/ status' = [status EXCEPT ![k] = "Disconnecting"]
      /\ kept' \subseteq kept \cup Kept
      /\ UNCHANGED <<peer, poller, connectionMap, closing, ups, downs>>
  BY DEF ReadMessage, ForceCloses
<1>2. k \in Conns /\ UNCHANGED <<accepted, fd, name>>
  BY <1>1, NextCallLeaves
<1>3. Up(k)
  BY <1>1, ReadsUp
<1>4. Doing'
  BY <1>1, HandlingGoesOn
<1>5. CASE UNCHANGED status
  BY <1>1, <1>2, <1>4, <1>5, KnownStays DEF LifeInv
<1>6. CASE status' = [status EXCEPT ![k] = "Disconnecting"]
  <2>1. /\ connectionMap \in [Names -> accepted \cup {NoConn}]
        /\ accepted \subseteq Conns
        /\ poller.channelMap \in [Fds -> Conns \cup {NoConn}]
    BY DEF ServerInv, Objects, Holders, Pollers
  <2>2. Known'
    BY <1>1, <1>2, <1>3, <1>6, <2>1, DisconnectingKeepsKnown
  <2> QED
    BY <1>4, <2>2 DEF LifeInv
<1> QED
  BY <1>1, <1>5, <1>6

(* The steps of the I/O thread that handle events.                         *)
LEMMA HandlingKeepsLife ==
  ASSUME Orderly, ServerInv, RawInv, LifeInv,
         CloseOrErrorCallback \/ ReadEnd \/ ReadMessage \/ CallbackOnDestroyed
  PROVE  LifeInv'
<1>1. CASE CloseOrErrorCallback
  <2>1. /\ NextCall("close") \/ NextCall("error")
        /\ HandleClose(current.con)
        /\ UNCHANGED <<kept, closing, peer, ups>>
    BY <1>1 DEF CloseOrErrorCallback, userVars, kernelVars
  <2> QED
    BY <2>1, ClosingKeepsLife
<1>2. CASE ReadEnd
  <2>1. /\ NextCall("read")
        /\ \/ HandleClose(current.con)
           \/ UNCHANGED <<status, downs, connectionMap, poller>>
        /\ UNCHANGED <<kept, closing, peer, ups>>
    BY <1>2 DEF ReadEnd, userVars, kernelVars
  <2> QED
    BY <2>1, ClosingKeepsLife
<1>3. CASE CallbackOnDestroyed
  <2>1. PICK call \in {"close", "error", "read"} : NextCall(call)
    BY <1>3 DEF CallbackOnDestroyed
  <2>2. UNCHANGED <<peer, poller, status, connectionMap, kept, closing, ups,
                    downs>>
    BY <1>3 DEF CallbackOnDestroyed, userVars, kernelVars
  <2>3. UNCHANGED <<accepted, fd, name>>
    BY <2>1, NextCallLeaves
  <2> QED
    BY <2>1, <2>2, <2>3, HandlingGoesOn, KnownStays DEF LifeInv
<1> QED
  BY <1>1, <1>2, <1>3, ReadMessageKeepsLife

(* The steps of the I/O thread between the handlers.                       *)
LEMMA LoopKeepsLife ==
  ASSUME Orderly, ServerInv, RawInv, LifeInv,
         EventHandled \/ SwapFunctors \/ FunctorsDone
  PROVE  LifeInv'
<1>1. /\ UNCHANGED <<peer, poller, accepted, fd, name, status, connectionMap,
                     active, mainPc, visited, kept, closing, ups, downs>>
      /\ ioPc' # "handle"
  BY DEF EventHandled, SwapFunctors, FunctorsDone, kernelVars, objVars,
         mainVars, userVars
<1>2. Known'
  BY <1>1, KnownStays
<1>3. Doing'
  BY <1>1 DEF LifeInv, Doing, Events, Quiet, Up
<1> QED
  BY <1>2, <1>3 DEF LifeInv

(* Nothing but functors is done while functors are called.                 *)
LEMMA CallingGoesOn ==
  ASSUME RawInv, LifeInv, NEW op, NEW k, CallFunctor(op, k)
  PROVE  Doing' /\ UNCHANGED <<accepted, fd, name>>
<1>1. /\ ioPc = "functors" /\ active = {}
      /\ UNCHANGED <<peer, accepted, fd, name, ioPc, active, current, mainPc,
                     visited, kept, closing>>
  BY DEF CallFunctor, kernelVars, ioVars, mainVars, userVars, RawInv, Handling
<1> QED
  BY <1>1 DEF LifeInv, Doing, Events, Quiet

(* The functors of the loop; stop()'s are not there.                       *)
LEMMA FunctorsKeepLife ==
  ASSUME Orderly, ServerInv, RawInv, LifeInv, NEW k \in Conns,
         \/ CallEstablished(k) \/ CallEstablishedInLoop(k)
         \/ CallForceCloseInLoop(k) \/ CallRemoveConnectionInLoop(k)
         \/ \E op \in RawOps : CallOnDestroyed(op, k)
  PROVE  LifeInv'
<1>1. CASE \/ CallEstablished(k)
           \/ \E op \in RawOps : CallOnDestroyed(op, k)
  <2>1. PICK op : CallFunctor(op, k)
    BY <1>1 DEF CallEstablished, CallOnDestroyed
  <2>2. UNCHANGED <<poller, status, connectionMap, ups, downs>>
    BY <1>1 DEF CallEstablished, CallOnDestroyed
  <2> QED
    BY <2>1, <2>2, CallingGoesOn, KnownStays DEF LifeInv
<1>2. CASE CallEstablishedInLoop(k)
  <2>1. /\ CallFunctor("ConnectionEstablishedInLoop", k) /\ Alive(k)
        /\ UNCHANGED <<connectionMap, downs>>
    BY <1>2 DEF CallEstablishedInLoop
  <2>2. Doing' /\ UNCHANGED <<accepted, fd, name>>
    BY <2>1, CallingGoesOn
  <2>3. CASE status[k] = "Connecting"
    <3>1. /\ k \in accepted
          /\ poller' = UpdateChannel(poller, k, fd[k], {"read"})
          /\ status' = [status EXCEPT ![k] = "Connected"]
          /\ ups' = [ups EXCEPT ![k] = @ + 1]
      BY <1>2, <2>1, <2>3 DEF CallEstablishedInLoop, Alive
    <3>2. Known'
      BY <2>1, <2>2, <2>3, <3>1, EstablishKeepsKnown
    <3> QED
      BY <2>2, <3>2 DEF LifeInv
  <2>4. CASE status[k] # "Connecting"
    <3>1. UNCHANGED <<poller, status, ups>>
      BY <1>2, <2>4 DEF CallEstablishedInLoop
    <3> QED
      BY <2>1, <2>2, <3>1, KnownStays DEF LifeInv
  <2> QED
    BY <2>3, <2>4
<1>3. CASE CallForceCloseInLoop(k)
  <2>1. CallFunctor("ForceCloseInLoop", k) /\ UNCHANGED ups
    BY <1>3 DEF CallForceCloseInLoop
  <2>2. Doing' /\ UNCHANGED <<accepted, fd, name>>
    BY <2>1, CallingGoesOn
  <2>3. CASE Up(k)
    <3>1. HandleClose(k)
      BY <1>3, <2>3 DEF CallForceCloseInLoop, Up
    <3>2. Known'
      BY <2>1, <2>2, <2>3, <3>1, CloseKeepsKnown
    <3> QED
      BY <2>2, <3>2 DEF LifeInv
  <2>4. CASE ~Up(k)
    <3>1. UNCHANGED <<poller, status, connectionMap, downs>>
      BY <1>3, <2>4 DEF CallForceCloseInLoop, Up
    <3> QED
      BY <2>1, <2>2, <3>1, KnownStays DEF LifeInv
  <2> QED
    BY <2>3, <2>4
<1>4. CASE CallRemoveConnectionInLoop(k)
  <2>1. /\ pending \in Seq(Functors) /\ pending # <<>>
        /\ Head(pending).op = "RemoveConnectionInLoop"
    <3>1. /\ todo > 0 /\ todo \in 0..Len(pending) /\ pending \in Seq(Functors)
          /\ Head(pending) = Functor("RemoveConnectionInLoop", k)
      BY <1>4 DEF CallRemoveConnectionInLoop, CallFunctor, ServerInv, Holders,
                  QueueOK
    <3>2. pending # <<>>
      BY <3>1, EmptySeq
    <3> QED
      BY <3>1, <3>2 DEF Functor
  <2>2. Head(pending) = pending[1] /\ 1 \in 1..Len(pending)
    BY <2>1, TailIndex
  <2> QED
    BY <2>1, <2>2, Facts
<1> QED
  BY <1>1, <1>2, <1>3, <1>4

-----------------------------------------------------------------------------
(* The invariant *)

(* A new connection changes nothing for the others.                        *)
LEMMA AcceptKeepsLife ==
  ASSUME Orderly, ServerInv, RawInv, LifeInv, NEW k \in Conns, NEW n \in Names,
         HandleNewConnection(k, n)
  PROVE  LifeInv'
<1>1. /\ peer' = [peer EXCEPT ![k] = "open"]
      /\ UNCHANGED <<status, ioPc, active, current, mainPc, visited, kept,
                     closing>>
  BY DEF HandleNewConnection, ioVars, mainVars, userVars
<1>2. Known'
  BY AcceptKeepsKnown
<1>3. Doing'
  BY <1>1 DEF LifeInv, Doing, Events, Quiet, Up
<1> QED
  BY <1>2, <1>3 DEF LifeInv

(* The steps of the peers, and the user who lets a pointer go.             *)
LEMMA OutsideKeepsLife ==
  ASSUME Orderly, ServerInv, RawInv, LifeInv, NEW k \in Conns,
         PeerSends(k) \/ PeerLeaves(k) \/ UserDrops(k)
  PROVE  LifeInv'
<1>1. UNCHANGED <<poller, accepted, fd, name, status, connectionMap, ioPc,
                  active, current, mainPc, visited, closing, ups, downs>>
  BY DEF PeerSends, PeerLeaves, UserDrops, kernelVars, objVars, ioVars, mainVars,
         userVars
<1>2. Known'
  BY <1>1, KnownStays
<1>3. /\ peer' \in [Conns -> {"none", "open", "closed", "reset"}]
      /\ \A j \in Conns : peer'[j] = "reset" => j \in Resettable
      /\ kept' \subseteq kept
  BY DEF PeerSends, PeerLeaves, UserDrops, LifeInv, Doing, Quiet, kernelVars,
         userVars
<1>4. Doing'
  BY <1>1, <1>3 DEF LifeInv, Doing, Events, Quiet, Up
<1> QED
  BY <1>2, <1>4 DEF LifeInv

(* At the start nothing has happened.                                      *)
LEMMA InitLives ==
  ASSUME Init
  PROVE  LifeInv
<1>1. Known
  <2>1. \A k \in Conns : ~Up(k)
    BY DEF Init, Up
  <2>2. Tabled
    BY <2>1 DEF Init, Tabled, NewPoller, NoConn
  <2> QED
    BY <2>2 DEF Init, Known, Stages, Mapped, Statuses
<1>2. Doing
  BY DEF Init, Doing, Events, Quiet
<1> QED
  BY <1>1, <1>2 DEF LifeInv

(* Every step keeps the invariant.                                         *)
LEMMA NextKeepsLife ==
  ASSUME Orderly, ServerInv, RawInv, LifeInv, [Next]_vars
  PROVE  LifeInv'
<1>1. CASE UNCHANGED vars
  <2>1. UNCHANGED <<peer, poller, accepted, fd, name, status, connectionMap,
                    ioPc, active, current, mainPc, visited, kept, closing, ups,
                    downs>>
    BY <1>1 DEF vars
  <2>2. Known'
    BY <2>1, KnownStays
  <2>3. Doing'
    BY <2>1 DEF LifeInv, Doing, Events, Quiet, Up
  <2> QED
    BY <2>2, <2>3 DEF LifeInv
<1>2. CASE IoStep
  BY <1>2, PollKeepsLife, HandleEventKeepsLife, HandlingKeepsLife,
     LoopKeepsLife, FunctorsKeepLife DEF IoStep
<1>3. CASE MainStep
  <2>1. ~StopBegins /\ ~StopEnds /\ \A k \in Conns : ~StopVisits(k)
    BY DEF Orderly, LifeInv, Doing, Quiet, StopBegins, StopEnds, StopVisits
  <2> QED
    BY <1>3, <2>1, AcceptKeepsLife DEF MainStep
<1>4. CASE UserStep
  <2>1. ~LateForceCloseQueues /\ \A k \in Conns : ~LateForceClose(k)
    BY DEF Orderly, LifeInv, Doing, Quiet, LateForceCloseQueues, LateForceClose
  <2> QED
    BY <1>4, <2>1, OutsideKeepsLife DEF UserStep
<1>5. CASE PeerStep
  BY <1>5, OutsideKeepsLife DEF PeerStep
<1> QED
  BY <1>1, <1>2, <1>3, <1>4, <1>5 DEF Next

(* The lives of the connections of an orderly server.                      *)
THEOREM LifeInvariant == Orderly => (Spec => [](ServerInv /\ RawInv /\ LifeInv))
<1> SUFFICES ASSUME Orderly PROVE Spec => [](ServerInv /\ RawInv /\ LifeInv)
  OBVIOUS
<1>1. Init => LifeInv
  BY InitLives
<1>2. ServerInv /\ RawInv /\ LifeInv /\ [Next]_vars => LifeInv'
  BY NextKeepsLife
<1> QED
  BY <1>1, <1>2, RawInvariant, PTL DEF Spec

(* In an orderly server what the poller watches is a live connection's own *)
(* descriptor, under its name in the map.                                  *)
THEOREM WatchesTheLiving == Orderly => (Spec => []WatchedIsKnown)
<1> SUFFICES ASSUME Orderly PROVE Spec => []WatchedIsKnown
  OBVIOUS
<1>1. ServerInv /\ RawInv /\ LifeInv => WatchedIsKnown
  <2> SUFFICES ASSUME ServerInv, RawInv, LifeInv PROVE WatchedIsKnown
    OBVIOUS
  <2>1. ASSUME NEW f \in Fds, poller.channelMap[f] # NoConn
        PROVE  /\ Alive(poller.channelMap[f])
               /\ fd[poller.channelMap[f]] = f
               /\ connectionMap[name[poller.channelMap[f]]] = poller.channelMap[f]
               /\ Up(poller.channelMap[f])
    <3>1. PICK k \in Conns : k = poller.channelMap[f]
      BY <2>1 DEF ServerInv, Pollers
    <3>2. fd[k] = f /\ Up(k)
      BY <2>1, <3>1 DEF LifeInv, Known, Tabled
    <3>3. k \in accepted /\ Alive(k)
      BY <3>2, Facts DEF Up
    <3>4. connectionMap[name[k]] = k
      BY <3>2, <3>3 DEF LifeInv, Known, Mapped, Up
    <3> QED
      BY <3>1, <3>2, <3>3, <3>4
  <2> QED
    BY <2>1 DEF WatchedIsKnown, Up
<1> QED
  BY <1>1, LifeInvariant, PTL

(* ... and every connected connection is watched.                          *)
THEOREM WatchesTheConnected == Orderly => (Spec => []ConnectedIsWatched)
<1> SUFFICES ASSUME Orderly PROVE Spec => []ConnectedIsWatched
  OBVIOUS
<1>1. LifeInv => ConnectedIsWatched
  BY DEF LifeInv, Known, Tabled, ConnectedIsWatched, Up
<1> QED
  BY <1>1, LifeInvariant, PTL

(* In an orderly server each connection is reported up once and then down  *)
(* once, and both before its destructor.                                   *)
THEOREM ReportsUpThenDown == Orderly => (Spec => []UpThenDown)
<1> SUFFICES ASSUME Orderly PROVE Spec => []UpThenDown
  OBVIOUS
<1>1. ServerInv /\ RawInv /\ LifeInv => UpThenDown
  <2> SUFFICES ASSUME ServerInv, RawInv, LifeInv, NEW k \in Conns
               PROVE  /\ downs[k] <= ups[k] /\ ups[k] <= 1
                      /\ k \in accepted /\ ~Alive(k) => downs[k] = 1
    BY DEF UpThenDown
  <2>1. /\ ups[k] = IF status[k] = "Connecting" THEN 0 ELSE 1
        /\ downs[k] = IF status[k] = "Disconnected" THEN 1 ELSE 0
    BY DEF LifeInv, Known, Stages
  <2>2. downs[k] <= ups[k] /\ ups[k] <= 1
    BY <2>1
  <2>3. k \in accepted /\ ~Alive(k) => status[k] = "Disconnected"
    BY Facts
  <2> QED
    BY <2>1, <2>2, <2>3
<1> QED
  BY <1>1, LifeInvariant, PTL

(* A peer has a number of messages under way.                              *)
Counted == data \in [Conns -> Nat]

(* In an orderly server the read callback is called after the report that  *)
(* the connection is up and before the one that it is down.                *)
THEOREM ReadsBetweenTheReports == Orderly => (Spec => ReadsWhileUp)
<1> SUFFICES ASSUME Orderly PROVE Spec => ReadsWhileUp
  OBVIOUS
<1> DEFINE Read(k) == data'[k] < data[k] => ups[k] = 1 /\ downs[k] = 0
<1>1. Init => Counted
  BY DEF Init, Counted
<1>2. Counted /\ [Next]_vars =>
        /\ Counted'
        /\ \/ UNCHANGED data
           \/ \E k \in Conns : data' = [data EXCEPT ![k] = @ + 1]
           \/ ReadMessage /\ data' = [data EXCEPT ![current.con] = 0]
  <2> SUFFICES ASSUME Counted, [Next]_vars
               PROVE  /\ Counted'
                      /\ \/ UNCHANGED data
                         \/ \E k \in Conns : data' = [data EXCEPT ![k] = @ + 1]
                         \/ ReadMessage /\ data' = [data EXCEPT ![current.con] = 0]
    OBVIOUS
  <2>1. \/ UNCHANGED data
        \/ \E k \in Conns : data' = [data EXCEPT ![k] = @ + 1]
        \/ ReadMessage /\ data' = [data EXCEPT ![current.con] = 0]
    <3>1. ASSUME NEW k \in Conns, PeerSends(k)
          PROVE  data' = [data EXCEPT ![k] = @ + 1]
      BY <3>1 DEF PeerSends
    <3>2. ReadMessage => data' = [data EXCEPT ![current.con] = 0]
      BY DEF ReadMessage
    <3>3. IoStep /\ ~ReadMessage => UNCHANGED data
      BY DEF IoStep, Poll, HandleEvent, CloseOrErrorCallback, ReadEnd,
             CallbackOnDestroyed, EventHandled, SwapFunctors, FunctorsDone,
             CallEstablished, CallEstablishedInLoop, CallForceCloseInLoop,
             CallRemoveConnectionInLoop, CallOnDestroyed, CallFunctor, kernelVars
    <3>4. MainStep \/ UserStep => UNCHANGED data
      BY DEF MainStep, UserStep, HandleNewConnection, StopBegins, StopVisits,
             StopEnds, LateForceClose, LateForceCloseQueues, UserDrops, kernelVars
    <3>5. \A k \in Conns : PeerLeaves(k) => UNCHANGED data
      BY DEF PeerLeaves
    <3> QED
      BY <3>1, <3>2, <3>3, <3>4, <3>5 DEF Next, PeerStep, vars
  <2>2. Counted'
    BY <2>1 DEF Counted
  <2> QED
    BY <2>1, <2>2
<1>3. /\ Counted /\ ServerInv /\ RawInv /\ LifeInv /\ [Next]_vars
      => [\A k \in Conns : Read(k)]_vars
  <2> SUFFICES ASSUME Counted, ServerInv, RawInv, LifeInv, [Next]_vars, NEW k \in Conns,
                      data'[k] < data[k]
               PROVE  ups[k] = 1 /\ downs[k] = 0
    OBVIOUS
  <2>1. data[k] \in Nat
    BY DEF Counted
  <2>2. ReadMessage /\ k = current.con
    BY <1>2, <2>1 DEF Counted
  <2>3. Up(k)
    BY <2>2, ReadsUp DEF ReadMessage
  <2> QED
    BY <2>3 DEF LifeInv, Known, Stages, Up
<1>4. Spec => []Counted
  BY <1>1, <1>2, PTL DEF Spec
<1> QED
  BY <1>3, <1>4, LifeInvariant, PTL DEF Spec, ReadsWhileUp
=============================================================================
