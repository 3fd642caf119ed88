------------------------------ MODULE TcpServer ------------------------------
(***************************************************************************)
(* The life of the connections of a TcpServer, from accept() to the        *)
(* destructor: net/TcpServer.cc, the lifecycle half of                     *)
(* net/TcpConnection.cc, Channel::HandleEvent and EPollPoller.             *)
(*                                                                         *)
(* Two threads share the connections.  The acceptor's thread creates them, *)
(* puts them in _connectionMap and hands them to the loop of the I/O       *)
(* thread; that loop (EventLoop.tla) polls, handles the events it got and  *)
(* then calls the functors that were queued.  The user's code runs in the  *)
(* read callback and, if it keeps the TcpConnectionPtr, anywhere.          *)
(*                                                                         *)
(* A connection is destroyed when nothing holds a shared_ptr to it.        *)
(* Functors bound to a raw this, and Channel::HandleEvent itself, hold     *)
(* none: touched and orphaned record where code has used a destroyed       *)
(* connection, closedAgain and lost what may have led to it.               *)
(* Handlers of the I/O thread are one step each; what another thread can   *)
(* do meanwhile (insert in the map, store the status, append a functor)    *)
(* has the same effect before or after them.  One operation on             *)
(* _connectionMap is atomic here, though the code has no lock around it.   *)
(***************************************************************************)
EXTENDS Naturals, Sequences, FiniteSets, FiniteSetsExt, EPoll

CONSTANTS
  Conns,          \* the connections peers may make
  NumFds,         \* descriptors, and a bound on the connections open at once
  Names,          \* client addresses: a connection's name in _connectionMap
  MaxData,        \* bound on the messages a peer has under way
  Resettable,     \* the connections whose peer may reset them
  Kept,           \* ... whose TcpConnectionPtr the user may keep
  ForceClosed,    \* ... on which the read callback may call ForceClose
  MaxForceCloses, \* bound on the ForceCloses of one read callback
  LateClosed,     \* ... on which the user calls ForceClose later (needs Kept)
  CanStop,        \* whether TcpServer::stop() is called
  NameReuse       \* whether a name may come back while the map still has it

ASSUME ConnsAssumption ==
  /\ NoChannel \notin Conns
  /\ Resettable \subseteq Conns
  /\ Kept \subseteq Conns
  /\ ForceClosed \subseteq Conns
  /\ MaxForceCloses \in Nat
  /\ LateClosed \subseteq Kept
  /\ NumFds \in Nat
  /\ MaxData \in Nat
  /\ CanStop \in BOOLEAN
  /\ NameReuse \in BOOLEAN

NoConn == NoChannel      \* a connection stands for its own channel
Fds == 1..NumFds
Statuses == {"Connecting", "Connected", "Disconnecting", "Disconnected"}

VARIABLES
  \* the peers and the kernel
  peer,           \* per connection: "none", "open", "closed" or "reset"
  data,           \* messages received by the kernel and not yet read
  poller,         \* the I/O loop's EPollPoller
  \* the objects
  accepted,       \* the connections constructed so far
  fd,             \* _sockFd
  name,           \* _connName
  status,         \* _status
  connectionMap,  \* TcpServer::_connectionMap
  deleted,        \* destroyed by the second control block of line 284
  \* the I/O thread's loop
  ioPc,           \* "poll", "events", "handle" or "functors"
  active,         \* _activeChannels still to handle, with their events
  current,        \* the connection in HandleEvent and the callbacks left
  pending,        \* functors waiting, oldest first
  todo,           \* how many of them the loop has swapped out
  \* the other threads
  mainPc,         \* "serve", "stop" or "stopped"
  visited,        \* connections stop() has passed, the last one first
  kept,           \* connections the user holds a TcpConnectionPtr to
  closing,        \* the connection a user thread is in ForceClose of
  lateClosed,     \* connections on which that has happened
  \* what was observed
  ups, downs,     \* calls of the connection callback, by what it reports
  touched,        \* where a destroyed object has been used
  orphaned,       \* raw functors called on a destroyed connection
  closedAgain,    \* connections ForceClosed when not kConnected (any more)
  lost            \* connections whose map entry went to or with another one

kernelVars == <<peer, data>>
objVars == <<accepted, fd, name, deleted>>
ioVars == <<ioPc, active, current>>
mainVars == <<mainPc, visited>>
userVars == <<kept, closing, lateClosed>>
history == <<orphaned, closedAgain, lost>>
vars == <<peer, data, poller, accepted, fd, name, status, connectionMap,
          deleted, ioPc, active, current, pending, todo, mainPc, visited,
          kept, closing, lateClosed, ups, downs, touched, history>>

-----------------------------------------------------------------------------
(* Functors and who holds a connection *)

Functor(op, k) == [op |-> op, con |-> k]

(* bind(&TcpServer::RemoveConnectionInLoop, this, con) and                 *)
(* bind(&TcpConnection::ConnectionEstablished, con) copy the shared_ptr,   *)
(* the InLoop functors of TcpConnection bind a raw this.                   *)
SharedOps == {"ConnectionEstablished", "RemoveConnectionInLoop"}
RawOps == {"ConnectionEstablishedInLoop", "ForceCloseInLoop"}
Functors == {Functor(op, k) : op \in SharedOps \cup RawOps, k \in Conns}

InMap(k) == \E n \in Names : connectionMap[n] = k
InQueue(k) ==
  \E i \in DOMAIN pending : pending[i].con = k /\ pending[i].op \in SharedOps

Held(k) == InMap(k) \/ InQueue(k) \/ k \in kept

(* The object exists: constructed and not destroyed.                       *)
Alive(k) == k \in accepted /\ Held(k) /\ k \notin deleted

(* The socket is closed by the destructor, so an open descriptor is a live *)
(* connection's.                                                           *)
OpenFds == {fd[k] : k \in {j \in Conns : Alive(j)}}

TypeOK ==
  /\ peer \in [Conns -> {"none", "open", "closed", "reset"}]
  /\ data \in [Conns -> 0..MaxData]
  /\ poller \in [channelMap : [Fds -> Conns \cup {NoConn}],
                 index : [Conns -> {"initial", "added", "deleted"}],
                 kernel : [Fds -> [channel : Conns \cup {NoConn},
                                   events : {{}, {"read"}}]]]
  /\ accepted \subseteq Conns
  /\ fd \in [Conns -> Fds \cup {0}]
  /\ name \in [Conns -> Names \cup {NoConn}]
  /\ \A k \in accepted : fd[k] \in Fds /\ name[k] \in Names
  /\ status \in [Conns -> Statuses]
  /\ connectionMap \in [Names -> Conns \cup {NoConn}]
  /\ deleted \subseteq Conns
  /\ ioPc \in {"poll", "events", "handle", "functors"}
  /\ \A e \in active : e.con \in Conns /\ e.events \subseteq {"IN", "ERR", "HUP"}
  /\ current.con \in Conns \cup {NoConn}
  /\ pending \in Seq(Functors)
  /\ todo \in 0..Len(pending)
  /\ mainPc \in {"serve", "stop", "stopped"}
  /\ visited \in Seq(Conns)
  /\ kept \subseteq Kept
  /\ closing \in LateClosed \cup {NoConn}
  /\ lateClosed \subseteq LateClosed
  /\ ups \in [Conns -> Nat] /\ downs \in [Conns -> Nat]
  /\ touched \subseteq {"HandleEvent", "callback", "stop",
                       "ConnectionDestoryInLoop"}
  /\ orphaned \subseteq Functors
  /\ closedAgain \subseteq Conns
  /\ lost \subseteq Conns

Init ==
  /\ peer = [k \in Conns |-> "none"]
  /\ data = [k \in Conns |-> 0]
  /\ poller = NewPoller(Fds, Conns)
  /\ accepted = {}
  /\ fd = [k \in Conns |-> 0]
  /\ name = [k \in Conns |-> NoConn]
  /\ status = [k \in Conns |-> "Connecting"]
  /\ connectionMap = [n \in Names |-> NoConn]
  /\ deleted = {}
  /\ ioPc = "poll"
  /\ active = {}
  /\ current = [con |-> NoConn, calls |-> <<>>]
  /\ pending = <<>>
  /\ todo = 0
  /\ mainPc = "serve"
  /\ visited = <<>>
  /\ kept = {}
  /\ closing = NoConn
  /\ lateClosed = {}
  /\ ups = [k \in Conns |-> 0]
  /\ downs = [k \in Conns |-> 0]
  /\ touched = {}
  /\ orphaned = {}
  /\ closedAgain = {}
  /\ lost = {}

-----------------------------------------------------------------------------
(* The peers *)

PeerSends(k) ==
  /\ Alive(k) /\ peer[k] = "open" /\ data[k] < MaxData
  /\ data' = [data EXCEPT ![k] = @ + 1]
  /\ UNCHANGED <<peer, poller, objVars, status, connectionMap, ioVars, pending,
                 todo, mainVars, userVars, ups, downs, touched, history>>

PeerLeaves(k) ==
  /\ Alive(k) /\ peer[k] = "open"
  /\ \E how \in {"closed", "reset"} :
       /\ how = "reset" => k \in Resettable
       /\ peer' = [peer EXCEPT ![k] = how]
  /\ UNCHANGED <<data, poller, objVars, status, connectionMap, ioVars, pending,
                 todo, mainVars, userVars, ups, downs, touched, history>>

-----------------------------------------------------------------------------
(* The acceptor's thread *)

LowestFreeFd == Min(Fds \ OpenFds)

(* The name is the client's address and port: free again once the peer     *)
(* that had it is gone, which the map may not know yet.                    *)
NameFree(n) ==
  connectionMap[n] # NoConn => NameReuse /\ peer[connectionMap[n]] # "open"

(* The other connection whose entry under n goes when k's is put there or  *)
(* erased: the map knows a connection by its name only.                    *)
Displaced(n, k) == {connectionMap[n]} \ {k, NoConn}

(* Acceptor::handleRead and HandleNewConnection: construct the connection  *)
(* on the descriptor accept() returns, put it in the map (over whatever    *)
(* has the same name), queue ConnectionEstablished.                        *)
HandleNewConnection(k, n) ==
  /\ mainPc # "stop"
  /\ k \notin accepted
  /\ Fds \ OpenFds # {}
  /\ NameFree(n)
  /\ accepted' = accepted \cup {k}
  /\ peer' = [peer EXCEPT ![k] = "open"]
  /\ fd' = [fd EXCEPT ![k] = LowestFreeFd]
  /\ poller' = CloseFd(poller, LowestFreeFd)  \* nothing watches a new file
  /\ name' = [name EXCEPT ![k] = n]
  /\ connectionMap' = [connectionMap EXCEPT ![n] = k]
  /\ lost' = lost \cup Displaced(n, k)
  /\ pending' = Append(pending, Functor("ConnectionEstablished", k))
  /\ UNCHANGED <<data, status, deleted, ioVars, todo, mainVars, userVars, ups,
                 downs, touched, orphaned, closedAgain>>

(* stop() walks the map and queues a RemoveConnectionInLoop per entry.     *)
StopBegins ==
  /\ CanStop
  /\ mainPc = "serve"
  /\ mainPc' = "stop"
  /\ UNCHANGED <<kernelVars, poller, objVars, status, connectionMap, ioVars,
                 pending, todo, visited, userVars, ups, downs, touched,
                 history>>

(* The increment of its iterator reads the map's node of the connection    *)
(* just passed, which the I/O thread may have erased.                      *)
IteratorGone == visited # <<>> /\ ~InMap(Head(visited))

StopVisits(k) ==
  /\ mainPc = "stop"
  /\ InMap(k)
  /\ \A i \in DOMAIN visited : visited[i] # k
  /\ pending' = Append(pending, Functor("RemoveConnectionInLoop", k))
  /\ visited' = <<k>> \o visited
  /\ touched' = touched \cup (IF IteratorGone THEN {"stop"} ELSE {})
  /\ UNCHANGED <<kernelVars, poller, objVars, status, connectionMap, ioVars,
                 todo, mainPc, userVars, ups, downs, history>>

StopEnds ==
  /\ mainPc = "stop"
  /\ \A k \in Conns : InMap(k) => \E i \in DOMAIN visited : visited[i] = k
  /\ mainPc' = "stopped"
  /\ touched' = touched \cup (IF IteratorGone THEN {"stop"} ELSE {})
  /\ UNCHANGED <<kernelVars, poller, objVars, status, connectionMap, ioVars,
                 pending, todo, visited, userVars, ups, downs, history>>

-----------------------------------------------------------------------------
(* Closing, as the I/O thread does it *)

InTheMap(k) == connectionMap[name[k]] # NoConn
ErasedFromMap(k) == [connectionMap EXCEPT ![name[k]] = NoConn]

(* DisableAll, then Channel::Remove.                                       *)
Silenced(k) == UpdateChannel(poller, k, fd[k], {})

(* Mutant: the Remove is commented out, as it once was in HandleClose.     *)
NotUnregistered(p, k) == p

Unregistered(p, k) == RemoveChannel(p, k, fd[k])

(* Mutant: a connection closed by ForceClose is not reported down.         *)
HandleCloseReportsConnected(k) ==
  IF status[k] = "Disconnected"
  THEN UNCHANGED <<status, downs, connectionMap, poller, lost>>
  ELSE /\ status' = [status EXCEPT ![k] = "Disconnected"]
       /\ downs' = [downs EXCEPT ![k] = IF status[k] = "Connected" THEN @ + 1 ELSE @]
       /\ connectionMap' = ErasedFromMap(k)
       /\ lost' = lost \cup Displaced(name[k], k)
       /\ poller' = Unregistered(Silenced(k), k)

(* HandleClose, with the callbacks it runs: the connection callback, then  *)
(* RemoveConnection and RemoveConnectionInLoop, which finds the map's      *)
(* entry by name and only then calls ConnectionDestoryInLoop.  Nothing     *)
(* happens on a connection that is kDisconnected.                          *)
HandleClose(k) ==
  IF status[k] = "Disconnected"
  THEN UNCHANGED <<status, downs, connectionMap, poller, lost>>
  ELSE /\ status' = [status EXCEPT ![k] = "Disconnected"]
       /\ downs' = [downs EXCEPT ![k] = @ + 1]
       /\ IF InTheMap(k)
          THEN /\ connectionMap' = ErasedFromMap(k)
               /\ lost' = lost \cup Displaced(name[k], k)
               /\ poller' = Unregistered(Silenced(k), k)
          ELSE /\ UNCHANGED <<connectionMap, lost>>
               /\ poller' = Silenced(k)

(* Mutant: a connection that is not yet connected stays in the map.        *)
RemoveConnectedOnly(k) ==
  IF ~InTheMap(k) \/ status[k] # "Connected"
  THEN UNCHANGED <<status, downs, connectionMap, poller, lost, deleted,
                   touched>>
  ELSE /\ connectionMap' = ErasedFromMap(k)
       /\ lost' = lost \cup Displaced(name[k], k)
       /\ status' = [status EXCEPT ![k] = "Disconnected"]
       /\ downs' = [downs EXCEPT ![k] = @ + 1]
       /\ poller' = Silenced(k)
       /\ deleted' = deleted \cup {k}
       /\ touched' = touched \cup {"ConnectionDestoryInLoop"}

(* RemoveConnectionInLoop as a functor of stop().  ConnectionDestoryInLoop *)
(* of a connected connection makes a second owner of this (line 284),      *)
(* which destroys the connection, and goes on to use its channel.          *)
RemoveConnectionInLoop(k) ==
  IF ~InTheMap(k)
  THEN UNCHANGED <<status, downs, connectionMap, poller, lost, deleted,
                   touched>>
  ELSE /\ connectionMap' = ErasedFromMap(k)
       /\ lost' = lost \cup Displaced(name[k], k)
       /\ IF status[k] = "Connected"
          THEN /\ status' = [status EXCEPT ![k] = "Disconnected"]
               /\ downs' = [downs EXCEPT ![k] = @ + 1]
               /\ poller' = Silenced(k)
               /\ deleted' = deleted \cup {k}
               /\ touched' = touched \cup {"ConnectionDestoryInLoop"}
          ELSE /\ poller' = Unregistered(poller, k)
               /\ UNCHANGED <<status, downs, deleted, touched>>

-----------------------------------------------------------------------------
(* The I/O thread: events *)

(* What epoll_wait reports: input (data, or the end of the stream) if the  *)
(* channel asks for it, errors and hang-ups whether it asks or not.        *)
REvents(k) ==
  (IF "read" \in poller.kernel[fd[k]].events /\ (data[k] > 0 \/ peer[k] # "open")
   THEN {"IN"} ELSE {})
  \cup (IF peer[k] = "reset" THEN {"ERR", "HUP"} ELSE {})

IsWatched(k) == Alive(k) /\ poller.kernel[fd[k]].channel = k

Poll ==
  /\ ioPc = "poll"
  /\ active' = {[con |-> k, events |-> REvents(k)] :
                  k \in {j \in Conns : IsWatched(j) /\ REvents(j) # {}}}
  /\ ioPc' = "events"
  /\ UNCHANGED <<kernelVars, poller, objVars, status, connectionMap, current,
                 pending, todo, mainVars, userVars, ups, downs, touched,
                 history>>

(* The callbacks HandleEvent tests for, in its order.                      *)
Callbacks(events) ==
  (IF "HUP" \in events /\ "IN" \notin events THEN <<"close">> ELSE <<>>)
  \o (IF "ERR" \in events THEN <<"error">> ELSE <<>>)
  \o (IF "IN" \in events THEN <<"read">> ELSE <<>>)

HandleEvent(e) ==
  /\ ioPc = "events"
  /\ e \in active
  /\ active' = active \ {e}
  /\ current' = [con |-> e.con, calls |-> Callbacks(e.events)]
  /\ ioPc' = "handle"
  /\ touched' = touched \cup (IF Alive(e.con) THEN {} ELSE {"HandleEvent"})
  /\ UNCHANGED <<kernelVars, poller, objVars, status, connectionMap, pending,
                 todo, mainVars, userVars, ups, downs, history>>

NextCall(call) ==
  /\ ioPc = "handle"
  /\ current.calls # <<>>
  /\ Head(current.calls) = call
  /\ current' = [current EXCEPT !.calls = Tail(@)]
  /\ UNCHANGED <<accepted, fd, name, ioPc, active, todo, mainVars>>

(* _closeCallback is HandleClose, _errorCallback is HandleError, which     *)
(* calls it.                                                               *)
CloseOrErrorCallback ==
  LET k == current.con IN
  /\ NextCall("close") \/ NextCall("error")
  /\ Alive(k)
  /\ HandleClose(k)
  /\ UNCHANGED <<kernelVars, deleted, pending, userVars, ups, touched, orphaned,
                 closedAgain>>

(* Mutant: a read of no bytes is ignored.                                  *)
ReadEndIgnored ==
  /\ NextCall("read")
  /\ Alive(current.con)
  /\ data[current.con] = 0
  /\ UNCHANGED <<status, downs, connectionMap, poller, lost, kernelVars, deleted,
                 pending, userVars, ups, touched, orphaned, closedAgain>>

(* HandleRead at the end of the stream.                                    *)
ReadEnd ==
  LET k == current.con IN
  /\ NextCall("read")
  /\ Alive(k)
  /\ data[k] = 0
  /\ IF peer[k] = "open"
     THEN UNCHANGED <<status, downs, connectionMap, poller, lost>>  \* EAGAIN
     ELSE HandleClose(k)
  /\ UNCHANGED <<kernelVars, deleted, pending, userVars, ups, touched, orphaned,
                 closedAgain>>

(* ForceClose, called so often by one read callback: each call stores the *)
(* status and queues a functor of its own, whatever the status was.        *)
ForceCloses(k, calls) ==
  /\ status' = IF calls = 0 THEN status
               ELSE [status EXCEPT ![k] = "Disconnecting"]
  /\ pending' = pending \o [i \in 1..calls |-> Functor("ForceCloseInLoop", k)]
  /\ closedAgain' =
       IF calls > 1 \/ (calls = 1 /\ status[k] # "Connected")
       THEN closedAgain \cup {k} ELSE closedAgain

(* HandleRead of data: all of it goes to the user's read callback, which   *)
(* may call ForceClose, keep the pointer, or both.                         *)
ReadMessage ==
  LET k == current.con IN
  /\ NextCall("read")
  /\ Alive(k)
  /\ data[k] > 0
  /\ data' = [data EXCEPT ![k] = 0]
  /\ \E calls \in 0..MaxForceCloses :
       (calls > 0 => k \in ForceClosed) /\ ForceCloses(k, calls)
  /\ kept' \in {kept, kept \cup ({k} \cap Kept)}
  /\ UNCHANGED <<peer, poller, connectionMap, deleted, closing, lateClosed, ups,
                 downs, touched, orphaned, lost>>

(* A callback of a channel whose connection is destroyed: HandleEvent has  *)
(* read freed memory to call it.  The memory, if not yet reused, still     *)
(* says kDisconnected and a closed descriptor, so nothing else changes.    *)
CallbackOnDestroyed ==
  /\ \E call \in {"close", "error", "read"} : NextCall(call)
  /\ ~Alive(current.con)
  /\ touched' = touched \cup {"HandleEvent", "callback"}
  /\ UNCHANGED <<kernelVars, poller, status, connectionMap, deleted, pending,
                 userVars, ups, downs, history>>

(* The last test of HandleEvent, for output, reads _rEvents once more.     *)
EventHandled ==
  /\ ioPc = "handle"
  /\ current.calls = <<>>
  /\ touched' = touched \cup (IF Alive(current.con) THEN {} ELSE {"HandleEvent"})
  /\ current' = [current EXCEPT !.con = NoConn]
  /\ ioPc' = "events"
  /\ UNCHANGED <<kernelVars, poller, objVars, status, connectionMap, active,
                 pending, todo, mainVars, userVars, ups, downs, history>>

-----------------------------------------------------------------------------
(* The I/O thread: functors *)

(* Mutant: one functor too many is counted.                                *)
SwapOneTooMany ==
  /\ ioPc = "events"
  /\ active = {}
  /\ todo' = Len(pending) + 1
  /\ ioPc' = "functors"
  /\ UNCHANGED <<kernelVars, poller, objVars, status, connectionMap, active,
                 current, pending, mainVars, userVars, ups, downs, touched,
                 history>>

SwapFunctors ==
  /\ ioPc = "events"
  /\ active = {}
  /\ todo' = Len(pending)
  /\ ioPc' = "functors"
  /\ UNCHANGED <<kernelVars, poller, objVars, status, connectionMap, active,
                 current, pending, mainVars, userVars, ups, downs, touched,
                 history>>

FunctorsDone ==
  /\ ioPc = "functors"
  /\ todo = 0
  /\ ioPc' = "poll"
  /\ UNCHANGED <<kernelVars, poller, objVars, status, connectionMap, active,
                 current, pending, todo, mainVars, userVars, ups, downs,
                 touched, history>>

(* Take the next functor of the batch; k is the connection it is bound to. *)
CallFunctor(op, k) ==
  /\ ioPc = "functors"
  /\ todo > 0
  /\ Head(pending) = Functor(op, k)
  /\ todo' = todo - 1
  /\ UNCHANGED <<kernelVars, accepted, fd, name, ioVars, mainVars, userVars>>

(* Mutant: the channel is registered before the connection is established. *)
CallEstablishedReads(k) ==
  /\ CallFunctor("ConnectionEstablished", k)
  /\ pending' = Append(Tail(pending), Functor("ConnectionEstablishedInLoop", k))
  /\ poller' = UpdateChannel(poller, k, fd[k], {"read"})
  /\ UNCHANGED <<status, connectionMap, deleted, ups, downs, touched, history>>

(* ConnectionEstablished only queues again, and with a raw this.           *)
CallEstablished(k) ==
  /\ CallFunctor("ConnectionEstablished", k)
  /\ pending' = Append(Tail(pending), Functor("ConnectionEstablishedInLoop", k))
  /\ UNCHANGED <<poller, status, connectionMap, deleted, ups, downs, touched,
                 history>>

(* ConnectionEstablishedInLoop: only a kConnecting connection starts to    *)
(* read; EnableRead, then kConnected, then the connection callback.        *)
CallEstablishedInLoop(k) ==
  /\ CallFunctor("ConnectionEstablishedInLoop", k)
  /\ Alive(k)
  /\ pending' = Tail(pending)
  /\ IF status[k] = "Connecting"
     THEN /\ poller' = UpdateChannel(poller, k, fd[k], {"read"})
          /\ status' = [status EXCEPT ![k] = "Connected"]
          /\ ups' = [ups EXCEPT ![k] = @ + 1]
     ELSE UNCHANGED <<poller, status, ups>>
  /\ UNCHANGED <<connectionMap, deleted, downs, touched, history>>

(* Mutant: the close is queued once more instead of done (line 226).       *)
CallForceCloseRequeues(k) ==
  /\ CallFunctor("ForceCloseInLoop", k)
  /\ Alive(k)
  /\ pending' = Append(Tail(pending), Functor("ForceCloseInLoop", k))
  /\ UNCHANGED <<poller, status, connectionMap, deleted, ups, downs, touched,
                 history>>

(* ForceCloseInLoop.                                                       *)
CallForceCloseInLoop(k) ==
  /\ CallFunctor("ForceCloseInLoop", k)
  /\ Alive(k)
  /\ pending' = Tail(pending)
  /\ IF status[k] \in {"Disconnecting", "Connected"}
     THEN HandleClose(k)
     ELSE UNCHANGED <<status, downs, connectionMap, poller, lost>>
  /\ UNCHANGED <<deleted, ups, touched, orphaned, closedAgain>>

CallRemoveConnectionInLoop(k) ==
  /\ CallFunctor("RemoveConnectionInLoop", k)
  /\ pending' = Tail(pending)
  /\ RemoveConnectionInLoop(k)
  /\ UNCHANGED <<ups, orphaned, closedAgain>>

(* A functor bound to the raw this of a connection that is gone.           *)
CallOnDestroyed(op, k) ==
  /\ CallFunctor(op, k)
  /\ op \in RawOps
  /\ ~Alive(k)
  /\ pending' = Tail(pending)
  /\ orphaned' = orphaned \cup {Functor(op, k)}
  /\ UNCHANGED <<poller, status, connectionMap, deleted, ups, downs, touched,
                 closedAgain, lost>>

-----------------------------------------------------------------------------
(* The user, outside the callbacks *)

(* ForceClose in another thread: the store, then the append.               *)
LateForceClose(k) ==
  /\ k \in LateClosed \ lateClosed
  /\ k \in kept
  /\ closing = NoConn
  /\ closing' = k
  /\ lateClosed' = lateClosed \cup {k}
  /\ status' = [status EXCEPT ![k] = "Disconnecting"]
  /\ UNCHANGED <<kernelVars, poller, objVars, connectionMap, ioVars, pending,
                 todo, mainVars, kept, ups, downs, touched, history>>

LateForceCloseQueues ==
  /\ closing # NoConn
  /\ pending' = Append(pending, Functor("ForceCloseInLoop", closing))
  /\ closing' = NoConn
  /\ UNCHANGED <<kernelVars, poller, objVars, status, connectionMap, ioVars,
                 todo, mainVars, kept, lateClosed, ups, downs, touched,
                 history>>

UserDrops(k) ==
  /\ k \in kept
  /\ closing # k
  /\ kept' = kept \ {k}
  /\ UNCHANGED <<kernelVars, poller, objVars, status, connectionMap, ioVars,
                 pending, todo, mainVars, closing, lateClosed, ups, downs,
                 touched, history>>

-----------------------------------------------------------------------------
IoStep ==
  \/ Poll
  \/ \E e \in active : HandleEvent(e)
  \/ CloseOrErrorCallback \/ ReadEnd \/ ReadMessage \/ CallbackOnDestroyed
  \/ EventHandled
  \/ SwapFunctors \/ FunctorsDone
  \/ \E k \in Conns :
       \/ CallEstablished(k)
       \/ CallEstablishedInLoop(k)
       \/ CallForceCloseInLoop(k)
       \/ CallRemoveConnectionInLoop(k)
       \/ \E op \in RawOps : CallOnDestroyed(op, k)

MainStep ==
  \/ \E k \in Conns, n \in Names : HandleNewConnection(k, n)
  \/ StopBegins
  \/ \E k \in Conns : StopVisits(k)
  \/ StopEnds

UserStep ==
  \/ \E k \in Conns : LateForceClose(k) \/ UserDrops(k)
  \/ LateForceCloseQueues

PeerStep == \E k \in Conns : PeerSends(k) \/ PeerLeaves(k)

Next == IoStep \/ MainStep \/ UserStep \/ PeerStep

Spec == Init /\ [][Next]_vars

(* The I/O loop runs: Poll returns after three seconds at the latest, and  *)
(* callbacks return.  Peers and users are obliged to nothing.              *)
FairSpec == Spec /\ WF_vars(IoStep)

-----------------------------------------------------------------------------
(* Properties *)

(* A functor bound to a raw this finds its connection alive, with four     *)
(* causes why it may not, and no other: stop() has passed the connection,  *)
(* another one of the same name has taken its map entry, ForceClose was    *)
(* called on it when it was closing already, or ForceClose was called by   *)
(* a thread that could be overtaken.  No cause excuses an establishment    *)
(* but the first two.                                                      *)
RawFunctorsSafe ==
  \A f \in orphaned :
    \/ \E i \in DOMAIN visited : visited[i] = f.con
    \/ f.con \in lost
    \/ f.op = "ForceCloseInLoop" /\ f.con \in closedAgain \cup lateClosed

(* What the poller watches is a live connection's own descriptor, and the  *)
(* server still has it under its name: no entry of the poller's table      *)
(* outlives its channel, no descriptor is closed while it is watched.      *)
WatchedIsKnown ==
  \A f \in Fds :
    LET k == poller.channelMap[f] IN
    k # NoConn =>
      /\ Alive(k)
      /\ fd[k] = f
      /\ connectionMap[name[k]] = k
      /\ status[k] \in {"Connected", "Disconnecting"}

(* A connected connection is watched for input: EnableRead of              *)
(* ConnectionEstablishedInLoop is not refused by the poller.               *)
ConnectedIsWatched ==
  \A k \in Conns :
    Alive(k) /\ status[k] = "Connected" =>
      /\ poller.channelMap[fd[k]] = k
      /\ poller.kernel[fd[k]] = Watched(k, {"read"})

(* The connection callback reports each connection up once, then down      *)
(* once, and both before the connection is destroyed.                      *)
UpThenDown ==
  \A k \in Conns :
    /\ downs[k] <= ups[k] /\ ups[k] <= 1
    /\ k \in accepted /\ ~Alive(k) => downs[k] = 1

(* The read callback is called between the two.                            *)
ReadsWhileUp ==
  [][\A k \in Conns : data'[k] < data[k] => ups[k] = 1 /\ downs[k] = 0]_vars

(* What the kernel watches for a descriptor is what the poller's table has *)
(* for it: UpdateChannel and RemoveChannel write both or neither, even     *)
(* when stop() or a late ForceClose leave a channel behind.                *)
KernelMatchesTable ==
  \A f \in Fds :
    poller.kernel[f] # NotWatched =>
      poller.channelMap[f] = poller.kernel[f].channel

(* stop() takes every connection it visits out of the map.                 *)
StopForgets ==
  \A k \in Conns :
    (\E i \in DOMAIN visited : visited[i] = k) ~> ~InMap(k)

(* Once its peer has left, the server and the poller forget a connection.  *)
LeftIsForgotten ==
  \A k \in Conns :
    (peer[k] \in {"closed", "reset"})
      ~> (~InMap(k) /\ status[k] = "Disconnected" /\ poller.index[k] = "deleted")

(* No destroyed object is ever used.                                       *)
NoUseAfterFree == touched = {} /\ orphaned = {}

(* A connection is destroyed once: not by the second owner and again when  *)
(* the last shared_ptr goes.                                               *)
DestroyedOnce == \A k \in deleted : Held(k)
=============================================================================
