----------------------------- MODULE TcpClient -----------------------------
(***************************************************************************)
(* net/TcpClient.cc and net/Connector.cc with the poller of EPoll: a       *)
(* client that connects, is established, loses its connection and connects *)
(* again, all in one loop.                                                 *)
(*                                                                         *)
(* An attempt is a call of connect().  Its socket has two channels, first  *)
(* the connector's and then the TcpConnection's, on one descriptor.  A     *)
(* step is a functor or the events of one channel.  Every failure of       *)
(* TcpClient is exit(-1).  The user may call connect() at any time;        *)
(* overlapped says that it did so with an attempt or a connection there,   *)
(* which nothing in the code forbids and nothing provides for.             *)
(***************************************************************************)
EXTENDS Naturals, Sequences, FiniteSets, EPoll

CONSTANTS
  Attempts,    \* the calls of connect()
  Fds,         \* the descriptors the process may have
  None

ASSUME ClientAssumption == Fds \subseteq Nat /\ Fds # {} /\ None \notin Attempts

ConnectorChannel(a) == <<"connector", a>>
ConnectionChannel(a) == <<"connection", a>>
Channels == {"connector", "connection"} \X Attempts

VARIABLES
  stage,       \* what has become of each attempt
  peerEnd,     \* its socket as the network sees it
  fdOf,        \* its descriptor
  connector,   \* whose channel _connectorChannel is
  connecting,  \* the connector's _status: CONNECTING
  connection,  \* whose TcpConnection _tcpConnectionPtr is
  conStatus,   \* the _status of each TcpConnection
  clientPoller,\* the loop's poller
  waiting,     \* functors of the loop, oldest first
  running,     \* the process has not exited
  overlapped   \* history: connect() was called with something there

clientVars == <<stage, peerEnd, fdOf, connector, connecting, connection,
                conStatus, clientPoller, waiting, running, overlapped>>

(* "asked": startInLoop is queued; "trying": the connector's channel is    *)
(* there; "using": the TcpConnection is; "dropped": the connector's        *)
(* channel was replaced; "leaked": given up by retry(); "over": closed.    *)
Stages == {"unused", "asked", "trying", "using", "dropped", "leaked", "over"}

(* Whose descriptors are open.                                             *)
HasFd(a) == stage[a] \in {"trying", "using", "dropped", "leaked"}

ClientTypeOK ==
  /\ stage \in [Attempts -> Stages]
  /\ peerEnd \in [Attempts -> {"pending", "open", "closed", "refused"}]
  /\ fdOf \in [Attempts -> Fds]
  /\ connector \in Attempts \cup {None}
  /\ connecting \in BOOLEAN
  /\ connection \in Attempts \cup {None}
  /\ conStatus \in [Attempts -> {"Connecting", "Connected", "Disconnected"}]
  /\ waiting \in Seq([op : {"start", "establish"}, attempt : Attempts])
  /\ running \in BOOLEAN
  /\ overlapped \in BOOLEAN

ClientInit ==
  /\ stage = [a \in Attempts |-> "unused"]
  /\ peerEnd = [a \in Attempts |-> "pending"]
  /\ fdOf \in {[a \in Attempts |-> CHOOSE fd \in Fds : TRUE]}
  /\ connector = None
  /\ connecting = FALSE
  /\ connection = None
  /\ conStatus = [a \in Attempts |-> "Connecting"]
  /\ clientPoller = NewPoller(Fds, Channels)
  /\ waiting = <<>>
  /\ running = TRUE
  /\ overlapped = FALSE

FreeFds == Fds \ {fdOf[a] : a \in {b \in Attempts : HasFd(b)}}

-----------------------------------------------------------------------------
(* connect() *)

Busy == connector # None \/ connection # None \/ \E a \in Attempts : stage[a] = "asked"

Connect(a) ==
  /\ running
  /\ stage[a] = "unused"
  /\ stage' = [stage EXCEPT ![a] = "asked"]
  /\ waiting' = Append(waiting, [op |-> "start", attempt |-> a])
  /\ overlapped' = (overlapped \/ Busy)
  /\ UNCHANGED <<peerEnd, fdOf, connector, connecting, connection, conStatus,
                 clientPoller, running>>

(* Mutant: the connector does not ask for writability.                     *)
TryUnwatched(a, fd) ==
  /\ connecting' = TRUE
  /\ connector' = a
  /\ stage' = [b \in Attempts |->
                 IF b = a THEN "trying" ELSE IF b = connector THEN "dropped"
                 ELSE stage[b]]
  /\ UNCHANGED <<clientPoller, running>>

(* connecting(): the new channel replaces one that is still there, which   *)
(* is destroyed with its socket open and watched.                          *)
Try(a, fd) ==
  /\ connecting' = TRUE
  /\ connector' = a
  /\ stage' = [b \in Attempts |->
                 IF b = a THEN "trying" ELSE IF b = connector THEN "dropped"
                 ELSE stage[b]]
  /\ clientPoller' = UpdateChannel(clientPoller, ConnectorChannel(a), fd, {"OUT"})
  /\ UNCHANGED running

(* retry() for EAGAIN and EADDRINUSE: nothing, not even close().           *)
Retry(a) ==
  /\ stage' = [stage EXCEPT ![a] = "leaked"]
  /\ UNCHANGED <<connector, connecting, clientPoller, running>>

(* Any other error: close() and _failedCallback, which is                  *)
(* handleConnectError: exit(-1).                                           *)
Exit == running' = FALSE

ConnectFails(a) ==
  /\ Exit
  /\ stage' = [stage EXCEPT ![a] = "over"]
  /\ UNCHANGED <<connector, connecting, clientPoller>>

Call(op, a) ==
  /\ running
  /\ waiting # <<>>
  /\ Head(waiting) = [op |-> op, attempt |-> a]

StartInLoop(a) ==
  /\ Call("start", a)
  /\ waiting' = Tail(waiting)
  /\ \E fd \in FreeFds :
       /\ \A other \in FreeFds : fd <= other
       /\ fdOf' = [fdOf EXCEPT ![a] = fd]
       /\ Try(a, fd) \/ Retry(a) \/ ConnectFails(a)
  /\ UNCHANGED <<peerEnd, connection, conStatus, overlapped>>

-----------------------------------------------------------------------------
(* The peer and the network *)

PeerAnswers(a, answer) ==
  /\ running
  /\ HasFd(a)
  /\ stage[a] # "leaked"
  /\ peerEnd[a] = "pending"
  /\ answer \in {"open", "refused"}
  /\ peerEnd' = [peerEnd EXCEPT ![a] = answer]
  /\ UNCHANGED <<stage, fdOf, connector, connecting, connection, conStatus,
                 clientPoller, waiting, running, overlapped>>

PeerCloses(a) ==
  /\ running
  /\ HasFd(a)
  /\ peerEnd[a] = "open"
  /\ peerEnd' = [peerEnd EXCEPT ![a] = "closed"]
  /\ UNCHANGED <<stage, fdOf, connector, connecting, connection, conStatus,
                 clientPoller, waiting, running, overlapped>>

-----------------------------------------------------------------------------
(* Events *)

(* A socket is writable once connect() has ended, readable at the end of   *)
(* the stream.                                                             *)
Ready(a) ==
  CASE peerEnd[a] = "pending" -> {}
    [] peerEnd[a] = "open" -> {"OUT"}
    [] OTHER -> {"IN", "OUT"}

Reported(ch, a) ==
  /\ running
  /\ HasFd(a)
  /\ LET w == clientPoller.kernel[fdOf[a]]
     IN  w.channel = ch /\ (w.events \cap Ready(a) # {} \/ peerEnd[a] = "refused")

(* The error event comes before the write event: _errorCallback exits.     *)
ConnectRefused(a) ==
  /\ Reported(ConnectorChannel(a), a)
  /\ connector = a
  /\ peerEnd[a] = "refused"
  /\ Exit
  /\ UNCHANGED <<stage, peerEnd, fdOf, connector, connecting, connection,
                 conStatus, clientPoller, waiting, overlapped>>

(* DisableAll and Remove of a channel of a.                                *)
Removed(p, ch, a) ==
  RemoveChannel(UpdateChannel(p, ch, fdOf[a], {}), ch, fdOf[a])

(* The TcpConnection of a, if any, is destroyed and its socket closed.     *)
Closed(p, a) == IF a = None THEN p ELSE CloseFd(p, fdOf[a])

(* Mutant: the connector's channel is destroyed and stays in the poller.   *)
SucceedStillWatched(a) ==
  /\ Reported(ConnectorChannel(a), a)
  /\ connector = a
  /\ peerEnd[a] # "refused"
  /\ connecting' = FALSE
  /\ connector' = None
  /\ connection' = a
  /\ stage' = [b \in Attempts |->
                 IF b = a THEN "using" ELSE IF b = connection THEN "over"
                 ELSE stage[b]]
  /\ clientPoller' = Closed(clientPoller, connection)
  /\ waiting' = Append(waiting, [op |-> "establish", attempt |-> a])
  /\ UNCHANGED <<peerEnd, fdOf, conStatus, running, overlapped>>

(* socketIsReadyToWrite: the connector's channel goes, handleConnectSuccess *)
(* makes the TcpConnection, in place of one that is there, and             *)
(* ConnectionEstablished queues the rest.                                  *)
ConnectSucceeds(a) ==
  /\ Reported(ConnectorChannel(a), a)
  /\ connector = a
  /\ peerEnd[a] # "refused"
  /\ connecting' = FALSE
  /\ connector' = None
  /\ connection' = a
  /\ stage' = [b \in Attempts |->
                 IF b = a THEN "using" ELSE IF b = connection THEN "over"
                 ELSE stage[b]]
  /\ clientPoller' = Closed(Removed(clientPoller, ConnectorChannel(a), a), connection)
  /\ waiting' = Append(waiting, [op |-> "establish", attempt |-> a])
  /\ UNCHANGED <<peerEnd, fdOf, conStatus, running, overlapped>>

ConnectionEstablishedInLoop(a) ==
  /\ Call("establish", a)
  /\ waiting' = Tail(waiting)
  /\ \/ /\ stage[a] = "using" /\ conStatus[a] = "Connecting"
        /\ clientPoller' = UpdateChannel(clientPoller, ConnectionChannel(a), fdOf[a],
                                         {"IN"})
        /\ conStatus' = [conStatus EXCEPT ![a] = "Connected"]
     \/ /\ stage[a] # "using"    \* the connection has been replaced
        /\ UNCHANGED <<clientPoller, conStatus>>
  /\ UNCHANGED <<stage, peerEnd, fdOf, connector, connecting, connection,
                 running, overlapped>>

(* Mutant: _tcpConnectionPtr keeps the connection that was closed.         *)
CloseKeepsPointer(a) ==
  /\ Reported(ConnectionChannel(a), a)
  /\ stage[a] = "using"
  /\ "IN" \in Ready(a)
  /\ conStatus' = [conStatus EXCEPT ![a] = "Disconnected"]
  /\ clientPoller' = Removed(clientPoller, ConnectionChannel(a), a)
  /\ UNCHANGED <<stage, peerEnd, fdOf, connector, connecting, connection,
                 waiting, running, overlapped>>

(* HandleRead of the end of the stream: HandleClose, then                  *)
(* removeConnection, which drops _tcpConnectionPtr whosever it is.         *)
ConnectionCloses(a) ==
  /\ Reported(ConnectionChannel(a), a)
  /\ stage[a] = "using"
  /\ "IN" \in Ready(a)
  /\ conStatus' = [conStatus EXCEPT ![a] = "Disconnected"]
  /\ connection' = None
  /\ stage' = [stage EXCEPT ![connection] = "over"]
  /\ clientPoller' = Closed(Removed(clientPoller, ConnectionChannel(a), a), connection)
  /\ UNCHANGED <<peerEnd, fdOf, connector, connecting, waiting, running,
                 overlapped>>

-----------------------------------------------------------------------------
LoopOf(a) ==
  \/ StartInLoop(a) \/ ConnectRefused(a) \/ ConnectSucceeds(a)
  \/ ConnectionEstablishedInLoop(a) \/ ConnectionCloses(a)

Answer(a) == PeerAnswers(a, "open") \/ PeerAnswers(a, "refused")

ClientNext ==
  \E a \in Attempts : Connect(a) \/ LoopOf(a) \/ Answer(a) \/ PeerCloses(a)

ClientSpec == ClientInit /\ [][ClientNext]_clientVars

-----------------------------------------------------------------------------
(* Properties *)

(* The poller watches the channel that is connecting and the connection's  *)
(* and nothing else, and its table says so too: a channel that connect(),  *)
(* success or the end of a connection destroys is out of both, and the     *)
(* connection's channel gets in where the connector's was.                 *)
WatchesItsOwn ==
  running /\ ~overlapped =>
    /\ \A fd \in Fds :
         clientPoller.channelMap[fd] = clientPoller.kernel[fd].channel
    /\ \A a \in Attempts, fd \in Fds :
         LET ch == clientPoller.kernel[fd].channel
         IN  /\ ch = ConnectorChannel(a) <=> connector = a /\ fd = fdOf[a]
             /\ ch = ConnectionChannel(a) <=>
                  connection = a /\ conStatus[a] = "Connected" /\ fd = fdOf[a]

(* Every open socket is being connected or is that of the connection, which *)
(* is not over, except those that retry() gives up.                        *)
SocketsHaveOwners ==
  running /\ ~overlapped =>
    \A a \in Attempts :
      HasFd(a) =>
        \/ connector = a
        \/ connection = a /\ conStatus[a] # "Disconnected"
        \/ stage[a] = "leaked"

(* connect() ends: an attempt becomes a connection, is given up or ends    *)
(* the process, on a descriptor used before as well as on a new one, and   *)
(* the client comes to a moment at which it tries nothing, unless its user *)
(* asks for a second connection meanwhile.                                 *)
ConnectEnds ==
  (\E a \in Attempts : stage[a] \in {"asked", "trying"}) ~>
    \/ \A a \in Attempts : stage[a] \notin {"asked", "trying"}
    \/ ~running
    \/ overlapped
=============================================================================
