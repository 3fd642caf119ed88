------------------------------ MODULE Pollers ------------------------------
(***************************************************************************)
(* net/Channel.cc on both pollers at once: the same calls of EnableRead,   *)
(* EnableWrite, DisableRead, DisableWrite, DisableAll and Remove, given to *)
(* an EPollPoller and to a PollPoller.                                     *)
(*                                                                         *)
(* Several channels may be made for one descriptor, one after the other:   *)
(* its owner removes a channel before it closes the descriptor, as         *)
(* TcpConnection, Connector and Acceptor do, and so nobody touches a       *)
(* channel while another one is registered for its descriptor.             *)
(***************************************************************************)
EXTENDS PollPoller

CONSTANTS Handles,   \* the channels
          PollFds    \* the descriptors

ASSUME PollersAssumption == NoChannel \notin Handles

AllEvents == {"IN", "OUT"}   \* kReadEvent and kWriteEvent

VARIABLES
  chanFd,     \* _fd of each channel
  asks,       \* _events of each channel
  asksFirst,  \* history: what it asked for when it was last registered
  epoller,    \* the EPollPoller
  ppoller     \* the PollPoller

pollersVars == <<chanFd, asks, asksFirst, epoller, ppoller>>

PollersTypeOK ==
  /\ chanFd \in [Handles -> PollFds]
  /\ asks \in [Handles -> SUBSET AllEvents]
  /\ asksFirst \in [Handles -> SUBSET AllEvents]
  /\ epoller \in [channelMap : [PollFds -> Handles \cup {NoChannel}],
                  index : [Handles -> {"initial", "added", "deleted"}],
                  kernel : [PollFds -> [channel : Handles \cup {NoChannel},
                                        events : SUBSET AllEvents]]]
  /\ ppoller.fds \in Seq([fd : PollFds, events : SUBSET AllEvents])
  /\ ppoller.map \in [PollFds -> Handles \cup {NoChannel}]
  /\ ppoller.index \in [Handles -> Int]

PollersInit ==
  /\ chanFd \in [Handles -> PollFds]
  /\ asks = [c \in Handles |-> {}]
  /\ asksFirst = [c \in Handles |-> {}]
  /\ epoller = NewPoller(PollFds, Handles)
  /\ ppoller = NewPollPoller(PollFds, Handles)

Registered(c) == epoller.index[c] = "added"
MayUse(c) == \A d \in Handles \ {c} : chanFd[d] = chanFd[c] => ~Registered(d)

-----------------------------------------------------------------------------
(* Update() after _events has changed.                                     *)
Asks(c, events) ==
  /\ MayUse(c)
  /\ asks' = [asks EXCEPT ![c] = events]
  /\ asksFirst' = IF Registered(c) THEN asksFirst
                  ELSE [asksFirst EXCEPT ![c] = events]
  /\ epoller' = UpdateChannel(epoller, c, chanFd[c], events)
  /\ ppoller' = PollUpdateChannel(ppoller, c, chanFd[c], events)
  /\ UNCHANGED chanFd

EnableRead(c) == Asks(c, asks[c] \cup {"IN"})
DisableRead(c) == Asks(c, asks[c] \ {"IN"})
EnableWrite(c) == Asks(c, asks[c] \cup {"OUT"})
DisableWrite(c) == Asks(c, asks[c] \ {"OUT"})
DisableAll(c) == Asks(c, {})

RemoveHandle(c) ==
  /\ MayUse(c)
  /\ epoller' = RemoveChannel(epoller, c, chanFd[c])
  /\ ppoller' = PollRemoveChannel(ppoller, c, chanFd[c])
  /\ asksFirst' = [asksFirst EXCEPT ![c] = {}]
  /\ UNCHANGED <<chanFd, asks>>

PollersNext ==
  \E c \in Handles :
    \/ EnableRead(c) \/ DisableRead(c) \/ EnableWrite(c) \/ DisableWrite(c)
    \/ DisableAll(c) \/ RemoveHandle(c)

PollersSpec == PollersInit /\ [][PollersNext]_pollersVars

-----------------------------------------------------------------------------
(* Properties *)

(* The pollers have the same channels registered under the same            *)
(* descriptors, and poll() gets one pollfd for each of them: what a        *)
(* channel leaves behind in neither table blocks the next one.             *)
PollersAgree ==
  /\ ppoller.map = epoller.channelMap
  /\ \A c \in Handles :
       /\ Registered(c) <=> ppoller.index[c] # -1
       /\ Registered(c) <=> epoller.channelMap[chanFd[c]] = c
  /\ \A fd \in PollFds :
       LET entries == {i \in DOMAIN ppoller.fds : ppoller.fds[i].fd = fd}
       IN  /\ entries = {} <=> ppoller.map[fd] = NoChannel
           /\ \A i, j \in entries : i = j

(* Whatever is ready, EPollPoller reports a registered channel by what it  *)
(* asks for now.  PollPoller reports the registered channels and no other, *)
(* each by one set of events: what it asks for now or what it asked for    *)
(* when it was registered, never a mixture and never what another channel  *)
(* asked.  The second set is there because the test of PollPoller.cc:44    *)
(* turns down the change of a registered channel, though the message on    *)
(* line 45 and the branch "update" on line 60 are for making it; the       *)
(* property asks neither for the refusal nor against it, only that an      *)
(* update is made or refused as a whole.                                   *)
ReportsAsAsked ==
  /\ \A readiness \in [PollFds -> SUBSET AllEvents] :
       EPollReports(epoller, readiness) =
         {c \in Handles : Registered(c) /\ asks[c] \cap readiness[chanFd[c]] # {}}
  /\ \A c \in Handles : \E events \in {asks[c], asksFirst[c]} :
       \A readiness \in [PollFds -> SUBSET AllEvents] :
         c \in PollReports(ppoller, readiness) <=>
           Registered(c) /\ events \cap readiness[chanFd[c]] # {}
=============================================================================
