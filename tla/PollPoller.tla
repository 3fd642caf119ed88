----------------------------- MODULE PollPoller -----------------------------
(***************************************************************************)
(* net/PollPoller.cc: the poller built without MY_REACTOR_USE_EPOLL.  Its  *)
(* table of pollfds is what poll() gets, so that nothing is behind it; a   *)
(* map finds the channel of a descriptor.                                  *)
(*                                                                         *)
(* A poller is a record                                                    *)
(*   fds     _fds: the pollfds, each a descriptor with its events          *)
(*   map     _fdChannelPtrMap                                              *)
(*   index   Channel::_index of each channel, -1 when it is not registered *)
(* and the operators give the poller after a call.                         *)
(***************************************************************************)
EXTENDS Integers, Sequences, Erase, EPoll

PollFd(fd, events) == [fd |-> fd, events |-> events]

NewPollPoller(Fds, Channels) ==
  [fds |-> <<>>,
   map |-> [fd \in Fds |-> NoChannel],
   index |-> [ch \in Channels |-> -1]]

(* Mutant: the channel is not put in the map.                              *)
PollAddUnmapped(p, ch, fd, events) ==
  [p EXCEPT !.fds = Append(@, PollFd(fd, events)),
            !.index[ch] = Len(p.fds) + 1]

(* insert() leaves an entry that is there.                                 *)
PollAdd(p, ch, fd, events) ==
  [p EXCEPT !.fds = Append(@, PollFd(fd, events)),
            !.index[ch] = Len(p.fds) + 1,
            !.map[fd] = IF @ = NoChannel THEN ch ELSE @]

(* The first pollfd of the descriptor gets the events.                     *)
PollModify(p, fd, events) ==
  LET mine(i) == p.fds[i].fd = fd
  IN  [p EXCEPT !.fds = [i \in DOMAIN @ |->
         IF mine(i) /\ \A j \in 1..(i - 1) : ~mine(j)
         THEN PollFd(fd, events) ELSE @[i]]]

(* UpdateChannel refuses a channel that is registered under its descriptor. *)
PollUpdateChannel(p, ch, fd, events) ==
  CASE p.map[fd] # NoChannel /\ p.index[ch] # -1 -> p
    [] p.index[ch] = -1 -> PollAdd(p, ch, fd, events)
    [] OTHER -> PollModify(p, fd, events)

(* The loop of erase() over the table.                                     *)
WithoutFd(fds, fd) ==
  Without(fds, {fds[i] : i \in {j \in DOMAIN fds : fds[j].fd = fd}})

(* Mutant: the channel keeps its index.                                    *)
PollRemoveKeepingIndex(p, ch, fd) ==
  [p EXCEPT !.fds = WithoutFd(@, fd), !.map[fd] = NoChannel]

(* RemoveChannel: nothing changes unless a pollfd goes.                    *)
PollRemoveChannel(p, ch, fd) ==
  IF \E i \in DOMAIN p.fds : p.fds[i].fd = fd
  THEN [p EXCEPT !.fds = WithoutFd(@, fd),
                 !.map[fd] = NoChannel,
                 !.index[ch] = -1]
  ELSE p

(* FillActiveChannels after a poll() that found these events ready.        *)
PollReports(p, readiness) ==
  {p.map[p.fds[i].fd] :
     i \in {j \in DOMAIN p.fds :
              p.fds[j].events \cap readiness[p.fds[j].fd] # {}}} \ {NoChannel}

(* ... and EPollPoller's, after an epoll_wait() that found the same.       *)
EPollReports(p, readiness) ==
  {p.kernel[fd].channel :
     fd \in {f \in DOMAIN readiness :
               p.kernel[f].events \cap readiness[f] # {}}}
=============================================================================
