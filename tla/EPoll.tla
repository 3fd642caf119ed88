-------------------------------- MODULE EPoll --------------------------------
(***************************************************************************)
(* net/EPollPoller.cc: the table of registered channels and the kernel's   *)
(* interest list behind it.  The two can disagree: the table is written    *)
(* only when epoll_ctl succeeds, and the kernel forgets a file when its    *)
(* last descriptor is closed, whatever the table says.                     *)
(*                                                                         *)
(* A poller is a record                                                    *)
(*   channelMap   _channelMap: the channel registered for each descriptor  *)
(*   index        Channel::_index of each channel                          *)
(*   kernel       what epoll watches for each descriptor: the channel of   *)
(*                data.ptr and its events, or nothing                      *)
(* and the operators give the poller after a call.                         *)
(***************************************************************************)
EXTENDS Naturals

NoChannel == <<>>

Watched(ch, events) == [channel |-> ch, events |-> events]
NotWatched == Watched(NoChannel, {})

NewPoller(Fds, Channels) ==
  [channelMap |-> [fd \in Fds |-> NoChannel],
   index |-> [ch \in Channels |-> "initial"],
   kernel |-> [fd \in Fds |-> NotWatched]]

(* Each EPOLL_CTL operation succeeds or leaves everything as it is: ADD    *)
(* needs a descriptor that is not watched, MOD and DEL one that is.        *)
CtlAdd(p, fd) == p.kernel[fd] = NotWatched
CtlModOrDel(p, fd) == p.kernel[fd] # NotWatched

(* UpdateChannel: an initial or deleted channel is added, unless the table *)
(* has a channel for the descriptor; an added one is modified, unless the  *)
(* table has none.                                                         *)
AddChannel(p, ch, fd, events) ==
  IF p.channelMap[fd] = NoChannel /\ CtlAdd(p, fd)
  THEN [p EXCEPT !.channelMap[fd] = ch,
                 !.index[ch] = "added",
                 !.kernel[fd] = Watched(ch, events)]
  ELSE p

ModifyChannel(p, ch, fd, events) ==
  IF p.channelMap[fd] # NoChannel /\ CtlModOrDel(p, fd)
  THEN [p EXCEPT !.kernel[fd] = Watched(ch, events)]
  ELSE p

UpdateChannel(p, ch, fd, events) ==
  IF p.index[ch] = "added"
  THEN ModifyChannel(p, ch, fd, events)
  ELSE AddChannel(p, ch, fd, events)

(* Mutant: the table keeps its entry.                                      *)
RemoveFromKernelOnly(p, ch, fd) ==
  IF CtlModOrDel(p, fd)
  THEN [p EXCEPT !.index[ch] = "deleted", !.kernel[fd] = NotWatched]
  ELSE p

(* Mutant: EPOLL_CTL_DEL is left out.                                      *)
RemoveFromTableOnly(p, ch, fd) ==
  [p EXCEPT !.channelMap[fd] = NoChannel, !.index[ch] = "deleted"]

(* RemoveChannel: the table forgets the channel only if epoll_ctl agrees.  *)
RemoveChannel(p, ch, fd) ==
  IF CtlModOrDel(p, fd)
  THEN [p EXCEPT !.channelMap[fd] = NoChannel,
                 !.index[ch] = "deleted",
                 !.kernel[fd] = NotWatched]
  ELSE p

(* close(fd): the kernel stops watching, the table is not told.            *)
CloseFd(p, fd) == [p EXCEPT !.kernel[fd] = NotWatched]
=============================================================================
