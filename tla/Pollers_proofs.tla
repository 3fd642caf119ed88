---------------------------- MODULE Pollers_proofs ----------------------------
(***************************************************************************)
(* Proofs about the pollers, for any channels and descriptors: what the    *)
(* operators of EPoll.tla do, that both pollers of Pollers.tla have the    *)
(* same channels registered and what they report, and that the poller of   *)
(* TcpClient.tla watches what its client is connecting or connected to.    *)
(***************************************************************************)
EXTENDS Pollers, TcpClient, SequenceLemmas

-----------------------------------------------------------------------------
(* The operators of EPoll *)

EPollers(F, C) ==
  [channelMap : [F -> C \cup {NoChannel}],
   index : [C -> {"initial", "added", "deleted"}],
   kernel : [F -> [channel : C \cup {NoChannel}, events : SUBSET {"IN", "OUT"}]]]

(* A channel that is watched tells a descriptor from one that is not.      *)
LEMMA WatchedIsNotNothing ==
  ASSUME NEW ch, ch # NoChannel, NEW events
  PROVE  /\ Watched(ch, events) # NotWatched
         /\ Watched(ch, events).channel = ch /\ Watched(ch, events).events = events
         /\ NotWatched.channel = NoChannel /\ NotWatched.events = {}
BY DEF Watched, NotWatched

(* A channel that is not registered gets in, if nothing is known of its    *)
(* descriptor.                                                             *)
LEMMA UpdateAdds ==
  ASSUME NEW F, NEW C, NEW p \in EPollers(F, C), NEW ch \in C, NEW fd \in F,
         NEW events \in SUBSET {"IN", "OUT"},
         p.index[ch] # "added", p.channelMap[fd] = NoChannel,
         p.kernel[fd] = NotWatched,
         NEW q, q = UpdateChannel(p, ch, fd, events)
  PROVE  /\ q \in EPollers(F, C)
         /\ \A g \in F : q.channelMap[g] = IF g = fd THEN ch ELSE p.channelMap[g]
         /\ \A d \in C : q.index[d] = IF d = ch THEN "added" ELSE p.index[d]
         /\ \A g \in F : q.kernel[g] = IF g = fd THEN Watched(ch, events) ELSE p.kernel[g]
BY DEF UpdateChannel, AddChannel, CtlAdd, EPollers, Watched

(* A registered channel gets its new events, if the kernel knows it.       *)
LEMMA UpdateModifies ==
  ASSUME NEW F, NEW C, NEW p \in EPollers(F, C), NEW ch \in C, NEW fd \in F,
         NEW events \in SUBSET {"IN", "OUT"},
         p.index[ch] = "added", p.channelMap[fd] # NoChannel,
         p.kernel[fd] # NotWatched,
         NEW q, q = UpdateChannel(p, ch, fd, events)
  PROVE  /\ q \in EPollers(F, C)
         /\ q.channelMap = p.channelMap
         /\ q.index = p.index
         /\ \A g \in F : q.kernel[g] = IF g = fd THEN Watched(ch, events) ELSE p.kernel[g]
BY DEF UpdateChannel, ModifyChannel, CtlModOrDel, EPollers, Watched

(* A watched descriptor is forgotten by table and kernel.                  *)
LEMMA RemoveForgets ==
  ASSUME NEW F, NEW C, NEW p \in EPollers(F, C), NEW ch \in C, NEW fd \in F,
         p.kernel[fd] # NotWatched,
         NEW q, q = RemoveChannel(p, ch, fd)
  PROVE  /\ q \in EPollers(F, C)
         /\ \A g \in F : q.channelMap[g] = IF g = fd THEN NoChannel ELSE p.channelMap[g]
         /\ \A d \in C : q.index[d] = IF d = ch THEN "deleted" ELSE p.index[d]
         /\ \A g \in F : q.kernel[g] = IF g = fd THEN NotWatched ELSE p.kernel[g]
BY DEF RemoveChannel, CtlModOrDel, EPollers, Watched, NotWatched

(* Closing a descriptor that is not watched changes nothing.               *)
LEMMA CloseUnwatched ==
  ASSUME NEW F, NEW C, NEW p \in EPollers(F, C), NEW fd \in F,
         p.kernel[fd] = NotWatched
  PROVE  CloseFd(p, fd) = p
<1>1. [p.kernel EXCEPT ![fd] = NotWatched] = p.kernel
  BY DEF EPollers
<1> QED
  BY <1>1 DEF CloseFd, EPollers

-----------------------------------------------------------------------------
(* The operators of PollPoller *)

PollFdsOf(F) == [fd : F, events : SUBSET AllEvents]

PollPollers(F, C) ==
  [fds : Seq(PollFdsOf(F)), map : [F -> C \cup {NoChannel}], index : [C -> Int]]

(* A channel that is not registered gets a pollfd at the end, if the map   *)
(* has nothing for its descriptor.                                         *)
LEMMA PollUpdateAdds ==
  ASSUME NEW F, NEW C, NEW p \in PollPollers(F, C), NEW ch \in C, NEW fd \in F,
         NEW events \in SUBSET AllEvents,
         p.index[ch] = -1, p.map[fd] = NoChannel,
         NEW q, q = PollUpdateChannel(p, ch, fd, events)
  PROVE  /\ q \in PollPollers(F, C)
         /\ q.fds = Append(p.fds, PollFd(fd, events))
         /\ \A g \in F : q.map[g] = IF g = fd THEN ch ELSE p.map[g]
         /\ \A d \in C : q.index[d] = IF d = ch THEN Len(p.fds) + 1 ELSE p.index[d]
<1> DEFINE f == Append(p.fds, PollFd(fd, events))
           n == Len(p.fds) + 1
<1>1. q = [p EXCEPT !.fds = f, !.index[ch] = n, !.map[fd] = ch]
  BY DEF PollUpdateChannel, PollAdd
<1>2. p.fds \in Seq(PollFdsOf(F)) /\ PollFd(fd, events) \in PollFdsOf(F)
  BY DEF PollPollers, PollFdsOf, PollFd
<1>3. f \in Seq(PollFdsOf(F)) /\ n \in Int
  BY <1>2, AppendProperties, LenProperties
<1> HIDE DEF f, n
<1>4. LET r == [p EXCEPT !.fds = f, !.index[ch] = n, !.map[fd] = ch]
      IN  /\ r \in PollPollers(F, C) /\ r.fds = f
          /\ \A g \in F : r.map[g] = IF g = fd THEN ch ELSE p.map[g]
          /\ \A d \in C : r.index[d] = IF d = ch THEN n ELSE p.index[d]
  BY <1>3 DEF PollPollers
<1> QED
  BY <1>1, <1>4 DEF f, n

(* A channel that is registered stays as it is, whatever it asks for.      *)
LEMMA PollUpdateRefuses ==
  ASSUME NEW p, NEW ch, NEW fd, NEW events,
         p.index[ch] # -1, p.map[fd] # NoChannel
  PROVE  PollUpdateChannel(p, ch, fd, events) = p
BY DEF PollUpdateChannel

(* The loop of erase() leaves the pollfds of the other descriptors, each   *)
(* once.                                                                   *)
LEMMA WithoutFdKeepsOthers ==
  ASSUME NEW F, NEW fds \in Seq(PollFdsOf(F)), NEW fd
  PROVE  /\ WithoutFd(fds, fd) \in Seq(PollFdsOf(F))
         /\ \A i \in DOMAIN WithoutFd(fds, fd) :
              /\ WithoutFd(fds, fd)[i].fd # fd
              /\ \E j \in DOMAIN fds : WithoutFd(fds, fd)[i] = fds[j]
         /\ \A j \in DOMAIN fds :
              fds[j].fd # fd => \E i \in DOMAIN WithoutFd(fds, fd) :
                                  WithoutFd(fds, fd)[i] = fds[j]
         /\ (\A i, j \in DOMAIN fds : fds[i].fd = fds[j].fd => i = j) =>
              \A i, j \in DOMAIN WithoutFd(fds, fd) :
                WithoutFd(fds, fd)[i].fd = WithoutFd(fds, fd)[j].fd => i = j
<1> DEFINE gone == {fds[i] : i \in {j \in DOMAIN fds : fds[j].fd = fd}}
           w == Without(fds, gone)
<1>1. w = WithoutFd(fds, fd)
  BY DEF WithoutFd
<1>2. \A j \in DOMAIN fds : fds[j] \in gone <=> fds[j].fd = fd
  OBVIOUS
<1> HIDE DEF gone
<1>3. /\ w \in Seq(PollFdsOf(F))
      /\ \E place \in [1..Len(w) -> 1..Len(fds)] :
           /\ \A k \in 1..Len(w) : w[k] = fds[place[k]] /\ fds[place[k]] \notin gone
           /\ \A k, l \in 1..Len(w) : k < l => place[k] < place[l]
           /\ \A i \in 1..Len(fds) :
                fds[i] \notin gone => \E k \in 1..Len(w) : place[k] = i
  BY WithoutPlaces
<1> HIDE DEF w
<1>4. PICK place \in [1..Len(w) -> 1..Len(fds)] :
        /\ \A k \in 1..Len(w) : w[k] = fds[place[k]] /\ fds[place[k]] \notin gone
        /\ \A k, l \in 1..Len(w) : k < l => place[k] < place[l]
        /\ \A i \in 1..Len(fds) :
             fds[i] \notin gone => \E k \in 1..Len(w) : place[k] = i
  BY <1>3
<1>5. DOMAIN w = 1..Len(w) /\ DOMAIN fds = 1..Len(fds) /\ Len(w) \in Nat /\ Len(fds) \in Nat
  BY <1>3, LenProperties
<1>6. \A i \in DOMAIN w : w[i].fd # fd /\ \E j \in DOMAIN fds : w[i] = fds[j]
  BY <1>2, <1>4, <1>5
<1>7. \A j \in DOMAIN fds : fds[j].fd # fd => \E i \in DOMAIN w : w[i] = fds[j]
  BY <1>2, <1>4, <1>5
<1>8. ASSUME \A i, j \in DOMAIN fds : fds[i].fd = fds[j].fd => i = j,
             NEW i \in DOMAIN w, NEW j \in DOMAIN w, w[i].fd = w[j].fd
      PROVE  i = j
  <2>1. place[i] = place[j]
    BY <1>4, <1>5, <1>8
  <2>2. place[i] \in Nat /\ i \in Nat /\ j \in Nat /\ place[j] \in Nat
    BY <1>4, <1>5
  <2>3. ~(i < j) /\ ~(j < i)
    BY <1>4, <1>5, <2>1, <2>2
  <2> QED
    BY <2>2, <2>3
<1> QED
  BY <1>1, <1>3, <1>6, <1>7, <1>8

(* A channel whose descriptor has a pollfd loses it and its entries.       *)
LEMMA PollRemoveForgets ==
  ASSUME NEW F, NEW C, NEW p \in PollPollers(F, C), NEW ch \in C, NEW fd \in F,
         \E i \in DOMAIN p.fds : p.fds[i].fd = fd,
         NEW q, q = PollRemoveChannel(p, ch, fd)
  PROVE  /\ q \in PollPollers(F, C)
         /\ q.fds = WithoutFd(p.fds, fd)
         /\ \A g \in F : q.map[g] = IF g = fd THEN NoChannel ELSE p.map[g]
         /\ \A d \in C : q.index[d] = IF d = ch THEN -1 ELSE p.index[d]
<1>1. /\ p.fds \in Seq(PollFdsOf(F)) /\ p.map \in [F -> C \cup {NoChannel}]
      /\ p.index \in [C -> Int] /\ DOMAIN p = {"fds", "map", "index"}
  BY DEF PollPollers
<1>2. WithoutFd(p.fds, fd) \in Seq(PollFdsOf(F))
  BY <1>1, WithoutFdKeepsOthers
<1>3. -1 \in Int
  OBVIOUS
<1> QED
  BY <1>1, <1>2, <1>3 DEF PollRemoveChannel, PollPollers

-----------------------------------------------------------------------------
(* The inductive invariant of Pollers *)

(* The two tables are one, a channel is in them under its own descriptor   *)
(* only, and each poller's index says whether it is.                       *)
OneTable ==
  /\ ppoller.map = epoller.channelMap
  /\ \A c \in Handles :
       /\ Registered(c) <=> ppoller.index[c] # -1
       /\ Registered(c) <=> epoller.channelMap[chanFd[c]] = c
  /\ \A fd \in PollFds :
       epoller.channelMap[fd] # NoChannel => chanFd[epoller.channelMap[fd]] = fd

(* The kernel watches what is in the table, by what it asks for.           *)
KernelFollows ==
  \A fd \in PollFds :
    LET c == epoller.channelMap[fd]
    IN  epoller.kernel[fd] =
          IF c = NoChannel THEN NotWatched ELSE Watched(c, asks[c])

(* What is in the table has one pollfd, of what it asked for first.        *)
FirstAsked ==
  /\ \A i \in DOMAIN ppoller.fds :
       LET c == ppoller.map[ppoller.fds[i].fd]
       IN  c # NoChannel /\ ppoller.fds[i].events = asksFirst[c]
  /\ \A fd \in PollFds :
       ppoller.map[fd] # NoChannel =>
         \E i \in DOMAIN ppoller.fds : ppoller.fds[i].fd = fd
  /\ \A i, j \in DOMAIN ppoller.fds :
       ppoller.fds[i].fd = ppoller.fds[j].fd => i = j

PollerTypes ==
  /\ chanFd \in [Handles -> PollFds]
  /\ asks \in [Handles -> SUBSET AllEvents]
  /\ asksFirst \in [Handles -> SUBSET AllEvents]
  /\ epoller \in EPollers(PollFds, Handles)
  /\ ppoller \in PollPollers(PollFds, Handles)

PollersInv == PollerTypes /\ OneTable /\ KernelFollows /\ FirstAsked

LEMMA PollersStart ==
  PollersInit => PollersInv
<1> SUFFICES ASSUME PollersInit PROVE PollersInv
  OBVIOUS
<1>1. NoChannel \notin Handles
  BY PollersAssumption
<1>2. PollerTypes
  BY DEF PollersInit, PollerTypes, NewPoller, NewPollPoller, EPollers, PollPollers,
         NotWatched, Watched
<1>3. OneTable /\ KernelFollows
  BY <1>1 DEF PollersInit, NewPoller, NewPollPoller, OneTable, KernelFollows, Registered
<1>4. FirstAsked
  BY DEF PollersInit, NewPollPoller, FirstAsked
<1> QED
  BY <1>2, <1>3, <1>4 DEF PollersInv

(* A channel that its owner may use and that is not registered finds       *)
(* nothing registered for its descriptor, in either poller.                *)
LEMMA NothingInTheWay ==
  ASSUME PollersInv, NEW c \in Handles, MayUse(c), ~Registered(c)
  PROVE  /\ epoller.channelMap[chanFd[c]] = NoChannel
         /\ epoller.kernel[chanFd[c]] = NotWatched
         /\ \A fd \in PollFds : epoller.channelMap[fd] # c
         /\ \A i \in DOMAIN ppoller.fds : ppoller.fds[i].fd # chanFd[c]
<1>1. /\ chanFd \in [Handles -> PollFds] /\ chanFd[c] \in PollFds
      /\ epoller.channelMap \in [PollFds -> Handles \cup {NoChannel}]
  BY DEF PollersInv, PollerTypes, EPollers
<1>2. epoller.channelMap[chanFd[c]] = NoChannel
  <2> DEFINE d == epoller.channelMap[chanFd[c]]
  <2> SUFFICES ASSUME d # NoChannel PROVE FALSE
    OBVIOUS
  <2>1. d \in Handles /\ chanFd[d] = chanFd[c]
    BY <1>1 DEF PollersInv, OneTable
  <2>2. Registered(d)
    BY <2>1 DEF PollersInv, OneTable
  <2> QED
    BY <2>1, <2>2 DEF MayUse
<1>3. \A fd \in PollFds : epoller.channelMap[fd] # c
  BY <1>1, PollersAssumption DEF PollersInv, OneTable
<1> QED
  BY <1>1, <1>2, <1>3 DEF PollersInv, OneTable, KernelFollows, FirstAsked

(* A channel that is registered is what the kernel watches.                *)
LEMMA RegisteredIsWatched ==
  ASSUME PollersInv, NEW c \in Handles, Registered(c)
  PROVE  /\ c # NoChannel /\ chanFd[c] \in PollFds
         /\ epoller.channelMap[chanFd[c]] = c
         /\ epoller.kernel[chanFd[c]] = Watched(c, asks[c])
         /\ epoller.kernel[chanFd[c]] # NotWatched
         /\ ppoller.map[chanFd[c]] = c
         /\ ppoller.index[c] # -1
         /\ \E i \in DOMAIN ppoller.fds : ppoller.fds[i].fd = chanFd[c]
<1>1. c # NoChannel /\ chanFd[c] \in PollFds
  BY PollersAssumption DEF PollersInv, PollerTypes
<1>2. Watched(c, asks[c]) # NotWatched
  BY <1>1, WatchedIsNotNothing
<1> QED
  BY <1>1, <1>2 DEF PollersInv, OneTable, KernelFollows, FirstAsked

(* Update() keeps the invariant: a registered channel gets new events from *)
(* EPollPoller and none from PollPoller, another one gets into both.       *)
LEMMA AsksKeeps ==
  ASSUME PollersInv, NEW c \in Handles, NEW events \in SUBSET AllEvents,
         Asks(c, events)
  PROVE  PollersInv'
<1> DEFINE fd == chanFd[c]
<1>0. /\ chanFd' = chanFd
      /\ MayUse(c)
      /\ asks' = [asks EXCEPT ![c] = events]
      /\ asksFirst' = IF Registered(c) THEN asksFirst
                      ELSE [asksFirst EXCEPT ![c] = events]
      /\ epoller' = UpdateChannel(epoller, c, fd, events)
      /\ ppoller' = PollUpdateChannel(ppoller, c, fd, events)
  BY DEF Asks
<1>1. /\ chanFd \in [Handles -> PollFds] /\ asks \in [Handles -> SUBSET AllEvents]
      /\ asksFirst \in [Handles -> SUBSET AllEvents]
      /\ epoller \in EPollers(PollFds, Handles)
      /\ ppoller \in PollPollers(PollFds, Handles)
      /\ fd \in PollFds /\ c # NoChannel /\ AllEvents = {"IN", "OUT"}
      /\ epoller.channelMap \in [PollFds -> Handles \cup {NoChannel}]
      /\ epoller.index \in [Handles -> {"initial", "added", "deleted"}]
      /\ DOMAIN epoller.kernel = PollFds
      /\ ppoller.index \in [Handles -> Int]
      /\ ppoller.fds \in Seq(PollFdsOf(PollFds))
  BY PollersAssumption DEF PollersInv, PollerTypes, EPollers, PollPollers, AllEvents
<1>2. CASE Registered(c)
  <2>1. /\ epoller.channelMap[fd] = c
        /\ epoller.kernel[fd] # NotWatched
        /\ ppoller.map[fd] # NoChannel
        /\ ppoller.index[c] # -1
    BY <1>2, RegisteredIsWatched
  <2>2. /\ epoller' \in EPollers(PollFds, Handles)
        /\ epoller'.channelMap = epoller.channelMap
        /\ epoller'.index = epoller.index
        /\ \A g \in PollFds : epoller'.kernel[g] = IF g = fd THEN Watched(c, events) ELSE epoller.kernel[g]
    <3>1. epoller.index[c] = "added" /\ epoller.channelMap[fd] # NoChannel
      BY <1>1, <1>2, <2>1 DEF Registered
    <3>2. events \in SUBSET {"IN", "OUT"}
      BY <1>1
    <3> HIDE DEF fd
    <3> QED
      BY <1>0, <1>1, <2>1, <3>1, <3>2, UpdateModifies
  <2>3. ppoller' = ppoller
    BY <1>0, <2>1, PollUpdateRefuses
  <2>4. PollerTypes'
    BY <1>0, <1>1, <1>2, <2>2, <2>3 DEF PollerTypes
  <2>5. OneTable'
    BY <1>0, <2>2, <2>3 DEF PollersInv, OneTable, Registered
  <2>6. KernelFollows'
    <3> SUFFICES ASSUME NEW g \in PollFds
                 PROVE  epoller'.kernel[g] =
                          IF epoller.channelMap[g] = NoChannel THEN NotWatched
                          ELSE Watched(epoller.channelMap[g], asks'[epoller.channelMap[g]])
      BY <2>2 DEF KernelFollows
    <3>1. CASE g = fd
      BY <1>0, <1>1, <2>1, <2>2, <3>1
    <3>2. CASE g # fd
      <4>1. epoller.channelMap[g] # c
        BY <1>1, <3>2 DEF PollersInv, OneTable
      <4>2. epoller'.kernel[g] = epoller.kernel[g]
        BY <1>1, <2>2, <3>2
      <4>3. epoller.channelMap[g] # NoChannel =>
              asks'[epoller.channelMap[g]] = asks[epoller.channelMap[g]]
        BY <1>0, <1>1, <4>1
      <4> QED
        BY <4>2, <4>3 DEF PollersInv, KernelFollows
    <3> QED
      BY <3>1, <3>2
  <2>7. FirstAsked'
    BY <1>0, <1>2, <2>3 DEF PollersInv, FirstAsked
  <2> QED
    BY <2>4, <2>5, <2>6, <2>7 DEF PollersInv
<1>3. CASE ~Registered(c)
  <2>1. /\ epoller.channelMap[fd] = NoChannel
        /\ epoller.kernel[fd] = NotWatched
        /\ \A g \in PollFds : epoller.channelMap[g] # c
        /\ \A i \in DOMAIN ppoller.fds : ppoller.fds[i].fd # fd
    BY <1>0, <1>3, NothingInTheWay
  <2>2. /\ epoller' \in EPollers(PollFds, Handles)
        /\ \A g \in PollFds : epoller'.channelMap[g] = IF g = fd THEN c ELSE epoller.channelMap[g]
        /\ \A d \in Handles : epoller'.index[d] = IF d = c THEN "added" ELSE epoller.index[d]
        /\ \A g \in PollFds : epoller'.kernel[g] = IF g = fd THEN Watched(c, events) ELSE epoller.kernel[g]
    <3>1. epoller.index[c] # "added" /\ events \in SUBSET {"IN", "OUT"}
      BY <1>1, <1>3 DEF Registered
    <3> HIDE DEF fd
    <3>2. /\ epoller \in EPollers(PollFds, Handles) /\ fd \in PollFds
          /\ epoller' = UpdateChannel(epoller, c, fd, events)
      BY <1>0, <1>1
    <3> QED
      BY <2>1, <3>1, <3>2, UpdateAdds
  <2>3. ppoller.index[c] = -1 /\ ppoller.map[fd] = NoChannel
    BY <1>3, <2>1 DEF PollersInv, OneTable
  <2>4. /\ ppoller' \in PollPollers(PollFds, Handles)
        /\ ppoller'.fds = Append(ppoller.fds, PollFd(fd, events))
        /\ \A g \in PollFds : ppoller'.map[g] = IF g = fd THEN c ELSE ppoller.map[g]
        /\ \A d \in Handles : ppoller'.index[d] = IF d = c THEN Len(ppoller.fds) + 1 ELSE ppoller.index[d]
    <3> HIDE DEF fd
    <3>1. /\ ppoller \in PollPollers(PollFds, Handles) /\ fd \in PollFds
          /\ ppoller' = PollUpdateChannel(ppoller, c, fd, events)
      BY <1>0, <1>1
    <3> QED
      BY <2>3, <3>1, PollUpdateAdds
  <2>5. asksFirst' = [asksFirst EXCEPT ![c] = events]
    BY <1>0, <1>3
  <2>6. PollerTypes'
    BY <1>0, <1>1, <2>2, <2>4, <2>5 DEF PollerTypes
  <2>7. OneTable'
    <3>1. Len(ppoller.fds) + 1 # -1
      BY <1>1, LenProperties
    <3>2. ppoller'.map = epoller'.channelMap
      <4>1. /\ ppoller'.map \in [PollFds -> Handles \cup {NoChannel}]
            /\ epoller'.channelMap \in [PollFds -> Handles \cup {NoChannel}]
        BY <2>2, <2>4 DEF EPollers, PollPollers
      <4>2. \A g \in PollFds : ppoller'.map[g] = epoller'.channelMap[g]
        BY <2>2, <2>4 DEF PollersInv, OneTable
      <4> QED
        BY <4>1, <4>2
    <3>3. ASSUME NEW d \in Handles
          PROVE  /\ epoller'.index[d] = "added" <=> ppoller'.index[d] # -1
                 /\ epoller'.index[d] = "added" <=> epoller'.channelMap[chanFd[d]] = d
      <4>1. CASE d = c
        BY <1>1, <2>2, <2>4, <3>1, <4>1
      <4>2. CASE d # c
        <5>1. /\ epoller'.index[d] = epoller.index[d]
              /\ ppoller'.index[d] = ppoller.index[d]
          BY <1>1, <2>2, <2>4, <4>2
        <5>2. /\ epoller.index[d] = "added" <=> ppoller.index[d] # -1
              /\ epoller.index[d] = "added" <=> epoller.channelMap[chanFd[d]] = d
          BY DEF PollersInv, OneTable, Registered
        <5>3. epoller'.channelMap[chanFd[d]] = d <=> epoller.channelMap[chanFd[d]] = d
          <6>1. CASE chanFd[d] = fd
            BY <1>1, <2>1, <2>2, <4>2, <6>1, PollersAssumption
          <6>2. CASE chanFd[d] # fd
            BY <1>1, <2>2, <6>2
          <6> QED
            BY <6>1, <6>2
        <5> QED
          BY <5>1, <5>2, <5>3
      <4> QED
        BY <4>1, <4>2
    <3>4. ASSUME NEW g \in PollFds, epoller'.channelMap[g] # NoChannel
          PROVE  chanFd[epoller'.channelMap[g]] = g
      <4>1. CASE g = fd
        BY <1>1, <2>2, <4>1
      <4>2. CASE g # fd
        BY <1>1, <2>2, <3>4, <4>2 DEF PollersInv, OneTable
      <4> QED
        BY <4>1, <4>2
    <3> QED
      BY <1>0, <3>2, <3>3, <3>4 DEF OneTable, Registered
  <2>8. KernelFollows'
    <3> SUFFICES ASSUME NEW g \in PollFds
                 PROVE  epoller'.kernel[g] =
                          IF epoller'.channelMap[g] = NoChannel THEN NotWatched
                          ELSE Watched(epoller'.channelMap[g], asks'[epoller'.channelMap[g]])
      BY DEF KernelFollows
    <3>1. CASE g = fd
      BY <1>0, <1>1, <2>2, <3>1
    <3>2. CASE g # fd
      <4>1. /\ epoller'.channelMap[g] = epoller.channelMap[g]
            /\ epoller'.kernel[g] = epoller.kernel[g]
        BY <1>1, <2>2, <3>2
      <4>2. epoller.channelMap[g] # NoChannel =>
              asks'[epoller.channelMap[g]] = asks[epoller.channelMap[g]]
        BY <1>0, <1>1, <2>1
      <4> QED
        BY <4>1, <4>2 DEF PollersInv, KernelFollows
    <3> QED
      BY <3>1, <3>2
  <2>9. FirstAsked'
    <3> DEFINE fds == ppoller.fds
               e == PollFd(fd, events)
               n == Len(fds)
               new == ppoller'.fds
    <3>1. e \in PollFdsOf(PollFds) /\ e.fd = fd /\ e.events = events
      BY <1>1 DEF PollFd, PollFdsOf
    <3>2. /\ DOMAIN fds = 1..n /\ n \in Nat
      BY <1>1, LenProperties
    <3> HIDE DEF e
    <3>3. /\ DOMAIN new = 1..(n + 1)
          /\ \A i \in 1..n : new[i] = fds[i]
          /\ new[n + 1] = e
      <4>1. Append(fds, e) = new
        BY <2>4 DEF e
      <4>2. /\ Append(fds, e) \in Seq(PollFdsOf(PollFds))
            /\ Len(Append(fds, e)) = n + 1
            /\ \A i \in 1..n : Append(fds, e)[i] = fds[i]
            /\ Append(fds, e)[n + 1] = e
        BY <1>1, <3>1, AppendProperties
      <4> QED
        BY <4>1, <4>2, LenProperties
    <3>4. \A i \in 1..n : fds[i].fd \in PollFds /\ fds[i].fd # fd
      <4>1. \A i \in 1..n : fds[i] \in PollFdsOf(PollFds)
        BY <1>1, ElementOfSeq
      <4> QED
        BY <2>1, <3>2, <4>1 DEF PollFdsOf
    <3>5. \A g \in PollFds : ppoller'.map[g] = IF g = fd THEN c ELSE ppoller.map[g]
      BY <1>1, <2>4 DEF PollPollers
    <3>6. ASSUME NEW i \in DOMAIN new
          PROVE  /\ ppoller'.map[new[i].fd] # NoChannel
                 /\ new[i].events = asksFirst'[ppoller'.map[new[i].fd]]
      <4>1. CASE i = n + 1
        <5>1. new[i].fd = fd /\ new[i].events = events
          BY <3>1, <3>3, <4>1
        <5>2. ppoller'.map[fd] = c /\ asksFirst'[c] = events
          BY <1>1, <2>5, <3>5
        <5> QED
          BY <1>1, <5>1, <5>2
      <4>2. CASE i # n + 1
        <5>1. i \in 1..n /\ new[i] = fds[i]
          BY <3>2, <3>3, <4>2
        <5>2. /\ ppoller.map[fds[i].fd] # NoChannel
              /\ fds[i].events = asksFirst[ppoller.map[fds[i].fd]]
          BY <3>2, <5>1 DEF PollersInv, FirstAsked
        <5>3. ppoller'.map[new[i].fd] = ppoller.map[fds[i].fd]
          BY <3>4, <3>5, <5>1
        <5>4. ppoller.map[fds[i].fd] \in Handles /\ ppoller.map[fds[i].fd] # c
          BY <1>1, <2>1, <3>4, <5>1, <5>2 DEF PollersInv, OneTable
        <5>5. asksFirst'[ppoller.map[fds[i].fd]] = asksFirst[ppoller.map[fds[i].fd]]
          BY <1>1, <2>5, <5>4
        <5> QED
          BY <5>1, <5>2, <5>3, <5>5
      <4> QED
        BY <4>1, <4>2
    <3>7. ASSUME NEW g \in PollFds, ppoller'.map[g] # NoChannel
          PROVE  \E i \in DOMAIN new : new[i].fd = g
      <4>1. CASE g = fd
        <5>1. n + 1 \in DOMAIN new
          BY <3>2, <3>3
        <5> QED
          BY <3>1, <3>3, <4>1, <5>1
      <4>2. CASE g # fd
        <5>1. PICK i \in DOMAIN fds : fds[i].fd = g
          BY <3>5, <3>7, <4>2 DEF PollersInv, FirstAsked
        <5>2. i \in DOMAIN new /\ new[i] = fds[i]
          BY <3>2, <3>3, <5>1
        <5> QED
          BY <5>1, <5>2
      <4> QED
        BY <4>1, <4>2
    <3>8. ASSUME NEW i \in DOMAIN new, NEW j \in DOMAIN new, new[i].fd = new[j].fd
          PROVE  i = j
      <4>1. \A k \in DOMAIN new : k = n + 1 \/ k \in 1..n
        BY <3>2, <3>3
      <4>2. \A k \in 1..n : new[k] = fds[k] /\ new[k].fd # fd
        BY <3>3, <3>4
      <4>3. \A k, l \in 1..n : fds[k].fd = fds[l].fd => k = l
        BY <3>2 DEF PollersInv, FirstAsked
      <4> QED
        BY <3>1, <3>3, <3>8, <4>1, <4>2, <4>3
    <3> QED
      BY <3>6, <3>7, <3>8 DEF FirstAsked
  <2> QED
    BY <2>6, <2>7, <2>8, <2>9 DEF PollersInv
<1> QED
  BY <1>2, <1>3

(* RemoveChannel keeps it: what is registered goes from both, what is not  *)
(* is not touched.                                                         *)
LEMMA RemoveKeeps ==
  ASSUME PollersInv, NEW c \in Handles, RemoveHandle(c)
  PROVE  PollersInv'
<1> DEFINE fd == chanFd[c]
<1>0. /\ chanFd' = chanFd /\ asks' = asks
      /\ MayUse(c)
      /\ epoller' = RemoveChannel(epoller, c, fd)
      /\ ppoller' = PollRemoveChannel(ppoller, c, fd)
      /\ asksFirst' = [asksFirst EXCEPT ![c] = {}]
  BY DEF RemoveHandle
<1>1. /\ chanFd \in [Handles -> PollFds] /\ asks \in [Handles -> SUBSET AllEvents]
      /\ asksFirst \in [Handles -> SUBSET AllEvents]
      /\ epoller \in EPollers(PollFds, Handles)
      /\ ppoller \in PollPollers(PollFds, Handles)
      /\ fd \in PollFds /\ c # NoChannel
      /\ epoller.channelMap \in [PollFds -> Handles \cup {NoChannel}]
      /\ epoller.index \in [Handles -> {"initial", "added", "deleted"}]
      /\ DOMAIN epoller.kernel = PollFds
      /\ ppoller.index \in [Handles -> Int]
      /\ ppoller.map \in [PollFds -> Handles \cup {NoChannel}]
      /\ ppoller.fds \in Seq(PollFdsOf(PollFds))
  BY PollersAssumption DEF PollersInv, PollerTypes, EPollers, PollPollers
<1>2. CASE Registered(c)
  <2>1. /\ epoller.channelMap[fd] = c
        /\ epoller.kernel[fd] # NotWatched
        /\ \E i \in DOMAIN ppoller.fds : ppoller.fds[i].fd = fd
    BY <1>2, RegisteredIsWatched
  <2>2. /\ epoller' \in EPollers(PollFds, Handles)
        /\ \A g \in PollFds : epoller'.channelMap[g] = IF g = fd THEN NoChannel ELSE epoller.channelMap[g]
        /\ \A d \in Handles : epoller'.index[d] = IF d = c THEN "deleted" ELSE epoller.index[d]
        /\ \A g \in PollFds : epoller'.kernel[g] = IF g = fd THEN NotWatched ELSE epoller.kernel[g]
    <3> HIDE DEF fd
    <3>1. /\ epoller \in EPollers(PollFds, Handles) /\ fd \in PollFds
          /\ epoller' = RemoveChannel(epoller, c, fd)
      BY <1>0, <1>1
    <3> QED
      BY <2>1, <3>1, RemoveForgets
  <2>3. /\ ppoller' \in PollPollers(PollFds, Handles)
        /\ ppoller'.fds = WithoutFd(ppoller.fds, fd)
        /\ \A g \in PollFds : ppoller'.map[g] = IF g = fd THEN NoChannel ELSE ppoller.map[g]
        /\ \A d \in Handles : ppoller'.index[d] = IF d = c THEN -1 ELSE ppoller.index[d]
    <3> HIDE DEF fd
    <3>1. /\ ppoller \in PollPollers(PollFds, Handles) /\ fd \in PollFds
          /\ ppoller' = PollRemoveChannel(ppoller, c, fd)
      BY <1>0, <1>1
    <3> QED
      BY <2>1, <3>1, PollRemoveForgets
  <2>4. PollerTypes'
    BY <1>0, <1>1, <2>2, <2>3 DEF PollerTypes
  <2>5. \A g \in PollFds : g # fd => epoller.channelMap[g] # c
    BY <1>1 DEF PollersInv, OneTable
  <2>6. OneTable'
    <3>1. ppoller'.map = epoller'.channelMap
      <4>1. /\ ppoller'.map \in [PollFds -> Handles \cup {NoChannel}]
            /\ epoller'.channelMap \in [PollFds -> Handles \cup {NoChannel}]
        BY <2>2, <2>3 DEF EPollers, PollPollers
      <4>2. \A g \in PollFds : ppoller'.map[g] = epoller'.channelMap[g]
        BY <2>2, <2>3 DEF PollersInv, OneTable
      <4> QED
        BY <4>1, <4>2
    <3>2. ASSUME NEW d \in Handles
          PROVE  /\ epoller'.index[d] = "added" <=> ppoller'.index[d] # -1
                 /\ epoller'.index[d] = "added" <=> epoller'.channelMap[chanFd[d]] = d
      <4>1. CASE d = c
        BY <1>1, <2>2, <2>3, <4>1
      <4>2. CASE d # c
        <5>1. /\ epoller'.index[d] = epoller.index[d]
              /\ ppoller'.index[d] = ppoller.index[d]
          BY <1>1, <2>2, <2>3, <4>2
        <5>2. /\ epoller.index[d] = "added" <=> ppoller.index[d] # -1
              /\ epoller.index[d] = "added" <=> epoller.channelMap[chanFd[d]] = d
          BY DEF PollersInv, OneTable, Registered
        <5>3. epoller'.channelMap[chanFd[d]] = d <=> epoller.channelMap[chanFd[d]] = d
          <6>1. CASE chanFd[d] = fd
            BY <1>1, <2>1, <2>2, <4>2, <6>1, PollersAssumption
          <6>2. CASE chanFd[d] # fd
            BY <1>1, <2>2, <6>2
          <6> QED
            BY <6>1, <6>2
        <5> QED
          BY <5>1, <5>2, <5>3
      <4> QED
        BY <4>1, <4>2
    <3>3. ASSUME NEW g \in PollFds, epoller'.channelMap[g] # NoChannel
          PROVE  chanFd[epoller'.channelMap[g]] = g
      BY <1>1, <2>2, <3>3 DEF PollersInv, OneTable
    <3> QED
      BY <1>0, <3>1, <3>2, <3>3 DEF OneTable, Registered
  <2>7. KernelFollows'
    BY <1>0, <1>1, <2>2 DEF PollersInv, KernelFollows
  <2>8. FirstAsked'
    <3> DEFINE fds == ppoller.fds
               new == WithoutFd(fds, fd)
    <3>1. /\ \A i \in DOMAIN new : /\ new[i].fd # fd
                                   /\ \E j \in DOMAIN fds : new[i] = fds[j]
          /\ \A j \in DOMAIN fds :
               fds[j].fd # fd => \E i \in DOMAIN new : new[i] = fds[j]
          /\ \A i, j \in DOMAIN new : new[i].fd = new[j].fd => i = j
      <4>1. \A i, j \in DOMAIN fds : fds[i].fd = fds[j].fd => i = j
        BY DEF PollersInv, FirstAsked
      <4> HIDE DEF fd
      <4> QED
        BY <1>1, <4>1, WithoutFdKeepsOthers
    <3> HIDE DEF new
    <3>2. ppoller'.fds = new
      BY <2>3 DEF new
    <3>3. \A j \in DOMAIN fds : fds[j].fd \in PollFds
      <4>1. DOMAIN fds = 1..Len(fds) /\ \A j \in 1..Len(fds) : fds[j] \in PollFdsOf(PollFds)
        BY <1>1, LenProperties, ElementOfSeq
      <4> QED
        BY <4>1 DEF PollFdsOf
    <3>4. \A g \in PollFds : ppoller'.map[g] = IF g = fd THEN NoChannel ELSE ppoller.map[g]
      BY <1>1, <2>3
    <3>5. ASSUME NEW i \in DOMAIN new
          PROVE  /\ ppoller'.map[new[i].fd] # NoChannel
                 /\ new[i].events = asksFirst'[ppoller'.map[new[i].fd]]
      <4>1. PICK j \in DOMAIN fds : new[i] = fds[j] /\ fds[j].fd # fd
        BY <3>1
      <4>2. /\ ppoller.map[fds[j].fd] # NoChannel
            /\ fds[j].events = asksFirst[ppoller.map[fds[j].fd]]
        BY DEF PollersInv, FirstAsked
      <4>3. ppoller'.map[new[i].fd] = ppoller.map[fds[j].fd]
        BY <3>3, <3>4, <4>1
      <4>4. ppoller.map[fds[j].fd] \in Handles /\ ppoller.map[fds[j].fd] # c
        BY <1>1, <2>5, <3>3, <4>1, <4>2 DEF PollersInv, OneTable
      <4>5. asksFirst'[ppoller.map[fds[j].fd]] = asksFirst[ppoller.map[fds[j].fd]]
        BY <1>0, <1>1, <4>4
      <4> QED
        BY <4>1, <4>2, <4>3, <4>5
    <3>6. ASSUME NEW g \in PollFds, ppoller'.map[g] # NoChannel
          PROVE  \E i \in DOMAIN new : new[i].fd = g
      <4>1. g # fd /\ ppoller.map[g] # NoChannel
        BY <3>4, <3>6
      <4>2. PICK j \in DOMAIN fds : fds[j].fd = g
        BY <4>1 DEF PollersInv, FirstAsked
      <4> QED
        BY <3>1, <4>1, <4>2
    <3> QED
      BY <3>1, <3>2, <3>5, <3>6 DEF FirstAsked
  <2> QED
    BY <2>4, <2>6, <2>7, <2>8 DEF PollersInv
<1>3. CASE ~Registered(c)
  <2>1. /\ epoller.kernel[fd] = NotWatched
        /\ \A g \in PollFds : epoller.channelMap[g] # c
        /\ \A i \in DOMAIN ppoller.fds : ppoller.fds[i].fd # fd
    BY <1>0, <1>3, NothingInTheWay
  <2>2. epoller' = epoller /\ ppoller' = ppoller
    BY <1>0, <2>1 DEF RemoveChannel, CtlModOrDel, PollRemoveChannel
  <2>3. PollerTypes' /\ OneTable' /\ KernelFollows'
    BY <1>0, <1>1, <2>2
       DEF PollersInv, PollerTypes, OneTable, KernelFollows, Registered
  <2>4. FirstAsked'
    <3>1. ASSUME NEW i \in DOMAIN ppoller.fds
          PROVE  asksFirst'[ppoller.map[ppoller.fds[i].fd]]
                   = asksFirst[ppoller.map[ppoller.fds[i].fd]]
      <4>1. ppoller.fds[i].fd \in PollFds
        <5>1. /\ DOMAIN ppoller.fds = 1..Len(ppoller.fds)
              /\ \A j \in 1..Len(ppoller.fds) : ppoller.fds[j] \in PollFdsOf(PollFds)
          BY <1>1, LenProperties, ElementOfSeq
        <5> QED
          BY <5>1 DEF PollFdsOf
      <4>2. ppoller.map[ppoller.fds[i].fd] # c
        BY <2>1, <4>1 DEF PollersInv, OneTable
      <4>3. ppoller.map[ppoller.fds[i].fd] \in Handles
        BY <1>1, <4>1 DEF PollersInv, FirstAsked
      <4> QED
        BY <1>0, <1>1, <4>2, <4>3
    <3> QED
      BY <2>2, <3>1 DEF PollersInv, FirstAsked
  <2> QED
    BY <2>3, <2>4 DEF PollersInv
<1> QED
  BY <1>2, <1>3

(* A step that is not one of the pollers' changes nothing.                 *)
LEMMA PollersStutter ==
  PollersInv /\ UNCHANGED pollersVars => PollersInv'
BY DEF PollersInv, PollerTypes, OneTable, KernelFollows, FirstAsked, Registered,
       pollersVars

(* Every step of Channel.cc keeps the invariant of both pollers.           *)
LEMMA PollersStep ==
  PollersInv /\ [PollersNext]_pollersVars => PollersInv'
<1> SUFFICES ASSUME PollersInv, [PollersNext]_pollersVars PROVE PollersInv'
  OBVIOUS
<1>1. ASSUME NEW c \in Handles
      PROVE  /\ asks[c] \cup {"IN"} \in SUBSET AllEvents
             /\ asks[c] \cup {"OUT"} \in SUBSET AllEvents
             /\ asks[c] \ {"IN"} \in SUBSET AllEvents
             /\ asks[c] \ {"OUT"} \in SUBSET AllEvents
             /\ {} \in SUBSET AllEvents
  BY DEF PollersInv, PollerTypes, AllEvents
<1>2. ASSUME NEW c \in Handles, EnableRead(c) PROVE PollersInv'
  BY <1>1, <1>2, AsksKeeps DEF EnableRead
<1>3. ASSUME NEW c \in Handles, DisableRead(c) PROVE PollersInv'
  BY <1>1, <1>3, AsksKeeps DEF DisableRead
<1>4. ASSUME NEW c \in Handles, EnableWrite(c) PROVE PollersInv'
  BY <1>1, <1>4, AsksKeeps DEF EnableWrite
<1>5. ASSUME NEW c \in Handles, DisableWrite(c) PROVE PollersInv'
  BY <1>1, <1>5, AsksKeeps DEF DisableWrite
<1>6. ASSUME NEW c \in Handles, DisableAll(c) PROVE PollersInv'
  BY <1>1, <1>6, AsksKeeps DEF DisableAll
<1>7. ASSUME NEW c \in Handles, RemoveHandle(c) PROVE PollersInv'
  BY <1>7, RemoveKeeps
<1>8. CASE UNCHANGED pollersVars
  BY <1>8, PollersStutter
<1> QED
  BY <1>2, <1>3, <1>4, <1>5, <1>6, <1>7, <1>8 DEF PollersNext

(* The invariant holds after any calls of the Channels' methods.           *)
THEOREM PollersInvariant ==
  PollersSpec => []PollersInv
BY PollersStart, PollersStep, PTL DEF PollersSpec

(* Both pollers keep their types, whatever the Channels call.              *)
THEOREM PollersTypeCorrect ==
  PollersSpec => []PollersTypeOK
<1>1. PollersInv => PollersTypeOK
  BY DEF PollersInv, PollerTypes, PollersTypeOK, EPollers, PollPollers, PollFdsOf,
         AllEvents
<1> QED
  BY <1>1, PollersInvariant, PTL

(* UpdateChannel and RemoveChannel leave the two pollers with the same     *)
(* channels under the same descriptors, and poll() with one pollfd of each *)
(* of them.                                                                *)
THEOREM PollersStayInStep ==
  PollersSpec => []PollersAgree
<1>1. ASSUME PollersInv PROVE PollersAgree
  <2>1. ASSUME NEW fd \in PollFds
        PROVE  {i \in DOMAIN ppoller.fds : ppoller.fds[i].fd = fd} = {}
                 <=> ppoller.map[fd] = NoChannel
    BY <1>1 DEF PollersInv, FirstAsked
  <2>2. \A i, j \in DOMAIN ppoller.fds : ppoller.fds[i].fd = ppoller.fds[j].fd => i = j
    BY <1>1 DEF PollersInv, FirstAsked
  <2> QED
    BY <1>1, <2>1, <2>2 DEF PollersInv, OneTable, PollersAgree
<1> QED
  BY <1>1, PollersInvariant, PTL

(* FillActiveChannels of the one poller goes by what a channel asks for    *)
(* now.  That of the other reports no channel but the registered ones and  *)
(* goes by one set of events: with the test of PollPoller.cc:44 as it is,  *)
(* the proof shows that it is what the channel asked for when it was       *)
(* registered.                                                             *)
THEOREM PollersReport ==
  PollersSpec => []ReportsAsAsked
<1>1. ASSUME PollersInv, NEW readiness \in [PollFds -> SUBSET AllEvents]
      PROVE  EPollReports(epoller, readiness) =
               {c \in Handles : Registered(c) /\ asks[c] \cap readiness[chanFd[c]] # {}}
  <2> DEFINE S == {f \in PollFds : epoller.kernel[f].events \cap readiness[f] # {}}
             R == {c \in Handles :
                     Registered(c) /\ asks[c] \cap readiness[chanFd[c]] # {}}
  <2>1. EPollReports(epoller, readiness) = {epoller.kernel[f].channel : f \in S}
    BY DEF EPollReports
  <2>2. ASSUME NEW f \in S PROVE epoller.kernel[f].channel \in R
    <3> DEFINE c == epoller.channelMap[f]
    <3>0. /\ f \in PollFds /\ epoller.kernel[f].events # {}
          /\ epoller.kernel[f] = IF c = NoChannel THEN NotWatched ELSE Watched(c, asks[c])
      BY <1>1 DEF PollersInv, KernelFollows
    <3>1. c # NoChannel
      BY <3>0, WatchedIsNotNothing
    <3>2. c \in Handles
      BY <1>1, <3>1 DEF PollersInv, PollerTypes, EPollers
    <3>3. /\ epoller.kernel[f].channel = c /\ epoller.kernel[f].events = asks[c]
      BY <3>0, <3>1 DEF Watched
    <3>4. Registered(c) /\ chanFd[c] = f
      BY <1>1, <3>1, <3>2 DEF PollersInv, OneTable
    <3> QED
      BY <3>2, <3>3, <3>4
  <2>3. ASSUME NEW c \in R PROVE \E f \in S : epoller.kernel[f].channel = c
    <3>1. /\ epoller.kernel[chanFd[c]] = Watched(c, asks[c])
          /\ chanFd[c] \in PollFds
      BY <1>1, RegisteredIsWatched
    <3>2. chanFd[c] \in S /\ epoller.kernel[chanFd[c]].channel = c
      BY <3>1 DEF Watched
    <3> QED
      BY <3>2
  <2> HIDE DEF S, R
  <2>4. {epoller.kernel[f].channel : f \in S} = R
    BY <2>2, <2>3
  <2> QED
    BY <2>1, <2>4 DEF R
<1>2. ASSUME PollersInv, NEW readiness \in [PollFds -> SUBSET AllEvents]
      PROVE  PollReports(ppoller, readiness) =
               {c \in Handles :
                  Registered(c) /\ asksFirst[c] \cap readiness[chanFd[c]] # {}}
  <2> DEFINE fds == ppoller.fds
             S == {i \in DOMAIN fds : fds[i].events \cap readiness[fds[i].fd] # {}}
             R == {c \in Handles :
                     Registered(c) /\ asksFirst[c] \cap readiness[chanFd[c]] # {}}
  <2>1. PollReports(ppoller, readiness) = {ppoller.map[fds[i].fd] : i \in S} \ {NoChannel}
    BY DEF PollReports
  <2>2. ASSUME NEW i \in S PROVE ppoller.map[fds[i].fd] \in R
    <3> DEFINE c == ppoller.map[fds[i].fd]
    <3>1. fds[i].fd \in PollFds
      <4>1. fds \in Seq(PollFdsOf(PollFds))
        BY <1>2 DEF PollersInv, PollerTypes, PollPollers
      <4>2. /\ DOMAIN fds = 1..Len(fds)
            /\ \A j \in 1..Len(fds) : fds[j] \in PollFdsOf(PollFds)
        BY <4>1, LenProperties, ElementOfSeq
      <4> QED
        BY <4>2 DEF PollFdsOf
    <3>2. c # NoChannel /\ fds[i].events = asksFirst[c]
      BY <1>2 DEF PollersInv, FirstAsked
    <3>3. c \in Handles
      BY <1>2, <3>1, <3>2 DEF PollersInv, PollerTypes, PollPollers
    <3>4. Registered(c) /\ chanFd[c] = fds[i].fd
      BY <1>2, <3>1, <3>2, <3>3 DEF PollersInv, OneTable
    <3> QED
      BY <3>2, <3>3, <3>4
  <2>3. ASSUME NEW c \in R
        PROVE  c # NoChannel /\ \E i \in S : ppoller.map[fds[i].fd] = c
    <3>1. /\ c # NoChannel /\ ppoller.map[chanFd[c]] = c
          /\ \E i \in DOMAIN fds : fds[i].fd = chanFd[c]
      BY <1>2, RegisteredIsWatched
    <3>2. PICK i \in DOMAIN fds : fds[i].fd = chanFd[c]
      BY <3>1
    <3>3. fds[i].events = asksFirst[c] /\ ppoller.map[fds[i].fd] = c
      BY <1>2, <3>1, <3>2 DEF PollersInv, FirstAsked
    <3>4. i \in S
      BY <3>2, <3>3
    <3> QED
      BY <3>1, <3>3, <3>4
  <2> HIDE DEF S, R
  <2>4. \A c \in R : c # NoChannel
    BY <2>3
  <2>5. {ppoller.map[fds[i].fd] : i \in S} \ {NoChannel} = R
    BY <2>2, <2>3, <2>4
  <2> QED
    BY <2>1, <2>5 DEF R
<1>3. ASSUME PollersInv, NEW c \in Handles
      PROVE  \E events \in {asks[c], asksFirst[c]} :
               \A readiness \in [PollFds -> SUBSET AllEvents] :
                 c \in PollReports(ppoller, readiness) <=>
                   Registered(c) /\ events \cap readiness[chanFd[c]] # {}
  BY <1>2, <1>3
<1>4. PollersInv => ReportsAsAsked
  BY <1>1, <1>3 DEF ReportsAsAsked
<1> QED
  BY <1>4, PollersInvariant, PTL

-----------------------------------------------------------------------------
(* TcpClient: its types *)

(* A call of the poller gives a poller, whatever state it is in.           *)
LEMMA PollerStaysOne ==
  ASSUME NEW F, NEW C, NEW p \in EPollers(F, C), NEW ch \in C, NEW fd \in F,
         NEW events \in SUBSET {"IN", "OUT"}
  PROVE  /\ UpdateChannel(p, ch, fd, events) \in EPollers(F, C)
         /\ RemoveChannel(p, ch, fd) \in EPollers(F, C)
         /\ CloseFd(p, fd) \in EPollers(F, C)
<1>1. UpdateChannel(p, ch, fd, events) \in EPollers(F, C)
  BY DEF UpdateChannel, AddChannel, ModifyChannel, EPollers, Watched
<1>2. RemoveChannel(p, ch, fd) \in EPollers(F, C)
  BY DEF RemoveChannel, EPollers, Watched, NotWatched
<1>3. CloseFd(p, fd) \in EPollers(F, C)
  BY DEF CloseFd, EPollers, Watched, NotWatched
<1> QED
  BY <1>1, <1>2, <1>3

(* The channels of the attempts are all different, and none is NoChannel.  *)
LEMMA ChannelsDiffer ==
  ASSUME NEW a \in Attempts
  PROVE  /\ ConnectorChannel(a) \in Channels /\ ConnectionChannel(a) \in Channels
         /\ ConnectorChannel(a) # NoChannel /\ ConnectionChannel(a) # NoChannel
         /\ \A b \in Attempts :
              /\ ConnectorChannel(a) # ConnectionChannel(b)
              /\ ConnectorChannel(a) = ConnectorChannel(b) => a = b
              /\ ConnectionChannel(a) = ConnectionChannel(b) => a = b
BY DEF ConnectorChannel, ConnectionChannel, Channels, NoChannel

(* A sequence of one element.                                              *)
LEMMA OneElement ==
  ASSUME NEW e
  PROVE  /\ Append(<<>>, e) = <<e>> /\ <<e>> # <<>>
         /\ Head(<<e>>) = e /\ Tail(<<e>>) = <<>>
         /\ \A f : <<e>> = <<f>> => e = f
OBVIOUS

Functors == [op : {"start", "establish"}, attempt : Attempts]

ClientTypes == ClientTypeOK /\ clientPoller \in EPollers(Fds, Channels)

(* Every step keeps the types of the client's variables and of its poller. *)
LEMMA ClientTypesStep ==
  ClientTypes /\ [ClientNext]_clientVars => ClientTypes'
<1> SUFFICES ASSUME ClientTypes, [ClientNext]_clientVars PROVE ClientTypes'
  OBVIOUS
<1>0. /\ stage \in [Attempts -> Stages]
      /\ peerEnd \in [Attempts -> {"pending", "open", "closed", "refused"}]
      /\ fdOf \in [Attempts -> Fds]
      /\ connector \in Attempts \cup {None}
      /\ connecting \in BOOLEAN
      /\ connection \in Attempts \cup {None}
      /\ conStatus \in [Attempts -> {"Connecting", "Connected", "Disconnected"}]
      /\ waiting \in Seq(Functors)
      /\ running \in BOOLEAN
      /\ overlapped \in BOOLEAN
      /\ clientPoller \in EPollers(Fds, Channels)
  BY DEF ClientTypes, ClientTypeOK, Functors
<1>a. {"unused", "asked", "trying", "using", "dropped", "leaked", "over"} = Stages
  BY DEF Stages
<1>b. ASSUME NEW a \in Attempts
      PROVE  /\ Append(waiting, [op |-> "start", attempt |-> a]) \in Seq(Functors)
             /\ Append(waiting, [op |-> "establish", attempt |-> a]) \in Seq(Functors)
  <2>1. /\ [op |-> "start", attempt |-> a] \in Functors
        /\ [op |-> "establish", attempt |-> a] \in Functors
    BY DEF Functors
  <2> QED
    BY <1>0, <2>1, AppendProperties
<1>c. waiting # <<>> => Tail(waiting) \in Seq(Functors)
  BY <1>0, HeadTailProperties
<1>d. \A p \in EPollers(Fds, Channels), a \in Attempts \cup {None} :
        Closed(p, a) \in EPollers(Fds, Channels)
  <2>1. \A p \in EPollers(Fds, Channels), fd \in Fds :
          CloseFd(p, fd) \in EPollers(Fds, Channels)
    BY DEF CloseFd, EPollers, Watched, NotWatched
  <2> QED
    BY <1>0, <2>1 DEF Closed
<1>e. \A p \in EPollers(Fds, Channels), ch \in Channels, a \in Attempts :
        Removed(p, ch, a) \in EPollers(Fds, Channels)
  <2> SUFFICES ASSUME NEW p \in EPollers(Fds, Channels), NEW ch \in Channels,
                      NEW a \in Attempts
               PROVE  Removed(p, ch, a) \in EPollers(Fds, Channels)
    OBVIOUS
  <2>1. fdOf[a] \in Fds /\ {} \in SUBSET {"IN", "OUT"}
    BY <1>0
  <2>2. UpdateChannel(p, ch, fdOf[a], {}) \in EPollers(Fds, Channels)
    BY <2>1, PollerStaysOne
  <2> QED
    BY <2>1, <2>2, PollerStaysOne DEF Removed
<1>1. ASSUME NEW a \in Attempts, Connect(a) PROVE ClientTypes'
  BY <1>0, <1>1, <1>a, <1>b
     DEF Connect, ClientTypes, ClientTypeOK, Functors, Busy
<1>2. ASSUME NEW a \in Attempts, StartInLoop(a) PROVE ClientTypes'
  <2>1. PICK fd \in FreeFds :
          /\ fdOf' = [fdOf EXCEPT ![a] = fd]
          /\ Try(a, fd) \/ Retry(a) \/ ConnectFails(a)
    BY <1>2 DEF StartInLoop
  <2>2. fd \in Fds
    BY DEF FreeFds
  <2>3. /\ waiting' = Tail(waiting) /\ waiting # <<>>
        /\ UNCHANGED <<peerEnd, connection, conStatus, overlapped>>
    BY <1>2 DEF StartInLoop, Call
  <2>4. fdOf' \in [Attempts -> Fds] /\ waiting' \in Seq(Functors)
    BY <1>0, <1>c, <2>1, <2>2, <2>3
  <2>5. CASE Try(a, fd)
    <3>1. clientPoller' \in EPollers(Fds, Channels)
      <4>1. /\ ConnectorChannel(a) \in Channels /\ {"OUT"} \in SUBSET {"IN", "OUT"}
            /\ clientPoller' = UpdateChannel(clientPoller, ConnectorChannel(a), fd, {"OUT"})
        BY <2>5, ChannelsDiffer DEF Try
      <4> QED
        BY <1>0, <2>2, <4>1, PollerStaysOne
    <3>2. stage' \in [Attempts -> Stages]
      BY <1>0, <1>a, <2>5 DEF Try
    <3> QED
      BY <1>0, <2>3, <2>4, <2>5, <3>1, <3>2
         DEF Try, ClientTypes, ClientTypeOK, Functors
  <2>6. CASE Retry(a) \/ ConnectFails(a)
    <3>1. stage' \in [Attempts -> Stages]
      BY <1>0, <1>a, <2>6 DEF Retry, ConnectFails
    <3> QED
      BY <1>0, <2>3, <2>4, <2>6, <3>1
         DEF Retry, ConnectFails, Exit, ClientTypes, ClientTypeOK, Functors
  <2> QED
    BY <2>1, <2>5, <2>6
<1>3. ASSUME NEW a \in Attempts, ConnectRefused(a) PROVE ClientTypes'
  BY <1>0, <1>3 DEF ConnectRefused, Exit, ClientTypes, ClientTypeOK, Functors
<1>4. ASSUME NEW a \in Attempts, ConnectSucceeds(a) PROVE ClientTypes'
  <2>1. clientPoller' \in EPollers(Fds, Channels)
    <3>1. ConnectorChannel(a) \in Channels
      BY ChannelsDiffer
    <3> QED
      BY <1>0, <1>4, <1>d, <1>e, <3>1 DEF ConnectSucceeds
  <2>2. stage' \in [Attempts -> Stages]
    BY <1>0, <1>4, <1>a DEF ConnectSucceeds
  <2> QED
    BY <1>0, <1>4, <1>b, <2>1, <2>2
       DEF ConnectSucceeds, ClientTypes, ClientTypeOK, Functors
<1>5. ASSUME NEW a \in Attempts, ConnectionEstablishedInLoop(a) PROVE ClientTypes'
  <2>1. clientPoller' \in EPollers(Fds, Channels)
    <3>1. /\ ConnectionChannel(a) \in Channels /\ {"IN"} \in SUBSET {"IN", "OUT"}
          /\ fdOf[a] \in Fds
      BY <1>0, ChannelsDiffer
    <3>2. UpdateChannel(clientPoller, ConnectionChannel(a), fdOf[a], {"IN"})
            \in EPollers(Fds, Channels)
      BY <1>0, <3>1, PollerStaysOne
    <3> QED
      BY <1>0, <1>5, <3>2 DEF ConnectionEstablishedInLoop
  <2> QED
    BY <1>0, <1>5, <1>c, <2>1
       DEF ConnectionEstablishedInLoop, Call, ClientTypes, ClientTypeOK, Functors
<1>6. ASSUME NEW a \in Attempts, ConnectionCloses(a) PROVE ClientTypes'
  <2>1. clientPoller' \in EPollers(Fds, Channels)
    <3>1. ConnectionChannel(a) \in Channels
      BY ChannelsDiffer
    <3> QED
      BY <1>0, <1>6, <1>d, <1>e, <3>1 DEF ConnectionCloses
  <2>2. stage' \in [Attempts -> Stages]
    BY <1>0, <1>6, <1>a DEF ConnectionCloses
  <2> QED
    BY <1>0, <1>6, <2>1, <2>2
       DEF ConnectionCloses, ClientTypes, ClientTypeOK, Functors
<1>7. ASSUME NEW a \in Attempts, Answer(a) \/ PeerCloses(a) PROVE ClientTypes'
  BY <1>0, <1>7 DEF Answer, PeerAnswers, PeerCloses, ClientTypes, ClientTypeOK, Functors
<1>8. CASE UNCHANGED clientVars
  BY <1>8 DEF clientVars, ClientTypes, ClientTypeOK, HasFd
<1> QED
  BY <1>1, <1>2, <1>3, <1>4, <1>5, <1>6, <1>7, <1>8 DEF ClientNext, LoopOf

(* ... and they hold at the start.                                         *)
LEMMA ClientTypesStart ==
  ClientInit => ClientTypes
<1> SUFFICES ASSUME ClientInit PROVE ClientTypes
  OBVIOUS
<1>1. fdOf \in [Attempts -> Fds]
  BY ClientAssumption DEF ClientInit
<1>2. clientPoller \in EPollers(Fds, Channels)
  BY DEF ClientInit, NewPoller, EPollers, NotWatched, Watched
<1>3. waiting \in Seq(Functors)
  BY DEF ClientInit
<1> QED
  BY <1>1, <1>2, <1>3
     DEF ClientInit, ClientTypes, ClientTypeOK, Functors, Stages

(* The client's variables keep their types, however connect() is called.   *)
THEOREM ClientTypeCorrect ==
  ClientSpec => []ClientTypeOK
<1>1. ClientTypes => ClientTypeOK
  BY DEF ClientTypes
<1> QED
  BY <1>1, ClientTypesStart, ClientTypesStep, PTL DEF ClientSpec

-----------------------------------------------------------------------------
(* TcpClient: what it watches *)

Waiting(op, a) == waiting = <<[op |-> op, attempt |-> a]>>

(* As long as nobody calls connect() with something there, one attempt at  *)
(* a time is asked for, is tried or is the connection, and at most the     *)
(* functor that takes it a step further waits.                             *)
OneAtATime ==
  /\ \A a \in Attempts :
       /\ stage[a] = "asked" <=> Waiting("start", a)
       /\ stage[a] = "trying" <=> connector = a
       /\ stage[a] = "using" <=> connection = a
       /\ stage[a] # "dropped"
       /\ stage[a] \in {"unused", "asked", "trying"} => conStatus[a] = "Connecting"
       /\ connection = a =>
            \/ conStatus[a] = "Connecting" /\ Waiting("establish", a)
            \/ conStatus[a] = "Connected" /\ waiting = <<>>
  /\ connector # None => connection = None /\ waiting = <<>>
  /\ \/ waiting = <<>>
     \/ \E a \in Attempts :
          Waiting("start", a) /\ connector = None /\ connection = None
     \/ \E a \in Attempts : Waiting("establish", a) /\ connection = a

IsConnector(a, fd) == connector = a /\ fd = fdOf[a]
IsConnection(a, fd) ==
  connection = a /\ conStatus[a] = "Connected" /\ fd = fdOf[a]

(* Table, kernel and indices know the connector's channel, or the          *)
(* connection's once it is established, and nothing else.                  *)
WatchedOnly ==
  \A fd \in Fds :
    /\ clientPoller.channelMap[fd] = clientPoller.kernel[fd].channel
    /\ \A a \in Attempts :
         /\ IsConnector(a, fd) =>
              clientPoller.kernel[fd] = Watched(ConnectorChannel(a), {"OUT"})
         /\ IsConnection(a, fd) =>
              clientPoller.kernel[fd] = Watched(ConnectionChannel(a), {"IN"})
    /\ (\A a \in Attempts : ~IsConnector(a, fd) /\ ~IsConnection(a, fd)) =>
         clientPoller.kernel[fd] = NotWatched

IndicesKnow ==
  \A a \in Attempts :
    /\ clientPoller.index[ConnectorChannel(a)] = "added" <=> connector = a
    /\ clientPoller.index[ConnectionChannel(a)] = "added" <=>
         connection = a /\ conStatus[a] = "Connected"

OneOwner == OneAtATime /\ WatchedOnly /\ IndicesKnow

ClientInv == ClientTypes /\ (running /\ ~overlapped => OneOwner)

(* What the types say of the variables the steps change.                   *)
LEMMA ClientTyped ==
  ASSUME ClientTypes
  PROVE  /\ stage \in [Attempts -> Stages]
         /\ fdOf \in [Attempts -> Fds]
         /\ connector \in Attempts \cup {None}
         /\ connection \in Attempts \cup {None}
         /\ None \notin Attempts
         /\ conStatus \in [Attempts -> {"Connecting", "Connected", "Disconnected"}]
         /\ clientPoller \in EPollers(Fds, Channels)
         /\ clientPoller.channelMap \in [Fds -> Channels \cup {NoChannel}]
         /\ clientPoller.index \in [Channels -> {"initial", "added", "deleted"}]
BY ClientAssumption DEF ClientTypes, ClientTypeOK, EPollers

(* While there is neither connector nor connection nothing is watched.     *)
LEMMA NothingWatched ==
  ASSUME OneOwner, ClientTypes, connector = None,
         \A a \in Attempts : ~(connection = a /\ conStatus[a] = "Connected")
  PROVE  /\ \A fd \in Fds : /\ clientPoller.kernel[fd] = NotWatched
                            /\ clientPoller.channelMap[fd] = NoChannel
         /\ \A ch \in Channels : clientPoller.index[ch] # "added"
<1>1. \A a \in Attempts, fd \in Fds : ~IsConnector(a, fd) /\ ~IsConnection(a, fd)
  BY ClientTyped DEF IsConnector, IsConnection
<1>2. \A fd \in Fds : clientPoller.kernel[fd] = NotWatched
  BY <1>1 DEF OneOwner, WatchedOnly
<1>3. \A fd \in Fds : clientPoller.channelMap[fd] = NoChannel
  BY <1>2, WatchedIsNotNothing DEF OneOwner, WatchedOnly, NotWatched, Watched
<1>4. ASSUME NEW ch \in Channels PROVE clientPoller.index[ch] # "added"
  <2>1. PICK a \in Attempts : ch = ConnectorChannel(a) \/ ch = ConnectionChannel(a)
    BY DEF Channels, ConnectorChannel, ConnectionChannel
  <2>2. connector # a
    BY ClientTyped
  <2> QED
    BY <2>1, <2>2 DEF OneOwner, IndicesKnow
<1> QED
  BY <1>2, <1>3, <1>4

(* DisableAll and Remove of the only channel there is leave nothing.       *)
LEMMA OnlyOneRemoved ==
  ASSUME NEW p \in EPollers(Fds, Channels), NEW ch \in Channels, ch # NoChannel,
         NEW a \in Attempts, fdOf[a] \in Fds,
         p.index[ch] = "added",
         p.channelMap[fdOf[a]] # NoChannel, p.kernel[fdOf[a]] # NotWatched,
         \A fd \in Fds : fd # fdOf[a] => /\ p.kernel[fd] = NotWatched
                                         /\ p.channelMap[fd] = NoChannel,
         \A other \in Channels : other # ch => p.index[other] # "added",
         NEW q, q = Removed(p, ch, a)
  PROVE  /\ q \in EPollers(Fds, Channels)
         /\ \A fd \in Fds : q.kernel[fd] = NotWatched /\ q.channelMap[fd] = NoChannel
         /\ \A other \in Channels : q.index[other] # "added"
<1> DEFINE fd == fdOf[a]
           u == UpdateChannel(p, ch, fd, {})
<1>1. /\ u \in EPollers(Fds, Channels)
      /\ u.channelMap = p.channelMap
      /\ u.index = p.index
      /\ \A g \in Fds : u.kernel[g] = IF g = fd THEN Watched(ch, {}) ELSE p.kernel[g]
  <2>1. {} \in SUBSET {"IN", "OUT"} /\ fd \in Fds
    OBVIOUS
  <2>2. p.channelMap[fd] # NoChannel /\ p.kernel[fd] # NotWatched
    OBVIOUS
  <2> HIDE DEF fd
  <2> QED
    BY <2>1, <2>2, UpdateModifies
<1>2. u.kernel[fd] # NotWatched
  BY <1>1, WatchedIsNotNothing
<1>3. q = RemoveChannel(u, ch, fd)
  BY DEF Removed
<1> HIDE DEF u
<1>4. /\ q \in EPollers(Fds, Channels)
      /\ \A g \in Fds : q.channelMap[g] = IF g = fd THEN NoChannel ELSE u.channelMap[g]
      /\ \A d \in Channels : q.index[d] = IF d = ch THEN "deleted" ELSE u.index[d]
      /\ \A g \in Fds : q.kernel[g] = IF g = fd THEN NotWatched ELSE u.kernel[g]
  <2>1. fd \in Fds
    OBVIOUS
  <2> HIDE DEF fd
  <2> QED
    BY <1>1, <1>2, <1>3, <2>1, RemoveForgets
<1> QED
  BY <1>1, <1>4

(* With nothing registered the poller says so in the next state too.       *)
LEMMA NothingRegistered ==
  ASSUME ClientTypes', OneAtATime', connector' = None,
         \A a \in Attempts : ~(connection' = a /\ conStatus'[a] = "Connected"),
         \A fd \in Fds : /\ clientPoller'.kernel[fd] = NotWatched
                         /\ clientPoller'.channelMap[fd] = NoChannel,
         \A ch \in Channels : clientPoller'.index[ch] # "added"
  PROVE  OneOwner'
<1>1. None \notin Attempts
  BY ClientAssumption
<1>2. WatchedOnly'
  BY <1>1 DEF WatchedOnly, IsConnector, IsConnection, NotWatched, Watched
<1>3. IndicesKnow'
  BY <1>1, ChannelsDiffer DEF IndicesKnow
<1> QED
  BY <1>2, <1>3 DEF OneOwner

(* connect() with nothing there.                                           *)
LEMMA ConnectKeeps ==
  ASSUME ClientInv, NEW a \in Attempts, Connect(a), ~overlapped'
  PROVE  OneOwner'
<1>1. /\ connector = None /\ connection = None
      /\ \A b \in Attempts : stage[b] # "asked"
      /\ running /\ ~overlapped
      /\ stage[a] = "unused" /\ stage' = [stage EXCEPT ![a] = "asked"]
      /\ waiting' = Append(waiting, [op |-> "start", attempt |-> a])
      /\ UNCHANGED <<fdOf, connector, connection, conStatus, clientPoller>>
  BY DEF Connect, Busy
<1>2. OneOwner /\ ClientTypes
  BY <1>1 DEF ClientInv
<1>3. waiting = <<>>
  BY <1>1, <1>2, ClientTyped DEF OneOwner, OneAtATime
<1>4. waiting' = <<[op |-> "start", attempt |-> a]>>
  BY <1>1, <1>3, OneElement
<1>5. \A b \in Attempts : Waiting("start", b)' <=> b = a
  BY <1>4, OneElement DEF Waiting
<1>6. OneAtATime'
  <2>1. \A b \in Attempts : stage'[b] = IF b = a THEN "asked" ELSE stage[b]
    BY <1>1, <1>2, ClientTyped
  <2>2. \A b \in Attempts : connection # b /\ connector # b
    BY <1>1, <1>2, ClientTyped
  <2>3. conStatus[a] = "Connecting"
    BY <1>1, <1>2 DEF OneOwner, OneAtATime
  <2> QED
    BY <1>1, <1>2, <1>5, <2>1, <2>2, <2>3 DEF OneOwner, OneAtATime
<1>7. WatchedOnly' /\ IndicesKnow'
  BY <1>1, <1>2
     DEF OneOwner, WatchedOnly, IndicesKnow, IsConnector, IsConnection
<1> QED
  BY <1>6, <1>7 DEF OneOwner

(* startInLoop: the only attempt gets a channel on a descriptor that is    *)
(* not watched, or is given up.                                            *)
LEMMA StartKeeps ==
  ASSUME ClientInv, ClientTypes', NEW a \in Attempts, StartInLoop(a),
         running', ~overlapped'
  PROVE  OneOwner'
<1>1. /\ running /\ ~overlapped
      /\ waiting # <<>> /\ Head(waiting) = [op |-> "start", attempt |-> a]
      /\ waiting' = Tail(waiting)
      /\ UNCHANGED <<connection, conStatus>>
  BY DEF StartInLoop, Call
<1>2. OneOwner /\ ClientTypes
  BY <1>1 DEF ClientInv
<1>3. /\ waiting = <<[op |-> "start", attempt |-> a]>>
      /\ connector = None /\ connection = None
  <2>1. CASE \E b \in Attempts : Waiting("establish", b)
    <3>1. PICK b \in Attempts : waiting = <<[op |-> "establish", attempt |-> b]>>
      BY <2>1 DEF Waiting
    <3>2. [op |-> "establish", attempt |-> b] = [op |-> "start", attempt |-> a]
      BY <1>1, <3>1, OneElement
    <3> QED
      BY <3>2
  <2>2. CASE \E b \in Attempts :
               Waiting("start", b) /\ connector = None /\ connection = None
    <3>1. PICK b \in Attempts : /\ waiting = <<[op |-> "start", attempt |-> b]>>
                                /\ connector = None /\ connection = None
      BY <2>2 DEF Waiting
    <3>2. [op |-> "start", attempt |-> b] = [op |-> "start", attempt |-> a]
      BY <1>1, <3>1, OneElement
    <3> QED
      BY <3>1, <3>2
  <2> QED
    BY <1>1, <1>2, <2>1, <2>2 DEF OneOwner, OneAtATime
<1>4. waiting' = <<>> /\ stage[a] = "asked" /\ conStatus[a] = "Connecting"
  BY <1>1, <1>2, <1>3, OneElement DEF OneOwner, OneAtATime, Waiting
<1>5. \A b \in Attempts : b # a => stage[b] # "asked"
  <2>1. ASSUME NEW b \in Attempts, Waiting("start", b) PROVE b = a
    <3>1. [op |-> "start", attempt |-> b] = [op |-> "start", attempt |-> a]
      BY <1>3, <2>1, OneElement DEF Waiting
    <3> QED
      BY <3>1
  <2> QED
    BY <1>2, <2>1 DEF OneOwner, OneAtATime
<1>6. \A b \in Attempts : /\ connection # b /\ connector # b
                          /\ stage[b] # "trying" /\ stage[b] # "using"
                          /\ stage[b] # "dropped"
  BY <1>2, <1>3, ClientTyped DEF OneOwner, OneAtATime
<1>7. /\ \A fd \in Fds : /\ clientPoller.kernel[fd] = NotWatched
                         /\ clientPoller.channelMap[fd] = NoChannel
      /\ \A ch \in Channels : clientPoller.index[ch] # "added"
  BY <1>2, <1>3, <1>6, NothingWatched
<1>8. PICK fd \in FreeFds :
        /\ fdOf' = [fdOf EXCEPT ![a] = fd]
        /\ Try(a, fd) \/ Retry(a) \/ ConnectFails(a)
  BY DEF StartInLoop
<1>9. fd \in Fds /\ fdOf'[a] = fd
  BY <1>2, <1>8, ClientTyped DEF FreeFds
<1>10. \A op \in {"start", "establish"}, b \in Attempts : ~Waiting(op, b)'
  BY <1>4, OneElement DEF Waiting
<1>11. CASE Try(a, fd)
  <2>1. /\ connector' = a
        /\ \A b \in Attempts : stage'[b] = IF b = a THEN "trying" ELSE stage[b]
        /\ clientPoller' = UpdateChannel(clientPoller, ConnectorChannel(a), fd, {"OUT"})
    BY <1>6, <1>11 DEF Try
  <2>2. /\ \A g \in Fds : clientPoller'.channelMap[g]
                            = IF g = fd THEN ConnectorChannel(a)
                              ELSE clientPoller.channelMap[g]
        /\ \A ch \in Channels : clientPoller'.index[ch]
                            = IF ch = ConnectorChannel(a) THEN "added"
                              ELSE clientPoller.index[ch]
        /\ \A g \in Fds : clientPoller'.kernel[g]
                            = IF g = fd THEN Watched(ConnectorChannel(a), {"OUT"})
                              ELSE clientPoller.kernel[g]
    <3>1. /\ ConnectorChannel(a) \in Channels /\ {"OUT"} \in SUBSET {"IN", "OUT"}
          /\ clientPoller \in EPollers(Fds, Channels)
          /\ clientPoller.index[ConnectorChannel(a)] # "added"
          /\ clientPoller.channelMap[fd] = NoChannel
          /\ clientPoller.kernel[fd] = NotWatched
      BY <1>2, <1>7, <1>9, ChannelsDiffer, ClientTyped
    <3> QED
      BY <1>9, <2>1, <3>1, UpdateAdds
  <2>3. OneAtATime'
    BY <1>1, <1>2, <1>3, <1>4, <1>5, <1>6, <1>10, <2>1, ClientAssumption
       DEF OneOwner, OneAtATime
  <2>4. WatchedOnly'
    <3>1. \A b \in Attempts, g \in Fds :
            /\ IsConnector(b, g)' <=> b = a /\ g = fd
            /\ ~IsConnection(b, g)'
      BY <1>1, <1>6, <1>9, <2>1 DEF IsConnector, IsConnection
    <3>2. \A g \in Fds : clientPoller'.channelMap[g] = clientPoller'.kernel[g].channel
      BY <1>7, <2>2 DEF Watched, NotWatched
    <3> QED
      BY <1>7, <2>2, <3>1, <3>2 DEF WatchedOnly
  <2>5. IndicesKnow'
    <3>1. \A b \in Attempts :
            /\ clientPoller'.index[ConnectorChannel(b)] = "added" <=> b = a
            /\ clientPoller'.index[ConnectionChannel(b)] # "added"
      BY <1>7, <2>2, ChannelsDiffer
    <3> QED
      BY <1>1, <1>6, <2>1, <3>1 DEF IndicesKnow
  <2> QED
    BY <2>3, <2>4, <2>5 DEF OneOwner
<1>12. CASE Retry(a)
  <2>1. /\ \A b \in Attempts : stage'[b] = IF b = a THEN "leaked" ELSE stage[b]
        /\ UNCHANGED <<connector, clientPoller>>
    BY <1>2, <1>12, ClientTyped DEF Retry
  <2>2. OneAtATime'
    BY <1>1, <1>2, <1>3, <1>4, <1>5, <1>6, <1>10, <2>1 DEF OneOwner, OneAtATime
  <2> QED
    BY <1>1, <1>3, <1>6, <1>7, <2>1, <2>2, NothingRegistered
<1>13. CASE ConnectFails(a)
  BY <1>13 DEF ConnectFails, Exit
<1> QED
  BY <1>8, <1>11, <1>12, <1>13

(* handleConnectSuccess: the connector's channel goes before the           *)
(* TcpConnection has one.                                                  *)
LEMMA SucceedKeeps ==
  ASSUME ClientInv, ClientTypes', NEW a \in Attempts, ConnectSucceeds(a),
         ~overlapped'
  PROVE  OneOwner'
<1>1. /\ running /\ ~overlapped
      /\ connector = a /\ connector' = None /\ connection' = a
      /\ \A b \in Attempts : stage'[b] = IF b = a THEN "using"
                                         ELSE IF b = connection THEN "over"
                                         ELSE stage[b]
      /\ clientPoller' = Closed(Removed(clientPoller, ConnectorChannel(a), a), connection)
      /\ waiting' = Append(waiting, [op |-> "establish", attempt |-> a])
      /\ UNCHANGED <<fdOf, conStatus>>
  BY DEF ConnectSucceeds, Reported
<1>2. OneOwner /\ ClientTypes
  BY <1>1 DEF ClientInv
<1>3. /\ connection = None /\ waiting = <<>>
      /\ stage[a] = "trying" /\ conStatus[a] = "Connecting"
  BY <1>1, <1>2, ClientAssumption DEF OneOwner, OneAtATime
<1>4. waiting' = <<[op |-> "establish", attempt |-> a]>>
  BY <1>1, <1>3, OneElement
<1>5. /\ \A b \in Attempts : Waiting("establish", b)' <=> b = a
      /\ \A b \in Attempts : ~Waiting("start", b)' /\ ~Waiting("start", b)
  <2>1. \A b \in Attempts : Waiting("establish", b)' <=> b = a
    BY <1>4, OneElement DEF Waiting
  <2>2. ASSUME NEW b \in Attempts, waiting' = <<[op |-> "start", attempt |-> b]>>
        PROVE  FALSE
    <3>1. [op |-> "start", attempt |-> b] = [op |-> "establish", attempt |-> a]
      BY <1>4, <2>2, OneElement
    <3> QED
      BY <3>1
  <2> QED
    BY <1>3, <2>1, <2>2, OneElement DEF Waiting
<1>6. OneAtATime'
  <2>1. \A b \in Attempts : connection # b
    BY <1>3, ClientAssumption
  <2>2. \A b \in Attempts : b # a => stage[b] # "trying"
    BY <1>1, <1>2 DEF OneOwner, OneAtATime
  <2> QED
    BY <1>1, <1>2, <1>3, <1>4, <1>5, <2>1, <2>2 DEF OneOwner, OneAtATime
<1>7. /\ \A fd \in Fds : /\ clientPoller'.kernel[fd] = NotWatched
                         /\ clientPoller'.channelMap[fd] = NoChannel
      /\ \A ch \in Channels : clientPoller'.index[ch] # "added"
  <2> DEFINE ch == ConnectorChannel(a)
  <2>1. ch \in Channels /\ ch # NoChannel /\ fdOf[a] \in Fds
    BY <1>2, ChannelsDiffer, ClientTyped
  <2>2. /\ clientPoller.kernel[fdOf[a]] = Watched(ch, {"OUT"})
        /\ clientPoller.channelMap[fdOf[a]] = clientPoller.kernel[fdOf[a]].channel
    BY <1>1, <1>2, <2>1 DEF OneOwner, WatchedOnly, IsConnector
  <2>3. ASSUME NEW fd \in Fds, fd # fdOf[a]
        PROVE  clientPoller.kernel[fd] = NotWatched /\ clientPoller.channelMap[fd] = NoChannel
    <3>1. \A b \in Attempts : ~IsConnector(b, fd) /\ ~IsConnection(b, fd)
      BY <1>1, <1>3, <2>3, ClientAssumption DEF IsConnector, IsConnection
    <3> QED
      BY <1>2, <3>1, WatchedIsNotNothing DEF OneOwner, WatchedOnly, NotWatched, Watched
  <2>4. ASSUME NEW other \in Channels, other # ch
        PROVE  clientPoller.index[other] # "added"
    <3>1. PICK b \in Attempts :
            other = ConnectorChannel(b) \/ other = ConnectionChannel(b)
      BY DEF Channels, ConnectorChannel, ConnectionChannel
    <3> QED
      BY <1>1, <1>2, <1>3, <2>4, <3>1, ClientAssumption DEF OneOwner, IndicesKnow
  <2>5. /\ clientPoller \in EPollers(Fds, Channels)
        /\ clientPoller.index[ch] = "added"
        /\ clientPoller.channelMap[fdOf[a]] # NoChannel
        /\ clientPoller.kernel[fdOf[a]] # NotWatched
    <3>1. clientPoller \in EPollers(Fds, Channels)
      BY <1>2, ClientTyped
    <3>2. clientPoller.index[ch] = "added"
      BY <1>1, <1>2, <2>1 DEF OneOwner, IndicesKnow
    <3>3. /\ Watched(ch, {"OUT"}) # NotWatched
          /\ Watched(ch, {"OUT"}).channel = ch
      <4> HIDE DEF ch
      <4> QED
        BY <2>1, WatchedIsNotNothing
    <3> QED
      BY <2>1, <2>2, <3>1, <3>2, <3>3
  <2>6. clientPoller' = Removed(clientPoller, ch, a)
    BY <1>1, <1>3 DEF Closed
  <2> HIDE DEF ch
  <2> QED
    BY <2>1, <2>3, <2>4, <2>5, <2>6, OnlyOneRemoved
<1>8. \A b \in Attempts : ~(connection' = b /\ conStatus'[b] = "Connected")
  BY <1>1, <1>3
<1> QED
  BY <1>1, <1>6, <1>7, <1>8, NothingRegistered

(* The connection's channel gets in where the connector's was.             *)
LEMMA EstablishKeeps ==
  ASSUME ClientInv, ClientTypes', NEW a \in Attempts,
         ConnectionEstablishedInLoop(a), ~overlapped'
  PROVE  OneOwner'
<1>1. /\ running /\ ~overlapped
      /\ waiting # <<>> /\ Head(waiting) = [op |-> "establish", attempt |-> a]
      /\ waiting' = Tail(waiting)
      /\ UNCHANGED <<stage, fdOf, connector, connection>>
  BY DEF ConnectionEstablishedInLoop, Call
<1>2. OneOwner /\ ClientTypes
  BY <1>1 DEF ClientInv
<1>3. waiting = <<[op |-> "establish", attempt |-> a]>> /\ connection = a
  <2>1. CASE \E b \in Attempts : Waiting("start", b)
    <3>1. PICK b \in Attempts : waiting = <<[op |-> "start", attempt |-> b]>>
      BY <2>1 DEF Waiting
    <3>2. [op |-> "start", attempt |-> b] = [op |-> "establish", attempt |-> a]
      BY <1>1, <3>1, OneElement
    <3> QED
      BY <3>2
  <2>2. CASE \E b \in Attempts : Waiting("establish", b) /\ connection = b
    <3>1. PICK b \in Attempts : /\ waiting = <<[op |-> "establish", attempt |-> b]>>
                                /\ connection = b
      BY <2>2 DEF Waiting
    <3>2. [op |-> "establish", attempt |-> b] = [op |-> "establish", attempt |-> a]
      BY <1>1, <3>1, OneElement
    <3> QED
      BY <3>1, <3>2
  <2> QED
    BY <1>1, <1>2, <2>1, <2>2 DEF OneOwner, OneAtATime
<1>4. /\ waiting' = <<>> /\ stage[a] = "using" /\ conStatus[a] = "Connecting"
      /\ connector = None
  <2>1. a # None /\ waiting # <<>>
    BY <1>1, ClientAssumption
  <2> QED
    BY <1>1, <1>2, <1>3, <2>1, OneElement DEF OneOwner, OneAtATime
<1>5. /\ \A b \in Attempts : conStatus'[b] = IF b = a THEN "Connected" ELSE conStatus[b]
      /\ clientPoller' = UpdateChannel(clientPoller, ConnectionChannel(a), fdOf[a], {"IN"})
  BY <1>2, <1>4, ClientTyped DEF ConnectionEstablishedInLoop
<1>6. /\ \A fd \in Fds : /\ clientPoller.kernel[fd] = NotWatched
                         /\ clientPoller.channelMap[fd] = NoChannel
      /\ \A ch \in Channels : clientPoller.index[ch] # "added"
  BY <1>2, <1>3, <1>4, NothingWatched
<1>7. /\ fdOf[a] \in Fds /\ None \notin Attempts
      /\ ConnectionChannel(a) \in Channels
  BY <1>2, ChannelsDiffer, ClientTyped
<1>8. /\ \A g \in Fds : clientPoller'.channelMap[g]
                          = IF g = fdOf[a] THEN ConnectionChannel(a)
                            ELSE clientPoller.channelMap[g]
      /\ \A ch \in Channels : clientPoller'.index[ch]
                          = IF ch = ConnectionChannel(a) THEN "added"
                            ELSE clientPoller.index[ch]
      /\ \A g \in Fds : clientPoller'.kernel[g]
                          = IF g = fdOf[a] THEN Watched(ConnectionChannel(a), {"IN"})
                            ELSE clientPoller.kernel[g]
  <2>1. /\ {"IN"} \in SUBSET {"IN", "OUT"}
        /\ clientPoller \in EPollers(Fds, Channels)
        /\ clientPoller.index[ConnectionChannel(a)] # "added"
        /\ clientPoller.channelMap[fdOf[a]] = NoChannel
        /\ clientPoller.kernel[fdOf[a]] = NotWatched
    BY <1>2, <1>6, <1>7, ClientTyped
  <2> QED
    BY <1>5, <1>7, <2>1, UpdateAdds
<1>9. \A op \in {"start", "establish"}, b \in Attempts : ~Waiting(op, b)'
  BY <1>4, OneElement DEF Waiting
<1>10. OneAtATime'
  <2>1. ASSUME NEW b \in Attempts PROVE ~Waiting("start", b)
    <3>1. [op |-> "start", attempt |-> b] # [op |-> "establish", attempt |-> a]
      OBVIOUS
    <3> QED
      BY <1>3, <3>1, OneElement DEF Waiting
  <2> QED
    BY <1>1, <1>2, <1>3, <1>4, <1>5, <1>9, <2>1 DEF OneOwner, OneAtATime
<1>11. WatchedOnly'
  <2>1. \A b \in Attempts, g \in Fds :
          /\ ~IsConnector(b, g)'
          /\ IsConnection(b, g)' <=> b = a /\ g = fdOf[a]
    BY <1>1, <1>3, <1>4, <1>5, <1>7 DEF IsConnector, IsConnection
  <2>2. \A g \in Fds : clientPoller'.channelMap[g] = clientPoller'.kernel[g].channel
    BY <1>6, <1>8 DEF Watched, NotWatched
  <2> QED
    BY <1>6, <1>8, <2>1, <2>2 DEF WatchedOnly
<1>12. IndicesKnow'
  <2>1. \A b \in Attempts :
          /\ clientPoller'.index[ConnectionChannel(b)] = "added" <=> b = a
          /\ clientPoller'.index[ConnectorChannel(b)] # "added"
    BY <1>6, <1>8, ChannelsDiffer
  <2> QED
    BY <1>1, <1>3, <1>4, <1>5, <1>7, <2>1 DEF IndicesKnow
<1> QED
  BY <1>10, <1>11, <1>12 DEF OneOwner

(* The end of a connection takes its channel out and closes a descriptor   *)
(* that nothing watches any more.                                          *)
LEMMA CloseKeeps ==
  ASSUME ClientInv, ClientTypes', NEW a \in Attempts, ConnectionCloses(a),
         ~overlapped'
  PROVE  OneOwner'
<1>1. /\ running /\ ~overlapped
      /\ clientPoller.kernel[fdOf[a]].channel = ConnectionChannel(a)
      /\ stage[a] = "using"
      /\ conStatus' = [conStatus EXCEPT ![a] = "Disconnected"]
      /\ connection' = None
      /\ stage' = [stage EXCEPT ![connection] = "over"]
      /\ clientPoller' = Closed(Removed(clientPoller, ConnectionChannel(a), a), connection)
      /\ UNCHANGED <<fdOf, connector, waiting>>
  BY DEF ConnectionCloses, Reported
<1>2. OneOwner /\ ClientTypes
  BY <1>1 DEF ClientInv
<1>3. connection = a /\ a # None /\ connector = None
  BY <1>1, <1>2, ClientAssumption DEF OneOwner, OneAtATime
<1>4. conStatus[a] = "Connected" /\ waiting = <<>>
  <2>1. SUFFICES ASSUME conStatus[a] # "Connected" PROVE FALSE
    BY <1>2, <1>3 DEF OneOwner, OneAtATime
  <2>2. clientPoller.kernel[fdOf[a]] = NotWatched
    BY <1>2, <1>3, <2>1, ClientTyped, NothingWatched
  <2> QED
    BY <1>1, <2>2, ChannelsDiffer DEF NotWatched, Watched
<1>5. OneAtATime'
  <2>1. \A b \in Attempts : /\ stage'[b] = IF b = a THEN "over" ELSE stage[b]
                            /\ conStatus'[b] = IF b = a THEN "Disconnected"
                                               ELSE conStatus[b]
    BY <1>1, <1>2, <1>3, ClientTyped
  <2>2. \A op \in {"start", "establish"}, b \in Attempts :
          ~Waiting(op, b)' /\ ~Waiting(op, b)
    BY <1>1, <1>4, OneElement DEF Waiting
  <2>3. \A b \in Attempts : b # a => stage[b] # "using"
    BY <1>2, <1>3 DEF OneOwner, OneAtATime
  <2> QED
    BY <1>1, <1>2, <1>3, <1>4, <2>1, <2>2, <2>3, ClientAssumption
       DEF OneOwner, OneAtATime
<1>6. /\ \A fd \in Fds : /\ clientPoller'.kernel[fd] = NotWatched
                         /\ clientPoller'.channelMap[fd] = NoChannel
      /\ \A ch \in Channels : clientPoller'.index[ch] # "added"
  <2> DEFINE ch == ConnectionChannel(a)
             r == Removed(clientPoller, ch, a)
  <2>1. ch \in Channels /\ ch # NoChannel /\ fdOf[a] \in Fds
    BY <1>2, ChannelsDiffer, ClientTyped
  <2>2. /\ clientPoller.kernel[fdOf[a]] = Watched(ch, {"IN"})
        /\ clientPoller.channelMap[fdOf[a]] = clientPoller.kernel[fdOf[a]].channel
    BY <1>2, <1>3, <1>4, <2>1 DEF OneOwner, WatchedOnly, IsConnection
  <2>3. ASSUME NEW fd \in Fds, fd # fdOf[a]
        PROVE  clientPoller.kernel[fd] = NotWatched /\ clientPoller.channelMap[fd] = NoChannel
    <3>1. \A b \in Attempts : ~IsConnector(b, fd) /\ ~IsConnection(b, fd)
      BY <1>3, <2>3, ClientAssumption DEF IsConnector, IsConnection
    <3> QED
      BY <1>2, <3>1, WatchedIsNotNothing DEF OneOwner, WatchedOnly, NotWatched, Watched
  <2>4. ASSUME NEW other \in Channels, other # ch
        PROVE  clientPoller.index[other] # "added"
    <3>1. PICK b \in Attempts :
            other = ConnectorChannel(b) \/ other = ConnectionChannel(b)
      BY DEF Channels, ConnectorChannel, ConnectionChannel
    <3> QED
      BY <1>2, <1>3, <2>4, <3>1, ClientAssumption DEF OneOwner, IndicesKnow
  <2>5. /\ clientPoller \in EPollers(Fds, Channels)
        /\ clientPoller.index[ch] = "added"
        /\ clientPoller.channelMap[fdOf[a]] # NoChannel
        /\ clientPoller.kernel[fdOf[a]] # NotWatched
    <3>1. clientPoller \in EPollers(Fds, Channels)
      BY <1>2, ClientTyped
    <3>2. clientPoller.index[ch] = "added"
      BY <1>2, <1>3, <1>4, <2>1 DEF OneOwner, IndicesKnow
    <3>3. /\ Watched(ch, {"IN"}) # NotWatched
          /\ Watched(ch, {"IN"}).channel = ch
      <4> HIDE DEF ch
      <4> QED
        BY <2>1, WatchedIsNotNothing
    <3> QED
      BY <2>1, <2>2, <3>1, <3>2, <3>3
  <2>6. clientPoller' = CloseFd(r, fdOf[a])
    BY <1>1, <1>3 DEF Closed
  <2>7. r = Removed(clientPoller, ch, a)
    OBVIOUS
  <2> HIDE DEF ch, r
  <2>8. /\ r \in EPollers(Fds, Channels)
        /\ \A fd \in Fds : r.kernel[fd] = NotWatched /\ r.channelMap[fd] = NoChannel
        /\ \A other \in Channels : r.index[other] # "added"
    BY <2>1, <2>3, <2>4, <2>5, <2>7, OnlyOneRemoved
  <2>9. clientPoller' = r
    BY <2>1, <2>6, <2>8, CloseUnwatched
  <2> QED
    BY <2>8, <2>9
<1>7. \A b \in Attempts : ~(connection' = b /\ conStatus'[b] = "Connected")
  BY <1>1, ClientAssumption
<1> QED
  BY <1>1, <1>3, <1>5, <1>6, <1>7, NothingRegistered

(* Steps of the peer change only the network's view.                       *)
LEMMA PeerKeeps ==
  ASSUME ClientInv,
         UNCHANGED <<stage, fdOf, connector, connection, conStatus,
                     clientPoller, waiting, running, overlapped>>,
         running'
  PROVE  ~overlapped' => OneOwner'
BY DEF ClientInv, OneOwner, OneAtATime, WatchedOnly, IndicesKnow, Waiting,
       IsConnector, IsConnection

(* Every step of the client keeps the invariant.                           *)
LEMMA ClientStep ==
  ClientInv /\ [ClientNext]_clientVars => ClientInv'
<1> SUFFICES ASSUME ClientInv, [ClientNext]_clientVars PROVE ClientInv'
  OBVIOUS
<1>0. ClientTypes'
  BY ClientTypesStep DEF ClientInv
<1> SUFFICES ASSUME running', ~overlapped' PROVE OneOwner'
  BY <1>0 DEF ClientInv
<1>1. ASSUME NEW a \in Attempts, Connect(a) PROVE OneOwner'
  BY <1>1, ConnectKeeps
<1>2. ASSUME NEW a \in Attempts, StartInLoop(a) PROVE OneOwner'
  BY <1>0, <1>2, StartKeeps
<1>3. ASSUME NEW a \in Attempts, ConnectRefused(a) PROVE OneOwner'
  BY <1>3 DEF ConnectRefused, Exit
<1>4. ASSUME NEW a \in Attempts, ConnectSucceeds(a) PROVE OneOwner'
  BY <1>0, <1>4, SucceedKeeps
<1>5. ASSUME NEW a \in Attempts, ConnectionEstablishedInLoop(a) PROVE OneOwner'
  BY <1>0, <1>5, EstablishKeeps
<1>6. ASSUME NEW a \in Attempts, ConnectionCloses(a) PROVE OneOwner'
  BY <1>0, <1>6, CloseKeeps
<1>7. ASSUME NEW a \in Attempts, Answer(a) \/ PeerCloses(a) PROVE OneOwner'
  BY <1>7, PeerKeeps DEF Answer, PeerAnswers, PeerCloses
<1>8. CASE UNCHANGED clientVars
  BY <1>8, PeerKeeps DEF clientVars
<1> QED
  BY <1>1, <1>2, <1>3, <1>4, <1>5, <1>6, <1>7, <1>8 DEF ClientNext, LoopOf

(* Nothing is asked for and nothing is watched at the start.               *)
LEMMA ClientStart ==
  ClientInit => ClientInv
<1> SUFFICES ASSUME ClientInit PROVE ClientInv
  OBVIOUS
<1>1. ClientTypes
  BY ClientTypesStart
<1>2. None \notin Attempts
  BY ClientAssumption
<1>3. OneAtATime
  <2>1. \A op \in {"start", "establish"}, b \in Attempts : ~Waiting(op, b)
    BY OneElement DEF ClientInit, Waiting
  <2> QED
    BY <1>2, <2>1 DEF ClientInit, OneAtATime
<1>4. /\ \A fd \in Fds : /\ clientPoller.kernel[fd] = NotWatched
                         /\ clientPoller.channelMap[fd] = NoChannel
      /\ \A ch \in Channels : clientPoller.index[ch] # "added"
      /\ connector = None /\ connection = None
  BY DEF ClientInit, NewPoller
<1>5. WatchedOnly
  BY <1>2, <1>4 DEF WatchedOnly, IsConnector, IsConnection, NotWatched, Watched
<1>6. IndicesKnow
  BY <1>2, <1>4, ChannelsDiffer DEF IndicesKnow
<1> QED
  BY <1>1, <1>3, <1>5, <1>6 DEF ClientInv, OneOwner

(* The invariant holds through any number of attempts, answers and ends.   *)
THEOREM ClientInvariant ==
  ClientSpec => []ClientInv
BY ClientStart, ClientStep, PTL DEF ClientSpec

(* The poller of a client watches the channel that is connecting or the    *)
(* established connection's, and its table says the same, whichever        *)
(* descriptors the kernel gives again.                                     *)
THEOREM ClientWatchesItsOwn ==
  ClientSpec => []WatchesItsOwn
<1>1. ASSUME ClientInv, running, ~overlapped, NEW fd \in Fds
      PROVE  /\ clientPoller.channelMap[fd] = clientPoller.kernel[fd].channel
             /\ \A a \in Attempts :
                  LET ch == clientPoller.kernel[fd].channel
                  IN  /\ ch = ConnectorChannel(a) <=> IsConnector(a, fd)
                      /\ ch = ConnectionChannel(a) <=> IsConnection(a, fd)
  <2>1. OneOwner /\ ClientTypes
    BY <1>1 DEF ClientInv
  <2>2. ASSUME NEW b \in Attempts, IsConnector(b, fd), NEW a \in Attempts
        PROVE  /\ clientPoller.kernel[fd].channel = ConnectorChannel(b)
               /\ IsConnector(a, fd) <=> a = b
               /\ ~IsConnection(a, fd)
    <3>1. clientPoller.kernel[fd] = Watched(ConnectorChannel(b), {"OUT"})
      BY <2>1, <2>2 DEF OneOwner, WatchedOnly
    <3>2. connector = b /\ b # None
      BY <2>2, ClientAssumption DEF IsConnector
    <3>3. connection = None
      BY <2>1, <3>2 DEF OneOwner, OneAtATime
    <3> QED
      BY <2>2, <3>1, <3>2, <3>3, ClientAssumption
         DEF Watched, IsConnector, IsConnection
  <2>3. ASSUME NEW b \in Attempts, IsConnection(b, fd), NEW a \in Attempts
        PROVE  /\ clientPoller.kernel[fd].channel = ConnectionChannel(b)
               /\ IsConnection(a, fd) <=> a = b
               /\ ~IsConnector(a, fd)
    <3>1. clientPoller.kernel[fd] = Watched(ConnectionChannel(b), {"IN"})
      BY <2>1, <2>3 DEF OneOwner, WatchedOnly
    <3>2. connection = b /\ b # None
      BY <2>3, ClientAssumption DEF IsConnection
    <3>3. connector = None
      BY <2>1, <3>2 DEF OneOwner, OneAtATime
    <3> QED
      BY <2>3, <3>1, <3>2, <3>3, ClientAssumption
         DEF Watched, IsConnector, IsConnection
  <2>4. CASE \E b \in Attempts : IsConnector(b, fd)
    BY <2>1, <2>2, <2>4, ChannelsDiffer DEF OneOwner, WatchedOnly
  <2>5. CASE \E b \in Attempts : IsConnection(b, fd)
    BY <2>1, <2>3, <2>5, ChannelsDiffer DEF OneOwner, WatchedOnly
  <2>6. CASE \A b \in Attempts : ~IsConnector(b, fd) /\ ~IsConnection(b, fd)
    <3>1. clientPoller.kernel[fd].channel = NoChannel
      BY <2>1, <2>6 DEF OneOwner, WatchedOnly, NotWatched, Watched
    <3> QED
      BY <2>1, <2>6, <3>1, ChannelsDiffer DEF OneOwner, WatchedOnly
  <2> QED
    BY <2>4, <2>5, <2>6
<1>2. ClientInv => WatchesItsOwn
  BY <1>1 DEF WatchesItsOwn, IsConnector, IsConnection
<1> QED
  BY <1>2, ClientInvariant, PTL

(* No socket of the client is left open without an owner, but for those    *)
(* retry() gives up.                                                       *)
THEOREM ClientSocketsHaveOwners ==
  ClientSpec => []SocketsHaveOwners
<1>1. ASSUME ClientInv PROVE SocketsHaveOwners
  <2> SUFFICES ASSUME running, ~overlapped, NEW a \in Attempts, HasFd(a)
               PROVE  \/ connector = a
                      \/ connection = a /\ conStatus[a] # "Disconnected"
                      \/ stage[a] = "leaked"
    BY DEF SocketsHaveOwners
  <2> QED
    BY <1>1 DEF ClientInv, OneOwner, OneAtATime, HasFd
<1> QED
  BY <1>1, ClientInvariant, PTL
=============================================================================
