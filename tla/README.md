# MyReactor in TLA+

MyReactor is a network library for Linux in C++11, modelled on muduo: event
loops on epoll, TCP servers and clients on top of them, and a small base
library. This directory holds its specification: TLA+ modules translated from
the source, TLC configurations that check them on small instances, and proofs
for the TLA+ proof system. The source is the reference; paths below are
relative to `src/`.

## The system

| part | state | operations |
|---|---|---|
| `net/EventLoop` | `_looping`, `_quit`, `_eventFd`, `_pendingFunctors` under `_mutex`, `_activeChannels`, poller, timer queue | `loop`, `stop`, `QueueInLoop`, `RunInLoopThread`, `WakeUp`, `HandleReadEventFd`, `UpdateChannel`, `RemoveChannel`, timers |
| `net/EPollPoller` | `_channelMap`, each channel's `_index`, the kernel's interest list | `Poll`, `UpdateChannel`, `RemoveChannel` |
| `net/PollPoller` | `_pollFds`, `_channelMap` | the same, on `poll()`; not built by default |
| `net/Channel` | `_events`, `_rEvents`, `_isWriteEnabled`, callbacks | `Enable*`, `Disable*`, `HandleEvent`, `Remove` |
| `net/TcpConnection` | `_status`, `_readBuf`, `_writeBuf`, its channel and socket, who holds a `shared_ptr` to it | `ConnectionEstablished`, `HandleRead`, `HandleWrite`, `HandleClose`, `HandleError`, `Write`, `ShutdownWrite`, `ForceClose`, `ConnectionDestory` |
| `net/TcpServer`, `net/Acceptor` | `_connectionMap`, the I/O thread | `HandleNewConnection`, `RemoveConnection`, `start`, `stop` |
| `net/TcpClient`, `net/Connector` | connector status, its channel, the connection | `connect`, `connecting`, `socketIsReadyToWrite`, `handleConnectSuccess`, `removeConnection` |
| `net/TimerQueue`, `net/Timer` | the list of timers, their expiry, `_canceled` | add, run, delete, the user's `cancel` |
| `net/EventLoopThread`, `EventLoopThreadPool` | `_loop`, `_started`, the thread | start, stop, join |
| `base/ThreadPool`, `Condition`, `Mutex`, `Thread` | the queue of tasks, `_running` | `AddTask`, the workers, `Stop` |
| `base/ByteBuffer` | `_buf`, `_readIndex`, `_writeIndex` | `Append`, `Retrieve`, `MakeRoom`, `ReadFd` |
| `base/Timestamp`, `util/*` | none that is shared | arithmetic, comparison, splitting, formatting |
| `base/Log`, `HttpServer`, `test` | none of interest | output, a stub, examples |

**How they interact.** A loop belongs to one thread. It waits in `Poll`, calls
`Channel::HandleEvent` for every active channel, which calls back into the
channel's owner (connection, acceptor, connector, the loop's own eventfd), then
swaps out `_pendingFunctors` and calls them, then runs the timers. Other threads
reach a loop only through `QueueInLoop` (append), `RunInLoopThread` (append and
write to the eventfd) and `stop()` (two stores). A `TcpServer` accepts in one
loop and serves its connections in another (`TcpServer.cc:61`): the acceptor's
thread constructs a connection, puts it in `_connectionMap` and queues its
establishment; everything after that runs in the I/O loop, whose
`RemoveConnectionInLoop` takes the connection out of the same map. Connections
are shared: the map, functors and the user hold `shared_ptr`s, some functors
and all channel callbacks hold a raw `this`.

**What is hard.**
Appends of other threads between any two steps of the loop; a `stop()` at any
moment; callbacks that call back into the loop; a peer that leaves before,
during or after anything; descriptors and names that are used again; the
destruction of an object by one of its own callbacks; partial and failing
writes; the wake-up of a loop that sleeps. `PROJECT.json` lists these hazards
with the line at which each bites and the properties that watch it.

**What makes each part correct.**
- *EventLoop*: every functor is called once, in order, in the loop's thread; a
  pass empties what was queued before it; a stop ends the loop.
- *Poller*: its table, the channels' indices and the kernel's list agree; a
  descriptor is watched for its own live channel or not at all.
- *TcpConnection and TcpServer*: the user sees each connection up once, then
  down once, and data only in between; map, poller and status stay in step; who
  has left is forgotten; nothing is used after it is destroyed.
- *Output*: the peer is sent the written bytes, once and in order, all of them
  unless the connection breaks; every drain is reported.
- *Timers*: a due timer runs, as often as it was asked to and on its schedule;
  callbacks may change the list. *Threads*: `start` and `stop` return, the
  destructor waits for the thread. *Thread pool*: every task is taken once, in
  order. *ByteBuffer*: a queue of bytes. *Connector*: every `connect` ends, and
  sockets and channels have one owner each.

## Modules

| module | models | role |
|---|---|---|
| `TaskQueue` | — | what a loop promises: a FIFO queue whose functors are called once each |
| `EventLoop` | `net/EventLoop.cc` | the loop and the threads that use it |
| `EPoll` | `net/EPollPoller.cc` | the poller as operators on a record: table, indices, kernel |
| `TcpServer` | `net/TcpServer.cc`, `net/TcpConnection.cc`, `net/Channel.cc`, `net/Acceptor.cc` | life of connections, composed with `EPoll` |
| `ByteStream` | — | what a connection's output promises |
| `TcpOutput` | `net/TcpConnection.cc` | the output of one connection |
| `Condition` | `base/Condition.cc`, `base/Mutex.cc` | the condition variable as operators on a record |
| `ThreadPool` | `base/ThreadPool.cc`, `base/Thread.cc` | workers and their deque, on `Condition` |
| `EventLoopThread` | `net/EventLoopThread.cc` | the thread of a loop and its owner, on `Condition` |
| `Timestamp` | `base/Timestamp.cc` | the arithmetic of a timeval |
| `Erase` | `net/TimerQueue.cc`, `net/PollPoller.cc` | what their loops of `erase()` leave of a vector |
| `TimerQueue` | `net/TimerQueue.cc`, `net/Timer.cc` | the timers of a loop, on `Timestamp` |
| `TcpClient` | `net/TcpClient.cc`, `net/Connector.cc` | a client that connects again and again, on `EPoll` |
| `PollPoller` | `net/PollPoller.cc` | the other poller as operators on a record |
| `Pollers` | `net/Channel.cc` | the same calls given to both pollers |
| `ByteBuffer` | `base/ByteBuffer.cc` | size, capacity and memory of a buffer |
| `SequenceLemmas` | — | lemmas about sequences, prefixes and `Erase` |
| `*_proofs` | — | theorems about the module of that name; `Pollers_proofs` has `EPoll` and `TcpClient` as well, `Library_proofs` the small components and their composition |
| `MC*` | — | the instances for TLC; `MCLibrary` runs six components that share no state |

An operator introduced by "Mutant:" is a plausible bug of the definition after
it. No specification uses it: replacing the definition by it must break a
property, which shows that the property can fail.

### EventLoop

The variables are the members of the class, plus the program counters of the
loop's thread and of its callers. Granularity follows the code's sharing: the
append of `QueueInLoop` and the swap of `loop()` hold `_mutex`, so each is one
step; `stop()` is two steps because its two stores are not under a lock;
`RunInLoopThread` of another thread is append and then `WakeUp`; `Enter` and
`ClearQuit` are the two stores at the start of `loop()`. In a callback
(`io`, `functor`, `timer`) the loop's own thread may queue functors and stop the
loop; its `RunInLoopThread` is a plain call and touches nothing here, so it runs
*before* functors already queued: no order is promised between the two.
`_looping` and `_quit` are atomics in the code. A functor is a pair: its thread
and its number. Timers and other channels are reduced to "a callback runs".

Properties: `NothingLost`, `CallOrder`, `OnePass` (a pass calls everything queued
before its `Poll`, even when `stop()` comes meanwhile), `CalledOrEnded`,
`StopEnds`, and `ImplementsTaskQueue`, the refinement of `TaskQueue` under
`waiting <- batch \o pending`. Two things the code does not promise, and the
model shows: functors still pending when the loop ends are never called, and a
`stop()` that comes before `loop()` has stored `_looping = true` is forgotten
(`StopEnds` speaks of stops that find the loop running).

### EPoll and TcpServer

`EPoll` keeps the table and the kernel's list apart, since they can disagree:
`epoll_ctl` may refuse, and the kernel forgets a closed descriptor on its own.
`TcpServer` follows each connection from `accept()` to its destructor. A
connection is alive while the map, a queued functor or the user (`kept`) holds
it; the functors that bind a raw `this` (`RawOps`) do not. `touched` records
every use of a destroyed object that the code makes, `orphaned` the raw functors
called on one. The read callback may keep the pointer and call `ForceClose` as often
as it likes (`MaxForceCloses` bounds it for TLC); each call queues a functor of its
own, and whether the connection was closing already is recorded in `closedAgain`.
`lost` are the connections whose map entry another one of the same name has replaced
or taken along. The descriptors are the lowest free ones, as the kernel gives them,
so they are reused at once. Handlers of the I/O thread are one step each, because what the other thread can do in
between (insert in the map, append a functor) commutes with them; `stop()` is a
step per iteration, `ForceClose` in another thread is two.

Three liberties of the user and the environment are switched by constants,
because the code does not survive them: `CanStop` (`TcpServer::stop()`),
`LateClosed` (`ForceClose` on a connection that is kept, at any time) and
`NameReuse` (a client that comes back from the same port before its old
connection is removed). The main run has all three off; each has a run of its
own in which the property it breaks is named. `tcp_server_stopping` turns all of
them on, with two `ForceClose`s in one callback, and checks what still holds. After a
use of freed memory the model goes on as if the memory still held its old values.

`RawFunctorsSafe` is about the functors that bind a raw `this`
(`TcpConnection.cc:205` and `:236`). They can be called on a destroyed connection:
the first of two `ForceCloseInLoop` functors destroys it and the second finds it
gone. The property names the four causes: `stop()` has passed the connection, another
one of its name has taken its map entry, `ForceClose` was called on it when it was
closing already, or by another thread, which the peer's close may overtake. It
says that there is no fifth, and that the first two alone can
make an establishment come too late. `tcp_server_stopping` reaches all four: with any
of them left out of the property it is violated there.

A pointer that the user keeps from a connection whose peer resets it can give a
read callback after the down callback (error event first, then input); the main
run keeps such pointers only on connections that are not reset (`Kept` and
`Resettable` are disjoint there), and `ReadsWhileUp` is claimed for those.

### TcpOutput

One established connection: bytes go to `write()` directly while the channel has
no write interest, else through `_writeBuf` and `HandleWrite` (whose branch for an
empty buffer is there, though `WriteInterest` shows that it is never taken). In every
write the kernel takes any number of bytes it may take. Writes come from callbacks in the
loop (at once) and from other threads (as functors, the caller's buffer assumed
to last until they run, which `Write` does not arrange). `shutdown` while bytes
are buffered, and writing to a peer that has gone, end the process by SIGPIPE:
the code ignores the signal nowhere. `FullKernel` lets a direct write fail with
EAGAIN. Bytes are pairs of the call's number and a position, so a lost, repeated
or swapped byte shows.

`Stream` relates the kernel, the buffer and everything written; `WriteInterest`
says that interest in writability is on exactly while bytes are buffered;
`DrainIsReported` that the write-complete callback was queued after the last byte
went; `ImplementsByteStream` is the refinement of `ByteStream`, with its
liveness.

### Condition and ThreadPool

`base/Condition` has a mutex of its own, which no caller of `Wait` locks first
and no caller unlocks afterwards (`Condition.cc:24`). `Condition` models what glibc
makes of it: the wait frees the mutex whoever has it, the return locks it, and it
stays locked until the next `Wait` of any thread. A woken thread is `signalled`
until the mutex lets it return.

A worker of `ThreadPool` goes through `loop`, `wait`, `lock`, `run` and again.
`_mutex` protects the deque and nothing else: `AddTask` is two steps (push, then
signal) with the mutex held in between (`adding`), and a worker looks at the deque
after the wait returns, never before. `Start` may find that `pthread_create` made
no thread; waits may end spuriously; a task may add tasks. Properties:
`TakenInOrder`; `LeftByLostSignals`, which counts the tasks left behind against
the signals nobody heard; `SomeoneFreesTheMutex`, that woken workers never wait
for each other; `WokenComesBack`.

### EventLoopThread

Owner and thread share `_loop`, `_started` and the loop's `_looping` without a
lock, so each access is a step. `start()` tests `_loop` and then waits, without the
mutex in between: `missed` records a broadcast that falls into the gap.
`SleepsOnlyIfMissed` says that nothing else makes `start()` sleep with its loop
ready. The owner makes the calls that `~TcpServer` and `EventLoopThreadPool` make:
`start` once, `stop` and `join` at most once, then the destructor, which
calls `stop()` again and joins a thread that may be joined already.
`DestroyedThreadEnded` and `StopEndsThread` say what these calls achieve and name
the two orders in which they do not: a destructor that comes before `_started` is
stored, and a stop that comes before `loop()` has stored `_looping`.

### Timestamp and TimerQueue

`runTimers` walks `_timerList` with an iterator and calls back into the user, who
may add timers, delete others, or let time go by: the walk is a step per timer and
a callback is the time between two of them. Timers are added and deleted at once
in the loop's thread, and by a functor from others; `functors` keeps their order. A
user may `cancel()` the timer of a `TimerId` in any thread at any moment, which stores
`_canceled` without a lock (`CancelTimer`), and is taken not to use the `TimerId` once
the timer is deleted.
`Ran` is the rest of `Timer::run` (count down, cancel, next expiry). Times are
timevals added to by `AddMilliseconds`, so the carry by hand is checked by
`OnSchedule`: after k callbacks a timer expires exactly k intervals after its first
expiry. `RunsAsOften` relates callbacks, repeat count and cancellation: a timer is
cancelled exactly when its last callback has ended or its user has cancelled it,
and in the second case no further callback begins (`stopped` remembers how many had
begun);
`DeletedIsGone` lets a deleted timer run only when the deletion overtook the
functor that adds it (`EventLoop.cc:99`); `DueTimerRuns` is liveness.

### TcpClient

Each `connect()` is an attempt with two channels on one descriptor, first the
connector's and then the connection's. `connecting()` may wait for writability, meet
an error that `retry()` swallows, or fail; every failure of `TcpClient` is
`exit(-1)`. The poller is the `EPoll` of the server, so a channel left behind by
one owner blocks the next one here as well. `WatchesItsOwn` says that poller,
kernel, `_connectorChannel` and `_tcpConnectionPtr` agree; `SocketsHaveOwners` that
no descriptor is lost but those that `retry()` gives up; `ConnectEnds` that every
attempt ends. They speak of clients that connect one at a time (`~overlapped`):
nothing in the code forbids a second `connect()` and nothing provides for it; the
model follows one as far as the destroyed channel is not used.

### PollPoller and Pollers

`PollPoller` is built when `MY_REACTOR_USE_EPOLL` is not defined. `Pollers` gives the
same calls of `Channel` to both pollers. `PollersAgree` compares their tables, index
by index; `ReportsAsAsked` says what they report for every readiness of the
descriptors. `EPollPoller` reports the registered channels by what they ask now.
`PollPoller` reports registered channels only, and each by one whole set of events,
what it asks now or what it asked when it was registered: an update is made or
refused, never half made. The property does not say which. The test of
`PollPoller.cc:44` is inverted against the message on line 45 and the `// update`
branch on line 60: it refuses every update of a registered channel, so that `poll()`
goes on with the events of the registration, and a connection's write interest would
never be seen. The property holds of the code as it is and of the code with line 44
repaired, so it does not catch that defect.

### ByteBuffer

`WritableBytes` counts up to the vector's capacity, `MakeRoom` copies up to its size.
The model keeps the two apart, with the memory between them, and numbers the bytes
in the order in which they are appended. `BufferIsQueue` says that the indices
delimit the bytes appended and not retrieved, in order; `SpoiledOnlyIfMadeSmall`
that only a buffer which `Retrieve` made small after `kMaximumBufferBytes` can lose
bytes when its vector moves (`spoiled`), which `BufferIsQueue` excepts.

## Runs

| run | instance | shows |
|---|---|---|
| `event_loop` | one caller, two functors per thread, callbacks that queue and stop | all properties of `EventLoop`, refinement and liveness |
| `event_loop_wakeup` | one functor | **violated** `WokenInTime`: `WakeUp` writes 0 to the eventfd (`EventLoop.cc:169`), so `Poll` sleeps to its timeout with the functor waiting |
| `tcp_server` | three connections on two descriptors and two names, one reset, one kept and closed by `ForceClose` | the properties of the connection's life |
| `tcp_server_stopping` | two connections of one name on two descriptors: `stop()`, the name used again, two `ForceClose`s in a callback of the one, a late `ForceClose` and a reset of the other | raw functors find their connection but for four causes, table and kernel agree, `stop()` empties the map |
| `tcp_server_close` | one connection | **violated** `NoUseAfterFree`: closing destroys the channel inside its own `HandleEvent` |
| `tcp_server_stop` | one connection and `stop()` | **violated** `DestroyedOnce`: a second owner of `this` (`TcpConnection.cc:284`) |
| `tcp_server_late` | `ForceClose` after the close | **violated** `ConnectedIsWatched`: the closed channel is registered again for good and its descriptor's next connection is never watched |
| `tcp_server_name` | a name used again | **violated** `WatchedIsKnown`: the old connection is destroyed while it is registered |
| `tcp_output` | four writes of one or two bytes, callbacks, another thread, shutdown, a peer that closes | all properties of the output, refinement and liveness |
| `tcp_output_full` | the kernel's buffer full at a direct write | **violated** `Stream`: `write()` returning -1 is taken for a partial write (`TcpConnection.cc:134`) |
| `library` | `ThreadPool`, `EventLoopThread`, `TimerQueue`, `TcpClient`, `Pollers` and `ByteBuffer`, one at a time | all properties of these six, safety and liveness |
| `thread_pool_idle` | the thread pool | **violated** `FetchesNextTask`: a worker waits before it looks at the deque (`ThreadPool.cc:47`), so all of them may sleep with a task queued |

In `library` the variable `part`, chosen at the start, says which component moves;
the others stay in their initial states. The state space is the sum of the six, as
if each had a run of its own: the components share nothing.

**Bounds.** `MaxCalls`, `MaxWrites`, `MaxData`, `MaxTasks`, `MaxTimers`,
`MaxFunctors`, `MaxCancels`, `MaxForceCloses`, `MaxTicks`, `MaxLen`, `MaxBytes` and the sets `Conns`, `Names`,
`Lengths`, `Attempts` are bounds of the model.
- Two functors per thread let one be queued in every phase of the pass that calls
  the other, and give `CallOrder` something to compare; more callers add
  interleavings of appends that are atomic anyway (two callers with two functors
  each were explored once, for the safety properties).
- Three connections over two descriptors and two names make a descriptor and a
  name come back while another connection lives.
- One `ForceClose` per read callback in `tcp_server`, where its effect on a
  connection's life matters, and two in `tcp_server_stopping`, where the second finds
  the connection destroyed; a third would queue one more such functor. The theorems hold
  for any number.
- Two bytes are the shortest write that can be taken in part, and four writes let
  one arrive in each of the states idle, partly sent, buffered and drained.
- Three workers and three tasks: one worker in its task, one woken, one about to
  wait when a signal is sent; `thread_pool_idle` has the same pool.
- Two timers, one queued functor, one timer cancelled at a time, one jump of 800 ms over
  intervals of 700 ms: a repeating timer falls behind its schedule, the carry of the microseconds happens
  (`StartUsec`: the clock starts at 300,999 µs), and each timer can be added, deleted or
  overtaken while the other one runs.
- Three attempts over three descriptors: a descriptor comes back for a connection
  after one that ended, with another one leaked by `retry()`.
- Two channels and two descriptors: the channels share one or have one each.
- Buffers of initially 1 byte that are made small above 4, appends of up to 2 bytes
  and 12 altogether: the vector moves more than once, is made small, and is written
  past its size.

**Deadlock** is not checked: the loop ends, the callers' bounded calls run out and
the peers leave, after which nothing is to be done.

**Fairness.** Weak fairness of the steps that a thread takes by itself: the loop in
`EventLoop`, `TcpServer`, `TimerQueue` (`TimerLoop`) and `TcpClient` (`LoopOf`),
since `Poll` returns after `kPollTimeoutMs` (three seconds) at the latest and
callbacks are taken to return; a thread in `AddTask`, which holds a mutex and has
only the signal to send (`SignalTask`); `ThreadRuns` and `OwnerRuns` of
`EventLoopThread`, which are the steps between blocking calls; the answer to a
`connect()`, which the network's own timeout gives at the latest (`Answer`). Nobody is
obliged to call, send, leave or stop anything. Strong fairness in two places: a
worker's steps (`WorkerStep`), as a thread that waits for a mutex which is free
again and again gets it in the end; and, in `TcpOutput`, a `Poll` that finds room in
the socket, as a peer that stays keeps reading.

## Proofs

Each proof module extends the modules of its components, and holds for every value of
their constants that the named assumptions allow, not for the instance of a run. The
properties are the ones that the runs check: every invariant that a passing run
checks, and every action property, is a theorem.

**`EventLoop_proofs`** (`CallersAssumption`, `MaxCallsAssumption`).
`QueueIsKept` is the inductive invariant `QueueInv`: `NothingLost` with `Drained`, the
batch is empty outside the run of functors. `NothingLost` alone is not inductive:
the swap overwrites the batch, and only `Drained` says that nothing was in it.
`SeenInv` bounds `seen` by what has been called, plus the batch and the pending
functors as far as the pass has come; with the lengths of `NothingLost` it gives
`OnePass`. The order of calls is an invariant of `queued` (`QueuedInOrder`, from the
counters `made`), and `ran` is its beginning. `ImplementsQueue` is `Spec =>
Queue!QSafety`: the swap is a stutter because `Drained` makes `batch \o pending` the
same before and after.

**`TimerQueue_proofs`** (`TimerAssumption`: delays and repeat counts are natural numbers,
intervals positive ones, the clock starts at any microsecond and jumps by any
positive number of milliseconds). `MillisecondsAdd` is the lemma about `Timestamp`: the
carry by hand moves a timeval by exactly so many milliseconds, whatever its
microseconds. `TimerInv` has four parts. `TimersOK` says of each Timer what its
callbacks have made of it: `repeatCount` is what is left of its repeats, `canceled` is
set exactly when none is or its user has set it, it expires k intervals after its first
expiry.
`OnSchedule` and `RunsAsOften` read this off, but a callback that has begun and not ended
keeps it only because `WalkOK` says that the walk stands on a listed timer that is
not cancelled and was due at the time the pass began. That a listed timer exists, and
that only an overtaking deletion leaves one in the list, is `ListOK`; it needs
`QueueOK`, that a timer waits to be added once at most, by a functor whose timer is
not in the list yet. `OnSchedule`, `RunsAsOften` and `DeletedIsGone` follow.

**`Pollers_proofs`** has the two modules that stand on the pollers, and begins with
what each operator of `EPoll` and `PollPoller` does to its record.
- `Pollers` (`PollersAssumption`). `PollersAgree` alone is not inductive: it says that the
  pollers have the same channels, not why an update is refused by both. `PollersInv`
  adds that a channel is in the table under its own descriptor only and exactly when
  its index says so (`OneTable`), that the kernel has what the channel asks for
  (`KernelFollows`), and that its one pollfd has what it asked for first (`FirstAsked`,
  which is the code as it is; with line 44 repaired it would be what it asks now).
  From it follow `PollersAgree` and, for every readiness, `ReportsAsAsked`. Any number of
  channels may share a descriptor.
- `TcpClient` (`ClientAssumption`). `ClientTypes` holds with overlapping connects too.
  As long as nothing overlaps and the process runs, `ClientInv` adds `OneAtATime` (one
  attempt is asked for, tried or connected, and only the functor that takes it
  further waits), `WatchedOnly` (table and kernel have that attempt's channel and no
  other) and `IndicesKnow` (no other channel thinks it is registered, so that the next
  registration is not refused). `WatchesItsOwn` and `SocketsHaveOwners` follow.

**`Library_proofs`** has the small components and the run `library` as a whole.
- `ThreadPool` (`PoolAssumption`: the workers are finite). `PoolInv` is the types with
  `WokenOnce`, nobody waits and is woken at once; without it a worker that returns might
  still be among the waiters. `TakenInOrder` and `SomeoneFreesTheMutex` are inductive on
  top of it. `LeftByLostSignals` is a count: per action, what `Len(tasks)`, `lost` and the
  number of awake workers do. A signal either adds one to `lost` or moves one worker
  into `Awake`; a worker leaves `Awake` only with a task or when there is none.
- `EventLoopThread` (no assumption). `ThreadInv` is `MembersInv` (which members the thread
  has stored at each place of its code), `WaitInv` (who waits, and whether the broadcast
  was missed) and `OwnerInv` (where a stopping or destroying owner can find the thread).
  Both safety properties follow.
- `ByteBuffer` (`BufferAssumption`). `BufferInv` is types, `size <= capacity`,
  `BufferIsQueue` and `SpoiledOnlyIfMadeSmall` together. The types alone are not
  inductive: that an index stays a natural number, or a move stays inside the memory,
  rests on the other parts.
- The composition: `LibraryIsItsComponents` is `Spec => PoolSpec /\ ThreadSpec /\ ...`,
  since a step of the run is a step of one component and a stutter of the others.
  `LibraryTypeCorrect` and `LibraryIsSafe` conclude that all the safety properties of
  the run hold of it.

**`TcpOutput_proofs`** (`OutputAssumption`, any number and lengths of writes). `OutInv` is
the types of the output, `WriteInterest` and, if `~FullKernel`, `Stream` and
`DrainIsReported`. The three rest on each other: a direct write keeps the stream
only because without write interest nothing is buffered (`NothingBuffered`), and a
drain is complete only because the stream says that the kernel then has all.
`SomethingIsBuffered` shows the empty-buffer branch of `HandleWrite` unreachable.
`TypeOK` and `WriteInterest` hold with a full kernel too; `StreamIsKept`,
`DrainsAreReported` and the refinement `ImplementsStream` assume `~FullKernel`,
and `tcp_output_full` is the counterexample without it.

**`TcpServer_proofs`** (`ConnsAssumption`; `stop()`, late `ForceClose` and reused names are
all allowed). `ServerInv` shows that table and kernel
agree whatever the user does. `Agrees` alone is not inductive: that a new
descriptor's owner does not collide with an entry needs `OneOwner`, no two live
connections on one descriptor, since the kernel gives out only descriptors that
no live connection has. `OneOwner` in turn needs that who is destroyed stays so, and
that a functor `RemoveConnectionInLoop` queued by `stop()` finds its connection
alive; that holds because `stop()` visits each connection once (`QueueOK`).
`ServerTypeCorrect` adds the types of the other variables (`RestTyped`).

The module goes on to the raw functors, under the same liberties and for any number of
`ForceClose`s in a callback. `RawFunctorsFindTheLiving` is `Spec =>
[]RawFunctorsSafe`. That property records the past and is not inductive; `RawInv` adds why
the functors find their connections otherwise:
- `EstablishesOnce`: the two functors of an establishment wait at most once per
  connection, and while one waits the connection is `kConnecting`. `Untouched`: no event,
  no user and no other functor but that of `stop()` reaches a connection before.
- `Named`: an open connection is the map's entry under its name, unless `stop()` or
  another connection of its name took it out. So an establishment finds it held.
- `SoonClosed`: if `ForceClose` was called once, in the read callback, on a connected
  connection, its functor is in the batch that follows, and neither the rest of
  `HandleEvent` nor another event comes before it. So it finds the connection open.
- `Handling`: a channel is in `_activeChannels` once, and the read is the last of its
  callbacks to change anything, on which `SoonClosed` rests.

Each step is shown to keep the parts; what a step adds to `orphaned` is then one of the
four causes.

**`TcpServerLife_proofs`** builds on `RawInvariant`, under the assumption `Orderly`: no
`stop()`, no name that comes back while the map has it, no `ForceClose` outside the read
callback, no kept pointer to a connection that is reset. The first three are the
liberties for which `tcp_server_stop`, `tcp_server_name` and `tcp_server_late` show
the violation; the fourth is described under `TcpServer` above. The read callback may call
`ForceClose` any number of times. `LifeInv` says that a connection's status determines
everything else: how often up and down were reported (`Stages`), that the map has
exactly the connections that are not closed (`Mapped`), that the poller has exactly
those that are up, on their own descriptors (`Tabled`), that events are for connections
that are up, and only a reset lets `HandleEvent` go on after a close (`Events`). From it
follow `WatchedIsKnown`, `ConnectedIsWatched`, `UpThenDown` and the action property
`ReadsWhileUp`.

**Only model-checked.** Liveness (`CalledOrEnded`, `StopEnds`, `LeftIsForgotten`,
`StopForgets`, `WokenComesBack`, `StopEndsThread`, `DueTimerRuns`, `ConnectEnds` and the
liveness of the two refinements), which needs fairness and ENABLED, out of the provers'
reach. `Without`, the vector after its loop of `erase()`, is defined by counting the places
that stay, which the proofs can unfold (`WithoutPlaces`, `WithoutElements`); that it is the
`SelectSeq` of the standard module, a recursion they cannot unfold, is an assumption
that no proof uses and that TLC evaluates on all sequences up to length four
(`WithoutSelects` in `MCLibrary`).

## What the code does not keep

The runs that end in a violation, each with a `findings` entry that quotes what the
source says: a wake-up that wakes nobody (`EventLoop.cc:169`), use of a channel
after its own callback has destroyed it (`Channel.cc:157`), a second owner of `this`
(`TcpConnection.cc:284`), a closed connection registered again
(`TcpConnection.cc:204`), a map entry replaced under a live connection
(`TcpServer.cc:65`), an error of `write()` taken for a partial write
(`TcpConnection.cc:134`), and a worker that sleeps with tasks queued
(`ThreadPool.cc:47`).

Others are stated inside properties, as the case they except or in so many words:
functors pending when the loop ends are not called; a stop before `loop()` is lost;
a broadcast between test and wait leaves `start()` asleep; a destructor right after
`start()` leaves the thread behind; `PollPoller` refuses updates, which
`ReportsAsAsked` allows; raw functors are called on destroyed connections from the
four causes that `RawFunctorsSafe` names; a deletion overtakes an addition; `retry()` leaks its socket; a buffer made small may lose bytes.

## Limits

- One operation on `_connectionMap` is atomic in `TcpServer`, though the acceptor's
  and the I/O thread write it without a lock: what that race does is below this
  grain.
- The connection callback is always `DefaultTcpConnectionHandler`
  (`TcpServer.cc:61`), which only logs; the model counts its calls (`ups`, `downs`)
  and lets the user act in the read callback and outside the loop.
- `TcpOutput` does not destroy its connection; a `WriteInLoop` functor holds a raw
  `this` like those of `TcpServer`. `Write` keeps the caller's pointer, which is
  assumed to last until the functor runs.
- A timer's callback does not delete its own timer, a `Timer`'s address is not used
  again, and nobody uses a `TimerId` whose timer has been deleted. `_canceled` is a
  plain `bool` that `cancel()` may store in another thread: the store is one step.
- The second `pthread_join` of a thread and a wait on a mutex that is not held are
  undefined by POSIX; the models take what glibc does.

**Not modelled**, and why:
- `HttpServer` is a stub, the tests are examples, `Log` only writes, `AsyncLog.cc` is
  empty, only tests call `splitString`, `HexUtils` and the conversions of
  `Timestamp` only format.
- Socket and address wrappers keep no state that the properties speak of, beyond
  `~Socket` closing the descriptor.
- `EventLoopThreadPool` is a loop over its threads; `getNextLoop` has no state to
  speak of (it returns the first loop always, the increment is after the return).
- Setting up and tearing down an `Acceptor`; a failing `epoll_wait`, which only
  logs; more events at once than `epoll_wait` takes, which the next pass gets.
- Data and resets on a client's connection, which is the same `TcpConnection` as the
  server's; and what an overlapping `connect()` does with a destroyed channel, which
  is undefined.

**What could follow.** An abstract poller that `EPoll` implements, as a module of its own
instead of the comparison in `Pollers`; the server with several I/O threads once the code
uses `EventLoopThreadPool` there; what `TcpServerLife_proofs` shows under `Orderly`, for
the connections that a `stop()` or a late `ForceClose` does not touch.
