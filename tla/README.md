# A TLA+ model of the muduo C++11 network library

`src/muduo` is a small reactor library: one event loop per thread, `poll(2)`
for I/O, a timerfd for timers, an eventfd to wake a loop from another thread,
TCP clients and servers on top, and an asynchronous logger.  This directory
models the parts that carry its concurrency and its bookkeeping, checks them
with TLC on small instances, and proves the most important invariants with
TLAPS for every size.

All paths below are relative to `src/muduo`.  `PROJECT.json` maps every
definition to the lines it stands for.

## 1. Inventory

| Component | State | Operations | Talks to |
|---|---|---|---|
| Channel (`Channel.h/.cpp`) | fd, events, revents, index, eventHandling | enable/disable, handleEvent, update | EventLoop, its owner's callbacks |
| Poller (`Poll.h/.cpp`) | `pollfds_` (array for poll), `channels_` (fd to Channel) | updateChannel, removeChannel, poll, fillActiveChannels | Channel (index), `poll(2)` |
| EventLoop (`EventLoop.h/.cpp`) | `quit_`, `callingPendingFunctors`, `pendingFunctors_` under a mutex, `activeChannels_`, the eventfd | loop, quit, runInLoop, queueInLoop, wakeup, timers | all others; any thread |
| TimerQueue, Timer, TimerId | `timers_`, `activeTimers_`, `cancelingTimers_`, the timerfd; Timer objects on the heap | addTimer, cancel (any thread), handleRead, getExpired, reset, insert | EventLoop (functors), timer callbacks |
| EventLoopThread | `loop_` under mutex and condition, a thread whose stack holds the EventLoop | startLoop, threadFunc, destructor | Thread, MutexLock, Condition, EventLoop |
| Buffer | vector, read index, write index | append, prepend, retrieve*, readfd, shrink, swap_demo | TcpConnection |
| AsyncLogging (`log/base`) | current, next and full buffers under a mutex; spare buffers of the backend thread | start, stop, append (any thread), threadFunc | LogFile, CountDownLatch, Thread |
| Connector, TcpClient | connection state, retry timer and delay, a Channel; the connection | start, stop, restart, retry; connect, disconnect, new and remove connection | EventLoop, TimerQueue, TcpConnection |
| TcpConnection, TcpServer, Acceptor | connection state, output buffer; map of connections | send, shutdown, handleRead/Write/Close, connectEstablished/Destroyed | EventLoop, Channel, Buffer |
| EventLoopThreadPool | loops, next | start, getNextLoop | EventLoopThread |
| EPoller | fd to Channel, index as kNew/kAdded/kDeleted | updateChannel, removeChannel, poll | not used by EventLoop |
| Thread, MutexLock, Condition, Atomic, CountDownLatch | wrappers of pthreads and of `__sync_*` | | |
| LogFile, AppendFile, LogStream, Logger | stdio buffer, formatting | append, flush | AsyncLogging |
| Socket, SocketsOps, InetAddress, TimeStamp, Callbacks | stateless | system calls, conversions | |

How they interact.  `EventLoop::loop` polls, calls `Channel::handleEvent` on
each active channel, and then runs the functors other threads queued.  All
work on channels, timers and connections happens in the loop's thread; other
threads only push functors and call `wakeup()`.  Callbacks run client code in
the middle of `handleEvent`, of `TimerQueue::handleRead` and of
`dePendingFunctors`, and that code may call back into the same objects.  The
logger is used by every thread and has a backend thread of its own.

What is hard: client code that changes the tables a loop is iterating over;
raw pointers (Channel, Timer, EventLoop) whose owners are elsewhere; flags
read in one thread and written in another; a queue swapped while others push;
a timer canceled while its batch runs; buffers that change hands by move;
index arithmetic at the edges.  `PROJECT.json` lists these as hazards, with
the line where each one bites.

What makes each component correct:

* Poller: the array, the map and the channels' indices describe the same set,
  so its `assert()`s hold and nobody else's entry is touched; no pointer in
  the map or in the active list outlives its Channel.
* EventLoop: each functor is run once, queued ones in order; the loop does not
  sleep on a functor nobody announced; quit stops the loop.
* EventLoopThread: startLoop returns a loop; the destructor ends the thread.
* TimerQueue: the two sets agree, each Timer has one owner, a canceled timer
  does not come back, the timerfd is armed for the earliest timer.
* Buffer: it works as a byte queue whatever happens to its storage.
* AsyncLogging: lines reach the file once and in order, apart from the ones
  that are deliberately dropped.
* TcpConnection: bytes in order, half-close after the output, close handled
  and connectDestroyed run once, the object destroyed after its Channel was
  removed.
* Connector and TcpClient: one attempt or connection at a time, no connection
  after stop(), a connection or an armed retry as long as one is wanted, nothing
  left behind that refers to a destroyed object.
* TcpServer: each connection is established, erased and destroyed once and in
  that order although three threads take part; it is destroyed after its
  channel was removed; the loops of the pool get equal shares.
* EPoller: index_ says what the kernel was told, and the kernel watches what
  the channel asks for.

## 2. Modules

| Module | Models |
|---|---|
| `PollEvents` | the masks of `<poll.h>` and Channel.cpp's constants computed from them |
| `Poller` | Channel, Poller, and the polling and dispatching half of EventLoop::loop |
| `FunctorQueue` | abstract: what runInLoop and queueInLoop promise |
| `EventLoop` | the loop thread, other threads, functors, the eventfd |
| `EventLoopThread` | owner, thread, mutex, condition and the loop's lifetime |
| `TimerQueue` | timers, the timerfd, users in other threads and in callbacks |
| `ByteQueue` | abstract: what Buffer promises |
| `Buffer` | the vector and the two indices |
| `AsyncLogging` | the logger's owner, its users, and the backend |
| `TcpConnection` | one connection of a TcpClient, the loop that drives it and the threads that use it |
| `Connector` | Connector and the TcpClient around it, their loop, the owner in the loop thread or in another |
| `TcpServer` | composes TcpServer, Acceptor, the pool's loops and the life of every connection |
| `InterestTable` | abstract: what a poller promises about the events of an fd |
| `EPoller` | EPoller, the kernel's epoll table, the channels and their owners |
| `*Proofs` | inductive invariants and theorems |
| `MC*` | TLC instances |

### Poller
Variables are the members of Channel and Poller, plus `life` (where a Channel
is in its owner's protocol), and what `loop` is doing: `scan` walks through
fillActiveChannels, `activeChannels_` holds the channels still to be handled
with the revents they were given, `todo` the callbacks that the running
handleEvent has yet to call.  Client code (NewChannel, enableReading, ...,
Remove, Destroy) runs whenever a callback is active or between batches, on any
channel.  Owners follow the protocol visible in Connector and TcpClient:
disable, remove, and destroy from a queued functor.
TcpServer::removeConnectionInLoop does not when the connection lives in the
base loop; its last step destroys the channel inside the channel's callback,
which is in the TcpServer module.  A mask is a set of flags, and `kReadEvent`
is computed as in Channel.cpp, where `POLLIN/POLLPRI` is an integer division
with result 0. Because of that no read callback is ever invoked in this module.
POLLNVAL is left out (owners close the fd after removeChannel), and so is a
failing poll(2), which leaves the active list empty as a timeout does.

### EventLoop
`loop()` and `dePendingFunctors()` are split at every point where another
thread can see the difference: the flag, the swap under the mutex, each call.
queueInLoop and quit in another thread are two steps, the push or the flag, and
the wakeup.  A functor is used once per behaviour; what it does is any sequence
of public operations (ClientCode), which the loop thread may also call before
loop() and after it has returned (OutsideLoop).  There queueInLoop sees neither
another thread nor `callingPendingFunctors`, so it does not call wakeup(), and
a loop() started afterwards sleeps through one poll timeout before it runs the
functor: `early`, a history variable, holds these functors, and WakeupRequested
is about the others.  `wakeup` writes `sizeof(int)` bytes as the
code does, and the eventfd refuses a write of fewer than 8.  `wakeupCalled` is
another history variable: wakeup() was called since the last swap.

### EventLoopThread
The mutex and the condition are modelled, spurious wakeups included.
`loopObject` tells whether the EventLoop on the thread's stack is alive.
EventLoop::quit is two steps, the assignment to `quit_` and the rest, which
reads `threadId_` and calls wakeup(): between them the loop thread may leave
loop() and destroy the object.  A quit() that begins on a destroyed loop is
"late", one that loses it half-way "raced".
Thread creation is assumed to succeed (`Thread::start` aborts otherwise).  An
EventLoopThread that is destroyed without having been started dereferences a
null `loop_` (state "crashed").

### TimerQueue
Timers live at addresses the allocator reuses, and carry a sequence number
from a counter of `SeqModulus` values (2^32 in the code: `AtomicInt64` is
`AtomicIntegerT<int>`).  `birth` is a history variable that identifies a timer
for good.  addTimer and cancel from other threads become queued functors;
the read of `timer->sequence()` after the Timer was handed over is a step of
its own, and reads an arbitrary value if the Timer is gone.  Time counts in
units of the 100 microseconds that howMuchTimeFromNow uses as its minimum.
Delays may be negative: a time may have passed when its timer is added, and at
the start of the clock be one that Timestamp::valid rejects, for which reset
does not set the timerfd.  Wall clock jumps are not modelled.  With kReadEvent
being 0, poll(2) does not report the timerfd in the composed program.
handleRead is an action here all the same, since TimerQueue has to be right
whenever it is called, but it is not fair: DueTimerIsSignalled ends where the
timerfd is readable.

### Buffer
The vector is a sequence of bytes, indices are as in the code.  `call` records
the last operation and the bytes it moved, so that ByteQueue can say what each
operation does to the content.  The constructor's `writeIndex(kInitialSize)`
is modelled as it is: a new Buffer starts with kInitialSize - kCheapPrepend
readable zero bytes, while a new ByteQueue is empty, as `materials/Buffer.md:83`
and the assert at :183 want it.  So Buffer does not implement ByteQueue from
its first state on, and QueueSteps states what does hold: every operation of a
Buffer is one of the queue.  shrink and
swap_demo are called by nothing in the library and are not modelled: shrink
moves the bytes to kCheapPrepend without setting the indices, and swap_demo
exchanges the indices without the vectors.

### AsyncLogging
A buffer is the sequence of its lines, sizes are counted in lines.  Critical
sections are single steps except where the backend waits.  The wait is not in
a loop, so it may return for any reason.  `file` is what LogFile was given,
`flushed` how much of it is surely flushed (LogFile's additional flush every
1024 appends only makes it more).  `dropped` records the lines of buffers that
were erased because there were more than 25.

### TcpConnection
The connection's members, the TcpClient's pointer to it, the references other
threads hold, and the loop: its position, the events it still has to handle,
the batch of functors and the queue.  send and shutdown in another thread are
several steps: the test of `state_`, the assignment, the push.  Client code in
the loop thread runs in the callbacks of the connection and, through
TcpClient::connection(), in others.  A byte is its message and position.
`accepted`, `handed`, `promised` and `crossThread` are history variables.

* The Channel's events are any of POLLIN, POLLHUP, POLLOUT (the last one while
  writing) in every iteration until disableAll.  Poller reports fewer: no
  POLLIN, since kReadEvent is 0, and nothing after a disableWriting.  What
  holds here holds for those as well.  The trace of `tcp_half_close` needs
  only POLLOUT, and no disableWriting before its last step.
* `outputBuffer_` begins with the readable bytes of a new Buffer (Stale), as
  the constructor of Buffer leaves them; they are sent first.
* connectDestroyed and writeComplete functors hold a shared_ptr that lives as
  long as the vector dePendingFunctors has swapped out; sendInLoop and
  shutdownInLoop functors hold a raw `this`.  Running one of these on a dead
  connection is the fault "dangling", enableWriting on a removed channel the
  fault "removedChannel", writing after the own half-close "sigpipe".  Once the
  peer has closed its end and answers with RST (PeerResets), a write fails or
  raises SIGPIPE, which nothing in the library ignores: fault "reset".  The
  first two do happen when other threads call send or shutdown while the
  connection closes; LoopUseIsSafe states the use that avoids them.
* `writeCompleteCallback_` is set or not, chosen in Init.
* Left out: ~Channel's assert on eventHandling_ (Channel.cpp:50), which is in
  TcpServer, and ~TcpClient in another thread or without a connection and
  reconnection, which are in the Connector module.
  newConnection is modelled as what Connector calls, although this commit does
  not register it (section 5).

### Connector
One TcpClient with its Connector.  The members of both, the functors queued
with a raw `this`, the retry timers, and `conn`, the connection reduced to
whether it exists and which close callback it has; what a connection does is
TcpConnection's subject.  connect(2), getsockopt and isSelfConnect are
nondeterministic over the cases the code distinguishes: in progress, try again,
give up; connected or failed.  `retry` is split before its own test of
`connect_` and before runAfter, `removeConnection` between the test of `retry_`
and restart, and calls from another thread at each access to shared state,
since `connect_` and `timerId_` are written without a lock.

* `newConnectionCallback_` is chosen in Init.  "empty" is what this commit
  produces: the setter has an empty body and nothing calls it, so that the
  first success throws bad_function_call (fault "badFunction").
  "newConnection" is the wiring TcpClient::newConnection is written for.
* The loop: Poll takes any subset of what is ready and of the timers that are
  due, dispatch handles it in any order, then one batch of functors runs.
  Since wakeup() does not end a poll, functors may wait in the queue while poll
  sleeps past a timer: the timer that releases the Connector a second after
  ~TcpClient can come before a queued startInLoop.  A timer that is canceled
  after getExpired has taken it still runs.
* Timer ids come from a small pool; an id is reused only when nothing refers
  to it, so that reuse of addresses stays TimerQueue's subject.
* A second connect() while a connection is up or an attempt is in flight fails
  startInLoop's assert, which is why ConnectOnceIsSafe speaks of one call.
  ~TcpClient from another thread, or with an attempt in flight, can leave
  functors with a dangling `this` (fault "dangling") or destroy a registered
  Channel (fault "channel").  DestroyedIdleIsSafe states the use that avoids
  it: in the loop thread, with no channel and no startInLoop in the queue.

### TcpServer
The base loop and the pool's loops run concurrently; each has its phase, its
events, its queue and its batch.  A connection is its state, its channel, its
loop and the references to it: connections_, the users (`held`), and functors,
which keep theirs until their vector is destroyed, except shutdownInLoop, which
has a raw `this`.  shutdown() in another thread is three steps, the test of
`state_`, the assignment and the push; users of the connections in `Shared` do
it.  Init also chooses the pool's loops and whether newConnectionCallback_ is
set: at this commit it is not, and no pool is created.  The wiring that the
code is written for needs POLLIN to be dispatched, to the Acceptor and then to
the connections too, so reads are modelled here: `handling` holds the channels
whose eventHandling_ is set, which the read branch of handleEvent leaves so
when it returns (Channel.cpp:50) and a later event without POLLIN clears.

What ServerIsSafe excludes and what it allows.  No assert() on the life of a
connection fails.  A shutdownInLoop can find its connection destroyed (fault
"dangling"): with a pool only if the shutdown() was overtaken, that is, pushed
it when the close had already been handled (`late`); if it came first, it is
run in the iteration that handles the close at the latest, before
connectDestroyed.  Without a pool the connection is destroyed in handleClose,
so that a functor already queued is too late.  ~Channel's
`assert(!eventHandling_)` (fault "handling") fails without a pool because a
connection closes inside its own handleEvent and, if no user holds a pointer,
its Channel is destroyed there (TcpServer.cpp:103); with a pool it fails too,
but only for a channel that a read has left marked, after its loop removed it.
~TcpServer with a listening Acceptor leaves a registered Channel behind (fault
"channel"); the properties are about the time before.

### EPoller
`epoll` is the kernel's table: ADD of a registered fd, MOD and DEL of one that
is not are refused, which the code at most logs.  The owners are Poller's.
poll is modelled with its inverted test (EPoll.cpp:50): a failed epoll_wait
reaches fillActiveChannels with -1 and fails its assert, a successful one is
only logged, so that no channel becomes active and no callback runs.  After a
disableAll a second one ADDs the fd again with no events; removeChannel then
deletes it, which is why nothing is left behind.

## 3. Runs

| Run | Checks | Instance |
|---|---|---|
| `poller` | TableConsistent, AssertionsHold, NoDanglingChannel, OthersUndisturbed | 3 channels, 2 fds (one of them 0, whose ignored form is -1), symmetric channels |
| `epoller` | RegistrationAgrees, WatchSpec | 4 symmetric channels, 3 fds |
| `event_loop` | WakeupRequested, QueueSpec, FunctorIsExecuted, QuitStopsLoop | 2 other threads, 3 functors |
| `event_loop_thread` | TypeOK, StartLoopReturnsLoop, OnlyUserQuitDangles, StartLoopReturns, QuitInLoopFinishes | 3 users of the returned pointer |
| `timer_queue` | SetsAgree, Ownership, CanceledStaysCanceled, TimerfdArmed, DueTimerIsSignalled | 1 other thread, 2 addresses, 3 timers, delays of -1 and 2, intervals 0 and 1, a call in another thread begins with an empty queue, clock up to 3, sequence numbers modulo 3 |
| `buffer` | AssertionsHold, QueueSteps | reserve 2, initial size 3, vectors up to 7 bytes, 2 byte values |
| `async_logging` | NothingElseLost, AssertionsHold, LineIsWritten, StopReturns | buffers of 2 lines, more than 3 of them are dropped, 12 lines |
| `tcp_connection` | BytesInOrder, AssertionsHold, DestroyedAfterRemoval, LoopUseIsSafe, HalfCloseAfterOutput, ClosedIsDestroyed | the loop thread and one other, 2 messages of 2 bytes, 1 byte in a new Buffer |
| `connector` | ConnectOnceIsSafe, DestroyedIdleIsSafe, StopInLoopIsFinal, WantedIsPursued | 3 timer ids, 2 calls of connect(), delays 2 up to 3, 1 queued functor when a call begins |
| `tcp_server` | ServerIsSafe, RemovedBeforeDestroyed, RoundRobin, ClosedIsForgotten | no pool and a pool of 2 loops beside the base loop, 2 connections, one of them shut down from other threads, 1 call of start() |

Why the bounds are enough.  Poller: removal with a swap needs two registered
channels, reuse of an fd while the old object waits for its destruction needs
a third object.  EventLoop: one functor in the running batch, one pending and
one run at once, with two threads racing.  TimerQueue: two addresses and three
timers force reuse of an address, and the third wraps the sequence numbers;
three ticks let a repeated timer fire twice; a delay of -1 is in the past, and
invalid at time 0.  One functor waits in the queue at a time, among callbacks
that add and cancel as they like; several queued at once are covered by the
proofs.  Buffer: every
relation between free space, reserve and length occurs below 7 bytes.
AsyncLogging: 12 lines fill the four buffers of more than one drop and go on
afterwards.  TcpConnection: the loop thread and one more already race for
`state_` and the queue; two bytes let a write be cut, two messages let one
overtake the other; callbacks and close events are not bounded.  Connector:
two calls of connect() with stop() between them make the attempts of both
meet; a timer in the queue, one in the expired batch and the one `timerId_`
names are three ids; a delay of 2 doubled hits the limit of 3; connections,
failures and reconnections are not bounded.  EPoller: an fd can have a channel
that waits for its destruction beside its new one, next to two more.
TcpServer: two connections in two loops, or both in the base loop, and a loop
that is ahead of the others by a whole batch; one of them with its shutdowns
queued, which is about one connection at a time.  A second start() while the
first one's listen is queued, and two connections in one loop of a pool, are
covered by the proofs, which have no such bounds.

Two runs show that the code does not do what the repository says:

* `event_loop_wakeup`: wakeup() does not wake the loop.  It writes 4 bytes to
  the eventfd, which refuses them, and the wakeup channel was registered with
  kReadEvent, which is 0 (EventLoop.cpp:81, Channel.cpp:17, against
  materials/runInLoop.md:134).  Functors are executed nevertheless, after the
  poll timeout of 10 seconds, which is what FunctorIsExecuted relies on.
* `tcp_half_close`: shutdown() in another thread sets kDisconnecting before
  its earlier send()s, still queued, have been executed; handleWrite empties
  the buffer, sees kDisconnecting and closes the write side
  (TcpConnection.cpp:159, against materials/TcpConnection.md:157).

Fairness.  The loop thread keeps running, client code returns, and poll(2)
returns within kPollTimeMs: weak fairness of the loop's steps.  A thread inside
queueInLoop or quit finishes the call.  In EventLoopThread the steps that take
the mutex are strongly fair: both threads hold it for a bounded time, and
pthread mutexes do not starve a waiter for ever; a destructor that has begun
quit() goes on to the join.  In TimerQueue time passes and a handleRead that
has begun comes to its end; that the readable timerfd is dispatched is not
assumed, because at this commit it is not (Channel.cpp:17), and neither is that
queued functors run.  In AsyncLogging the wait returns after flushInterval_. In
TcpConnection only the loop is fair; poll(2) need not report anything. In
Connector the loop and a call that has begun are weakly fair, and poll(2)
reporting the Connector's channel, which asks for POLLOUT, is strongly fair: it
is level-triggered and called again and again.  That the retry timer fires is
not assumed, nor that a server answers: WantedIsPursued ends with a connection
or with the timer armed.  In TcpServer the thread of each loop is weakly fair;
it takes its steps, the events poll(2) has reported among them, one by one.
Nobody is obliged to call start, stop, quit, append or queueInLoop.

Deadlock is checked except where the system may stop: in `event_loop_thread`
after the destructor, in `async_logging` after stop() and the last line, and in
`tcp_connection`, `connector`, `tcp_server` and `epoller` after a fault, which
ends the process.

Type invariants are stated in every module.  They are proved where section 4
says TypeCorrect; the runs spend their time on the other properties.

## 4. Proofs

Every theorem holds for arbitrary constants that satisfy the named ASSUMEs.

* `PollerProofs`: TypeCorrect, TablesConsistent, AssertsNeverFail, NoDangling,
  OthersAreUndisturbed.
  TableConsistent is not inductive alone: that a removed channel leaves no
  trace needs distinct fds among the owned channels (DistinctFds); that
  ~Channel's assert holds needs that no read callback runs (NeverReads) and
  that eventHandling_ is set only for the channel being handled
  (HandlingIsCurrent); that active channels are alive needs the batch to be
  empty whenever functors run (LoopShape).  The action property follows from
  the invariant before and after a step: a slot that was there before belongs
  to the channel whose fd it carries, so wherever removeChannel moves it, it is
  found by the same channel (EntryFollows).
* `EventLoopProofs`: TypeCorrect, NeverSleepsUnrequested,
  ImplementsFunctorQueue.  The heart is WakeupPending: from the swap on, every
  functor pushed is announced, because the pusher is another thread or sees
  `callingPendingFunctors` true, which FlagIsAccurate ties to the loop's
  position; or it is the loop thread outside loop(), whose functors are the
  ones in `early`.  In the refinement the abstract queue is what is left of the
  batch followed by what is pending. The same module proves, about
  EventLoopThread taken as an instance `Thread` with variables of its own,
  ThreadTypeCorrect, StartLoopWaits, OnlyUsersEndTheLoopEarly (its invariants
  StartLoopReturnsLoop and OnlyUserQuitDangles) and NullOnlyIfNeverStarted.
  The strengthening says what the thread's position implies: the pointer is
  published exactly from the critical section on and the loop exists around
  that (Published), and the thread has left loop() only if a quit() has set
  `quit_`, a user's or the destructor's (LeftByQuit).
* `BufferProofs`: TypeCorrect, IndicesStayInRange, AssertsNeverFail,
  StepsOfByteQueue.  The strengthening is that the vector never becomes
  shorter than the reserve (ReserveFits), since retrieveAll puts both indices
  there.  Lemmas say what copying, resizing and makeSpace do to the content.
  The same module proves, about AsyncLogging taken as an instance `Log` with
  constants and variables of its own and with its ASSUME as a hypothesis,
  LoggerAssertsNeverFail and LoggerLosesNothingElse (its invariants
  AssertionsHold and NothingElseLost).  After an exchange at least as many
  buffers are there to be written as spare ones were given away
  (SparesAccounted), because the spare for nextBuffer_ is given only when
  nextBuffer_ was used, and then a full buffer had been queued
  (SpareUsedMeansQueued); erasing and resizing keep two.  For the lines, the
  file, the buffers being written, the queued ones and the current one are four
  pieces in a row (Pieces), each in the order of the line numbers and before
  the next; every step appends to the last piece, moves a piece one place
  forward, or cuts one in a written head and an erased tail.  That needs
  that the second buffer is empty while unused, and what FlattenSeq does to
  an appended sequence and to a prefix (FlattenAppend, FlattenPrefix).
  FlattenSeq is a recursive function; in place of an induction the lemmas take
  the least index at which their claim would fail (LeastNatural).
* `TcpConnectionProofs`: TypeCorrect, StreamIsKept, AssertsNeverFail,
  HalfCloseWaits, NeverDestroyedEarly, LoopUseNeverFails.  BytesInOrder is
  inductive by itself; the half-close needs that once something was sent, bytes
  in the buffer are announced by `writing` unless the channel was disabled
  (OutputAnnounced). That close is handled once needs the life of the channel:
  an added, watched channel belongs to a connection that is up and owned
  (AddedIsUp, OpenIsOwned), events that lead to handleClose are only there
  while it is watched (CloseEventIsOpen), and then no connectDestroyed is
  queued, while after handleClose exactly one can be (QueuesOK). The last two
  theorems need who keeps the connection alive: from the close to
  connectDestroyed, that functor is in a queue and holds a reference
  (ClosingIsQueued), events are dispatched only before the channel is removed
  (DispatchIsAdded), and as long as no other thread has called in, nothing is
  bound to a raw `this` and a half-closed connection neither has output nor
  takes any (LoopOnly); what remains is the peer's reset.
* `ConnectorProofs`: TypeCorrect, ConnectOnce, DestroyedBetweenAttempts,
  StopIsFinal.  ConnectOnceIsSafe rests on OneAttempt: after one connect() the
  attempt is in exactly one stage, about to be queued, queued, about to be
  retried, waiting for its timer, in flight, connected, or about to be made
  again, and each stage fixes `state_`, the channel and the one functor, timer
  or program counter that carries the attempt on; the timer that is armed is
  the one `timerId_` names, so that cancel finds it.  It needs that a removed
  channel is reset by a functor of the same iteration (ChannelShape) and that
  events and functors are handled in separate parts of it (LoopShape).  The
  destructor's theorem needs who is alive (Lifetime): a client that was
  destroyed idle leaves a Connector that is kept and stopped, or one that is
  gone and that no timer, functor or connection refers to (DestroyedIdle).
  The parts hold until the process fails; that is why IInv has them under
  `fault = "none"`, next to the two properties, which say which faults a client
  used that way never meets.  StopIsFinal needs only that after stop() both
  `connect_` flags stay false and no restart is under way (StoppedIsStopped).
* `TcpServerProofs`: TypeCorrect, ServerNeverFails, ChannelRemovedFirst,
  DealtEvenly.  A connection passes through the phases Fresh, Open, Closing,
  Leaving and Gone; each fixes its state, its channel, its place in
  `connections_` and the one functor about it that is still to be run,
  in which loop (Due), or that there is none (Idle).  The invariant is that
  every connection is in one of them while the server lives, and that events
  are reported only to an open connection in its own loop (ActiveIsOpen).
  shutdownInLoop functors are counted apart: as long as no shutdown() was
  overtaken, one that waits is in its connection's loop, stands before
  connectDestroyed, and is still in the queue after the close only while the
  iteration that handled the close has not swapped it yet (InTime).  Each
  step of any loop moves one connection to its next phase; lemmas say what a
  push, a swap of the vector and a call do to the functors of the others.
  RoundRobin comes from Dealt: the loops before `next_` have had exactly one
  connection more than the others.  It needs that each EventLoopThread of the
  pool has a loop of its own, which PoolsAssumption states.
* `TimerQueueProofs`: TypeCorrect, TheSetsAgree, OneOwner, CancelIsFinal,
  AlwaysArmed.  The invariants hold together only: cancelInLoop finds a Timer
  by address and sequence number, both of which are reused, so that finding the
  wrong one is excluded by Ownership, SetsAgree and the histories of the Timers
  (Births); that a canceled timer stays canceled needs that in the batch it is
  in `cancelingTimers_` (CanceledIsKnown), and that there is a batch only while
  handleRead works it off (BatchIsHandled).  That the earliest entry exists,
  which arming the timerfd relies on, is proved from the well-foundedness of
  the naturals (LeastNatural, FirstIsLeast).
* `EPollerProofs`: TypeCorrect, RegistrationNeverDisagrees,
  ImplementsInterestTable.  That a table entry belongs to one channel needs
  that no two owned channels share an fd (OneChannelPerFd); that the kernel
  watches nothing more than was asked, that a channel which is not kAdded, or
  was disabled, asks for nothing (SilentUnlessAdded).  In the refinement an fd
  asks for what its channel asks for, and every operation is an Ask on one fd,
  or a stutter.

Only model-checked: liveness (out of the prover's reach), which is
FunctorIsExecuted, QuitStopsLoop, StartLoopReturns, QuitInLoopFinishes,
DueTimerIsSignalled, LineIsWritten, StopReturns, ClosedIsDestroyed,
WantedIsPursued and ClosedIsForgotten; and the traces of the two
violations, which are counterexamples and not theorems.  Every invariant,
action property and refinement that a passing run checks is also a theorem.

## 5. Not modelled

Formatting (LogStream, Timestamp), address conversion, socket options, failing
system calls other than the ones above, thread names.  EventLoopThreadPool is
modelled from its started state: start() cannot be composed from this commit's
code, see below, and neither can newConnection's call through the threadPool_
that is never created (TcpServer.cpp:71).

Observations made while reading or modelling.  No run is about them; where a
module has the behaviour, its properties state the use that avoids it:

* Wiring.  The `setNewConnectionCallback` setters of Acceptor and Connector
  have empty bodies, nothing calls Connector's, TcpServer's threadPool_ is
  never created and its numThreads_ stays 0.  So neither a server nor a client
  gets as far as a TcpConnection: an Acceptor closes every socket it accepts
  (TcpServer.cpp:23 says that newConnection is called), a Connector throws at
  its first success.  EventLoopThreadPool::start uses a moved-from pointer.
* Timers.  kReadEvent is POLLIN/POLLPRI = 0 (Channel.cpp:17), so that poll(2)
  is not asked for the timerfd, and no timer that runAt, runAfter or runEvery
  takes is ever run (materials/Timer.md:98-102 says when they are).  A
  Connector whose first attempt is refused therefore never makes a second one.
* EventLoop.  A functor that the loop thread queues before loop() waits for the
  first poll to time out, 10 seconds (EventLoop.cpp:74).
* Buffer.  A new Buffer is not empty (Buffer.h:30 against
  materials/Buffer.md:83 and :183), and a connection sends these bytes first.
* TcpConnection.  Nothing ignores SIGPIPE, so a write after the peer's reset
  ends the process (TcpConnection.cpp:63, 148).  shutdown() and send() bind a
  raw `this` (TcpConnection.cpp:52, 92).
* Channel.  A channel whose last event was a read keeps eventHandling_ set
  (Channel.cpp:50), which ~Channel asserts against.
* EventLoopThread.  After `loop->quit()` as in test/test6.cc:23 the destructor
  calls quit() on an EventLoop that may be gone (OnlyUserQuitDangles: a quit()
  that begins too late needs such an earlier one).  Even without it the
  destructor's own quit() races with the loop thread, which may destroy the
  EventLoop before quit() calls wakeup() (EventLoop.cpp:121-123).  A quit()
  between startLoop's return and the `quit_ = false` at the start of loop() is
  lost, and the destructor joins for ever.
* Connector and TcpClient.  A second connect() while connected, connecting or
  waiting to retry fails an assert; restart sets `connect_` again, so a stop()
  in another thread between the test and the restart is lost
  (TcpClient.cpp:129-133); ~TcpClient in another thread or with an attempt in
  flight leaves dangling functors or a registered Channel, and drops what may
  be the last reference to a connection (TcpClient.cpp:38-58).
* TcpServer.  Without a pool a Channel is destroyed inside its own handleEvent
  (TcpServer.cpp:103) and a queued shutdownInLoop is left dangling; with one, a
  shutdown() that is overtaken by the peer's close is; ~TcpServer leaves the
  Acceptor's Channel registered.
* EPoller.  InterestTable counts an fd that is registered with no events as
  unwatched, although the kernel reports errors and hangups of it all the same.
  poll fills the active list only when epoll_wait fails (EPoll.cpp:50).
* Poller.  A channel that was disabled and is enabled again keeps its negative
  fd in `pollfds_` and is never polled again (Poll.cpp:67-72); with kReadEvent
  being 0 that includes the second enableWriting of a TcpConnection.  EPoller
  has no such case: WatchSpec is the promise Poller does not keep.
* localtime's static result is shared by logging threads (Logging.cpp:45);
  addTimer in another thread reads the sequence number of a Timer the loop may
  have deleted (TimerQueue.cpp:112); lines appended after the backend's last
  exchange are not written when the logger stops.

## 6. Plan

1. An abstract specification of a connection's life that TcpServer and
   TcpConnection both implement.
