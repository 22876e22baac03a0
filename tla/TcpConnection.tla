---------------------------- MODULE TcpConnection ----------------------------
(***************************************************************************)
(* One TcpConnection (net/TcpConnection.h/.cpp) owned by a TcpClient       *)
(* (net/TcpClient.cpp): created by newConnection, used by callbacks in the *)
(* loop thread and by other threads, closed by the peer, destroyed by a    *)
(* queued functor and by the last shared_ptr.                              *)
(*                                                                         *)
(* Which events poll(2) reports is Poller's subject.  Here an event may be *)
(* reported in every iteration until disableAll, a superset of what Poller *)
(* lets through: POLLIN is among them, so that handleRead is covered,      *)
(* although Channel.cpp does not request it.  handleError only logs, and   *)
(* POLLERR is left out.                                                    *)
(***************************************************************************)
EXTENDS PollEvents, Sequences

CONSTANTS Threads,      \* threads other than the loop's
          Messages,     \* each is sent at most once
          MsgLen,       \* bytes in a message
          Zero,         \* names the bytes a new Buffer starts with
          StaleLen      \* and how many: kInitialSize - kCheapPrepend

ASSUME SizesAssumption == MsgLen \in Nat \ {0} /\ StaleLen \in Nat
ASSUME ZeroAssumption == Zero \notin Messages

VARIABLES
    state_,
    outputBuffer_,      \* its readable bytes
    writing,            \* channel_->isWriting()
    watched,            \* poll(2) watches the fd: no disableAll so far
    channel,            \* in Poller's tables: "new", "added", "removed"
    client, connection_,\* the TcpClient exists; its pointer is set
    writeCompleteCallback_,     \* the user has set it
    holders,            \* threads that hold a TcpConnectionPtr
    tpc,                \* what each thread is in the middle of
    pc, ret,            \* the loop thread; where its client code returns to
    todo,               \* revents_ not yet handled
    pending, batch, next,   \* functors queued, being run, next to run
    wire, halfClosed,   \* bytes the kernel took; shutdownWrite was called
    reset,              \* the peer has closed its end and refuses data
    fault,              \* how the process failed
    accepted,           \* who sent which message: send() passed its test
    handed,             \* bytes given to sendInLoop, in order
    promised,           \* what the caller of shutdown() had sent before
    crossThread         \* another thread called send() or shutdown()

connVars == <<state_, outputBuffer_, writing, watched, channel>>
ownerVars == <<client, connection_, writeCompleteCallback_>>
loopVars == <<pc, ret, todo, batch, next>>
netVars == <<wire, halfClosed, reset>>
histVars == <<accepted, handed, promised, crossThread>>
vars == <<connVars, ownerVars, holders, tpc, loopVars, pending, netVars,
          fault, histVars>>

LoopThread == "loop thread"

States == {"kConnecting", "kConnected", "kDisconnecting", "kDisconnected"}

Bytes(m) == [i \in 1..MsgLen |-> <<m, i>>]
Stale == [i \in 1..StaleLen |-> <<Zero, i>>]
Byte == (Messages \cup {Zero}) \X Nat

SendFunctor(m) == [op |-> "sendInLoop", msg |-> m]
Functor(op) == [op |-> op, msg |-> Zero]
FunctorSet ==
    [op : {"sendInLoop", "shutdownInLoop", "connectDestroyed",
           "writeComplete"},
     msg : Messages \cup {Zero}]
ThreadOp ==
    [op : {"idle", "sendInLoop", "setState", "shutdownInLoop"},
     msg : Messages \cup {Zero}]

Faults == {"none", "assert", "removedChannel", "dangling", "sigpipe", "reset"}

TypeOK ==
    /\ state_ \in States
    /\ outputBuffer_ \in Seq(Byte)
    /\ writing \in BOOLEAN
    /\ watched \in BOOLEAN
    /\ channel \in {"new", "added", "removed"}
    /\ client \in BOOLEAN /\ connection_ \in BOOLEAN
    /\ writeCompleteCallback_ \in BOOLEAN
    /\ holders \subseteq Threads
    /\ tpc \in [Threads -> ThreadOp]
    /\ pc \in {"created", "establish", "poll", "dispatch", "callback",
               "functors"}
    /\ ret \in {"dispatch", "functors"}
    /\ todo \subseteq {POLLIN, POLLHUP, POLLOUT}
    /\ pending \in Seq(FunctorSet) /\ batch \in Seq(FunctorSet)
    /\ next \in Nat \ {0}
    /\ wire \in Seq(Byte)
    /\ halfClosed \in BOOLEAN /\ reset \in BOOLEAN
    /\ fault \in Faults
    /\ accepted \subseteq (Threads \cup {LoopThread}) \X Messages
    /\ handed \in Seq(Byte)
    /\ promised \subseteq Messages
    /\ crossThread \in BOOLEAN

\* The connected socket is at hand, and newConnection, which is what
\* Connector's newConnectionCallback_ is there for, is called next.
Init ==
    /\ state_ = "kConnecting"
    /\ outputBuffer_ = Stale
    /\ writing = FALSE /\ watched = TRUE /\ channel = "new"
    /\ client = TRUE /\ connection_ = FALSE
    /\ writeCompleteCallback_ \in BOOLEAN
    /\ holders = {}
    /\ tpc = [t \in Threads |-> Functor("idle")]
    /\ pc = "created" /\ ret = "dispatch" /\ todo = {}
    /\ pending = <<>> /\ batch = <<>> /\ next = 1
    /\ wire = <<>> /\ halfClosed = FALSE /\ reset = FALSE
    /\ fault = "none"
    /\ accepted = {} /\ handed = <<>> /\ promised = {}
    /\ crossThread = FALSE

----------------------------------------------------------------------------
(* The reference count.  connectDestroyed and writeComplete are bound to a *)
(* shared_ptr, which lives until the vector of functors is destroyed;      *)
(* sendInLoop and shutdownInLoop are bound to a raw this.                  *)

HoldsReference(functors) ==
    \E i \in DOMAIN functors :
        functors[i].op \in {"connectDestroyed", "writeComplete"}

Alive ==
    \/ connection_ \/ holders /= {}
    \/ HoldsReference(pending) \/ HoldsReference(batch)
    \/ pc \in {"created", "establish", "callback"}

queueInLoop(f) == pending' = Append(pending, f)

----------------------------------------------------------------------------
(* sendInLoop and shutdownInLoop.                                          *)

\* Mutant: write(2) is tried although earlier bytes wait in the buffer.
MayWriteDirectly_NoBufferTest == ~writing

\* The condition under which sendInLoop tries write(2) first.
MayWriteDirectly == ~writing /\ outputBuffer_ = <<>>

\* A write(2) after shutdownWrite raises SIGPIPE, which nothing here ignores;
\* after the peer's reset it fails or raises SIGPIPE ("reset").
WriteFaults ==
    IF halfClosed THEN {"sigpipe"} ELSE IF reset THEN {"none", "reset"}
                                        ELSE {"none"}

\* writeCompleteCallback_ is queued if it was set.
queueWriteComplete ==
    IF writeCompleteCallback_ THEN queueInLoop(Functor("writeComplete"))
                              ELSE UNCHANGED pending

\* write(2) took nwrote bytes of the message; 0 stands for an error too.
sendInLoop(m, nwrote) ==
    /\ nwrote > 0 => MayWriteDirectly /\ ~halfClosed /\ ~reset
    /\ wire' = wire \o SubSeq(Bytes(m), 1, nwrote)
    /\ handed' = handed \o Bytes(m)
    /\ outputBuffer_' = outputBuffer_ \o SubSeq(Bytes(m), nwrote + 1, MsgLen)
    /\ writing' = (writing \/ nwrote < MsgLen)
    /\ IF nwrote = MsgLen THEN queueWriteComplete ELSE UNCHANGED pending
    /\ \E f \in IF MayWriteDirectly THEN WriteFaults ELSE {"none"} :
          fault' = IF f = "none" /\ writing' /\ ~writing /\ channel /= "added"
                   THEN "removedChannel"    \* updateChannel's assert()
                   ELSE f
    /\ UNCHANGED <<state_, watched, channel, halfClosed, reset>>

\* Mutant: the write side is closed at once.
shutdownInLoop_Unconditional ==
    halfClosed' = TRUE

shutdownInLoop ==
    halfClosed' = (halfClosed \/ ~writing)

\* The messages the calling thread has sent so far, and whether m was sent.
SentBy(t) == {m \in Messages : <<t, m>> \in accepted}
IsSent(m) == \E t \in Threads \cup {LoopThread} : <<t, m>> \in accepted

----------------------------------------------------------------------------
(* Client code in the loop thread: in a callback of this connection, or in *)
(* another one that finds the connection through TcpClient::connection().  *)

InClientCode == pc = "callback" \/ (pc = "poll" /\ connection_)

\* Mutant: send does not test state_.
LoopSend_NoStateTest(m, nwrote) ==
    /\ InClientCode
    /\ ~IsSent(m)
    /\ accepted' = accepted \cup {<<LoopThread, m>>}
    /\ sendInLoop(m, nwrote)
    /\ UNCHANGED <<ownerVars, holders, tpc, loopVars, promised, crossThread>>

\* TcpConnection::send in the loop thread.
LoopSend(m, nwrote) ==
    /\ InClientCode
    /\ state_ = "kConnected" /\ ~IsSent(m)
    /\ accepted' = accepted \cup {<<LoopThread, m>>}
    /\ sendInLoop(m, nwrote)
    /\ UNCHANGED <<ownerVars, holders, tpc, loopVars, promised, crossThread>>

\* TcpConnection::shutdown; TcpClient::disconnect calls it too.
LoopShutdown ==
    /\ InClientCode
    /\ state_ = "kConnected"
    /\ state_' = "kDisconnecting"
    /\ promised' = SentBy(LoopThread)
    /\ shutdownInLoop
    /\ UNCHANGED <<outputBuffer_, writing, watched, channel, ownerVars,
                   holders, tpc, loopVars, pending, wire, reset, fault,
                   accepted, handed, crossThread>>

\* ~TcpClient with a connection: the close callback becomes
\* detail::removeConnection, and connection_ goes away with the client.
ClientDestroyed ==
    /\ InClientCode
    /\ client /\ connection_
    /\ client' = FALSE
    /\ connection_' = FALSE
    /\ UNCHANGED <<connVars, writeCompleteCallback_, holders, tpc, loopVars,
                   pending, netVars, fault, histVars>>

CallbackReturns ==
    /\ pc = "callback"
    /\ pc' = ret
    /\ UNCHANGED <<connVars, ownerVars, holders, tpc, ret, todo, batch, next,
                   pending, netVars, fault, histVars>>

----------------------------------------------------------------------------
(* Other threads.                                                          *)

threadUnchanged == UNCHANGED <<outputBuffer_, writing, watched, channel,
                               ownerVars, loopVars, netVars, fault, handed>>

\* TcpClient::connection().
GetConnection(t) ==
    /\ connection_ /\ t \notin holders
    /\ holders' = holders \cup {t}
    /\ UNCHANGED <<state_, tpc, pending, accepted, promised, crossThread>>
    /\ threadUnchanged

DropConnection(t) ==
    /\ t \in holders /\ tpc[t].op = "idle"
    /\ holders' = holders \ {t}
    /\ UNCHANGED <<state_, tpc, pending, accepted, promised, crossThread>>
    /\ threadUnchanged

\* send(): the test of state_ ...
Send(t, m) ==
    /\ t \in holders /\ tpc[t].op = "idle"
    /\ state_ = "kConnected" /\ ~IsSent(m)
    /\ accepted' = accepted \cup {<<t, m>>}
    /\ crossThread' = TRUE
    /\ tpc' = [tpc EXCEPT ![t] = SendFunctor(m)]
    /\ UNCHANGED <<state_, holders, pending, promised>>
    /\ threadUnchanged

\* shutdown(): the test of state_, ...
Shutdown(t) ==
    /\ t \in holders /\ tpc[t].op = "idle"
    /\ state_ = "kConnected"
    /\ crossThread' = TRUE
    /\ tpc' = [tpc EXCEPT ![t] = Functor("setState")]
    /\ UNCHANGED <<state_, holders, pending, accepted, promised>>
    /\ threadUnchanged

\* ... the assignment ...
ShutdownSetState(t) ==
    /\ tpc[t].op = "setState"
    /\ state_' = "kDisconnecting"
    /\ promised' = IF state_ = "kConnected" THEN SentBy(t) ELSE promised
    /\ tpc' = [tpc EXCEPT ![t] = Functor("shutdownInLoop")]
    /\ UNCHANGED <<holders, pending, accepted, crossThread>>
    /\ threadUnchanged

\* ... and, for both, queueInLoop.
ThreadQueue(t) ==
    /\ tpc[t].op \in {"sendInLoop", "shutdownInLoop"}
    /\ queueInLoop(tpc[t])
    /\ tpc' = [tpc EXCEPT ![t] = Functor("idle")]
    /\ UNCHANGED <<state_, holders, accepted, promised, crossThread>>
    /\ threadUnchanged

----------------------------------------------------------------------------
(* TcpClient::newConnection, in a callback of Connector's channel.         *)

newConnection ==
    /\ pc = "created"
    /\ connection_' = TRUE
    /\ pc' = "establish"
    /\ UNCHANGED <<connVars, client, writeCompleteCallback_, holders, tpc, ret,
                   todo, batch, next, pending, netVars, fault, histVars>>

connectEstablished ==
    /\ pc = "establish"
    /\ fault' = IF state_ = "kConnecting" THEN fault ELSE "assert"
    /\ state_' = "kConnected"
    /\ channel' = "added"
    /\ pc' = "callback" /\ ret' = "dispatch"
    /\ UNCHANGED <<outputBuffer_, writing, watched, ownerVars, holders, tpc,
                   todo, batch, next, pending, netVars, histVars>>

----------------------------------------------------------------------------
(* The channel's events.                                                   *)

\* poll(2) reports revents for the channel, whose object may be gone.
Poll(revents) ==
    /\ pc = "poll"
    /\ channel = "added" /\ watched
    /\ POLLOUT \in revents => writing
    /\ fault' = IF Alive THEN fault ELSE "dangling"
    /\ todo' = revents
    /\ pc' = "dispatch"
    /\ UNCHANGED <<connVars, ownerVars, holders, tpc, ret, batch, next,
                   pending, netVars, histVars>>

\* Mutant: the functor that destroys the connection is not queued.
removeConnection_NotQueued ==
    /\ connection_' = FALSE
    /\ UNCHANGED pending

\* TcpClient::removeConnection, or detail::removeConnection when the client
\* is gone.  Connector::restart is not part of this module.
removeConnection ==
    /\ connection_' = FALSE
    /\ queueInLoop(Functor("connectDestroyed"))

\* The assert()s of handleClose and TcpClient::removeConnection.
CloseAsserts ==
    state_ \in {"kConnected", "kDisconnecting"} /\ (client => connection_)

\* Mutant: the state is changed here already, not in connectDestroyed.
handleClose_SetsState ==
    /\ writing' = FALSE /\ watched' = FALSE
    /\ fault' = IF CloseAsserts THEN fault ELSE "assert"
    /\ removeConnection
    /\ state_' = "kDisconnected"
    /\ UNCHANGED <<outputBuffer_, channel>>

handleClose ==
    /\ writing' = FALSE /\ watched' = FALSE     \* disableAll
    /\ fault' = IF CloseAsserts THEN fault ELSE "assert"
    /\ removeConnection
    /\ UNCHANGED <<state_, outputBuffer_, channel>>

\* closeCallback_ of the channel: POLLHUP without POLLIN.
HandleClose ==
    /\ pc = "dispatch" /\ POLLHUP \in todo /\ POLLIN \notin todo
    /\ handleClose
    /\ todo' = todo \ {POLLHUP}
    /\ UNCHANGED <<client, writeCompleteCallback_, holders, tpc, pc, ret, batch,
                   next, netVars, histVars>>

\* handleRead with readfd > 0: the message callback, and no more events.
HandleReadMessage ==
    /\ pc = "dispatch" /\ POLLIN \in todo
    /\ todo' = {} /\ ret' = "dispatch"
    /\ pc' = "callback"
    /\ UNCHANGED <<connVars, ownerVars, holders, tpc, batch, next, pending,
                   netVars, fault, histVars>>

\* handleRead with readfd = 0; a failing readfd has no effect.
HandleReadClose ==
    /\ pc = "dispatch" /\ POLLIN \in todo
    /\ handleClose
    /\ todo' = {}
    /\ UNCHANGED <<client, writeCompleteCallback_, holders, tpc, pc, ret, batch,
                   next, netVars, histVars>>

\* write(2) takes n bytes of the output buffer; 0 stands for an error too.
handleWrite(n) ==
    /\ pc = "dispatch" /\ todo = {POLLOUT}
    /\ todo' = {}
    /\ n > 0 => writing /\ ~halfClosed /\ ~reset
    /\ n <= Len(outputBuffer_)
    /\ wire' = wire \o SubSeq(outputBuffer_, 1, n)
    /\ outputBuffer_' = SubSeq(outputBuffer_, n + 1, Len(outputBuffer_))
    /\ fault' \in IF writing THEN WriteFaults ELSE {"none"}
    /\ IF n > 0 /\ n = Len(outputBuffer_)
       THEN /\ writing' = FALSE
            /\ queueWriteComplete
            /\ halfClosed' = (halfClosed \/ state_ = "kDisconnecting")
       ELSE UNCHANGED <<writing, pending, halfClosed>>
    /\ UNCHANGED <<state_, watched, channel, ownerVars, holders, tpc, pc, ret,
                   batch, next, reset, histVars>>

----------------------------------------------------------------------------
(* dePendingFunctors.                                                      *)

\* After the channels of the iteration: swap.
Swap ==
    /\ pc = "poll" \/ (pc = "dispatch" /\ todo = {})
    /\ pc' = "functors"
    /\ batch' = pending /\ pending' = <<>>
    /\ next' = 1
    /\ UNCHANGED <<connVars, ownerVars, holders, tpc, ret, todo, netVars,
                   fault, histVars>>

\* Call the next functor, which is an op.
RunFunctor(op) ==
    /\ pc = "functors"
    /\ next <= Len(batch) /\ batch[next].op = op
    /\ next' = next + 1

RunSend(nwrote) ==
    /\ RunFunctor("sendInLoop")
    /\ Alive
    /\ sendInLoop(batch[next].msg, nwrote)
    /\ UNCHANGED <<ownerVars, holders, tpc, pc, ret, todo, batch, accepted,
                   promised, crossThread>>

RunShutdown ==
    /\ RunFunctor("shutdownInLoop")
    /\ Alive
    /\ shutdownInLoop
    /\ UNCHANGED <<connVars, ownerVars, holders, tpc, pc, ret, todo, batch,
                   pending, wire, reset, fault, histVars>>

\* The functor's this points to a connection that is gone.
RunDangling ==
    /\ \E op \in {"sendInLoop", "shutdownInLoop"} : RunFunctor(op)
    /\ ~Alive
    /\ fault' = "dangling"
    /\ UNCHANGED <<connVars, ownerVars, holders, tpc, pc, ret, todo, batch,
                   pending, netVars, histVars>>

\* connectDestroyed, with the asserts of Poller::removeChannel.  The user's
\* callback sees a connection that is not connected: send does nothing.
connectDestroyed ==
    /\ RunFunctor("connectDestroyed")
    /\ fault' = IF state_ \in {"kConnected", "kDisconnecting"}
                   /\ channel = "added"
                THEN fault ELSE "assert"
    /\ state_' = "kDisconnected"
    /\ writing' = FALSE /\ watched' = FALSE     \* disableAll
    /\ channel' = "removed"
    /\ UNCHANGED <<outputBuffer_, ownerVars, holders, tpc, pc, ret, todo,
                   batch, pending, netVars, histVars>>

RunWriteComplete ==
    /\ RunFunctor("writeComplete")
    /\ pc' = "callback" /\ ret' = "functors"
    /\ UNCHANGED <<connVars, ownerVars, holders, tpc, todo, batch, pending,
                   netVars, fault, histVars>>

\* The vector, and the references in it, are destroyed.
FunctorsDone ==
    /\ pc = "functors" /\ next > Len(batch)
    /\ batch' = <<>>
    /\ pc' = "poll"
    /\ UNCHANGED <<connVars, ownerVars, holders, tpc, ret, todo, next,
                   pending, netVars, fault, histVars>>

----------------------------------------------------------------------------

\* The peer's end is closed, and its kernel answers data with RST.
PeerResets ==
    /\ ~reset
    /\ reset' = TRUE
    /\ UNCHANGED <<connVars, ownerVars, holders, tpc, loopVars, pending, wire,
                   halfClosed, fault, histVars>>

LoopStep ==
    \/ newConnection
    \/ connectEstablished
    \/ CallbackReturns
    \/ \E revents \in SUBSET {POLLIN, POLLHUP, POLLOUT} :
           revents /= {} /\ Poll(revents)
    \/ HandleClose
    \/ HandleReadMessage
    \/ HandleReadClose
    \/ \E n \in 0..Len(outputBuffer_) : handleWrite(n)
    \/ Swap
    \/ \E nwrote \in 0..MsgLen : RunSend(nwrote)
    \/ RunShutdown
    \/ RunDangling
    \/ connectDestroyed
    \/ RunWriteComplete
    \/ FunctorsDone

LoopClient ==
    \/ \E m \in Messages, nwrote \in 0..MsgLen : LoopSend(m, nwrote)
    \/ LoopShutdown
    \/ ClientDestroyed

ThreadStep(t) ==
    \/ GetConnection(t)
    \/ DropConnection(t)
    \/ \E m \in Messages : Send(t, m)
    \/ Shutdown(t)
    \/ ShutdownSetState(t)
    \/ ThreadQueue(t)

\* After a fault the process is gone, or anything may happen.
Next ==
    /\ fault = "none"
    /\ LoopStep \/ LoopClient \/ PeerResets \/ \E t \in Threads : ThreadStep(t)

Spec == Init /\ [][Next]_vars

\* Callbacks return and the loop goes on.
FairSpec == Spec /\ WF_vars(fault = "none" /\ LoopStep)

----------------------------------------------------------------------------

\* What the kernel took followed by what is still in outputBuffer_ is what
\* sendInLoop was given, in that order, however writes were cut: no byte is
\* lost, repeated or overtaken.  The bytes a new Buffer starts with come
\* first, since Buffer's constructor makes them readable.
BytesInOrder == wire \o outputBuffer_ = Stale \o handed

\* The write side is closed only when everything sendInLoop was given has
\* been written, unless the peer has closed the connection (handleClose):
\* shutdownInLoop leaves it to handleWrite while output is pending.
HalfCloseAfterOutput ==
    [][~halfClosed /\ halfClosed' /\ watched /\ handed /= <<>>
       => outputBuffer_' = <<>>]_vars

\* The assert()s on state_ in connectEstablished, handleClose and
\* connectDestroyed, on connection_ in TcpClient::removeConnection and on the
\* channel in Poller::removeChannel hold, whatever threads call and however
\* events and functors are ordered: in particular close is handled once.
AssertionsHold == fault /= "assert"

\* While the TcpClient exists, its connection dies, by whichever shared_ptr
\* is the last, only after connectDestroyed has taken the Channel out of
\* Poller, and never inside handleEvent.
DestroyedAfterRemoval ==
    client /\ ~Alive => channel = "removed" /\ pc /= "dispatch"

\* A client that uses the connection only in the loop thread and keeps its
\* TcpClient never meets a stale this or a removed channel, and never writes
\* after its own half-close.  What is left is SIGPIPE by the peer's reset.
LoopUseIsSafe == client /\ ~crossThread => fault \in {"none", "reset"}

\* Once the peer's close has been handled, connectDestroyed is executed.
ClosedIsDestroyed == ~watched ~> (channel = "removed" \/ fault /= "none")

\* Whatever a thread sent before its shutdown() is written before the write
\* side is closed: both can be called from other threads, and queue their
\* work in that order.
SentBeforeShutdownIsWritten ==
    [][~halfClosed /\ halfClosed' /\ watched
       => \A m \in promised' : \E i \in DOMAIN wire' : wire'[i] = <<m, MsgLen>>]_vars

============================================================================
