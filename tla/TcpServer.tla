----------------------------- MODULE TcpServer -----------------------------
(***************************************************************************)
(* TcpServer and Acceptor (net/TcpServer.h/.cpp, net/Acceptor.h/.cpp) with *)
(* EventLoopThreadPool (EventLoopThreadPool.h/.cpp): the base loop accepts *)
(* connections, gives each one to a loop of the pool in turn, and forgets  *)
(* it when it closes; several loop threads and the users of connections    *)
(* run concurrently.  What a connection sends is TcpConnection's subject.  *)
(*                                                                         *)
(* At this commit Acceptor::setNewConnectionCallback stores nothing,       *)
(* threadPool_ is never created and Channel.cpp does not ask for POLLIN,   *)
(* so that newConnection is not reached.  Init allows that and the wiring  *)
(* newConnection is written for: the callback set, and a started pool of   *)
(* any of the given sizes; POLLIN is then dispatched, to the Acceptor and  *)
(* to the connections.  EventLoopThreadPool::start is not translated.      *)
(***************************************************************************)
EXTENDS Integers, Sequences, FiniteSets

CONSTANTS
    Base,           \* loop_, the EventLoop of the server
    Pools,          \* the possible loops_ of the pool
    Shared,         \* connections that threads other than theirs shut down
    MaxConns,       \* bound: connections accepted
    MaxStarts       \* bound: calls of start()

Elements(s) == {s[i] : i \in DOMAIN s}
PoolLoops == UNION {Elements(p) : p \in Pools}
Loops == {Base} \cup PoolLoops
Conns == 1 .. MaxConns      \* a connection's name ends in its number

\* Each EventLoopThread has a loop of its own.
ASSUME PoolsAssumption ==
    /\ \A p \in Pools : p \in Seq(PoolLoops)
    /\ \A p \in Pools : \A i, j \in DOMAIN p : p[i] = p[j] => i = j
    /\ Base \notin PoolLoops
ASSUME SharedAssumption == Shared \subseteq Conns
ASSUME BoundsAssumption == MaxConns \in Nat /\ MaxStarts \in Nat

VARIABLES
    server,                 \* the TcpServer and its Acceptor exist
    connections_, nextConnId_,  \* TcpServer
    newConnectionCallback_, listening_,     \* Acceptor
    loops_, next_,          \* EventLoopThreadPool
    state_, channel, ioLoop,    \* of each TcpConnection
    handling,               \* connections whose Channel has eventHandling_ set
    held,                   \* connections a user holds a TcpConnectionPtr to
    upc,                    \* what the user is in the middle of
    pending, batch, next,   \* of each loop: functors queued, being run, next
    pc, active,             \* of each loop: its phase, the events to handle
    starts,                 \* calls of start() so far
    late,                   \* a shutdown() was overtaken by the peer's close
    fault                   \* how the process failed

serverVars == <<server, connections_, nextConnId_, newConnectionCallback_>>
poolVars == <<loops_, next_>>
connVars == <<state_, channel, ioLoop, handling>>
userVars == <<held, upc, late>>
loopVars == <<pending, batch, next, pc, active>>
vars == <<serverVars, listening_, poolVars, connVars, userVars, loopVars,
          starts, fault>>

\* listen is bound to the Acceptor, removeConnectionInLoop to the server and
\* a connection, the others to a connection: shutdownInLoop to a raw this.
Functor(op, c) == [op |-> op, conn |-> c]
Functors ==
    [op : {"listen", "connectEstablished", "removeConnectionInLoop",
           "connectDestroyed", "shutdownInLoop"},
     conn : Conns \cup {0}]

TypeOK ==
    /\ server \in BOOLEAN /\ listening_ \in BOOLEAN
    /\ connections_ \subseteq Conns /\ nextConnId_ \in 1 .. MaxConns + 1
    /\ newConnectionCallback_ \in {"empty", "newConnection"}
    /\ loops_ \in Pools /\ next_ \in Nat
    /\ state_ \in [Conns -> {"none", "kConnecting", "kConnected",
                             "kDisconnecting", "kDisconnected"}]
    /\ channel \in [Conns -> {"new", "added", "disabled", "removed"}]
    /\ ioLoop \in [Conns -> Loops]
    /\ handling \subseteq Conns /\ held \subseteq Conns
    /\ upc \in [Conns -> {"idle", "setState", "runInLoop"}]
    /\ late \in BOOLEAN
    /\ pending \in [Loops -> Seq(Functors)] /\ batch \in [Loops -> Seq(Functors)]
    /\ next \in [Loops -> Nat]
    /\ pc \in [Loops -> {"poll", "dispatch", "functors"}]
    /\ active \in [Loops -> SUBSET (Conns \cup {0})]
    /\ starts \in 0 .. MaxStarts
    /\ fault \in {"none", "assert", "handling", "channel", "dangling"}

AcceptorCreated ==
    /\ newConnectionCallback_ \in {"empty", "newConnection"}
    /\ listening_ = FALSE

PoolStarted == loops_ \in Pools /\ next_ = 0

Init ==
    /\ server = TRUE /\ connections_ = {} /\ nextConnId_ = 1
    /\ AcceptorCreated /\ PoolStarted
    /\ state_ = [c \in Conns |-> "none"]
    /\ channel = [c \in Conns |-> "new"]
    /\ ioLoop = [c \in Conns |-> Base]
    /\ handling = {} /\ held = {}
    /\ upc = [c \in Conns |-> "idle"] /\ late = FALSE
    /\ pending = [l \in Loops |-> <<>>] /\ batch = [l \in Loops |-> <<>>]
    /\ next = [l \in Loops |-> 1]
    /\ pc = [l \in Loops |-> IF l = Base THEN "functors" ELSE "poll"]
    /\ active = [l \in Loops |-> {}]
    /\ starts = 0
    /\ fault = "none"

----------------------------------------------------------------------------
(* A TcpConnection lives as long as somebody holds a pointer to it; the    *)
(* functors do until their vector is destroyed.                            *)

HoldsReference(functors, c) ==
    \E i \in DOMAIN functors :
        functors[i].conn = c /\ functors[i].op /= "shutdownInLoop"

Alive(c) ==
    \/ c \in connections_ \/ c \in held
    \/ \E l \in Loops : HoldsReference(pending[l], c) \/ HoldsReference(batch[l], c)

Created == 1 .. nextConnId_ - 1

\* The assert() of ~Channel, in a step that drops pointers.
ChannelsDestroyed ==
    fault' = IF \E c \in handling : Alive(c) /\ ~Alive(c)'
             THEN "handling" ELSE fault

queueInLoop(l, f) == pending' = [pending EXCEPT ![l] = Append(@, f)]

----------------------------------------------------------------------------
(* The owner of the server.                                                *)

\* start(): in the base loop's thread listen() is called at once, in another
\* one it is queued.
startInLoop ==
    /\ server /\ starts < MaxStarts /\ pc[Base] /= "poll"
    /\ starts' = starts + 1
    /\ listening_' = TRUE
    /\ UNCHANGED <<serverVars, poolVars, connVars, userVars, loopVars, fault>>

start ==
    /\ server /\ starts < MaxStarts
    /\ starts' = starts + 1
    /\ IF listening_ THEN UNCHANGED pending
                     ELSE queueInLoop(Base, Functor("listen", 0))
    /\ UNCHANGED <<serverVars, listening_, poolVars, connVars, userVars, batch,
                   next, pc, active, fault>>

\* ~TcpServer: nothing removes the Acceptor's channel from the Poller.
Destroyed ==
    /\ server /\ pc[Base] /= "poll"
    /\ server' = FALSE
    /\ connections_' = {}
    /\ fault' = IF listening_ THEN "channel" ELSE fault
    /\ UNCHANGED <<nextConnId_, newConnectionCallback_, listening_, poolVars,
                   connVars, userVars, loopVars, starts>>

----------------------------------------------------------------------------
(* Operations of TcpConnection and of the pool.                            *)

\* The connection callback of connectEstablished may keep a pointer.
connectEstablished(c, keep) ==
    /\ fault' = IF state_[c] = "kConnecting" THEN fault ELSE "assert"
    /\ state_' = [state_ EXCEPT ![c] = "kConnected"]
    /\ channel' = [channel EXCEPT ![c] = "added"]
    /\ held' = IF keep THEN held \cup {c} ELSE held

\* Mutant: next_ is reset one step too late.
AfterNext_Late(n, size) == IF n + 1 > size THEN 0 ELSE n + 1

AfterNext(n, size) == IF n + 1 >= size THEN 0 ELSE n + 1

\* EventLoopThreadPool::getNextLoop: the loop, and the new next_.
NextLoop == IF loops_ = <<>> THEN Base ELSE loops_[next_ + 1]

----------------------------------------------------------------------------
(* The Acceptor.                                                           *)

\* The acceptor's channel is number 0 of its loop.
HandlesEvent(l, e) ==
    /\ pc[l] = "dispatch" /\ e \in active[l]
    /\ active' = [active EXCEPT ![l] = @ \ {e}]

\* sockets::accept returns a socket, or -1 whatever the error is.
AcceptResults == {"connfd", "error"}

\* handleRead when accept(2) fails, or newConnectionCallback_ is empty and the
\* socket is closed at once.
HandleReadNothing(result) ==
    /\ HandlesEvent(Base, 0)
    /\ result = "error" \/ newConnectionCallback_ = "empty"
    /\ UNCHANGED <<serverVars, listening_, poolVars, connVars, userVars, pending,
                   batch, next, pc, starts, fault>>

\* handleRead with TcpServer::newConnection.
newConnection(result, keep) ==
    /\ HandlesEvent(Base, 0)
    /\ result = "connfd" /\ newConnectionCallback_ = "newConnection"
    /\ nextConnId_ <= MaxConns
    /\ nextConnId_' = nextConnId_ + 1
    /\ connections_' = connections_ \cup {nextConnId_}
    /\ ioLoop' = [ioLoop EXCEPT ![nextConnId_] = NextLoop]
    /\ next_' = IF loops_ = <<>> THEN next_ ELSE AfterNext(next_, Len(loops_))
    /\ \/ /\ NextLoop = Base
          /\ fault' = fault
          /\ state_' = [state_ EXCEPT ![nextConnId_] = "kConnected"]
          /\ channel' = [channel EXCEPT ![nextConnId_] = "added"]
          /\ held' = IF keep THEN held \cup {nextConnId_} ELSE held
          /\ UNCHANGED pending
       \/ /\ NextLoop /= Base
          /\ state_' = [state_ EXCEPT ![nextConnId_] = "kConnecting"]
          /\ queueInLoop(NextLoop, Functor("connectEstablished", nextConnId_))
          /\ UNCHANGED <<channel, held, fault>>
    /\ UNCHANGED <<server, newConnectionCallback_, listening_, loops_, handling,
                   upc, late, batch, next, pc, starts>>

----------------------------------------------------------------------------
(* An event of a connection, through Channel::handleEvent, which sets      *)
(* eventHandling_ and clears it at its end; but its branch for POLLIN      *)
(* returns before that.                                                    *)

Established(c) == state_[c] \in {"kConnected", "kDisconnecting"}

\* A close is seen as a POLLHUP, or as a read of no bytes.
CloseEvents == {"POLLHUP", "POLLIN"}

StillHandling(c, event) ==
    IF event = "POLLIN" THEN handling \cup {c} ELSE handling \ {c}

\* Mutant: the channel is not disabled.
HandleClose_StaysEnabled(c, event) ==
    /\ ioLoop[c] /= Base
    /\ HandlesEvent(ioLoop[c], c)
    /\ handling' = StillHandling(c, event)
    /\ queueInLoop(Base, Functor("removeConnectionInLoop", c))
    /\ UNCHANGED <<serverVars, listening_, poolVars, state_, channel, ioLoop,
                   userVars, batch, next, pc, starts, fault>>

\* handleClose and TcpServer::removeConnection in a loop of the pool.
HandleClose(c, event) ==
    /\ ioLoop[c] /= Base
    /\ HandlesEvent(ioLoop[c], c)
    /\ fault' = IF ~Established(c) THEN "assert"
                ELSE IF ~server THEN "dangling" ELSE fault
    /\ channel' = [channel EXCEPT ![c] = "disabled"]
    /\ handling' = StillHandling(c, event)
    /\ queueInLoop(Base, Functor("removeConnectionInLoop", c))
    /\ UNCHANGED <<serverVars, listening_, poolVars, state_, ioLoop, userVars,
                   batch, next, pc, starts>>

\* The same in the base loop, where removeConnectionInLoop and
\* connectDestroyed are called at once.  When handleClose returns its
\* shared_ptr is gone: if it was the last one, the Channel is destroyed
\* inside its own handleEvent.
HandleCloseInBase(c, event) ==
    /\ ioLoop[c] = Base
    /\ HandlesEvent(Base, c)
    /\ fault' = IF ~Established(c) \/ c \notin connections_ THEN "assert"
                ELSE IF c \notin held THEN "handling" ELSE fault
    /\ connections_' = connections_ \ {c}
    /\ state_' = [state_ EXCEPT ![c] = "kDisconnected"]
    /\ channel' = [channel EXCEPT ![c] = "removed"]
    /\ handling' = StillHandling(c, event)
    /\ UNCHANGED <<server, nextConnId_, newConnectionCallback_, listening_,
                   poolVars, ioLoop, userVars, pending, batch, next, pc, starts>>

\* handleRead when bytes came, or the read failed: the message callback may
\* keep a pointer.
HandleRead(c, keep) ==
    /\ HandlesEvent(ioLoop[c], c)
    /\ handling' = StillHandling(c, "POLLIN")
    /\ held' = IF keep THEN held \cup {c} ELSE held
    /\ UNCHANGED <<serverVars, listening_, poolVars, state_, channel, ioLoop, upc,
                   late, pending, batch, next, pc, starts, fault>>

\* handleError or handleWrite.
HandleOther(c) ==
    /\ HandlesEvent(ioLoop[c], c)
    /\ handling' = StillHandling(c, "POLLOUT")
    /\ UNCHANGED <<serverVars, listening_, poolVars, state_, channel, ioLoop,
                   userVars, pending, batch, next, pc, starts, fault>>

----------------------------------------------------------------------------
(* EventLoop::loop of each thread.                                         *)

\* What poll(2) may find: a connection to accept, events of connections.
Ready(l) ==
    {c \in Created : ioLoop[c] = l /\ channel[c] = "added"}
        \cup {e \in {0} : l = Base /\ listening_}

Poll(l) ==
    /\ pc[l] = "poll"
    /\ \E found \in SUBSET Ready(l) :
          /\ found /= {} \/ pending[l] /= <<>>
          /\ active' = [active EXCEPT ![l] = found]
    /\ pc' = [pc EXCEPT ![l] = "dispatch"]
    /\ UNCHANGED <<serverVars, listening_, poolVars, connVars, userVars, pending,
                   batch, next, starts, fault>>

Swap(l) ==
    /\ pc[l] = "dispatch" /\ active[l] = {}
    /\ pc' = [pc EXCEPT ![l] = "functors"]
    /\ batch' = [batch EXCEPT ![l] = pending[l]]
    /\ pending' = [pending EXCEPT ![l] = <<>>]
    /\ UNCHANGED <<serverVars, listening_, poolVars, connVars, userVars, next,
                   active, starts, fault>>

\* The vector of functors is destroyed.
FunctorsDone(l) ==
    /\ pc[l] = "functors" /\ next[l] > Len(batch[l])
    /\ pc' = [pc EXCEPT ![l] = "poll"]
    /\ batch' = [batch EXCEPT ![l] = <<>>]
    /\ next' = [next EXCEPT ![l] = 1]
    /\ UNCHANGED <<serverVars, listening_, poolVars, connVars, userVars, pending,
                   active, starts>>
    /\ ChannelsDestroyed

\* Call the next functor of l, which is op on c.
RunFunctor(l, op, c) ==
    /\ pc[l] = "functors" /\ next[l] <= Len(batch[l])
    /\ batch[l][next[l]] = Functor(op, c)
    /\ next' = [next EXCEPT ![l] = @ + 1]

listen ==
    /\ RunFunctor(Base, "listen", 0)
    /\ listening_' = TRUE
    /\ fault' = IF server THEN fault ELSE "dangling"
    /\ UNCHANGED <<serverVars, poolVars, connVars, userVars, pending, batch, pc,
                   active, starts>>

RunEstablished(l, c, keep) ==
    /\ RunFunctor(l, "connectEstablished", c)
    /\ connectEstablished(c, keep)
    /\ UNCHANGED <<serverVars, listening_, poolVars, ioLoop, handling, upc, late,
                   pending, batch, pc, active, starts>>

\* Mutant: the connection is not handed back to its loop.
removeConnectionInLoop_Forgets(c) ==
    /\ RunFunctor(Base, "removeConnectionInLoop", c)
    /\ connections_' = connections_ \ {c}
    /\ UNCHANGED <<server, nextConnId_, newConnectionCallback_, listening_,
                   poolVars, connVars, userVars, pending, batch, pc, active,
                   starts, fault>>

\* Mutant: the connection is not erased.
removeConnectionInLoop_NoErase(c) ==
    /\ RunFunctor(Base, "removeConnectionInLoop", c)
    /\ queueInLoop(ioLoop[c], Functor("connectDestroyed", c))
    /\ UNCHANGED <<serverVars, listening_, poolVars, connVars, userVars, batch, pc,
                   active, starts, fault>>

removeConnectionInLoop(c) ==
    /\ RunFunctor(Base, "removeConnectionInLoop", c)
    /\ fault' = IF ~server THEN "dangling"
                ELSE IF c \notin connections_ THEN "assert" ELSE fault
    /\ connections_' = connections_ \ {c}
    /\ queueInLoop(ioLoop[c], Functor("connectDestroyed", c))
    /\ UNCHANGED <<server, nextConnId_, newConnectionCallback_, listening_,
                   poolVars, connVars, userVars, batch, pc, active, starts>>

connectDestroyed(l, c) ==
    /\ RunFunctor(l, "connectDestroyed", c)
    /\ fault' = IF Established(c) THEN fault ELSE "assert"
    /\ state_' = [state_ EXCEPT ![c] = "kDisconnected"]
    /\ channel' = [channel EXCEPT ![c] = "removed"]
    /\ UNCHANGED <<serverVars, listening_, poolVars, ioLoop, handling, userVars,
                   pending, batch, pc, active, starts>>

\* shutdownInLoop through its raw this.
RunShutdown(l, c) ==
    /\ RunFunctor(l, "shutdownInLoop", c)
    /\ fault' = IF Alive(c) THEN fault ELSE "dangling"
    /\ UNCHANGED <<serverVars, listening_, poolVars, connVars, userVars, pending,
                   batch, pc, active, starts>>

----------------------------------------------------------------------------
(* Users of a connection.                                                  *)

\* shutdown() in another thread than the connection's: the test,
shutdown(c) ==
    /\ c \in held /\ c \in Shared
    /\ upc[c] = "idle" /\ state_[c] = "kConnected"
    /\ upc' = [upc EXCEPT ![c] = "setState"]
    /\ UNCHANGED <<serverVars, listening_, poolVars, connVars, held, late,
                   loopVars, starts, fault>>

\* the assignment,
shutdownSetState(c) ==
    /\ upc[c] = "setState"
    /\ state_' = [state_ EXCEPT ![c] = "kDisconnecting"]
    /\ upc' = [upc EXCEPT ![c] = "runInLoop"]
    /\ UNCHANGED <<serverVars, listening_, poolVars, channel, ioLoop, handling,
                   held, late, loopVars, starts, fault>>

\* and runInLoop.
shutdownQueue(c) ==
    /\ upc[c] = "runInLoop"
    /\ queueInLoop(ioLoop[c], Functor("shutdownInLoop", c))
    /\ upc' = [upc EXCEPT ![c] = "idle"]
    /\ late' = (late \/ channel[c] /= "added")
    /\ UNCHANGED <<serverVars, listening_, poolVars, connVars, held, batch, next,
                   pc, active, starts, fault>>

\* shutdown() in the connection's own thread calls shutdownInLoop at once.
LoopShutdown(c) ==
    /\ c \in held /\ upc[c] = "idle" /\ pc[ioLoop[c]] /= "poll"
    /\ state_[c] = "kConnected"
    /\ state_' = [state_ EXCEPT ![c] = "kDisconnecting"]
    /\ UNCHANGED <<serverVars, listening_, poolVars, channel, ioLoop, handling,
                   userVars, loopVars, starts, fault>>

\* A user drops its pointer, once its call has returned.
Release(c) ==
    /\ c \in held /\ upc[c] = "idle"
    /\ held' = held \ {c}
    /\ UNCHANGED <<serverVars, listening_, poolVars, connVars, upc, late,
                   loopVars, starts>>
    /\ ChannelsDestroyed

----------------------------------------------------------------------------
LoopStep(l) ==
    \/ Poll(l) \/ Swap(l) \/ FunctorsDone(l)
    \/ \E c \in Conns :
          \/ \E keep \in BOOLEAN : RunEstablished(l, c, keep)
          \/ connectDestroyed(l, c) \/ RunShutdown(l, c)

BaseStep ==
    \/ listen
    \/ \E result \in AcceptResults :
          \/ HandleReadNothing(result)
          \/ \E keep \in BOOLEAN : newConnection(result, keep)
    \/ \E c \in Conns : removeConnectionInLoop(c)

EventStep(c) ==
    \/ \E event \in CloseEvents : HandleClose(c, event) \/ HandleCloseInBase(c, event)
    \/ \E keep \in BOOLEAN : HandleRead(c, keep)
    \/ HandleOther(c)

UserStep(c) ==
    \/ shutdown(c) \/ shutdownSetState(c) \/ shutdownQueue(c)
    \/ LoopShutdown(c) \/ Release(c)

Owner == startInLoop \/ start \/ Destroyed

Next ==
    /\ fault = "none"
    /\ \/ \E l \in Loops : LoopStep(l)
       \/ BaseStep
       \/ \E c \in Conns : EventStep(c) \/ UserStep(c)
       \/ Owner

Spec == Init /\ [][Next]_vars

\* The thread of each loop goes on.
ThreadStep(l) ==
    \/ LoopStep(l)
    \/ l = Base /\ BaseStep
    \/ \E c \in Conns : ioLoop[c] = l /\ EventStep(c)

FairSpec == Spec /\ \A l \in Loops : WF_vars(fault = "none" /\ ThreadStep(l))

----------------------------------------------------------------------------
(* Properties.                                                             *)

\* While the server lives: each connection is erased from connections_ once,
\* and established, closed and destroyed in that order, although each of these
\* steps may be in another thread.  With a pool, a shutdownInLoop finds its
\* raw this destroyed only if a shutdown() queued it after the peer's close
\* was handled, and ~Channel finds eventHandling_ set only where Channel.cpp
\* left it set, in a channel the loop has removed, never inside handleEvent.
ServerIsSafe ==
    server =>
        /\ fault /= "assert"
        /\ fault = "dangling" => late \/ loops_ = <<>>
        /\ fault = "handling" =>
              \/ loops_ = <<>>
              \/ \E c \in handling : channel[c] = "removed" /\ ~Alive(c)

\* Whichever thread drops the last pointer, a TcpConnection is destroyed only
\* after its loop has removed its channel.
RemovedBeforeDestroyed ==
    server => \A c \in Created : ~Alive(c) => channel[c] = "removed"

\* getNextLoop stays in range and deals the connections out evenly.
Given(l) == Cardinality({c \in Created : ioLoop[c] = l})
RoundRobin ==
    /\ loops_ /= <<>> => next_ + 1 \in DOMAIN loops_
    /\ \A l, m \in Elements(loops_) : Given(l) <= Given(m) + 1

\* A connection that closed is forgotten by the server and removed by its
\* loop.
ClosedIsForgotten ==
    \A c \in Conns :
        channel[c] = "disabled"
            ~> (channel[c] = "removed" /\ c \notin connections_)
               \/ fault /= "none"

============================================================================
