----------------------------- MODULE Connector -----------------------------
(***************************************************************************)
(* Connector (net/Connector.h/.cpp) and the TcpClient that owns it         *)
(* (net/TcpClient.h/.cpp): attempts to connect, retries with a growing     *)
(* delay, reconnection, stop and destruction.                              *)
(*                                                                         *)
(* The owner calls TcpClient from another thread, where a call is several  *)
(* steps, or from a callback in the loop thread.  An iteration of the loop *)
(* handles the events and the due timers that poll(2) has found, and then  *)
(* runs the functors queued so far; it is assumed to take less time than   *)
(* kInitRetryDelayMs.  Timers and functors hold a raw this.                *)
(***************************************************************************)
EXTENDS Integers, Sequences

CONSTANTS
    kInitRetryDelayMs, kMaxRetryDelayMs,
    TimerIds,               \* ids the retry timers are given in turn
    NoTimer,                \* TimerId(nullptr)
    MaxConnects,            \* bound: calls of TcpClient::connect
    MaxPending              \* bound: functors queued when a call begins

ASSUME DelaysAssumption ==
    /\ kInitRetryDelayMs \in Nat \ {0}
    /\ kMaxRetryDelayMs \in Nat
    /\ kInitRetryDelayMs <= kMaxRetryDelayMs
ASSUME TimerIdsAssumption == NoTimer \notin TimerIds
ASSUME BoundsAssumption == MaxConnects \in Nat /\ MaxPending \in Nat

VARIABLES
    client,             \* the TcpClient exists
    retry_, clientConnect_,     \* its flags: retry_ and connect_
    conn,               \* the connection's close callback; "none": no connection
    connector,          \* the Connector exists
    newConnectionCallback_,     \* of the Connector, see Init
    keepAlive,          \* ~TcpClient's timer holds a ConnectorPtr
    connect_, state_, channel_, retryDelayMs_, timerId_,    \* Connector
    timers,             \* retry timers in TimerQueue
    pending, batch,     \* functors queued, being run
    pc, ret,            \* the loop thread, and where retry() returns to
    active, due,        \* what poll(2) found: events, and retry timers
    opc,                \* the owner's thread
    fault,              \* how the process failed
    connects,           \* calls of connect() so far
    stopped,            \* the last call was a stop() in the loop thread
    gaveUp,             \* an attempt met an error that is not retried
    destroyed           \* how ~TcpClient was called

clientVars == <<client, retry_, clientConnect_, conn>>
connectorVars == <<connect_, state_, channel_, retryDelayMs_, timerId_>>
lifeVars == <<connector, keepAlive, newConnectionCallback_>>
loopVars == <<pc, ret, active, due>>
queueVars == <<timers, pending, batch>>
histVars == <<connects, stopped, gaveUp, destroyed>>
vars == <<clientVars, connectorVars, lifeVars, loopVars, queueVars, opc,
          fault, histVars>>

Functor(op) == [op |-> op, id |-> NoTimer]
CancelFunctor(id) == [op |-> "cancel", id |-> id]
Functors ==
    [op : {"startInLoop", "resetChannel", "cancel", "setCloseCallback",
           "runAfter"},
     id : TimerIds \cup {NoTimer}]

TypeOK ==
    /\ client \in BOOLEAN /\ retry_ \in BOOLEAN /\ clientConnect_ \in BOOLEAN
    /\ conn \in {"none", "TcpClient", "detail"}
    /\ connector \in BOOLEAN /\ keepAlive \in BOOLEAN
    /\ newConnectionCallback_ \in {"empty", "newConnection"}
    /\ connect_ \in BOOLEAN
    /\ state_ \in {"kDisconnected", "kConnecting", "kConnected"}
    /\ channel_ \in {"none", "added", "removed"}
    /\ retryDelayMs_ \in kInitRetryDelayMs .. kMaxRetryDelayMs
    /\ timerId_ \in TimerIds \cup {NoTimer}
    /\ timers \subseteq TimerIds /\ due \subseteq TimerIds
    /\ pending \in Seq(Functors) /\ batch \in Seq(Functors)
    /\ pc \in {"poll", "dispatch", "functors", "retry", "runAfter", "restart"}
    /\ ret \in {"dispatch", "functors"}
    /\ active \subseteq {"channel", "close", "release"}
    /\ opc \in {"idle", "start", "stop", "cancel", "destroyConnected",
                "destroyOther"}
    /\ fault \in {"none", "assert", "channel", "dangling", "badFunction"}
    /\ connects \in Nat
    /\ stopped \in BOOLEAN /\ gaveUp \in BOOLEAN
    /\ destroyed \in {"no", "idle", "busy", "otherThread"}

\* setNewConnectionCallback does not store its argument and TcpClient's
\* constructor does not call it, so the callback is "empty"; "newConnection"
\* is the wiring that TcpClient::newConnection is written for.
ConnectorCreated ==
    /\ connector = TRUE /\ keepAlive = FALSE
    /\ newConnectionCallback_ \in {"empty", "newConnection"}
    /\ connect_ = FALSE /\ state_ = "kDisconnected" /\ channel_ = "none"
    /\ retryDelayMs_ = kInitRetryDelayMs
    /\ timerId_ = NoTimer

Init ==
    /\ client = TRUE /\ retry_ = FALSE /\ clientConnect_ = TRUE
    /\ conn = "none"
    /\ ConnectorCreated
    /\ timers = {} /\ pending = <<>> /\ batch = <<>>
    /\ pc = "functors" /\ ret = "functors"      \* before, or in, loop()
    /\ active = {} /\ due = {}
    /\ opc = "idle"
    /\ fault = "none"
    /\ connects = 0 /\ stopped = FALSE /\ gaveUp = FALSE /\ destroyed = "no"

----------------------------------------------------------------------------
(* Attempts.  Each operator sets connectorVars, timers, pc, ret, pending,  *)
(* fault and gaveUp; back is where the loop thread returns to.             *)

\* retry(): the socket is closed, ...
retry(back) ==
    /\ state_' = "kDisconnected"
    /\ pc' = "retry" /\ ret' = back

\* ... connect_, which another thread may have changed, is tested, ...
RetryTest ==
    /\ pc = "retry"
    /\ pc' = IF connect_ THEN "runAfter" ELSE ret
    /\ fault' = IF connector THEN fault ELSE "dangling"
    /\ UNCHANGED <<clientVars, connectorVars, lifeVars, ret, active, due,
                   queueVars, opc, histVars>>

Smaller(a, b) == IF a <= b THEN a ELSE b

\* Mutant: the delay is doubled, the timer forgotten.
RetryArm_NoTimer ==
    /\ pc = "runAfter"
    /\ retryDelayMs_' = Smaller(retryDelayMs_ * 2, kMaxRetryDelayMs)
    /\ pc' = ret
    /\ UNCHANGED <<clientVars, connect_, state_, channel_, timerId_, lifeVars,
                   ret, active, due, queueVars, opc, fault, histVars>>

\* An id that nothing refers to any more.
FreeIds ==
    {id \in TimerIds \ (timers \cup due \cup {timerId_}) :
        /\ \A i \in DOMAIN pending : pending[i].id /= id
        /\ \A i \in DOMAIN batch : batch[i].id /= id}

\* ... and the timer is added.
RetryArm ==
    /\ pc = "runAfter"
    /\ \E id \in FreeIds : timerId_' = id /\ timers' = timers \cup {id}
    /\ retryDelayMs_' = Smaller(retryDelayMs_ * 2, kMaxRetryDelayMs)
    /\ pc' = ret
    /\ fault' = IF connector THEN fault ELSE "dangling"
    /\ UNCHANGED <<clientVars, connect_, state_, channel_, lifeVars, ret,
                   active, due, pending, batch, opc, histVars>>

\* The cases of errno that connect() distinguishes after connect(2).
Outcomes == {"connecting", "retry", "unexpected"}

connecting(back) ==
    /\ state_' = "kConnecting"
    /\ fault' = IF channel_ = "none" THEN fault ELSE "assert"
    /\ channel_' = "added"
    /\ pc' = back
    /\ UNCHANGED <<ret, gaveUp>>

connect(outcome, back) ==
    \/ /\ outcome = "connecting"
       /\ connecting(back)
    \/ /\ outcome = "retry"
       /\ retry(back)
       /\ UNCHANGED <<channel_, fault, gaveUp>>
    \/ /\ outcome = "unexpected"
       /\ state_' = "kDisconnected"
       /\ gaveUp' = TRUE
       /\ pc' = back
       /\ UNCHANGED <<channel_, ret, fault>>

\* startInLoop(), with the values c of connect_ and st of state_.
startInLoop(c, st, outcome, back) ==
    \/ /\ ~connector \/ st /= "kDisconnected"
       /\ fault' = IF connector THEN "assert" ELSE "dangling"
       /\ pc' = back
       /\ UNCHANGED <<state_, channel_, ret, gaveUp>>
    \/ /\ connector /\ st = "kDisconnected" /\ c
       /\ connect(outcome, back)
    \/ /\ connector /\ st = "kDisconnected" /\ ~c
       /\ pc' = back
       /\ UNCHANGED <<state_, channel_, ret, fault, gaveUp>>

\* ~Connector.  TimerQueue::cancel is immediate in the loop thread.
ConnectorDestroyed ==
    /\ connector' = FALSE
    /\ fault' = IF channel_ = "none" THEN fault ELSE "channel"

----------------------------------------------------------------------------
(* The Connector's channel.                                                *)

removeAndResetChannel ==
    /\ channel_' = "removed"
    /\ pending' = Append(pending, Functor("resetChannel"))

HandlesChannel ==
    /\ pc = "dispatch" /\ "channel" \in active
    /\ active' = active \ {"channel"}

\* handleError, and handleWrite with an error of the socket.  (After
\* handleError, handleWrite may be called for the same event; it only
\* asserts that state_ is kDisconnected.)
HandleFailure ==
    /\ HandlesChannel
    /\ fault' = IF state_ = "kConnecting" THEN fault ELSE "assert"
    /\ removeAndResetChannel
    /\ retry("dispatch")
    /\ UNCHANGED <<clientVars, connect_, retryDelayMs_, timerId_, lifeVars, due,
                   timers, batch, opc, histVars>>

\* Mutant: connect_ is not tested again.
handleWrite_NoTest ==
    /\ HandlesChannel
    /\ removeAndResetChannel
    /\ state_' = "kConnected"
    /\ conn' = "TcpClient"
    /\ fault' = fault
    /\ UNCHANGED <<client, retry_, clientConnect_, connect_, retryDelayMs_,
                   timerId_, lifeVars, pc, ret, due, timers, batch, opc,
                   histVars>>

\* handleWrite of a connected socket, with TcpClient::newConnection if the
\* connection is still wanted; else the socket is closed.
handleWrite ==
    /\ HandlesChannel
    /\ removeAndResetChannel
    /\ state_' = "kConnected"
    /\ conn' = IF connect_ THEN "TcpClient" ELSE conn
    /\ fault' = IF state_ /= "kConnecting" THEN "assert"
                ELSE IF connect_ /\ newConnectionCallback_ = "empty"
                     THEN "badFunction"
                ELSE IF connect_ /\ ~client THEN "dangling"
                ELSE fault
    /\ UNCHANGED <<client, retry_, clientConnect_, connect_, retryDelayMs_,
                   timerId_, lifeVars, pc, ret, due, timers, batch, opc,
                   histVars>>

----------------------------------------------------------------------------
(* The connection closes.                                                  *)

\* TcpClient::removeConnection or detail::removeConnection.  retry_ and
\* connect_ are tested here, Connector::restart is RestartDo.
removeConnection ==
    /\ pc = "dispatch" /\ "close" \in active
    /\ active' = active \ {"close"}
    /\ conn' = "none"
    /\ fault' = IF conn = "TcpClient" /\ ~client THEN "dangling" ELSE fault
    /\ pc' = IF conn = "TcpClient" /\ retry_ /\ clientConnect_
             THEN "restart" ELSE pc
    /\ UNCHANGED <<client, retry_, clientConnect_, connectorVars, lifeVars,
                   ret, due, queueVars, opc, histVars>>

\* Mutant: the old state is kept.
RestartDo_KeepsState(outcome) ==
    /\ pc = "restart"
    /\ retryDelayMs_' = kInitRetryDelayMs
    /\ connect_' = TRUE
    /\ startInLoop(TRUE, state_, outcome, "dispatch")
    /\ UNCHANGED <<clientVars, timerId_, lifeVars, active, due, queueVars,
                   opc, connects, stopped, destroyed>>

\* Connector::restart, through the client's connector_.
RestartDo(outcome) ==
    /\ pc = "restart"
    /\ retryDelayMs_' = kInitRetryDelayMs
    /\ connect_' = TRUE
    /\ \/ client /\ startInLoop(TRUE, "kDisconnected", outcome, "dispatch")
       \/ /\ ~client
          /\ fault' = "dangling"
          /\ UNCHANGED <<state_, channel_, pc, ret, gaveUp>>
    /\ UNCHANGED <<clientVars, timerId_, lifeVars, active, due, queueVars,
                   opc, connects, stopped, destroyed>>

----------------------------------------------------------------------------
(* The loop.                                                               *)

\* What poll(2) may find.  It may find the second of ~TcpClient's timer over
\* with functors pending: EventLoop's wakeup does not end a poll(2).
Ready ==
    {a \in {"channel", "close", "release"} :
        /\ a = "channel" => channel_ = "added"
        /\ a = "close" => conn /= "none"
        /\ a = "release" => keepAlive}

\* poll(2) returns; a retry timer that is due runs even if it is canceled
\* meanwhile in the same batch.
Poll(found, expired) ==
    /\ pc = "poll"
    /\ active' = found /\ due' = expired
    /\ pc' = "dispatch"
    /\ UNCHANGED <<clientVars, connectorVars, lifeVars, ret, queueVars, opc,
                   fault, histVars>>

\* The retry timer's callback.
TimerFires(outcome) ==
    /\ pc = "dispatch"
    /\ \E id \in due : due' = due \ {id} /\ timers' = timers \ {id}
    /\ startInLoop(connect_, state_, outcome, "dispatch")
    /\ UNCHANGED <<clientVars, connect_, retryDelayMs_, timerId_, lifeVars,
                   active, pending, batch, opc, connects, stopped, destroyed>>

\* The timer of ~TcpClient is deleted after the batch of timers, and with it
\* the last ConnectorPtr.
Release ==
    /\ pc = "dispatch" /\ "release" \in active /\ due = {}
    /\ active' = active \ {"release"}
    /\ keepAlive' = FALSE
    /\ ConnectorDestroyed
    /\ timers' = timers \ {timerId_}
    /\ UNCHANGED <<clientVars, connectorVars, newConnectionCallback_, pc, ret, due, pending, batch,
                   opc, histVars>>

Swap ==
    /\ pc = "dispatch" /\ active = {} /\ due = {}
    /\ pc' = "functors"
    /\ batch' = pending /\ pending' = <<>>
    /\ UNCHANGED <<clientVars, connectorVars, lifeVars, ret, active, due,
                   timers, opc, fault, histVars>>

FunctorsDone ==
    /\ pc = "functors" /\ batch = <<>>
    /\ pc' = "poll"
    /\ UNCHANGED <<clientVars, connectorVars, lifeVars, ret, active, due,
                   queueVars, opc, fault, histVars>>

\* Call the next functor, which is an op.
RunFunctor(op) ==
    /\ pc = "functors" /\ batch /= <<>> /\ Head(batch).op = op
    /\ batch' = Tail(batch)

RunStart(outcome) ==
    /\ RunFunctor("startInLoop")
    /\ startInLoop(connect_, state_, outcome, "functors")
    /\ UNCHANGED <<clientVars, connect_, retryDelayMs_, timerId_, lifeVars,
                   active, due, timers, pending, opc, connects, stopped,
                   destroyed>>

resetChannel ==
    /\ RunFunctor("resetChannel")
    /\ channel_' = "none"
    /\ fault' = IF connector THEN fault ELSE "dangling"
    /\ UNCHANGED <<clientVars, connect_, state_, retryDelayMs_, timerId_,
                   lifeVars, pc, ret, active, due, timers, pending, opc,
                   histVars>>

RunCancel ==
    /\ RunFunctor("cancel")
    /\ timers' = timers \ {Head(batch).id}
    /\ UNCHANGED <<clientVars, connectorVars, lifeVars, loopVars, pending, opc,
                   fault, histVars>>

\* The functors of ~TcpClient in another thread.
RunSetCloseCallback ==
    /\ RunFunctor("setCloseCallback")
    /\ conn' = IF conn = "none" THEN conn ELSE "detail"
    /\ UNCHANGED <<client, retry_, clientConnect_, connectorVars, lifeVars,
                   loopVars, timers, pending, opc, fault, histVars>>

RunRunAfter ==
    /\ RunFunctor("runAfter")
    /\ keepAlive' = TRUE
    /\ UNCHANGED <<clientVars, connectorVars, connector,
                   newConnectionCallback_, loopVars, timers, pending, opc, fault, histVars>>

----------------------------------------------------------------------------
(* The owner, in a callback or functor of the loop thread.                 *)

InLoop == opc = "idle" /\ client /\ pc \in {"dispatch", "functors"}

LoopConnect(outcome) ==
    /\ InLoop /\ connects < MaxConnects
    /\ connects' = connects + 1 /\ stopped' = FALSE
    /\ clientConnect_' = TRUE
    /\ connect_' = TRUE
    /\ startInLoop(TRUE, state_, outcome, pc)
    /\ UNCHANGED <<client, retry_, conn, retryDelayMs_, timerId_, lifeVars,
                   active, due, queueVars, opc, destroyed>>

LoopStop ==
    /\ InLoop
    /\ stopped' = TRUE
    /\ clientConnect_' = FALSE
    /\ connect_' = FALSE
    /\ timers' = timers \ {timerId_}
    /\ UNCHANGED <<client, retry_, conn, state_, channel_, retryDelayMs_,
                   timerId_, lifeVars, loopVars, pending, batch, opc, fault,
                   connects, gaveUp, destroyed>>

\* No attempt is in flight, and none was asked for from another thread.
NoAttempt ==
    /\ channel_ = "none"
    /\ \A i \in DOMAIN pending : pending[i].op /= "startInLoop"

\* Mutant: the Connector is not kept for the functors that refer to it.
LoopDestroy_NotKept ==
    /\ InLoop
    /\ client' = FALSE
    /\ destroyed' = IF NoAttempt THEN "idle" ELSE "busy"
    /\ timers' = timers \ {timerId_}
    /\ conn' = IF conn = "none" THEN conn ELSE "detail"
    /\ ConnectorDestroyed
    /\ UNCHANGED <<retry_, clientConnect_, connectorVars, keepAlive,
                   newConnectionCallback_, loopVars, pending, batch, opc,
                   connects, stopped, gaveUp>>

\* ~TcpClient: with a connection the Connector goes with the client, else it
\* is stopped and kept for a second.
LoopDestroy ==
    /\ InLoop
    /\ client' = FALSE
    /\ destroyed' = IF NoAttempt THEN "idle" ELSE "busy"
    /\ timers' = timers \ {timerId_}
    /\ \/ /\ conn /= "none"
          /\ conn' = "detail"
          /\ ConnectorDestroyed
          /\ UNCHANGED <<connect_, keepAlive>>
       \/ /\ conn = "none"
          /\ connect_' = FALSE
          /\ keepAlive' = TRUE
          /\ UNCHANGED <<conn, connector, fault>>
    /\ UNCHANGED <<retry_, clientConnect_, state_, channel_, retryDelayMs_,
                   timerId_, newConnectionCallback_, loopVars, pending, batch,
                   opc, connects, stopped, gaveUp>>

\* The same in either thread: disconnect(), whose shutdown() is
\* TcpConnection's subject, and enableRetry().
disconnect ==
    /\ client /\ opc = "idle" /\ clientConnect_
    /\ clientConnect_' = FALSE
    /\ UNCHANGED <<client, retry_, conn, connectorVars, lifeVars, loopVars,
                   queueVars, opc, fault, histVars>>

enableRetry ==
    /\ client /\ opc = "idle" /\ ~retry_
    /\ retry_' = TRUE
    /\ UNCHANGED <<client, clientConnect_, conn, connectorVars, lifeVars,
                   loopVars, queueVars, opc, fault, histVars>>

----------------------------------------------------------------------------
(* The owner in another thread.                                            *)

ownerUnchanged == UNCHANGED <<retry_, state_, channel_, retryDelayMs_, timerId_,
                              keepAlive, newConnectionCallback_, loopVars,
                              timers, batch, gaveUp>>

Calls == client /\ opc = "idle" /\ Len(pending) < MaxPending

connectBegin ==
    /\ Calls /\ connects < MaxConnects
    /\ connects' = connects + 1 /\ stopped' = FALSE
    /\ clientConnect_' = TRUE /\ connect_' = TRUE
    /\ opc' = "start"
    /\ UNCHANGED <<client, conn, connector, pending, fault, destroyed>>
    /\ ownerUnchanged

stopBegin ==
    /\ Calls
    /\ clientConnect_' = FALSE
    /\ opc' = "stop"
    /\ UNCHANGED <<client, conn, connect_, connector, pending, fault, connects,
                   stopped, destroyed>>
    /\ ownerUnchanged

destroyBegin ==
    /\ Calls
    /\ opc' = IF conn = "none" THEN "destroyOther" ELSE "destroyConnected"
    /\ destroyed' = "otherThread"
    /\ UNCHANGED <<client, conn, clientConnect_, connect_, connector, pending,
                   fault, connects, stopped>>
    /\ ownerUnchanged

\* The rest of a call: connect() and stop() of the Connector ...
OwnerContinues ==
    \/ /\ opc = "start"
       /\ pending' = Append(pending, Functor("startInLoop"))
       /\ opc' = "idle"
       /\ UNCHANGED <<client, conn, clientConnect_, connect_, connector, fault,
                      connects, stopped, destroyed>>
       /\ ownerUnchanged
    \/ /\ opc = "stop"
       /\ connect_' = FALSE
       /\ opc' = "cancel"
       /\ UNCHANGED <<client, conn, clientConnect_, connector, pending, fault,
                      connects, stopped, destroyed>>
       /\ ownerUnchanged
    \/ /\ opc = "cancel"
       /\ pending' = Append(pending, CancelFunctor(timerId_))
       /\ opc' = "idle"
       /\ UNCHANGED <<client, conn, clientConnect_, connect_, connector, fault,
                      connects, stopped, destroyed>>
       /\ ownerUnchanged

\* ... and ~TcpClient after connection_ was copied.
OwnerDestroys ==
    /\ \/ /\ opc = "destroyConnected"
          /\ pending' = pending \o <<Functor("setCloseCallback"),
                                     CancelFunctor(timerId_)>>
          /\ ConnectorDestroyed
          /\ UNCHANGED connect_
       \/ /\ opc = "destroyOther"
          /\ connect_' = FALSE
          /\ pending' = pending \o <<CancelFunctor(timerId_),
                                     Functor("runAfter")>>
          /\ UNCHANGED <<connector, fault>>
    /\ client' = FALSE
    /\ opc' = "idle"
    /\ UNCHANGED <<conn, clientConnect_, connects, stopped, destroyed>>
    /\ ownerUnchanged

----------------------------------------------------------------------------

LoopStep ==
    \/ RetryTest \/ RetryArm
    \/ HandleFailure \/ handleWrite
    \/ removeConnection
    \/ \E found \in SUBSET Ready, expired \in SUBSET timers : Poll(found, expired)
    \/ \E outcome \in Outcomes :
          RestartDo(outcome) \/ TimerFires(outcome) \/ RunStart(outcome)
    \/ Release
    \/ Swap \/ FunctorsDone
    \/ resetChannel \/ RunCancel \/ RunSetCloseCallback \/ RunRunAfter

LoopOwner ==
    \/ \E outcome \in Outcomes : LoopConnect(outcome)
    \/ LoopStop \/ LoopDestroy

Owner ==
    \/ disconnect \/ enableRetry
    \/ connectBegin \/ stopBegin \/ destroyBegin
    \/ OwnerContinues \/ OwnerDestroys

\* After a fault the process is gone, or anything may happen.
Next == fault = "none" /\ (LoopStep \/ LoopOwner \/ Owner)

Spec == Init /\ [][Next]_vars

\* Every call returns and the loop goes on; an attempt in flight ends, well or
\* badly, and poll(2) reports the channel, which asks for POLLOUT.  Nothing
\* is assumed of the timers: Channel.cpp does not ask for POLLIN.
Alive(A) == fault = "none" /\ A

PollReportsChannel ==
    \E found \in SUBSET Ready, expired \in SUBSET timers :
        "channel" \in found /\ Poll(found, expired)

FairSpec ==
    /\ Spec
    /\ WF_vars(Alive(LoopStep))
    /\ WF_vars(Alive(OwnerContinues \/ OwnerDestroys))
    /\ SF_vars(Alive(PollReportsChannel))

----------------------------------------------------------------------------
(* Properties.                                                             *)

\* A client that is told once to connect never fails an assertion of the
\* Connector, whatever the errors, the retries, the reconnections, stop() and
\* the order in which they meet: there is one attempt at a time, made in
\* state kDisconnected, and the channel of the last one is gone.
ConnectOnceIsSafe == connects <= 1 => fault /= "assert"

\* Such a client may be destroyed in the loop thread when no attempt is in
\* flight and none asked for: whatever is reported, due or queued then, and
\* even if functors wait until after the second for which the Connector is
\* kept, no timer or functor finds the Connector gone, and no callback the
\* TcpClient.
DestroyedIdleIsSafe ==
    connects <= 1 /\ destroyed \in {"no", "idle"}
        => fault \notin {"channel", "dangling"}

\* After stop() in the loop thread no connection is made, although an attempt
\* may be in flight and the retry timer due, until connect() is called again.
StopInLoopIsFinal ==
    [][stopped /\ stopped' => conn /= "none" \/ conn' = "none"]_vars

\* A client that wants a connection and has none gets one, or has its retry
\* timer armed, unless it is told otherwise or connect(2) meets an error that
\* is not retried: no attempt ends with nothing under way.
Wanting == client /\ clientConnect_ /\ connect_ /\ state_ = "kDisconnected"
WantedIsPursued ==
    Wanting ~> \/ conn /= "none" \/ timers /= {}
               \/ ~client \/ ~clientConnect_ \/ gaveUp \/ fault /= "none"

============================================================================
