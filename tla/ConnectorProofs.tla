--------------------------- MODULE ConnectorProofs ---------------------------
(***************************************************************************)
(* A TcpClient that connects once makes one attempt at a time, a stop() in *)
(* the loop thread is final, and a client destroyed between attempts       *)
(* leaves nothing behind, for any number of timer ids and functors and any *)
(* order of events, timers, functors and calls.                            *)
(***************************************************************************)
EXTENDS Connector, SequenceTheorems, TLAPS

----------------------------------------------------------------------------
(* Functors by operation.                                                  *)

NoOp(q, op) == \A i \in 1 .. Len(q) : q[i].op /= op
OneOp(q, op) ==
    \E i \in 1 .. Len(q) :
        q[i].op = op /\ \A j \in 1 .. Len(q) : q[j].op = op => j = i

\* No functor of this operation is queued or being run; exactly one is.
None(op) == NoOp(pending, op) /\ NoOp(batch, op)
One(op) ==
    \/ OneOp(pending, op) /\ NoOp(batch, op)
    \/ NoOp(pending, op) /\ OneOp(batch, op)

----------------------------------------------------------------------------
(* The inductive invariant.                                                *)

\* In retry().
Retrying == pc \in {"retry", "runAfter"}

InDispatch == pc \in {"dispatch", "restart"} \/ (Retrying /\ ret = "dispatch")

\* Events and expired timers are handled in one part of an iteration,
\* functors in another.
LoopShape ==
    /\ ~InDispatch => active = {} /\ due = {}
    /\ InDispatch \/ pc = "poll" => batch = <<>>

\* A removed channel is reset by a functor of the same iteration, and what
\* poll(2) reported is still there when it is handled.
ChannelShape ==
    /\ channel_ = "removed" => One("resetChannel")
    /\ channel_ /= "removed" => None("resetChannel")
    /\ ~InDispatch => NoOp(pending, "resetChannel")
    /\ "channel" \in active => channel_ = "added"
    /\ "close" \in active => conn /= "none"
    /\ "release" \in active => keepAlive

\* Where the one attempt is: about to be queued, queued, about to be retried,
\* waiting for its timer, in flight, successful, about to be made again.
Stages == {"none", "start", "queued", "retry", "armed", "connecting",
           "connected", "restart"}

Stage(s) ==
    /\ opc = "start" <=> s = "start"
    /\ IF s = "queued" THEN One("startInLoop") ELSE None("startInLoop")
    /\ Retrying <=> s = "retry"
    /\ timers \cup due /= {} <=> s = "armed"
    /\ channel_ = "added" <=> s = "connecting"
    /\ conn /= "none" <=> s = "connected"
    /\ pc = "restart" <=> s = "restart"
    /\ s \in {"start", "queued", "retry", "armed"} => state_ = "kDisconnected"
    /\ s \in {"start", "queued", "restart"} => channel_ = "none"
    /\ s = "connecting" => state_ = "kConnecting"

OneAttempt ==
    /\ \E s \in Stages : Stage(s)
    /\ timers \cup due \subseteq {timerId_}
    /\ connects = 0 => Stage("none") /\ state_ = "kDisconnected" /\ channel_ = "none"
    /\ InDispatch /\ channel_ = "removed" => due = {} /\ "close" \notin active

\* Before the client is destroyed; ...
Living ==
    /\ client /\ connector /\ ~keepAlive
    /\ opc \notin {"destroyConnected", "destroyOther"}
    /\ None("runAfter") /\ None("setCloseCallback")

\* ... after it was destroyed in the loop thread without an attempt in flight
\* or asked for: the Connector is kept and stopped, or gone and referred to by nothing.
DestroyedIdle ==
    /\ ~client /\ opc = "idle" /\ channel_ = "none" /\ timers = {}
    /\ pc \notin {"retry", "runAfter", "restart"}
    /\ None("runAfter") /\ None("setCloseCallback")
    /\ \/ connector /\ conn = "none" /\ ~connect_
       \/ /\ ~connector /\ ~keepAlive /\ conn /= "TcpClient"
          /\ due = {} /\ None("startInLoop")
    /\ NoOp(pending, "startInLoop")

Lifetime ==
    /\ destroyed = "no" => Living
    /\ client /\ opc \notin {"destroyConnected", "destroyOther"} => destroyed = "no"
    /\ connects <= 1 /\ destroyed = "idle" => DestroyedIdle

\* What holds until the process fails.
Running ==
    /\ LoopShape /\ ChannelShape
    /\ connects <= 1 => OneAttempt
    /\ Lifetime

Safe == ConnectOnceIsSafe /\ DestroyedIdleIsSafe

IInv ==
    /\ TypeOK
    /\ Safe
    /\ fault = "none" => Running

----------------------------------------------------------------------------
(* What the operations on the queues do to the functors of an operation.   *)

LEMMA FunctorTypes ==
    /\ \A op \in {"startInLoop", "resetChannel", "setCloseCallback", "runAfter"} :
          Functor(op) \in Functors /\ Functor(op).op = op
    /\ \A id \in TimerIds \cup {NoTimer} :
          CancelFunctor(id) \in Functors /\ CancelFunctor(id).op = "cancel"
BY DEF Functor, CancelFunctor, Functors

LEMMA PushOp ==
    ASSUME NEW q \in Seq(Functors), NEW f \in Functors
    PROVE  /\ \A op : f.op /= op /\ NoOp(q, op) => NoOp(Append(q, f), op)
           /\ \A op : f.op /= op /\ OneOp(q, op) => OneOp(Append(q, f), op)
           /\ NoOp(q, f.op) => OneOp(Append(q, f), f.op)
<1> DEFINE p == Append(q, f)
<1>1. /\ Len(q) \in Nat /\ Len(p) = Len(q) + 1 /\ p[Len(q) + 1] = f
      /\ \A i \in 1 .. Len(q) : p[i] = q[i]
  OBVIOUS
<1> HIDE DEF p
<1>2. ASSUME NEW op, f.op /= op, NoOp(q, op) PROVE NoOp(p, op)
  BY <1>1, <1>2 DEF NoOp
<1>3. ASSUME NEW op, f.op /= op, OneOp(q, op) PROVE OneOp(p, op)
  <2>1. PICK i \in 1 .. Len(q) :
            q[i].op = op /\ \A j \in 1 .. Len(q) : q[j].op = op => j = i
    BY <1>3 DEF OneOp
  <2>2. i \in 1 .. Len(p) /\ p[i].op = op
    BY <1>1, <2>1
  <2>3. ASSUME NEW j \in 1 .. Len(p), p[j].op = op PROVE j = i
    BY <1>1, <1>3, <2>1, <2>3
  <2> QED
    BY <2>2, <2>3 DEF OneOp
<1>4. ASSUME NoOp(q, f.op) PROVE OneOp(p, f.op)
  <2>1. Len(q) + 1 \in 1 .. Len(p) /\ p[Len(q) + 1].op = f.op
    BY <1>1
  <2>2. ASSUME NEW j \in 1 .. Len(p), p[j].op = f.op PROVE j = Len(q) + 1
    BY <1>1, <1>4, <2>2 DEF NoOp
  <2> QED
    BY <2>1, <2>2 DEF OneOp
<1> QED
  BY <1>2, <1>3, <1>4 DEF p

LEMMA TailOp ==
    ASSUME NEW q \in Seq(Functors), q /= <<>>
    PROVE  /\ Tail(q) \in Seq(Functors) /\ Head(q) \in Functors
           /\ \A op : NoOp(q, op) => NoOp(Tail(q), op) /\ Head(q).op /= op
           /\ \A op : Head(q).op /= op /\ OneOp(q, op) => OneOp(Tail(q), op)
           /\ OneOp(q, Head(q).op) => NoOp(Tail(q), Head(q).op)
<1> DEFINE t == Tail(q)
           h == Head(q)
<1>1. /\ Len(q) \in Nat /\ Len(q) >= 1 /\ h = q[1] /\ h \in Functors
      /\ t \in Seq(Functors) /\ Len(t) = Len(q) - 1
      /\ \A i \in 1 .. Len(t) : t[i] = q[i + 1]
  BY EmptySeq, HeadTailProperties
<1> HIDE DEF t, h
<1>2. ASSUME NEW op, NoOp(q, op) PROVE NoOp(t, op) /\ h.op /= op
  BY <1>1, <1>2 DEF NoOp
<1>3. ASSUME NEW op, h.op /= op, OneOp(q, op) PROVE OneOp(t, op)
  <2>1. PICK i \in 1 .. Len(q) :
            q[i].op = op /\ \A j \in 1 .. Len(q) : q[j].op = op => j = i
    BY <1>3 DEF OneOp
  <2>2. i /= 1
    BY <1>1, <1>3, <2>1
  <2>3. i - 1 \in 1 .. Len(t) /\ t[i - 1].op = op
    BY <1>1, <2>1, <2>2
  <2>4. ASSUME NEW j \in 1 .. Len(t), t[j].op = op PROVE j = i - 1
    BY <1>1, <2>1, <2>4
  <2> QED
    BY <2>3, <2>4 DEF OneOp
<1>4. ASSUME OneOp(q, h.op) PROVE NoOp(t, h.op)
  <2>1. PICK i \in 1 .. Len(q) :
            q[i].op = h.op /\ \A j \in 1 .. Len(q) : q[j].op = h.op => j = i
    BY <1>4 DEF OneOp
  <2>2. i = 1
    BY <1>1, <2>1
  <2> QED
    BY <1>1, <2>1, <2>2 DEF NoOp
<1> QED
  BY <1>1, <1>2, <1>3, <1>4 DEF t, h

\* The same for the two queues together, in the steps that change them.
LEMMA SameQueues ==
    ASSUME UNCHANGED <<pending, batch>>
    PROVE  \A op : (None(op)' <=> None(op)) /\ (One(op)' <=> One(op))
BY DEF None, One

LEMMA PushQueues ==
    ASSUME TypeOK, NEW f \in Functors, pending' = Append(pending, f), batch' = batch
    PROVE  /\ pending' \in Seq(Functors)
           /\ \A op : f.op /= op =>
                 (None(op) => None(op)') /\ (One(op) => One(op)')
           /\ \A op : f.op /= op /\ NoOp(pending, op) => NoOp(pending', op)
           /\ None(f.op) => One(f.op)'
<1>1. pending \in Seq(Functors)
  BY DEF TypeOK
<1>2. pending' \in Seq(Functors)
  BY <1>1
<1>3. /\ \A op : f.op /= op /\ NoOp(pending, op) => NoOp(pending', op)
      /\ \A op : f.op /= op /\ OneOp(pending, op) => OneOp(pending', op)
      /\ NoOp(pending, f.op) => OneOp(pending', f.op)
  BY <1>1, PushOp
<1> QED
  BY <1>2, <1>3 DEF None, One

LEMMA SwapQueues ==
    ASSUME TypeOK, batch = <<>>, batch' = pending, pending' = <<>>
    PROVE  \A op : /\ None(op) => None(op)'
                   /\ One(op) => One(op)'
                   /\ NoOp(pending', op)
<1>1. \A op : NoOp(<<>>, op) /\ ~OneOp(<<>>, op)
  BY DEF NoOp, OneOp
<1> QED
  BY <1>1 DEF None, One

LEMMA RunQueues ==
    ASSUME TypeOK, NEW op, RunFunctor(op), UNCHANGED pending
    PROVE  /\ batch' \in Seq(Functors) /\ Head(batch) \in Functors
           /\ ~None(op) /\ (One(op) => None(op)')
           /\ \A o : o /= op => (None(o) => None(o)') /\ (One(o) => One(o)')
<1>1. batch \in Seq(Functors) /\ batch /= <<>> /\ Head(batch).op = op /\ batch' = Tail(batch)
  BY DEF TypeOK, RunFunctor
<1>2. /\ batch' \in Seq(Functors) /\ Head(batch) \in Functors
      /\ \A o : NoOp(batch, o) => NoOp(batch', o) /\ op /= o
      /\ \A o : op /= o /\ OneOp(batch, o) => OneOp(batch', o)
      /\ OneOp(batch, op) => NoOp(batch', op)
  BY <1>1, TailOp
<1> QED
  BY <1>2 DEF None, One

----------------------------------------------------------------------------
(* Types.                                                                  *)

LEMMA InitType == Init => TypeOK
<1> SUFFICES ASSUME Init PROVE TypeOK
  OBVIOUS
<1>1. kInitRetryDelayMs \in kInitRetryDelayMs .. kMaxRetryDelayMs
  BY DelaysAssumption
<1>2. <<>> \in Seq(Functors) /\ 0 \in Nat
  OBVIOUS
<1> QED
  BY <1>1, <1>2, Zenon DEF Init, ConnectorCreated, TypeOK

\* What one attempt leads to.  back is where the loop thread returns to.
LEMMA StartCases ==
    ASSUME NEW c, NEW st, NEW outcome, NEW back, startInLoop(c, st, outcome, back)
    PROVE  \/ /\ fault' = "assert" /\ connector /\ st /= "kDisconnected"
              /\ pc' = back /\ UNCHANGED <<state_, channel_, ret, gaveUp>>
           \/ /\ fault' = "dangling" /\ ~connector
              /\ pc' = back /\ UNCHANGED <<state_, channel_, ret, gaveUp>>
           \/ /\ connector /\ c
              /\ state_' = "kConnecting" /\ channel_' = "added"
              /\ pc' = back /\ UNCHANGED <<ret, gaveUp>>
              /\ fault' = IF channel_ = "none" THEN fault ELSE "assert"
           \/ /\ connector /\ c
              /\ state_' = "kDisconnected" /\ channel_' = channel_
              /\ pc' = "retry" /\ ret' = back /\ UNCHANGED <<fault, gaveUp>>
           \/ /\ connector
              /\ state_' \in {state_, "kDisconnected"} /\ channel_' = channel_
              /\ pc' = back /\ gaveUp' \in {gaveUp, TRUE}
              /\ UNCHANGED <<ret, fault>>
BY DEF startInLoop, connect, connecting, retry

\* The variables an attempt may change keep their types.
LEMMA StartType ==
    ASSUME TypeOK, NEW c, NEW st, NEW outcome, NEW back \in {"dispatch", "functors"},
           startInLoop(c, st, outcome, back)
    PROVE  /\ state_' \in {"kDisconnected", "kConnecting", "kConnected"}
           /\ channel_' \in {"none", "added", "removed"}
           /\ pc' \in {"poll", "dispatch", "functors", "retry", "runAfter", "restart"}
           /\ ret' \in {"dispatch", "functors"}
           /\ fault' \in {"none", "assert", "channel", "dangling", "badFunction"}
           /\ gaveUp' \in BOOLEAN
BY StartCases DEF TypeOK

LEMMA SmallerType ==
    ASSUME TypeOK
    PROVE  Smaller(retryDelayMs_ * 2, kMaxRetryDelayMs) \in kInitRetryDelayMs .. kMaxRetryDelayMs
BY DelaysAssumption DEF TypeOK, Smaller

LEMMA NextType == TypeOK /\ [Next]_vars => TypeOK'
<1> SUFFICES ASSUME TypeOK, [Next]_vars PROVE TypeOK'
  OBVIOUS
<1> USE DEF clientVars, connectorVars, lifeVars, loopVars, queueVars, histVars
<1>0. CASE RetryTest
  <2>1. pc' \in {"dispatch", "functors", "runAfter"} /\ fault' \in {fault, "dangling"}
    BY <1>0 DEF RetryTest, TypeOK
  <2>2. UNCHANGED <<clientVars, connectorVars, lifeVars, ret, active, due,
                    queueVars, opc, histVars>>
    BY <1>0 DEF RetryTest
  <2> QED
    BY <2>1, <2>2 DEF TypeOK
<1>1. CASE RetryArm
  <2>1. PICK id \in TimerIds : timerId_' = id /\ timers' = timers \cup {id}
    BY <1>1 DEF RetryArm, FreeIds
  <2>2. retryDelayMs_' \in kInitRetryDelayMs .. kMaxRetryDelayMs
    BY <1>1, SmallerType DEF RetryArm
  <2> QED
    BY <1>1, <2>1, <2>2 DEF RetryArm, TypeOK
<1>2. CASE HandleFailure
  <2>1. pending' \in Seq(Functors)
    BY <1>2, FunctorTypes DEF HandleFailure, removeAndResetChannel, TypeOK
  <2> QED
    BY <1>2, <2>1 DEF HandleFailure, HandlesChannel, removeAndResetChannel, retry, TypeOK
<1>3. CASE handleWrite
  <2>1. pending' \in Seq(Functors)
    BY <1>3, FunctorTypes DEF handleWrite, removeAndResetChannel, TypeOK
  <2> QED
    BY <1>3, <2>1 DEF handleWrite, HandlesChannel, removeAndResetChannel, TypeOK
<1>4. CASE removeConnection
  BY <1>4 DEF removeConnection, TypeOK
<1>5. ASSUME NEW found \in SUBSET Ready, NEW expired \in SUBSET timers, Poll(found, expired)
      PROVE  TypeOK'
  BY <1>5 DEF Poll, Ready, TypeOK
<1>6. ASSUME NEW outcome \in Outcomes, RestartDo(outcome) PROVE TypeOK'
  <2>1. retryDelayMs_' \in kInitRetryDelayMs .. kMaxRetryDelayMs
    BY <1>6, DelaysAssumption DEF RestartDo
  <2>2. CASE client /\ startInLoop(TRUE, "kDisconnected", outcome, "dispatch")
    <3>1. /\ state_' \in {"kDisconnected", "kConnecting", "kConnected"}
          /\ channel_' \in {"none", "added", "removed"}
          /\ pc' \in {"poll", "dispatch", "functors", "retry", "runAfter", "restart"}
          /\ ret' \in {"dispatch", "functors"}
          /\ fault' \in {"none", "assert", "channel", "dangling", "badFunction"}
          /\ gaveUp' \in BOOLEAN
      BY <2>2, StartType
    <3>2. connect_' \in BOOLEAN /\ UNCHANGED <<clientVars, timerId_, lifeVars,
                active, due, queueVars, opc, connects, stopped, destroyed>>
      BY <1>6 DEF RestartDo
    <3> QED
      BY <2>1, <3>1, <3>2 DEF TypeOK
  <2>3. CASE ~client /\ fault' = "dangling" /\ UNCHANGED <<state_, channel_, pc, ret, gaveUp>>
    BY <1>6, <2>1, <2>3 DEF RestartDo, TypeOK
  <2> QED
    BY <1>6, <2>2, <2>3 DEF RestartDo
<1>7. ASSUME NEW outcome \in Outcomes, TimerFires(outcome) PROVE TypeOK'
  <2>1. startInLoop(connect_, state_, outcome, "dispatch")
        /\ timers' \subseteq timers /\ due' \subseteq due
    BY <1>7 DEF TimerFires
  <2> QED
    BY <1>7, <2>1, StartType DEF TimerFires, TypeOK
<1>8. ASSUME NEW outcome \in Outcomes, RunStart(outcome) PROVE TypeOK'
  <2>1. startInLoop(connect_, state_, outcome, "functors") /\ batch' \in Seq(Functors)
    BY <1>8, RunQueues DEF RunStart
  <2> QED
    BY <1>8, <2>1, StartType DEF RunStart, TypeOK
<1>9. CASE Release
  <2>1. /\ active' \subseteq active /\ timers' \subseteq timers
        /\ keepAlive' \in BOOLEAN /\ connector' \in BOOLEAN
        /\ fault' \in {fault, "channel"}
    BY <1>9 DEF Release, ConnectorDestroyed
  <2>2. UNCHANGED <<clientVars, connectorVars, newConnectionCallback_, pc, ret, due,
                    pending, batch, opc, histVars>>
    BY <1>9 DEF Release
  <2> QED
    BY <2>1, <2>2 DEF TypeOK
<1>10. CASE Swap
  BY <1>10 DEF Swap, TypeOK
<1>11. CASE FunctorsDone
  BY <1>11 DEF FunctorsDone, TypeOK
<1>12. CASE resetChannel
  <2>1. batch' \in Seq(Functors)
    BY <1>12, RunQueues DEF resetChannel
  <2> QED
    BY <1>12, <2>1 DEF resetChannel, TypeOK
<1>13. CASE RunCancel
  <2>1. batch' \in Seq(Functors)
    BY <1>13, RunQueues DEF RunCancel
  <2> QED
    BY <1>13, <2>1 DEF RunCancel, TypeOK
<1>14. CASE RunSetCloseCallback
  <2>1. batch' \in Seq(Functors)
    BY <1>14, RunQueues DEF RunSetCloseCallback
  <2> QED
    BY <1>14, <2>1 DEF RunSetCloseCallback, TypeOK
<1>15. CASE RunRunAfter
  <2>1. batch' \in Seq(Functors)
    BY <1>15, RunQueues DEF RunRunAfter
  <2> QED
    BY <1>15, <2>1 DEF RunRunAfter, TypeOK
<1>16. ASSUME NEW outcome \in Outcomes, LoopConnect(outcome) PROVE TypeOK'
  <2>1. pc \in {"dispatch", "functors"} /\ startInLoop(TRUE, state_, outcome, pc)
    BY <1>16 DEF LoopConnect, InLoop
  <2>2. /\ state_' \in {"kDisconnected", "kConnecting", "kConnected"}
        /\ channel_' \in {"none", "added", "removed"}
        /\ pc' \in {"poll", "dispatch", "functors", "retry", "runAfter", "restart"}
        /\ ret' \in {"dispatch", "functors"}
        /\ fault' \in {"none", "assert", "channel", "dangling", "badFunction"}
        /\ gaveUp' \in BOOLEAN
    BY <2>1, StartType
  <2>3. connects \in Nat /\ connects' = connects + 1
    BY <1>16 DEF LoopConnect, TypeOK
  <2>4. connects' \in Nat
    BY <2>3
  <2>5. /\ stopped' \in BOOLEAN /\ clientConnect_' \in BOOLEAN
        /\ connect_' \in BOOLEAN
        /\ UNCHANGED <<client, retry_, conn, retryDelayMs_, timerId_, lifeVars,
                        active, due, queueVars, opc, destroyed>>
    BY <1>16 DEF LoopConnect
  <2> QED
    BY <2>2, <2>4, <2>5 DEF TypeOK
<1>17. CASE LoopStop
  <2>1. /\ stopped' \in BOOLEAN /\ clientConnect_' \in BOOLEAN /\ connect_' \in BOOLEAN
        /\ timers' \subseteq timers
        /\ UNCHANGED <<client, retry_, conn, state_, channel_, retryDelayMs_,
                        timerId_, lifeVars, loopVars, pending, batch, opc, fault,
                        connects, gaveUp, destroyed>>
    BY <1>17 DEF LoopStop
  <2> QED
    BY <2>1 DEF TypeOK
<1>18. CASE LoopDestroy
  <2>1. client' \in BOOLEAN /\ timers' \subseteq timers /\ destroyed' \in {"idle", "busy"}
    BY <1>18 DEF LoopDestroy
  <2>2. /\ conn' \in {conn, "detail"} /\ connector' \in {connector, FALSE}
        /\ fault' \in {fault, "channel"} /\ connect_' \in {connect_, FALSE}
        /\ keepAlive' \in {keepAlive, TRUE}
    BY <1>18 DEF LoopDestroy, ConnectorDestroyed
  <2>3. UNCHANGED <<retry_, clientConnect_, state_, channel_, retryDelayMs_,
                    timerId_, newConnectionCallback_, loopVars, pending, batch,
                    opc, connects, stopped, gaveUp>>
    BY <1>18 DEF LoopDestroy
  <2>4. connector' \in BOOLEAN /\ connect_' \in BOOLEAN /\ keepAlive' \in BOOLEAN
    BY <2>2 DEF TypeOK
  <2> QED
    BY <2>1, <2>2, <2>3, <2>4 DEF TypeOK
<1>19. CASE disconnect
  <2>1. clientConnect_' \in BOOLEAN
        /\ UNCHANGED <<client, retry_, conn, connectorVars, lifeVars, loopVars,
                       queueVars, opc, fault, histVars>>
    BY <1>19 DEF disconnect
  <2> QED
    BY <2>1 DEF TypeOK
<1>20. CASE enableRetry
  BY <1>20 DEF enableRetry, TypeOK
<1>21. CASE connectBegin
  <2>1. connects \in Nat /\ connects' = connects + 1
    BY <1>21 DEF connectBegin, TypeOK
  <2>2. connects' \in Nat
    BY <2>1
  <2>3. /\ stopped' \in BOOLEAN /\ clientConnect_' \in BOOLEAN
        /\ connect_' \in BOOLEAN /\ opc' = "start"
        /\ UNCHANGED <<client, conn, connector, pending, fault, destroyed>>
        /\ ownerUnchanged
    BY <1>21 DEF connectBegin
  <2> QED
    BY <2>2, <2>3 DEF ownerUnchanged, TypeOK
<1>22. CASE stopBegin
  <2>1. /\ clientConnect_' \in BOOLEAN /\ opc' = "stop"
        /\ UNCHANGED <<client, conn, connect_, connector, pending, fault, connects,
                        stopped, destroyed>>
        /\ ownerUnchanged
    BY <1>22 DEF stopBegin
  <2> QED
    BY <2>1 DEF ownerUnchanged, TypeOK
<1>23. CASE destroyBegin
  <2>1. opc' \in {"destroyOther", "destroyConnected"}
    BY <1>23 DEF destroyBegin
  <2>2. /\ destroyed' = "otherThread"
        /\ UNCHANGED <<client, conn, clientConnect_, connect_, connector, pending,
                        fault, connects, stopped>>
        /\ ownerUnchanged
    BY <1>23 DEF destroyBegin
  <2> QED
    BY <2>1, <2>2 DEF ownerUnchanged, TypeOK
<1>24. CASE OwnerContinues
  <2>1. pending \in Seq(Functors) /\ timerId_ \in TimerIds \cup {NoTimer}
    BY DEF TypeOK
  <2>2. /\ pending' \in Seq(Functors) /\ connect_' \in BOOLEAN
        /\ opc' \in {"idle", "cancel"}
    <3>1. CASE opc = "start"
      <4>1. pending' = Append(pending, Functor("startInLoop")) /\ opc' = "idle"
            /\ connect_' = connect_
        BY <1>24, <3>1 DEF OwnerContinues
      <4> QED
        BY <2>1, <4>1, FunctorTypes DEF TypeOK
    <3>2. CASE opc = "stop"
      BY <1>24, <3>2, <2>1 DEF OwnerContinues
    <3>3. CASE opc = "cancel"
      <4>1. pending' = Append(pending, CancelFunctor(timerId_)) /\ opc' = "idle"
            /\ connect_' = connect_
        BY <1>24, <3>3 DEF OwnerContinues
      <4> QED
        BY <2>1, <4>1, FunctorTypes DEF TypeOK
    <3> QED
      BY <1>24, <3>1, <3>2, <3>3 DEF OwnerContinues
  <2>3. UNCHANGED <<client, conn, clientConnect_, connector, fault, connects, stopped,
                    destroyed>> /\ ownerUnchanged
    BY <1>24 DEF OwnerContinues
  <2> QED
    BY <2>2, <2>3 DEF ownerUnchanged, TypeOK
<1>25. CASE OwnerDestroys
  <2>1. pending \in Seq(Functors) /\ timerId_ \in TimerIds \cup {NoTimer}
    BY DEF TypeOK
  <2>2. pending' \in Seq(Functors)
    <3>1. PICK f \in Functors, g \in Functors : pending' = pending \o <<f, g>>
      BY <1>25, <2>1, FunctorTypes DEF OwnerDestroys
    <3> QED
      BY <2>1, <3>1
  <2>3. /\ connect_' \in {connect_, FALSE} /\ connector' \in {connector, FALSE}
        /\ fault' \in {fault, "channel"}
    BY <1>25 DEF OwnerDestroys, ConnectorDestroyed
  <2>4. /\ client' \in BOOLEAN /\ opc' = "idle"
        /\ UNCHANGED <<conn, clientConnect_, connects, stopped, destroyed>>
        /\ ownerUnchanged
    BY <1>25 DEF OwnerDestroys
  <2>5. connect_' \in BOOLEAN /\ connector' \in BOOLEAN
    BY <2>3 DEF TypeOK
  <2> QED
    BY <2>2, <2>3, <2>4, <2>5 DEF ownerUnchanged, TypeOK
<1>26. CASE UNCHANGED vars
  BY <1>26 DEF vars, TypeOK
<1> QED
  BY <1>0, <1>1, <1>2, <1>3, <1>4, <1>5, <1>6, <1>7, <1>8, <1>9, <1>10, <1>11, <1>12,
     <1>13, <1>14, <1>15, <1>16, <1>17, <1>18, <1>19, <1>20, <1>21, <1>22, <1>23,
     <1>24, <1>25, <1>26
     DEF Next, LoopStep, LoopOwner, Owner

\* The types, for any ids, delays and bounds.
THEOREM TypeCorrect == Spec => []TypeOK
BY InitType, NextType, PTL DEF Spec

----------------------------------------------------------------------------
(* stop() in the loop thread.                                              *)

\* Once stopped, nothing wants a connection, and no restart was decided
\* before.
StoppedIsStopped == stopped => ~connect_ /\ ~clientConnect_ /\ pc /= "restart"

LEMMA StopNext ==
    ASSUME TypeOK, StoppedIsStopped, [Next]_vars
    PROVE  StoppedIsStopped'
<1> USE DEF StoppedIsStopped, clientVars, connectorVars, lifeVars, loopVars, queueVars, histVars
<1>1. CASE RetryArm
  BY <1>1 DEF RetryArm, TypeOK
<1>0. CASE RetryTest
  BY <1>0 DEF RetryTest, TypeOK
<1>2. CASE HandleFailure
  BY <1>2 DEF HandleFailure, retry
<1>3. CASE handleWrite
  BY <1>3 DEF handleWrite
<1>4. CASE removeConnection
  <2>1. pc' = "restart" => clientConnect_
    BY <1>4 DEF removeConnection
  <2>2. UNCHANGED <<stopped, connect_, clientConnect_>>
    BY <1>4 DEF removeConnection
  <2> QED
    BY <2>1, <2>2
<1>5. ASSUME NEW found, NEW expired, Poll(found, expired) PROVE StoppedIsStopped'
  BY <1>5 DEF Poll
<1>6. ASSUME NEW outcome, RestartDo(outcome) PROVE StoppedIsStopped'
  <2>1. pc = "restart" /\ stopped' = stopped
    BY <1>6 DEF RestartDo
  <2> QED
    BY <2>1
<1>7. ASSUME NEW outcome, TimerFires(outcome) PROVE StoppedIsStopped'
  <2>1. UNCHANGED <<stopped, connect_, clientConnect_>>
        /\ startInLoop(connect_, state_, outcome, "dispatch")
    BY <1>7 DEF TimerFires
  <2>2. pc' \in {"dispatch", "retry"}
    BY <2>1 DEF startInLoop, connect, connecting, retry
  <2> QED
    BY <2>1, <2>2
<1>8. ASSUME NEW outcome, RunStart(outcome) PROVE StoppedIsStopped'
  <2>1. UNCHANGED <<stopped, connect_, clientConnect_>>
        /\ startInLoop(connect_, state_, outcome, "functors")
    BY <1>8 DEF RunStart
  <2>2. pc' \in {"functors", "retry"}
    BY <2>1 DEF startInLoop, connect, connecting, retry
  <2> QED
    BY <2>1, <2>2
<1>9. CASE Release
  BY <1>9 DEF Release
<1>10. CASE Swap
  BY <1>10 DEF Swap
<1>11. CASE FunctorsDone
  BY <1>11 DEF FunctorsDone
<1>12. CASE resetChannel
  BY <1>12 DEF resetChannel
<1>13. CASE RunCancel
  BY <1>13 DEF RunCancel
<1>14. CASE RunSetCloseCallback
  BY <1>14 DEF RunSetCloseCallback
<1>15. CASE RunRunAfter
  BY <1>15 DEF RunRunAfter
<1>16. ASSUME NEW outcome, LoopConnect(outcome) PROVE StoppedIsStopped'
  BY <1>16 DEF LoopConnect
<1>17. CASE LoopStop
  BY <1>17 DEF LoopStop, InLoop
<1>18. CASE LoopDestroy
  BY <1>18 DEF LoopDestroy
<1>19. CASE disconnect
  BY <1>19 DEF disconnect
<1>20. CASE enableRetry
  BY <1>20 DEF enableRetry
<1>21. CASE connectBegin
  BY <1>21 DEF connectBegin
<1>22. CASE stopBegin
  BY <1>22 DEF stopBegin, ownerUnchanged
<1>23. CASE destroyBegin
  BY <1>23 DEF destroyBegin, ownerUnchanged
<1>24. CASE OwnerContinues
  BY <1>24 DEF OwnerContinues, ownerUnchanged
<1>25. CASE OwnerDestroys
  BY <1>25 DEF OwnerDestroys, ownerUnchanged
<1>26. CASE UNCHANGED vars
  BY <1>26 DEF vars
<1> QED
  BY <1>0, <1>1, <1>2, <1>3, <1>4, <1>5, <1>6, <1>7, <1>8, <1>9, <1>10, <1>11, <1>12,
     <1>13, <1>14, <1>15, <1>16, <1>17, <1>18, <1>19, <1>20, <1>21, <1>22, <1>23,
     <1>24, <1>25, <1>26
     DEF Next, LoopStep, LoopOwner, Owner

\* Only handleWrite makes a connection, and only if connect_ is set.
LEMMA OnlyHandleWriteConnects ==
    ASSUME Next, conn = "none", conn' /= "none"
    PROVE  connect_
<1> USE DEF clientVars
<1>1. CASE handleWrite
  BY <1>1 DEF handleWrite
<1>2. CASE LoopStep /\ ~handleWrite
  BY <1>2 DEF LoopStep, RetryTest, RetryArm, HandleFailure, removeConnection, Poll, RestartDo,
     TimerFires, RunStart, Release, Swap, FunctorsDone, resetChannel, RunCancel,
     RunSetCloseCallback, RunRunAfter
<1>3. CASE LoopOwner
  BY <1>3 DEF LoopOwner, LoopConnect, LoopStop, LoopDestroy
<1>4. CASE Owner
  BY <1>4 DEF Owner, disconnect, enableRetry, connectBegin, stopBegin, destroyBegin,
     OwnerContinues, OwnerDestroys
<1> QED
  BY <1>1, <1>2, <1>3, <1>4 DEF Next

\* stop() in the loop thread is final: an attempt in flight and a timer that
\* is due lead to no connection, however many there are.
THEOREM StopIsFinal == Spec => StopInLoopIsFinal
<1>1. Init => StoppedIsStopped
  BY DEF Init, StoppedIsStopped
<1>2. TypeOK /\ StoppedIsStopped /\ [Next]_vars => StoppedIsStopped'
  BY StopNext
<1>3. StoppedIsStopped /\ [Next]_vars
        => [stopped /\ stopped' => conn /= "none" \/ conn' = "none"]_vars
  BY OnlyHandleWriteConnects DEF StoppedIsStopped
<1> QED
  BY <1>1, <1>2, <1>3, TypeCorrect, PTL DEF Spec, StopInLoopIsFinal

----------------------------------------------------------------------------
(* The iteration of the loop.                                              *)

LEMMA StartReturns ==
    ASSUME NEW c, NEW st, NEW outcome, NEW back, startInLoop(c, st, outcome, back)
    PROVE  pc' = back \/ (pc' = "retry" /\ ret' = back)
BY DEF startInLoop, connect, connecting, retry

\* An owner's call in another thread leaves the iteration as it is.
LEMMA OwnerLeavesLoop == Owner => UNCHANGED <<loopVars, batch>>
BY DEF Owner, disconnect, enableRetry, connectBegin, stopBegin, destroyBegin,
   OwnerContinues, OwnerDestroys, ownerUnchanged, queueVars, loopVars

LEMMA LoopShapeNext ==
    ASSUME TypeOK, LoopShape, Next
    PROVE  LoopShape'
<1> USE DEF LoopShape, InDispatch, Retrying, loopVars, queueVars
<1>1. CASE RetryArm
  <2>1. Retrying /\ pc' = ret /\ ret \in {"dispatch", "functors"}
        /\ UNCHANGED <<ret, active, due, batch>>
    BY <1>1 DEF RetryArm, TypeOK
  <2> QED
    BY <2>1
<1>0. CASE RetryTest
  <2>1. Retrying /\ pc' \in {"runAfter", ret} /\ ret \in {"dispatch", "functors"}
        /\ UNCHANGED <<ret, active, due, batch>>
    BY <1>0 DEF RetryTest, TypeOK
  <2> QED
    BY <2>1
<1>2. CASE HandleFailure
  <2>1. pc = "dispatch" /\ (pc' = "dispatch" \/ (pc' = "retry" /\ ret' = "dispatch"))
        /\ UNCHANGED batch
    BY <1>2 DEF HandleFailure, HandlesChannel, retry
  <2> QED
    BY <2>1
<1>3. CASE handleWrite
  BY <1>3 DEF handleWrite, HandlesChannel
<1>4. CASE removeConnection
  <2>1. pc = "dispatch" /\ pc' \in {"dispatch", "restart"} /\ UNCHANGED batch
    BY <1>4 DEF removeConnection
  <2> QED
    BY <2>1
<1>5. ASSUME NEW found, NEW expired, Poll(found, expired) PROVE LoopShape'
  BY <1>5 DEF Poll
<1>6. ASSUME NEW outcome, RestartDo(outcome) PROVE LoopShape'
  <2>1. /\ pc = "restart" /\ UNCHANGED batch
        /\ \/ startInLoop(TRUE, "kDisconnected", outcome, "dispatch")
           \/ UNCHANGED <<pc, ret>>
    BY <1>6 DEF RestartDo
  <2>2. pc' \in {"restart", "dispatch"} \/ (pc' = "retry" /\ ret' = "dispatch")
    BY <2>1, StartReturns
  <2> QED
    BY <2>1, <2>2
<1>7. ASSUME NEW outcome, TimerFires(outcome) PROVE LoopShape'
  <2>1. pc = "dispatch" /\ UNCHANGED batch
        /\ startInLoop(connect_, state_, outcome, "dispatch")
    BY <1>7 DEF TimerFires
  <2>2. pc' = "dispatch" \/ (pc' = "retry" /\ ret' = "dispatch")
    BY <2>1, StartReturns
  <2> QED
    BY <2>1, <2>2
<1>8. ASSUME NEW outcome, RunStart(outcome) PROVE LoopShape'
  <2>1. pc = "functors" /\ UNCHANGED <<active, due>>
        /\ startInLoop(connect_, state_, outcome, "functors")
    BY <1>8 DEF RunStart, RunFunctor
  <2>2. pc' = "functors" \/ (pc' = "retry" /\ ret' = "functors")
    BY <2>1, StartReturns
  <2> QED
    BY <2>1, <2>2
<1>9. CASE Release
  BY <1>9 DEF Release
<1>10. CASE Swap
  BY <1>10 DEF Swap
<1>11. CASE FunctorsDone
  BY <1>11 DEF FunctorsDone
<1>12. CASE resetChannel \/ RunCancel \/ RunSetCloseCallback \/ RunRunAfter
  <2>1. pc = "functors" /\ UNCHANGED <<pc, active, due>>
    BY <1>12 DEF resetChannel, RunCancel, RunSetCloseCallback, RunRunAfter, RunFunctor
  <2> QED
    BY <2>1
<1>13. ASSUME NEW outcome, LoopConnect(outcome) PROVE LoopShape'
  <2>1. pc \in {"dispatch", "functors"} /\ startInLoop(TRUE, state_, outcome, pc)
        /\ UNCHANGED <<active, due, batch>>
    BY <1>13 DEF LoopConnect, InLoop
  <2>2. pc' = pc \/ (pc' = "retry" /\ ret' = pc)
    BY <2>1, StartReturns
  <2> QED
    BY <2>1, <2>2
<1>14. CASE LoopStop
  BY <1>14 DEF LoopStop
<1>15. CASE LoopDestroy
  BY <1>15 DEF LoopDestroy
<1>16. CASE Owner
  BY <1>16, OwnerLeavesLoop
<1> QED
  BY <1>0, <1>1, <1>2, <1>3, <1>4, <1>5, <1>6, <1>7, <1>8, <1>9, <1>10, <1>11, <1>12,
     <1>13, <1>14, <1>15, <1>16 DEF Next, LoopStep, LoopOwner

----------------------------------------------------------------------------
(* What an owner's call in another thread does to the queues.              *)

\* The functor of connect(), the functors of ~TcpClient and those of cancel.
LEMMA OwnerQueues ==
    ASSUME TypeOK, Owner
    PROVE  /\ batch' = batch
           /\ NoOp(pending, "resetChannel") => NoOp(pending', "resetChannel")
           /\ None("resetChannel") => None("resetChannel")'
           /\ One("resetChannel") => One("resetChannel")'
           /\ opc /= "start" =>
                 /\ None("startInLoop") => None("startInLoop")'
                 /\ One("startInLoop") => One("startInLoop")'
           /\ opc = "start" => (None("startInLoop") => One("startInLoop")')
           /\ opc \notin {"destroyConnected", "destroyOther"} =>
                 /\ None("runAfter") => None("runAfter")'
                 /\ None("setCloseCallback") => None("setCloseCallback")'
<1>0. batch' = batch
  BY OwnerLeavesLoop
<1>1. CASE UNCHANGED pending /\ opc /= "start"
  <2>1. \A op : (None(op)' <=> None(op)) /\ (One(op)' <=> One(op))
    BY <1>0, <1>1, SameQueues
  <2> QED
    BY <1>0, <1>1, <2>1
<1>2. CASE opc = "start" /\ OwnerContinues
  <2>1. pending' = Append(pending, Functor("startInLoop"))
    BY <1>2 DEF OwnerContinues
  <2>2. Functor("startInLoop") \in Functors /\ Functor("startInLoop").op = "startInLoop"
    BY FunctorTypes
  <2>3. /\ \A op : "startInLoop" /= op =>
                 (None(op) => None(op)') /\ (One(op) => One(op)')
        /\ \A op : "startInLoop" /= op /\ NoOp(pending, op) => NoOp(pending', op)
        /\ None("startInLoop") => One("startInLoop")'
    BY <1>0, <2>1, <2>2, PushQueues
  <2> QED
    BY <1>0, <1>2, <2>3
<1>3. CASE opc = "cancel" /\ OwnerContinues
  <2>1. pending' = Append(pending, CancelFunctor(timerId_))
    BY <1>3 DEF OwnerContinues
  <2>2. CancelFunctor(timerId_) \in Functors /\ CancelFunctor(timerId_).op = "cancel"
    BY FunctorTypes DEF TypeOK
  <2>3. /\ \A op : "cancel" /= op =>
                 (None(op) => None(op)') /\ (One(op) => One(op)')
        /\ \A op : "cancel" /= op /\ NoOp(pending, op) => NoOp(pending', op)
    BY <1>0, <2>1, <2>2, PushQueues
  <2> QED
    BY <1>0, <1>3, <2>3
<1>4. CASE OwnerDestroys
  <2>1. opc \in {"destroyConnected", "destroyOther"}
    BY <1>4 DEF OwnerDestroys
  <2>2. PICK f \in Functors, g \in Functors :
            /\ pending' = pending \o <<f, g>>
            /\ f.op \notin {"startInLoop", "resetChannel"}
            /\ g.op \notin {"startInLoop", "resetChannel"}
    <3>1. /\ CancelFunctor(timerId_) \in Functors /\ CancelFunctor(timerId_).op = "cancel"
          /\ Functor("setCloseCallback") \in Functors
          /\ Functor("setCloseCallback").op = "setCloseCallback"
          /\ Functor("runAfter") \in Functors /\ Functor("runAfter").op = "runAfter"
      BY FunctorTypes DEF TypeOK
    <3>2. CASE opc = "destroyConnected"
      <4>1. pending' = pending \o <<Functor("setCloseCallback"), CancelFunctor(timerId_)>>
        BY <1>4, <3>2 DEF OwnerDestroys
      <4> QED
        BY <3>1, <4>1
    <3>3. CASE opc = "destroyOther"
      <4>1. pending' = pending \o <<CancelFunctor(timerId_), Functor("runAfter")>>
        BY <1>4, <3>3 DEF OwnerDestroys
      <4> QED
        BY <3>1, <4>1
    <3> QED
      BY <2>1, <3>2, <3>3
  <2>3. pending \in Seq(Functors)
    BY DEF TypeOK
  <2> DEFINE one == Append(pending, f)
  <2>4. one \in Seq(Functors) /\ pending' = Append(one, g)
    BY <2>2, <2>3
  <2>5. \A op \in {"startInLoop", "resetChannel"} :
            /\ NoOp(pending, op) => NoOp(one, op)
            /\ OneOp(pending, op) => OneOp(one, op)
    BY <2>2, <2>3, PushOp
  <2> HIDE DEF one
  <2>6. \A op \in {"startInLoop", "resetChannel"} :
            /\ NoOp(one, op) => NoOp(pending', op)
            /\ OneOp(one, op) => OneOp(pending', op)
    BY <2>2, <2>4, PushOp
  <2> QED
    BY <1>0, <2>1, <2>5, <2>6 DEF None, One
<1>5. \/ UNCHANGED pending /\ opc /= "start"
      \/ OwnerContinues /\ opc \in {"start", "cancel"}
      \/ OwnerDestroys
  BY DEF Owner, disconnect, enableRetry, connectBegin, stopBegin, destroyBegin,
     Calls, OwnerContinues, queueVars
<1> QED
  BY <1>1, <1>2, <1>3, <1>4, <1>5

----------------------------------------------------------------------------
(* The Connector's channel.                                                *)

\* removeAndResetChannel queues the functor that ends this channel.
LEMMA RemoveQueues ==
    ASSUME TypeOK, removeAndResetChannel, batch' = batch
    PROVE  /\ None("resetChannel") => One("resetChannel")'
           /\ \A op : op /= "resetChannel" =>
                 (None(op) => None(op)') /\ (One(op) => One(op)')
<1>1. Functor("resetChannel") \in Functors /\ Functor("resetChannel").op = "resetChannel"
  BY FunctorTypes
<1>2. pending' = Append(pending, Functor("resetChannel"))
  BY DEF removeAndResetChannel
<1> QED
  BY <1>1, <1>2, PushQueues

LEMMA ChannelShapeSame ==
    ASSUME ChannelShape, InDispatch => InDispatch',
           UNCHANGED <<channel_, conn, keepAlive, pending, batch>>,
           active' \subseteq active
    PROVE  ChannelShape'
<1>1. \A op : (None(op)' <=> None(op)) /\ (One(op)' <=> One(op))
  BY SameQueues
<1>2. InDispatch' \/ NoOp(pending', "resetChannel")
  BY DEF ChannelShape
<1> QED
  BY <1>1, <1>2 DEF ChannelShape

\* An attempt that meets no channel of the last one.
LEMMA ChannelShapeStart ==
    ASSUME ChannelShape, NEW c, NEW st, NEW outcome, NEW back,
           startInLoop(c, st, outcome, back), fault' = "none",
           UNCHANGED <<conn, keepAlive, pending, active>>,
           back = "dispatch" \/ ~InDispatch,
           None("resetChannel") => None("resetChannel")',
           One("resetChannel") => One("resetChannel")'
    PROVE  ChannelShape'
<1>1. InDispatch' \/ NoOp(pending', "resetChannel")
  BY StartReturns DEF ChannelShape, InDispatch, Retrying
<1>2. channel_' = channel_ \/ (channel_ = "none" /\ channel_' = "added")
  BY StartCases
<1>3. /\ "channel" \in active' => channel_' = "added"
      /\ "close" \in active' => conn' /= "none"
      /\ "release" \in active' => keepAlive'
  BY <1>2 DEF ChannelShape
<1>4. /\ channel_' = "removed" => One("resetChannel")'
      /\ channel_' /= "removed" => None("resetChannel")'
  BY <1>2 DEF ChannelShape
<1> QED
  BY <1>1, <1>3, <1>4 DEF ChannelShape

LEMMA ChannelShapeNext ==
    ASSUME TypeOK, LoopShape, ChannelShape, Next, fault' = "none"
    PROVE  ChannelShape'
<1> USE DEF clientVars, connectorVars, lifeVars, loopVars, queueVars, histVars
<1>1. CASE RetryArm
  <2>1. Retrying /\ pc' = ret
        /\ UNCHANGED <<ret, channel_, conn, keepAlive, pending, batch, active>>
    BY <1>1 DEF RetryArm, Retrying
  <2> QED
    BY <2>1, ChannelShapeSame DEF InDispatch, Retrying
<1>0. CASE RetryTest
  <2>1. Retrying /\ pc' \in {"runAfter", ret}
        /\ UNCHANGED <<ret, channel_, conn, keepAlive, pending, batch, active>>
    BY <1>0 DEF RetryTest, Retrying
  <2> QED
    BY <2>1, ChannelShapeSame DEF InDispatch, Retrying
<1>2. CASE HandleFailure \/ handleWrite
  <2>1. /\ pc = "dispatch" /\ "channel" \in active /\ active' = active \ {"channel"}
        /\ removeAndResetChannel /\ channel_' = "removed" /\ conn' \in {conn, "TcpClient"}
        /\ UNCHANGED <<keepAlive, batch>>
        /\ pc' = "dispatch" \/ (pc' = "retry" /\ ret' = "dispatch")
    BY <1>2 DEF HandleFailure, handleWrite, HandlesChannel, removeAndResetChannel, retry
  <2>2. None("resetChannel")
    BY <2>1 DEF ChannelShape
  <2>3. One("resetChannel")'
    BY <2>1, <2>2, RemoveQueues
  <2>4. InDispatch'
    BY <2>1 DEF InDispatch, Retrying
  <2> QED
    BY <2>1, <2>3, <2>4 DEF ChannelShape
<1>3. CASE removeConnection
  <2>1. /\ active' = active \ {"close"} /\ pc' \in {"dispatch", "restart"}
        /\ UNCHANGED <<channel_, keepAlive, pending, batch>>
    BY <1>3 DEF removeConnection
  <2>2. \A op : (None(op)' <=> None(op)) /\ (One(op)' <=> One(op))
    BY <2>1, SameQueues
  <2> QED
    BY <2>1, <2>2 DEF ChannelShape, InDispatch, Retrying
<1>4. ASSUME NEW found \in SUBSET Ready, NEW expired, Poll(found, expired) PROVE ChannelShape'
  <2>1. /\ active' = found /\ pc' = "dispatch"
        /\ UNCHANGED <<channel_, conn, keepAlive, pending, batch>>
    BY <1>4 DEF Poll
  <2>2. \A op : (None(op)' <=> None(op)) /\ (One(op)' <=> One(op))
    BY <2>1, SameQueues
  <2> QED
    BY <2>1, <2>2 DEF ChannelShape, InDispatch, Retrying, Ready
<1>5. ASSUME NEW outcome, RestartDo(outcome) PROVE ChannelShape'
  <2>1. /\ startInLoop(TRUE, "kDisconnected", outcome, "dispatch")
        /\ UNCHANGED <<conn, keepAlive, pending, batch, active>>
    BY <1>5 DEF RestartDo
  <2>2. \A op : (None(op)' <=> None(op)) /\ (One(op)' <=> One(op))
    BY <2>1, SameQueues
  <2> QED
    BY <2>1, <2>2, ChannelShapeStart
<1>6. ASSUME NEW outcome, TimerFires(outcome) PROVE ChannelShape'
  <2>1. /\ startInLoop(connect_, state_, outcome, "dispatch")
        /\ UNCHANGED <<conn, keepAlive, pending, batch, active>>
    BY <1>6 DEF TimerFires
  <2>2. \A op : (None(op)' <=> None(op)) /\ (One(op)' <=> One(op))
    BY <2>1, SameQueues
  <2> QED
    BY <2>1, <2>2, ChannelShapeStart
<1>7. ASSUME NEW outcome, RunStart(outcome) PROVE ChannelShape'
  <2>1. /\ startInLoop(connect_, state_, outcome, "functors")
        /\ UNCHANGED <<conn, keepAlive, pending, active>>
        /\ RunFunctor("startInLoop") /\ pc = "functors"
    BY <1>7 DEF RunStart, RunFunctor
  <2>2. /\ None("resetChannel") => None("resetChannel")'
        /\ One("resetChannel") => One("resetChannel")'
    BY <2>1, RunQueues
  <2>3. ~InDispatch
    BY <2>1 DEF InDispatch, Retrying
  <2> QED
    BY <2>1, <2>2, <2>3, ChannelShapeStart
<1>8. CASE Release
  <2>1. /\ active' = active \ {"release"} /\ pc = "dispatch"
        /\ UNCHANGED <<channel_, conn, pending, batch, pc>>
    BY <1>8 DEF Release
  <2>2. \A op : (None(op)' <=> None(op)) /\ (One(op)' <=> One(op))
    BY <2>1, SameQueues
  <2> QED
    BY <2>1, <2>2 DEF ChannelShape, InDispatch, Retrying
<1>9. CASE Swap
  <2>1. /\ active = {} /\ pc = "dispatch" /\ batch' = pending /\ pending' = <<>>
        /\ UNCHANGED <<channel_, conn, keepAlive, active>>
    BY <1>9 DEF Swap
  <2>2. batch = <<>>
    BY <2>1 DEF LoopShape, InDispatch, Retrying
  <2>3. /\ None("resetChannel") => None("resetChannel")'
        /\ One("resetChannel") => One("resetChannel")'
        /\ NoOp(pending', "resetChannel")
    BY <2>1, <2>2, SwapQueues
  <2> QED
    BY <2>1, <2>3 DEF ChannelShape
<1>10. CASE FunctorsDone
  BY <1>10, ChannelShapeSame DEF FunctorsDone, InDispatch, Retrying
<1>11. CASE resetChannel
  <2>1. /\ pc = "functors" /\ channel_' = "none" /\ RunFunctor("resetChannel")
        /\ UNCHANGED <<pc, conn, keepAlive, pending, active>>
    BY <1>11 DEF resetChannel, RunFunctor
  <2>2. ~None("resetChannel") /\ (One("resetChannel") => None("resetChannel")')
    BY <2>1, RunQueues
  <2>3. active = {} /\ NoOp(pending, "resetChannel")
    BY <2>1 DEF LoopShape, ChannelShape, InDispatch, Retrying
  <2> QED
    BY <2>1, <2>2, <2>3 DEF ChannelShape
<1>12. CASE RunCancel \/ RunSetCloseCallback \/ RunRunAfter
  <2>1. /\ UNCHANGED <<pc, channel_, pending, active>> /\ pc = "functors"
        /\ \E op \in {"cancel", "setCloseCallback", "runAfter"} : RunFunctor(op)
    BY <1>12 DEF RunCancel, RunSetCloseCallback, RunRunAfter, RunFunctor
  <2>2. /\ None("resetChannel") => None("resetChannel")'
        /\ One("resetChannel") => One("resetChannel")'
    BY <2>1, RunQueues
  <2>3. active = {} /\ NoOp(pending, "resetChannel")
    BY <2>1 DEF LoopShape, ChannelShape, InDispatch, Retrying
  <2> QED
    BY <2>1, <2>2, <2>3 DEF ChannelShape
<1>13. ASSUME NEW outcome, LoopConnect(outcome) PROVE ChannelShape'
  <2>1. /\ startInLoop(TRUE, state_, outcome, pc) /\ pc \in {"dispatch", "functors"}
        /\ UNCHANGED <<conn, keepAlive, pending, batch, active>>
    BY <1>13 DEF LoopConnect, InLoop
  <2>2. \A op : (None(op)' <=> None(op)) /\ (One(op)' <=> One(op))
    BY <2>1, SameQueues
  <2>3. pc = "dispatch" \/ ~InDispatch
    BY <2>1 DEF InDispatch, Retrying
  <2> QED
    BY <2>1, <2>2, <2>3, ChannelShapeStart
<1>14. CASE LoopStop
  BY <1>14, ChannelShapeSame DEF LoopStop, InDispatch, Retrying
<1>15. CASE LoopDestroy
  <2>1. /\ conn /= "none" => conn' /= "none"
        /\ keepAlive => keepAlive'
        /\ UNCHANGED <<channel_, pending, batch, active, pc, ret>>
    BY <1>15 DEF LoopDestroy
  <2>2. \A op : (None(op)' <=> None(op)) /\ (One(op)' <=> One(op))
    BY <2>1, SameQueues
  <2>3. InDispatch' <=> InDispatch
    BY <2>1 DEF InDispatch, Retrying
  <2> QED
    BY <2>1, <2>2, <2>3 DEF ChannelShape
<1>16. CASE Owner
  <2>1. UNCHANGED <<channel_, conn, keepAlive, active, pc, ret>>
    BY <1>16 DEF Owner, disconnect, enableRetry, connectBegin, stopBegin, destroyBegin,
       OwnerContinues, OwnerDestroys, ownerUnchanged
  <2>2. /\ NoOp(pending, "resetChannel") => NoOp(pending', "resetChannel")
        /\ None("resetChannel") => None("resetChannel")'
        /\ One("resetChannel") => One("resetChannel")'
    BY <1>16, OwnerQueues
  <2>3. InDispatch' <=> InDispatch
    BY <2>1 DEF InDispatch, Retrying
  <2> QED
    BY <2>1, <2>2, <2>3 DEF ChannelShape
<1> QED
  BY <1>0, <1>1, <1>2, <1>3, <1>4, <1>5, <1>6, <1>7, <1>8, <1>9, <1>10, <1>11, <1>12,
     <1>13, <1>14, <1>15, <1>16 DEF Next, LoopStep, LoopOwner

----------------------------------------------------------------------------
(* One attempt at a time.                                                  *)

\* A step that takes the attempt no further, or cancels its timer.
LEMMA OneAttemptStays ==
    ASSUME OneAttempt,
           opc' = "start" <=> opc = "start",
           None("startInLoop") => None("startInLoop")',
           One("startInLoop") => One("startInLoop")',
           Retrying' <=> Retrying,
           pc' = "restart" <=> pc = "restart",
           timers' \cup due' \subseteq timers \cup due,
           channel_' = channel_ \/ (channel_ = "removed" /\ channel_' = "none"),
           conn' = "none" <=> conn = "none",
           UNCHANGED <<state_, timerId_, connects>>,
           InDispatch' /\ channel_' = "removed" => due' = {} /\ "close" \notin active'
    PROVE  OneAttempt'
<1>1. PICK s \in Stages : Stage(s)
  BY DEF OneAttempt
<1>2. CASE s = "armed" /\ timers' \cup due' = {}
  <2>1. Stage("none")'
    BY <1>1, <1>2 DEF Stage, Retrying
  <2>2. connects /= 0
    BY <1>1, <1>2 DEF OneAttempt, Stage
  <2> QED
    BY <2>1, <2>2, <1>2 DEF OneAttempt, Stages
<1>3. CASE ~(s = "armed" /\ timers' \cup due' = {})
  <2>1. timers' \cup due' /= {} <=> timers \cup due /= {}
    BY <1>1, <1>3 DEF Stage, Retrying
  <2>2. \A t \in Stages : Stage(t) => Stage(t)'
    BY <2>1 DEF Stage, Retrying
  <2>3. (\E t \in Stages : Stage(t)) /\ timers \cup due \subseteq {timerId_}
    BY <1>1 DEF OneAttempt
  <2>4. connects = 0 => Stage("none")' /\ state_' = "kDisconnected" /\ channel_' = "none"
    BY <2>2 DEF OneAttempt, Stages
  <2> QED
    BY <2>2, <2>3, <2>4 DEF OneAttempt
<1> QED
  BY <1>2, <1>3

\* startInLoop() is called when nothing else of the attempt is left.
LEMMA OneAttemptStarts ==
    ASSUME NEW c, NEW st, NEW outcome, NEW back \in {"dispatch", "functors"},
           startInLoop(c, st, outcome, back), fault' = "none",
           opc' /= "start", None("startInLoop")', timers' \cup due' = {},
           conn' = "none", channel_ = "none", connects' /= 0
    PROVE  OneAttempt'
<1>1. CASE channel_' = "added" /\ state_' = "kConnecting" /\ pc' = back
  <2>1. Stage("connecting")'
    BY <1>1 DEF Stage, Retrying
  <2> QED
    BY <1>1, <2>1 DEF OneAttempt, Stages
<1>2. CASE channel_' = "none" /\ pc' = "retry" /\ state_' = "kDisconnected"
  <2>1. Stage("retry")'
    BY <1>2 DEF Stage, Retrying
  <2> QED
    BY <1>2, <2>1 DEF OneAttempt, Stages
<1>3. CASE channel_' = "none" /\ pc' = back
  <2>1. Stage("none")'
    BY <1>3 DEF Stage, Retrying
  <2> QED
    BY <1>3, <2>1 DEF OneAttempt, Stages
<1> QED
  BY <1>1, <1>2, <1>3, StartCases

\* Nothing of an attempt is left, or all that is left is what is named.
LEMMA StageFacts ==
    ASSUME OneAttempt
    PROVE  /\ opc = "start" \/ ~None("startInLoop") \/ pc \in {"retry", "runAfter", "restart"}
                \/ timers \cup due /= {} \/ channel_ = "added" \/ conn /= "none"
              => connects /= 0
           /\ opc = "start" =>
                 /\ None("startInLoop") /\ pc \notin {"retry", "runAfter", "restart"}
                 /\ timers \cup due = {} /\ channel_ = "none" /\ conn = "none"
                 /\ state_ = "kDisconnected"
           /\ ~None("startInLoop") =>
                 /\ opc /= "start" /\ One("startInLoop") /\ pc \notin {"retry", "runAfter", "restart"}
                 /\ timers \cup due = {} /\ channel_ = "none" /\ conn = "none"
                 /\ state_ = "kDisconnected"
           /\ Retrying =>
                 /\ opc /= "start" /\ None("startInLoop")
                 /\ timers \cup due = {} /\ channel_ /= "added" /\ conn = "none"
                 /\ state_ = "kDisconnected"
           /\ timers \cup due /= {} =>
                 /\ opc /= "start" /\ None("startInLoop") /\ pc \notin {"retry", "runAfter", "restart"}
                 /\ channel_ /= "added" /\ conn = "none" /\ state_ = "kDisconnected"
           /\ channel_ = "added" =>
                 /\ opc /= "start" /\ None("startInLoop") /\ pc \notin {"retry", "runAfter", "restart"}
                 /\ timers \cup due = {} /\ conn = "none" /\ state_ = "kConnecting"
           /\ conn /= "none" =>
                 /\ opc /= "start" /\ None("startInLoop") /\ pc \notin {"retry", "runAfter", "restart"}
                 /\ timers \cup due = {} /\ channel_ /= "added"
           /\ pc = "restart" =>
                 /\ opc /= "start" /\ None("startInLoop")
                 /\ timers \cup due = {} /\ channel_ = "none" /\ conn = "none"
<1>1. PICK s \in Stages : Stage(s)
  BY DEF OneAttempt
<1>2. connects = 0 => Stage("none")
  BY DEF OneAttempt
<1> QED
  BY <1>1, <1>2 DEF Stage, Stages, Retrying

\* When poll(2) is called the removed channel has been reset.
LEMMA PollFindsNoRemoved ==
    ASSUME LoopShape, ChannelShape, pc = "poll"
    PROVE  channel_ /= "removed"
<1>1. batch = <<>> /\ NoOp(pending, "resetChannel")
  BY DEF LoopShape, ChannelShape, InDispatch, Retrying
<1>2. ~One("resetChannel")
  BY <1>1 DEF One, OneOp, NoOp
<1> QED
  BY <1>2 DEF ChannelShape

LEMMA OneAttemptNext ==
    ASSUME TypeOK, LoopShape, ChannelShape, OneAttempt, Next, fault' = "none",
           connects' <= 1
    PROVE  OneAttempt'
<1> USE DEF clientVars, connectorVars, lifeVars, loopVars, queueVars, histVars
<1>1. CASE RetryArm
  <2>1. PICK id \in TimerIds : timerId_' = id /\ timers' = timers \cup {id}
    BY <1>1 DEF RetryArm, FreeIds
  <2>2. /\ Retrying /\ pc' = ret /\ ret \in {"dispatch", "functors"}
        /\ UNCHANGED <<opc, pending, batch, due, channel_, conn, state_, ret, active, connects>>
    BY <1>1 DEF RetryArm, TypeOK, Retrying
  <2>3. \A op : None(op)' <=> None(op)
    BY <2>2, SameQueues
  <2>4. /\ connects /= 0 /\ opc /= "start" /\ None("startInLoop")
        /\ timers \cup due = {} /\ channel_ /= "added" /\ conn = "none"
        /\ state_ = "kDisconnected"
    BY <2>2, StageFacts DEF Retrying
  <2>5. Stage("armed")'
    BY <2>1, <2>2, <2>3, <2>4 DEF Stage, Retrying
  <2>6. timers' \cup due' \subseteq {timerId_'}
    BY <2>1, <2>2, <2>4
  <2>7. (InDispatch /\ channel_ = "removed" => due = {} /\ "close" \notin active)'
    BY <2>2 DEF OneAttempt, InDispatch, Retrying
  <2>8. connects' /= 0
    BY <2>2, <2>4
  <2> QED
    BY <2>5, <2>6, <2>7, <2>8 DEF OneAttempt, Stages
<1>0. CASE RetryTest
  <2>1. /\ Retrying /\ pc' \in {"runAfter", ret} /\ ret \in {"dispatch", "functors"}
        /\ UNCHANGED <<opc, pending, batch, timers, due, channel_, conn, state_, ret,
                       active, timerId_, connects>>
    BY <1>0 DEF RetryTest, TypeOK, Retrying
  <2>2. \A op : (None(op)' <=> None(op)) /\ (One(op)' <=> One(op))
    BY <2>1, SameQueues
  <2>3. (InDispatch /\ channel_ = "removed" => due = {} /\ "close" \notin active)'
    BY <2>1 DEF OneAttempt, InDispatch, Retrying
  <2>4. /\ connects /= 0 /\ opc /= "start" /\ None("startInLoop")
        /\ timers \cup due = {} /\ channel_ /= "added" /\ conn = "none"
        /\ state_ = "kDisconnected"
    BY <2>1, StageFacts DEF Retrying
  <2>5. Stage("retry")' \/ Stage("none")'
    BY <2>1, <2>2, <2>4 DEF Stage, Retrying
  <2> QED
    BY <2>1, <2>3, <2>4, <2>5 DEF OneAttempt, Stages
<1>2. CASE HandleFailure \/ handleWrite
  <2>1. /\ "channel" \in active /\ active' = active \ {"channel"}
        /\ removeAndResetChannel /\ channel_' = "removed"
        /\ UNCHANGED <<opc, batch, timers, due, timerId_, connects>> /\ pc = "dispatch"
    BY <1>2 DEF HandleFailure, handleWrite, HandlesChannel, removeAndResetChannel
  <2>2. channel_ = "added"
    BY <2>1 DEF ChannelShape
  <2>3. /\ connects /= 0 /\ opc /= "start" /\ None("startInLoop")
        /\ timers \cup due = {} /\ conn = "none"
    BY <2>2, StageFacts
  <2>4. None("startInLoop")'
    BY <2>1, <2>3, RemoveQueues
  <2>5. due' = {} /\ "close" \notin active' /\ timers' \cup due' = {} /\ connects' /= 0
    BY <2>1, <2>3 DEF ChannelShape
  <2>6. \/ conn' = "none" /\ pc' = "retry" /\ state_' = "kDisconnected"
        \/ conn' = "none" /\ pc' = "dispatch"
        \/ conn' = "TcpClient" /\ pc' = "dispatch"
    BY <1>2, <2>1, <2>3 DEF HandleFailure, handleWrite, retry
  <2>7. Stage("retry")' \/ Stage("none")' \/ Stage("connected")'
    BY <2>1, <2>3, <2>4, <2>5, <2>6 DEF Stage, Retrying
  <2> QED
    BY <2>5, <2>7 DEF OneAttempt, Stages
<1>3. CASE removeConnection
  <2>1. /\ pc = "dispatch" /\ "close" \in active /\ active' = active \ {"close"}
        /\ conn' = "none" /\ pc' \in {"dispatch", "restart"}
        /\ UNCHANGED <<opc, pending, batch, timers, due, channel_, timerId_, connects, state_>>
    BY <1>3 DEF removeConnection
  <2>2. conn /= "none"
    BY <2>1 DEF ChannelShape
  <2>3. /\ connects /= 0 /\ opc /= "start" /\ None("startInLoop")
        /\ timers \cup due = {} /\ channel_ /= "added"
    BY <2>2, StageFacts
  <2>4. channel_ /= "removed"
    BY <2>1 DEF OneAttempt, InDispatch, Retrying
  <2>5. channel_ = "none"
    BY <2>3, <2>4 DEF TypeOK
  <2>6. \A op : None(op)' <=> None(op)
    BY <2>1, SameQueues
  <2>7. Stage("restart")' \/ Stage("none")'
    BY <2>1, <2>3, <2>5, <2>6 DEF Stage, Retrying
  <2>8. channel_' = "none" /\ timers' \cup due' = {} /\ connects' /= 0
    BY <2>1, <2>3, <2>5
  <2> QED
    BY <2>7, <2>8 DEF OneAttempt, Stages
<1>4. ASSUME NEW found, NEW expired \in SUBSET timers, Poll(found, expired)
      PROVE  OneAttempt'
  <2>1. /\ pc = "poll" /\ pc' = "dispatch" /\ due' = expired
        /\ UNCHANGED <<opc, pending, batch, timers, channel_, conn, state_, timerId_, connects>>
    BY <1>4 DEF Poll
  <2>2. \A op : (None(op)' <=> None(op)) /\ (One(op)' <=> One(op))
    BY <2>1, SameQueues
  <2>3. channel_' /= "removed"
    BY <2>1, PollFindsNoRemoved
  <2>4. timers' \cup due' \subseteq timers \cup due
    BY <2>1
  <2> QED
    BY <2>1, <2>2, <2>3, <2>4, OneAttemptStays DEF Retrying
<1>5. ASSUME NEW outcome, RestartDo(outcome) PROVE OneAttempt'
  <2>1. /\ pc = "restart" /\ startInLoop(TRUE, "kDisconnected", outcome, "dispatch")
        /\ UNCHANGED <<opc, pending, batch, timers, due, conn, connects>>
    BY <1>5 DEF RestartDo
  <2>2. /\ connects /= 0 /\ opc /= "start" /\ None("startInLoop")
        /\ timers \cup due = {} /\ channel_ = "none" /\ conn = "none"
    BY <2>1, StageFacts
  <2>3. None("startInLoop")'
    BY <2>1, <2>2, SameQueues
  <2> QED
    BY <2>1, <2>2, <2>3, OneAttemptStarts
<1>6. ASSUME NEW outcome, TimerFires(outcome) PROVE OneAttempt'
  <2>1. /\ pc = "dispatch" /\ startInLoop(connect_, state_, outcome, "dispatch")
        /\ UNCHANGED <<opc, pending, batch, conn, connects>>
    BY <1>6 DEF TimerFires
  <2>2. PICK id \in due : due' = due \ {id} /\ timers' = timers \ {id}
    BY <1>6 DEF TimerFires
  <2>3. timers \cup due \subseteq {timerId_}
    BY DEF OneAttempt
  <2>4. timers' \cup due' = {}
    BY <2>2, <2>3
  <2>5. /\ connects /= 0 /\ opc /= "start" /\ None("startInLoop")
        /\ channel_ /= "added" /\ conn = "none"
    BY <2>2, StageFacts
  <2>6. channel_ = "none"
    BY <2>1, <2>2, <2>5 DEF OneAttempt, InDispatch, Retrying, TypeOK
  <2>7. None("startInLoop")'
    BY <2>1, <2>5, SameQueues
  <2> QED
    BY <2>1, <2>4, <2>5, <2>6, <2>7, OneAttemptStarts
<1>7. ASSUME NEW outcome, RunStart(outcome) PROVE OneAttempt'
  <2>1. /\ RunFunctor("startInLoop")
        /\ startInLoop(connect_, state_, outcome, "functors")
        /\ UNCHANGED <<opc, pending, timers, due, conn, connects>>
    BY <1>7 DEF RunStart
  <2>2. ~None("startInLoop") /\ (One("startInLoop") => None("startInLoop")')
    BY <2>1, RunQueues
  <2>3. /\ connects /= 0 /\ opc /= "start" /\ One("startInLoop")
        /\ timers \cup due = {} /\ channel_ = "none" /\ conn = "none"
    BY <2>2, StageFacts
  <2> QED
    BY <2>1, <2>2, <2>3, OneAttemptStarts
<1>8. CASE Release
  <2>1. /\ timers' \subseteq timers /\ active' \subseteq active
        /\ UNCHANGED <<opc, pc, ret, pending, batch, due, channel_, conn, state_, timerId_, connects>>
    BY <1>8 DEF Release
  <2>2. \A op : (None(op)' <=> None(op)) /\ (One(op)' <=> One(op))
    BY <2>1, SameQueues
  <2>3. (InDispatch /\ channel_ = "removed" => due = {} /\ "close" \notin active)'
    BY <2>1 DEF OneAttempt, InDispatch, Retrying
  <2>4. timers' \cup due' \subseteq timers \cup due
    BY <2>1
  <2> QED
    BY <2>1, <2>2, <2>3, <2>4, OneAttemptStays DEF Retrying
<1>9. CASE Swap
  <2>1. /\ pc = "dispatch" /\ pc' = "functors" /\ batch' = pending /\ pending' = <<>>
        /\ UNCHANGED <<opc, timers, due, channel_, conn, state_, timerId_, connects>>
    BY <1>9 DEF Swap
  <2>2. batch = <<>>
    BY <2>1 DEF LoopShape, InDispatch, Retrying
  <2>3. /\ None("startInLoop") => None("startInLoop")'
        /\ One("startInLoop") => One("startInLoop")'
    BY <2>1, <2>2, SwapQueues
  <2>4. ~InDispatch'
    BY <2>1 DEF InDispatch, Retrying
  <2> QED
    BY <2>1, <2>3, <2>4, OneAttemptStays DEF Retrying
<1>10. CASE FunctorsDone
  <2>1. /\ pc = "functors" /\ pc' = "poll"
        /\ UNCHANGED <<opc, pending, batch, timers, due, channel_, conn, state_, timerId_, connects>>
    BY <1>10 DEF FunctorsDone
  <2>2. \A op : (None(op)' <=> None(op)) /\ (One(op)' <=> One(op))
    BY <2>1, SameQueues
  <2>3. ~InDispatch'
    BY <2>1 DEF InDispatch, Retrying
  <2> QED
    BY <2>1, <2>2, <2>3, OneAttemptStays DEF Retrying
<1>11. CASE resetChannel \/ RunCancel \/ RunSetCloseCallback \/ RunRunAfter
  <2>1. /\ pc = "functors" /\ pc' = pc
        /\ UNCHANGED <<opc, pending, due, state_, timerId_, connects>>
        /\ timers' \subseteq timers
        /\ conn' = "none" <=> conn = "none"
        /\ \E op \in {"resetChannel", "cancel", "setCloseCallback", "runAfter"} : RunFunctor(op)
    BY <1>11 DEF resetChannel, RunCancel, RunSetCloseCallback, RunRunAfter, RunFunctor
  <2>2. /\ None("startInLoop") => None("startInLoop")'
        /\ One("startInLoop") => One("startInLoop")'
    BY <2>1, RunQueues
  <2>3. channel_' = channel_ \/ (channel_ = "removed" /\ channel_' = "none")
    <3>1. CASE resetChannel
      <4>1. ~None("resetChannel") /\ channel_' = "none"
        BY <3>1, RunQueues DEF resetChannel
      <4> QED
        BY <4>1 DEF ChannelShape
    <3>2. CASE ~resetChannel
      BY <1>11, <3>2 DEF RunCancel, RunSetCloseCallback, RunRunAfter
    <3> QED
      BY <3>1, <3>2
  <2>4. ~InDispatch'
    BY <2>1 DEF InDispatch, Retrying
  <2>5. timers' \cup due' \subseteq timers \cup due
    BY <2>1
  <2> QED
    BY <2>1, <2>2, <2>3, <2>4, <2>5, OneAttemptStays DEF Retrying
<1>12. ASSUME NEW outcome, LoopConnect(outcome) PROVE OneAttempt'
  <2>1. /\ pc \in {"dispatch", "functors"} /\ startInLoop(TRUE, state_, outcome, pc)
        /\ opc' /= "start" /\ connects' = connects + 1
        /\ UNCHANGED <<pending, batch, timers, due, conn>>
    BY <1>12 DEF LoopConnect, InLoop
  <2>2. connects = 0 /\ connects' /= 0
    BY <2>1 DEF TypeOK
  <2>3. Stage("none") /\ channel_ = "none"
    BY <2>2 DEF OneAttempt
  <2>4. None("startInLoop") /\ timers \cup due = {} /\ conn = "none"
    BY <2>3 DEF Stage, Retrying
  <2>5. None("startInLoop")'
    BY <2>1, <2>4, SameQueues
  <2> QED
    BY <2>1, <2>2, <2>3, <2>4, <2>5, OneAttemptStarts
<1>13. CASE LoopStop \/ LoopDestroy
  <2>1. /\ timers' \subseteq timers /\ (conn' = "none" <=> conn = "none")
        /\ UNCHANGED <<opc, pc, ret, active, pending, batch, due, channel_, state_, timerId_, connects>>
    BY <1>13 DEF LoopStop, LoopDestroy
  <2>2. \A op : (None(op)' <=> None(op)) /\ (One(op)' <=> One(op))
    BY <2>1, SameQueues
  <2>3. (InDispatch /\ channel_ = "removed" => due = {} /\ "close" \notin active)'
    BY <2>1 DEF OneAttempt, InDispatch, Retrying
  <2>4. timers' \cup due' \subseteq timers \cup due
    BY <2>1
  <2> QED
    BY <2>1, <2>2, <2>3, <2>4, OneAttemptStays DEF Retrying
<1>14. CASE Owner
  <2>1. UNCHANGED <<pc, ret, active, timers, due, channel_, conn, state_, timerId_>>
    BY <1>14 DEF Owner, disconnect, enableRetry, connectBegin, stopBegin, destroyBegin,
       OwnerContinues, OwnerDestroys, ownerUnchanged
  <2>2. (InDispatch /\ channel_ = "removed" => due = {} /\ "close" \notin active)'
    BY <2>1 DEF OneAttempt, InDispatch, Retrying
  <2>3. CASE connectBegin
    <3>1. opc = "idle" /\ opc' = "start" /\ connects' = connects + 1
      BY <2>3 DEF connectBegin, Calls
    <3>2. connects = 0 /\ connects' /= 0
      BY <3>1 DEF TypeOK
    <3>3. Stage("none") /\ state_ = "kDisconnected" /\ channel_ = "none"
      BY <3>2 DEF OneAttempt
    <3>4. None("startInLoop")'
      BY <1>14, <3>1, <3>3, OwnerQueues DEF Stage, Retrying
    <3>5. Stage("start")'
      BY <2>1, <3>1, <3>3, <3>4 DEF Stage, Retrying
    <3> QED
      BY <2>1, <2>2, <3>2, <3>5 DEF OneAttempt, Stages
  <2>4. CASE OwnerContinues /\ opc = "start"
    <3>1. opc' = "idle" /\ connects' = connects
      BY <2>4 DEF OwnerContinues
    <3>2. /\ connects /= 0 /\ None("startInLoop") /\ pc \notin {"retry", "runAfter", "restart"}
          /\ timers \cup due = {} /\ channel_ = "none" /\ conn = "none"
          /\ state_ = "kDisconnected"
      BY <2>4, StageFacts
    <3>3. One("startInLoop")'
      BY <1>14, <2>4, <3>2, OwnerQueues
    <3>4. Stage("queued")'
      BY <2>1, <3>1, <3>2, <3>3 DEF Stage, Retrying
    <3> QED
      BY <2>1, <2>2, <3>1, <3>2, <3>4 DEF OneAttempt, Stages
  <2>5. CASE ~connectBegin /\ opc /= "start"
    <3>1. opc' /= "start" /\ connects' = connects
      BY <1>14, <2>5 DEF Owner, disconnect, enableRetry, stopBegin, destroyBegin,
         OwnerContinues, OwnerDestroys
    <3>2. /\ None("startInLoop") => None("startInLoop")'
          /\ One("startInLoop") => One("startInLoop")'
      BY <1>14, <2>5, OwnerQueues
    <3> QED
      BY <2>1, <2>2, <2>5, <3>1, <3>2, OneAttemptStays DEF Retrying
  <2>6. opc = "start" => OwnerContinues
    BY <1>14 DEF Owner, disconnect, enableRetry, connectBegin, stopBegin, destroyBegin,
       Calls, OwnerContinues, OwnerDestroys
  <2> QED
    BY <2>3, <2>4, <2>5, <2>6
<1> QED
  BY <1>0, <1>1, <1>2, <1>3, <1>4, <1>5, <1>6, <1>7, <1>8, <1>9, <1>10, <1>11, <1>12,
     <1>13, <1>14 DEF Next, LoopStep, LoopOwner

----------------------------------------------------------------------------
(* The lifetime of the client and its Connector.                           *)

\* The functors of ~TcpClient are queued by ~TcpClient only.
LEMMA DestroyFunctors ==
    ASSUME TypeOK, LoopShape, Next, opc \notin {"destroyConnected", "destroyOther"},
           None("runAfter"), None("setCloseCallback")
    PROVE  None("runAfter")' /\ None("setCloseCallback")'
<1> USE DEF queueVars
<1>1. CASE UNCHANGED <<pending, batch>>
  BY <1>1, SameQueues
<1>2. CASE removeAndResetChannel /\ batch' = batch
  BY <1>2, RemoveQueues
<1>3. CASE Swap
  <2>1. batch = <<>> /\ batch' = pending /\ pending' = <<>>
    BY <1>3 DEF Swap, LoopShape, InDispatch, Retrying
  <2> QED
    BY <2>1, SwapQueues
<1>4. ASSUME NEW op, RunFunctor(op), UNCHANGED pending
      PROVE  None("runAfter")' /\ None("setCloseCallback")'
  BY <1>4, RunQueues
<1>5. CASE Owner
  BY <1>5, OwnerQueues
<1>6. CASE LoopStep
  <2>1. \/ UNCHANGED <<pending, batch>>
        \/ removeAndResetChannel /\ batch' = batch
        \/ Swap
        \/ UNCHANGED pending /\ \E op : RunFunctor(op)
    BY <1>6 DEF LoopStep, RetryTest, RetryArm, HandleFailure, handleWrite, removeConnection, Poll,
       RestartDo, TimerFires, RunStart, Release, FunctorsDone, resetChannel, RunCancel,
       RunSetCloseCallback, RunRunAfter
  <2> QED
    BY <1>1, <1>2, <1>3, <1>4, <2>1
<1>7. CASE LoopOwner
  BY <1>1, <1>7 DEF LoopOwner, LoopConnect, LoopStop, LoopDestroy
<1> QED
  BY <1>5, <1>6, <1>7 DEF Next

\* Until ~TcpClient is called, nothing of what it leaves is there; in a step
\* that does not call it this stays so.
LEMMA LivingNext ==
    ASSUME TypeOK, LoopShape, ChannelShape, Living, Next, destroyed' = "no"
    PROVE  Living'
<1> USE DEF clientVars, connectorVars, lifeVars, loopVars, queueVars, histVars
<1>1. None("runAfter")' /\ None("setCloseCallback")'
  BY DestroyFunctors DEF Living
<1>2. ~Release /\ ~RunRunAfter
  <2>1. ASSUME Release PROVE FALSE
    BY <2>1 DEF Release, ChannelShape, Living
  <2>2. ASSUME RunRunAfter PROVE FALSE
    <3>1. ~None("runAfter")
      BY <2>2, RunQueues DEF RunRunAfter
    <3> QED
      BY <3>1 DEF Living
  <2> QED
    BY <2>1, <2>2
<1>3. CASE LoopStep
  <2>1. UNCHANGED <<client, connector, keepAlive, opc>>
    BY <1>2, <1>3 DEF LoopStep, RetryTest, RetryArm, HandleFailure, handleWrite, removeConnection,
       Poll, RestartDo, TimerFires, RunStart, Swap, FunctorsDone, resetChannel, RunCancel,
       RunSetCloseCallback
  <2> QED
    BY <1>1, <2>1 DEF Living
<1>4. CASE LoopOwner
  <2>1. ~LoopDestroy
    BY DEF LoopDestroy
  <2>2. UNCHANGED <<client, connector, keepAlive, opc>>
    BY <1>4, <2>1 DEF LoopOwner, LoopConnect, LoopStop
  <2> QED
    BY <1>1, <2>2 DEF Living
<1>5. CASE Owner
  <2>1. ~OwnerDestroys /\ ~destroyBegin
    BY DEF OwnerDestroys, destroyBegin, Living
  <2>2. UNCHANGED <<client, connector, keepAlive>> /\ opc' \in {opc, "start", "stop", "cancel", "idle"}
    BY <1>5, <2>1 DEF Owner, disconnect, enableRetry, connectBegin, stopBegin,
       OwnerContinues, ownerUnchanged
  <2> QED
    BY <1>1, <2>2 DEF Living
<1> QED
  BY <1>3, <1>4, <1>5 DEF Next

\* How the client is destroyed.
LEMMA DestroyedNext ==
    ASSUME Next
    PROVE  \/ UNCHANGED destroyed
           \/ LoopDestroy
           \/ destroyBegin
<1> USE DEF histVars
<1>1. CASE LoopStep
  BY <1>1 DEF LoopStep, RetryTest, RetryArm, HandleFailure, handleWrite, removeConnection, Poll,
     RestartDo, TimerFires, RunStart, Release, Swap, FunctorsDone, resetChannel, RunCancel,
     RunSetCloseCallback, RunRunAfter
<1>2. CASE LoopOwner
  BY <1>2 DEF LoopOwner, LoopConnect, LoopStop
<1>3. CASE Owner
  BY <1>3 DEF Owner, disconnect, enableRetry, connectBegin, stopBegin, OwnerContinues,
     OwnerDestroys
<1> QED
  BY <1>1, <1>2, <1>3 DEF Next

\* A client that exists and is not being destroyed was so before.
LEMMA ClientWasThere ==
    ASSUME Next, client', opc' \notin {"destroyConnected", "destroyOther"}
    PROVE  client /\ opc \notin {"destroyConnected", "destroyOther"}
           /\ ~LoopDestroy /\ ~destroyBegin
<1> USE DEF clientVars
<1>1. ~LoopDestroy /\ ~destroyBegin
  BY DEF LoopDestroy, destroyBegin
<1>2. CASE LoopStep
  BY <1>1, <1>2 DEF LoopStep, RetryTest, RetryArm, HandleFailure, handleWrite, removeConnection, Poll,
     RestartDo, TimerFires, RunStart, Release, Swap, FunctorsDone, resetChannel, RunCancel,
     RunSetCloseCallback, RunRunAfter
<1>3. CASE LoopOwner
  BY <1>1, <1>3 DEF LoopOwner, LoopConnect, LoopStop, InLoop
<1>4. CASE Owner
  BY <1>1, <1>4 DEF Owner, disconnect, enableRetry, connectBegin, stopBegin, Calls,
     OwnerContinues, OwnerDestroys
<1> QED
  BY <1>2, <1>3, <1>4 DEF Next

\* An attempt after the client was destroyed finds connect_ cleared.
LEMMA StartIsVoid ==
    ASSUME NEW outcome, NEW back, startInLoop(connect_, state_, outcome, back),
           connector, ~connect_, fault' = "none"
    PROVE  pc' = back /\ UNCHANGED channel_
BY DEF startInLoop

\* After ~TcpClient between two attempts: what is left runs to no effect.
LEMMA DestroyedIdleNext ==
    ASSUME TypeOK, LoopShape, ChannelShape, DestroyedIdle, Next, fault' = "none"
    PROVE  DestroyedIdle'
<1> USE DEF clientVars, connectorVars, lifeVars, loopVars, queueVars, histVars
<1>0. /\ ~client /\ opc = "idle" /\ channel_ = "none" /\ timers = {}
      /\ pc \notin {"retry", "runAfter", "restart"}
      /\ None("runAfter") /\ None("setCloseCallback")
      /\ None("runAfter")' /\ None("setCloseCallback")'
  BY DestroyFunctors DEF DestroyedIdle
<1>1. ~LoopOwner /\ ~Owner
  BY <1>0 DEF LoopOwner, LoopConnect, LoopStop, LoopDestroy, InLoop, Owner, disconnect,
     enableRetry, connectBegin, stopBegin, destroyBegin, Calls, OwnerContinues, OwnerDestroys
<1>2. ~RetryTest /\ ~RetryArm /\ ~HandleFailure /\ ~handleWrite /\ \A outcome : ~RestartDo(outcome)
  BY <1>0 DEF RetryTest, RetryArm, HandleFailure, handleWrite, HandlesChannel,
       RestartDo, ChannelShape
<1>3. ~resetChannel /\ ~RunSetCloseCallback /\ ~RunRunAfter
  <2>1. None("resetChannel")
    BY <1>0 DEF ChannelShape
  <2> QED
    BY <1>0, <2>1, RunQueues DEF resetChannel, RunSetCloseCallback, RunRunAfter
<1>4. CASE removeConnection
  <2>1. /\ "close" \in active /\ active' = active \ {"close"} /\ conn' = "none"
        /\ UNCHANGED <<client, opc, channel_, timers, due, connector, keepAlive, pending, batch>>
    BY <1>4 DEF removeConnection
  <2>2. conn /= "none"
    BY <2>1 DEF ChannelShape
  <2>3. ~connector /\ ~keepAlive /\ conn /= "TcpClient" /\ due = {} /\ None("startInLoop")
    BY <2>2 DEF DestroyedIdle
  <2>4. pc' = pc
    BY <1>4, <2>3 DEF removeConnection
  <2>5. None("startInLoop")'
    BY <2>1, <2>3, SameQueues
  <2> QED
    BY <1>0, <2>1, <2>3, <2>4, <2>5 DEF DestroyedIdle
<1>5. ASSUME NEW found \in SUBSET Ready, NEW expired \in SUBSET timers, Poll(found, expired)
      PROVE  DestroyedIdle'
  <2>1. /\ pc = "poll" /\ pc' = "dispatch" /\ active' = found /\ due' = {}
        /\ UNCHANGED <<client, opc, channel_, timers, connector, keepAlive, conn, connect_,
                       pending, batch>>
    BY <1>0, <1>5 DEF Poll
  <2>2. None("startInLoop")' <=> None("startInLoop")
    BY <2>1, SameQueues
  <2> QED
    BY <1>0, <2>1, <2>2 DEF DestroyedIdle
<1>6. ASSUME NEW outcome, TimerFires(outcome) PROVE DestroyedIdle'
  <2>1. PICK id \in due : due' = due \ {id} /\ timers' = timers \ {id}
    BY <1>6 DEF TimerFires
  <2>2. /\ startInLoop(connect_, state_, outcome, "dispatch")
        /\ UNCHANGED <<client, opc, connector, keepAlive, conn, connect_, active, pending, batch>>
    BY <1>6 DEF TimerFires
  <2>3. connector /\ conn = "none" /\ ~connect_
    BY <2>1 DEF DestroyedIdle
  <2>4. pc' = "dispatch" /\ UNCHANGED channel_
    BY <2>2, <2>3, StartIsVoid
  <2>5. None("startInLoop")' <=> None("startInLoop")
    BY <2>2, SameQueues
  <2> QED
    BY <1>0, <2>1, <2>2, <2>3, <2>4, <2>5 DEF DestroyedIdle
<1>7. ASSUME NEW outcome, RunStart(outcome) PROVE DestroyedIdle'
  <2>1. /\ RunFunctor("startInLoop") /\ startInLoop(connect_, state_, outcome, "functors")
        /\ UNCHANGED <<client, opc, timers, due, connector, keepAlive, conn, connect_,
                       active, pending>>
    BY <1>7 DEF RunStart
  <2>2. ~None("startInLoop")
    BY <2>1, RunQueues
  <2>3. connector /\ conn = "none" /\ ~connect_
    BY <2>2 DEF DestroyedIdle
  <2>4. pc' = "functors" /\ UNCHANGED channel_
    BY <2>1, <2>3, StartIsVoid
  <2> QED
    BY <1>0, <2>1, <2>3, <2>4 DEF DestroyedIdle
<1>8. CASE Release
  <2>1. /\ "release" \in active /\ due = {} /\ active' = active \ {"release"}
        /\ ~keepAlive' /\ ~connector' /\ timers' = timers \ {timerId_}
        /\ UNCHANGED <<client, opc, pc, channel_, due, conn, pending, batch>>
    BY <1>8 DEF Release, ConnectorDestroyed
  <2>2. keepAlive /\ None("startInLoop")
    <3>1. keepAlive /\ NoOp(pending, "startInLoop") /\ pc = "dispatch"
      BY <1>8, <2>1 DEF ChannelShape, DestroyedIdle, Release
    <3>2. batch = <<>>
      BY <3>1 DEF LoopShape, InDispatch
    <3> QED
      BY <3>1, <3>2 DEF None, NoOp
  <2>3. conn = "none"
    BY <2>2 DEF DestroyedIdle
  <2>4. None("startInLoop")'
    BY <2>1, <2>2, SameQueues
  <2> QED
    BY <1>0, <2>1, <2>3, <2>4 DEF DestroyedIdle
<1>9. CASE Swap
  <2>1. /\ pc = "dispatch" /\ pc' = "functors" /\ batch' = pending /\ pending' = <<>>
        /\ UNCHANGED <<client, opc, channel_, timers, due, active, conn, connector, keepAlive, connect_>>
    BY <1>9 DEF Swap
  <2>2. batch = <<>>
    BY <2>1 DEF LoopShape, InDispatch, Retrying
  <2>3. (None("startInLoop") => None("startInLoop")') /\ NoOp(pending', "startInLoop")
    BY <2>1, <2>2, SwapQueues
  <2> QED
    BY <1>0, <2>1, <2>3 DEF DestroyedIdle
<1>10. CASE FunctorsDone
  <2>1. /\ pc' = "poll"
        /\ UNCHANGED <<client, opc, channel_, timers, due, active, conn, connector, keepAlive,
                       connect_, pending, batch>>
    BY <1>10 DEF FunctorsDone
  <2>2. None("startInLoop")' <=> None("startInLoop")
    BY <2>1, SameQueues
  <2> QED
    BY <1>0, <2>1, <2>2 DEF DestroyedIdle
<1>11. CASE RunCancel
  <2>1. /\ RunFunctor("cancel") /\ timers' \subseteq timers
        /\ UNCHANGED <<client, opc, pc, channel_, due, active, conn, connector, keepAlive,
                       connect_, pending>>
    BY <1>11 DEF RunCancel
  <2>2. None("startInLoop") => None("startInLoop")'
    BY <2>1, RunQueues
  <2> QED
    BY <1>0, <2>1, <2>2 DEF DestroyedIdle
<1> QED
  BY <1>1, <1>2, <1>3, <1>4, <1>5, <1>6, <1>7, <1>8, <1>9, <1>10, <1>11 DEF Next, LoopStep

\* ~TcpClient in the loop thread, between two attempts.
LEMMA LoopDestroyIdle ==
    ASSUME TypeOK, ChannelShape, OneAttempt, Living, LoopDestroy, destroyed' = "idle"
    PROVE  DestroyedIdle'
<1> USE DEF loopVars
<1>1. /\ opc = "idle" /\ pc \in {"dispatch", "functors"} /\ ~client'
      /\ timers' = timers \ {timerId_} /\ channel_ = "none"
      /\ UNCHANGED <<opc, pc, channel_, due, active, pending, batch>>
  BY DEF LoopDestroy, NoAttempt, InLoop
<1>2. timers' = {}
  BY <1>1 DEF OneAttempt
<1>7. NoOp(pending', "startInLoop")
  <2>1. \A i \in DOMAIN pending : pending[i].op /= "startInLoop"
    BY DEF LoopDestroy, NoAttempt
  <2>2. DOMAIN pending = 1 .. Len(pending)
    BY DEF TypeOK
  <2> QED
    BY <1>1, <2>1, <2>2 DEF NoOp
<1>3. \A op : None(op)' <=> None(op)
  BY <1>1, SameQueues
<1>4. None("runAfter")' /\ None("setCloseCallback")'
  BY <1>3 DEF Living
<1>5. CASE conn /= "none"
  <2>1. ~connector' /\ conn' = "detail" /\ keepAlive' = keepAlive
    BY <1>5 DEF LoopDestroy, ConnectorDestroyed
  <2>2. due = {} /\ None("startInLoop") /\ ~keepAlive
    BY <1>5, StageFacts DEF Living
  <2> QED
    BY <1>1, <1>2, <1>3, <1>4, <1>7, <2>1, <2>2 DEF DestroyedIdle
<1>6. CASE conn = "none"
  <2>1. connector' /\ conn' = "none" /\ ~connect_'
    BY <1>6 DEF LoopDestroy, Living
  <2> QED
    BY <1>1, <1>2, <1>4, <1>7, <2>1 DEF DestroyedIdle
<1> QED
  BY <1>5, <1>6

LEMMA ConnectsGrows ==
    ASSUME TypeOK, Next
    PROVE  connects \in Nat /\ connects' \in Nat /\ connects <= connects'
<1> USE DEF histVars
<1>0. connects \in Nat
  BY DEF TypeOK
<1>1. connects' = connects \/ connects' = connects + 1
  BY DEF Next, LoopStep, LoopOwner, Owner, RetryTest, RetryArm, HandleFailure, handleWrite,
     removeConnection, Poll, RestartDo, TimerFires, RunStart, Release, Swap, FunctorsDone,
     resetChannel, RunCancel, RunSetCloseCallback, RunRunAfter, LoopConnect, LoopStop,
     LoopDestroy, disconnect, enableRetry, connectBegin, stopBegin, destroyBegin,
     OwnerContinues, OwnerDestroys
<1> QED
  BY <1>0, <1>1

LEMMA LifetimeNext ==
    ASSUME TypeOK, Running, Next, fault' = "none"
    PROVE  Lifetime'
<1>0. LoopShape /\ ChannelShape /\ Lifetime
  BY DEF Running
<1>1. destroyed' = "no" => Living'
  <2>1. SUFFICES ASSUME destroyed' = "no" PROVE Living'
    OBVIOUS
  <2>2. destroyed = "no"
    BY <2>1, DestroyedNext DEF LoopDestroy, destroyBegin
  <2> QED
    BY <1>0, <2>1, <2>2, LivingNext DEF Lifetime
<1>2. client' /\ opc' \notin {"destroyConnected", "destroyOther"} => destroyed' = "no"
  BY <1>0, ClientWasThere, DestroyedNext DEF Lifetime
<1>3. connects' <= 1 /\ destroyed' = "idle" => DestroyedIdle'
  <2>1. SUFFICES ASSUME connects' <= 1, destroyed' = "idle" PROVE DestroyedIdle'
    OBVIOUS
  <2>2. connects <= 1
    BY <2>1, ConnectsGrows
  <2>3. OneAttempt
    BY <2>2 DEF Running
  <2>4. CASE LoopDestroy
    <3>1. Living
      BY <1>0, <2>4 DEF LoopDestroy, InLoop, Lifetime
    <3> QED
      BY <1>0, <2>1, <2>3, <2>4, <3>1, LoopDestroyIdle
  <2>5. CASE ~LoopDestroy
    <3>1. destroyed = "idle"
      BY <2>1, <2>5, DestroyedNext DEF destroyBegin
    <3>2. DestroyedIdle
      BY <1>0, <2>2, <3>1 DEF Lifetime
    <3> QED
      BY <1>0, <3>2, DestroyedIdleNext
  <2> QED
    BY <2>4, <2>5
<1> QED
  BY <1>1, <1>2, <1>3 DEF Lifetime

----------------------------------------------------------------------------
(* No step of a client that connects once is at fault.                     *)

\* An attempt made in state kDisconnected with no channel left.
LEMMA StartIsSafe ==
    ASSUME NEW c, NEW outcome, NEW back, fault = "none", channel_ = "none",
           NEW st, st = "kDisconnected", startInLoop(c, st, outcome, back)
    PROVE  fault' \in {"none", "dangling"} /\ (connector => fault' = "none")
BY StartCases

LEMMA AssertSafe ==
    ASSUME TypeOK, fault = "none", ChannelShape, OneAttempt, Next, connects' <= 1
    PROVE  fault' /= "assert"
<1>1. ASSUME NEW outcome, RestartDo(outcome) PROVE fault' /= "assert"
  <2>1. pc = "restart" /\ (fault' = "dangling" \/ startInLoop(TRUE, "kDisconnected", outcome, "dispatch"))
    BY <1>1 DEF RestartDo
  <2>2. channel_ = "none"
    BY <2>1, StageFacts
  <2> QED
    BY <2>1, <2>2, StartIsSafe
<1>2. ASSUME NEW outcome, TimerFires(outcome) PROVE fault' /= "assert"
  <2>1. pc = "dispatch" /\ due /= {} /\ startInLoop(connect_, state_, outcome, "dispatch")
    BY <1>2 DEF TimerFires
  <2>2. channel_ /= "added" /\ state_ = "kDisconnected"
    BY <2>1, StageFacts
  <2>3. channel_ = "none"
    BY <2>1, <2>2 DEF OneAttempt, InDispatch, Retrying, TypeOK
  <2> QED
    BY <2>1, <2>2, <2>3, StartIsSafe
<1>3. ASSUME NEW outcome, RunStart(outcome) PROVE fault' /= "assert"
  <2>1. RunFunctor("startInLoop") /\ UNCHANGED pending
        /\ startInLoop(connect_, state_, outcome, "functors")
    BY <1>3 DEF RunStart
  <2>2. ~None("startInLoop")
    BY <2>1, RunQueues
  <2>3. channel_ = "none" /\ state_ = "kDisconnected"
    BY <2>2, StageFacts
  <2> QED
    BY <2>1, <2>3, StartIsSafe
<1>4. ASSUME NEW outcome, LoopConnect(outcome) PROVE fault' /= "assert"
  <2>1. connects' = connects + 1 /\ startInLoop(TRUE, state_, outcome, pc)
    BY <1>4 DEF LoopConnect
  <2>2. connects = 0
    BY <2>1 DEF TypeOK
  <2>3. channel_ = "none" /\ state_ = "kDisconnected"
    BY <2>2 DEF OneAttempt
  <2> QED
    BY <2>1, <2>3, StartIsSafe
<1>5. CASE HandleFailure \/ handleWrite
  <2>1. "channel" \in active
    BY <1>5 DEF HandleFailure, handleWrite, HandlesChannel
  <2>2. state_ = "kConnecting"
    BY <2>1, StageFacts DEF ChannelShape
  <2> QED
    BY <1>5, <2>2 DEF HandleFailure, handleWrite
<1>6. CASE RetryTest \/ RetryArm \/ removeConnection \/ Release \/ Swap \/ FunctorsDone \/ resetChannel
           \/ RunCancel \/ RunSetCloseCallback \/ RunRunAfter
           \/ \E found, expired : Poll(found, expired)
  BY <1>6 DEF RetryTest, RetryArm, removeConnection, Release, ConnectorDestroyed, Swap, FunctorsDone,
     resetChannel, RunCancel, RunSetCloseCallback, RunRunAfter, Poll
<1>7. CASE LoopStop \/ LoopDestroy
  BY <1>7 DEF LoopStop, LoopDestroy, ConnectorDestroyed
<1>8. CASE Owner
  BY <1>8 DEF Owner, disconnect, enableRetry, connectBegin, stopBegin, destroyBegin,
     OwnerContinues, OwnerDestroys, ConnectorDestroyed
<1> QED
  BY <1>1, <1>2, <1>3, <1>4, <1>5, <1>6, <1>7, <1>8 DEF Next, LoopStep, LoopOwner

\* Nothing refers to a Connector or a client that is gone.
LEMMA LifetimeSafe ==
    ASSUME TypeOK, fault = "none", LoopShape, ChannelShape, OneAttempt, Lifetime, Next,
           connects <= 1, destroyed' \in {"no", "idle"}
    PROVE  fault' \notin {"channel", "dangling"}
<1> USE DEF histVars
<1>1. LoopDestroy \/ destroyed = "no" \/ destroyed = "idle"
  BY DestroyedNext DEF destroyBegin
<1>2. CASE LoopDestroy
  BY <1>2 DEF LoopDestroy, NoAttempt, ConnectorDestroyed
<1>3. CASE destroyed = "no" /\ ~LoopDestroy
  <2>1. /\ client /\ connector /\ ~keepAlive
        /\ opc \notin {"destroyConnected", "destroyOther"}
    BY <1>3 DEF Lifetime, Living
  <2>2. ASSUME NEW c, NEW st, NEW outcome, NEW back, startInLoop(c, st, outcome, back)
        PROVE  fault' \notin {"channel", "dangling"}
    BY <2>1, <2>2, StartCases
  <2>3. ~Release /\ ~OwnerDestroys
    BY <2>1 DEF Release, OwnerDestroys, ChannelShape
  <2>4. CASE LoopStep
    <3>1. CASE \E outcome \in Outcomes :
                  RestartDo(outcome) \/ TimerFires(outcome) \/ RunStart(outcome)
      BY <2>1, <2>2, <3>1 DEF RestartDo, TimerFires, RunStart
    <3>2. CASE ~\E outcome \in Outcomes :
                  RestartDo(outcome) \/ TimerFires(outcome) \/ RunStart(outcome)
      BY <2>1, <2>3, <2>4, <3>2 DEF LoopStep, RetryTest, RetryArm, HandleFailure, handleWrite,
         removeConnection, Poll, Swap, FunctorsDone, resetChannel, RunCancel,
         RunSetCloseCallback, RunRunAfter
    <3> QED
      BY <3>1, <3>2
  <2>5. CASE LoopOwner
    BY <1>3, <2>2, <2>5 DEF LoopOwner, LoopConnect, LoopStop
  <2>6. CASE Owner
    BY <2>3, <2>6 DEF Owner, disconnect, enableRetry, connectBegin, stopBegin, destroyBegin,
       OwnerContinues
  <2> QED
    BY <2>4, <2>5, <2>6 DEF Next
<1>4. CASE destroyed = "idle" /\ ~LoopDestroy
  <2>1. DestroyedIdle
    BY <1>4 DEF Lifetime
  <2>2. /\ ~client /\ opc = "idle" /\ channel_ = "none" /\ pc \notin {"retry", "runAfter", "restart"}
        /\ conn /= "TcpClient"
    BY <2>1 DEF DestroyedIdle
  <2>3. ~LoopOwner /\ ~Owner
    BY <2>2 DEF LoopOwner, LoopConnect, LoopStop, LoopDestroy, InLoop, Owner, disconnect,
       enableRetry, connectBegin, stopBegin, destroyBegin, Calls, OwnerContinues, OwnerDestroys
  <2>4. ~RetryTest /\ ~RetryArm /\ ~HandleFailure /\ ~handleWrite /\ \A outcome : ~RestartDo(outcome)
    BY <2>2 DEF RetryTest, RetryArm, HandleFailure, handleWrite, HandlesChannel,
       RestartDo, ChannelShape
  <2>5. ~resetChannel
    BY <2>2, RunQueues DEF resetChannel, ChannelShape
  <2>6. ASSUME NEW outcome, TimerFires(outcome) PROVE fault' \notin {"channel", "dangling"}
    <3>1. due /= {} /\ startInLoop(connect_, state_, outcome, "dispatch")
      BY <2>6 DEF TimerFires
    <3>2. connector
      BY <2>1, <3>1 DEF DestroyedIdle
    <3> QED
      BY <3>1, <3>2, StartCases
  <2>7. ASSUME NEW outcome, RunStart(outcome) PROVE fault' \notin {"channel", "dangling"}
    <3>1. RunFunctor("startInLoop") /\ UNCHANGED pending
          /\ startInLoop(connect_, state_, outcome, "functors")
      BY <2>7 DEF RunStart
    <3>2. ~None("startInLoop")
      BY <3>1, RunQueues
    <3>3. connector
      BY <2>1, <3>2 DEF DestroyedIdle
    <3> QED
      BY <3>1, <3>3, StartCases
  <2>8. CASE removeConnection \/ Release \/ Swap \/ FunctorsDone \/ RunCancel
             \/ RunSetCloseCallback \/ RunRunAfter
             \/ \E found, expired : Poll(found, expired)
    BY <2>2, <2>8 DEF removeConnection, Release, ConnectorDestroyed, Swap, FunctorsDone,
       RunCancel, RunSetCloseCallback, RunRunAfter, Poll
  <2> QED
    BY <2>3, <2>4, <2>5, <2>6, <2>7, <2>8 DEF Next, LoopStep
<1> QED
  BY <1>1, <1>2, <1>3, <1>4

----------------------------------------------------------------------------
(* The invariant.                                                          *)

LEMMA InitInv == Init => IInv
<1> SUFFICES ASSUME Init PROVE IInv
  OBVIOUS
<1>1. TypeOK
  BY InitType
<1>2. /\ client /\ connector /\ ~keepAlive /\ opc = "idle" /\ conn = "none"
      /\ pending = <<>> /\ batch = <<>> /\ timers = {} /\ active = {} /\ due = {}
      /\ pc = "functors" /\ state_ = "kDisconnected" /\ channel_ = "none"
      /\ fault = "none" /\ connects = 0 /\ destroyed = "no"
  BY DEF Init, ConnectorCreated
<1>3. \A op : NoOp(pending, op) /\ None(op)
  BY <1>2 DEF None, NoOp
<1>4. LoopShape
  BY <1>2 DEF LoopShape
<1>5. ChannelShape
  BY <1>2, <1>3 DEF ChannelShape
<1>6. Stage("none")
  BY <1>2, <1>3 DEF Stage, Retrying
<1>7. OneAttempt
  BY <1>2, <1>6 DEF OneAttempt, Stages
<1>8. Lifetime
  BY <1>2, <1>3 DEF Lifetime, Living
<1>9. Safe
  BY <1>2 DEF Safe, ConnectOnceIsSafe, DestroyedIdleIsSafe
<1> QED
  BY <1>1, <1>4, <1>5, <1>7, <1>8, <1>9 DEF IInv, Running

LEMMA NextInv == IInv /\ [Next]_vars => IInv'
<1> SUFFICES ASSUME IInv, [Next]_vars PROVE IInv'
  OBVIOUS
<1>1. TypeOK /\ TypeOK'
  BY NextType DEF IInv
<1>2. CASE Next
  <2>1. fault = "none"
    BY <1>2 DEF Next
  <2>2. Running /\ LoopShape /\ ChannelShape /\ Lifetime
    BY <2>1 DEF IInv, Running
  <2>3. connects' <= 1 => connects <= 1 /\ OneAttempt
    BY <1>1, <1>2, <2>2, ConnectsGrows DEF Running
  <2>4. ConnectOnceIsSafe'
    BY <1>1, <1>2, <2>1, <2>2, <2>3, AssertSafe DEF ConnectOnceIsSafe
  <2>5. DestroyedIdleIsSafe'
    BY <1>1, <1>2, <2>1, <2>2, <2>3, LifetimeSafe DEF DestroyedIdleIsSafe
  <2>6. ASSUME fault' = "none" PROVE Running'
    <3>1. LoopShape'
      BY <1>1, <1>2, <2>2, LoopShapeNext
    <3>2. ChannelShape'
      BY <1>1, <1>2, <2>2, <2>6, ChannelShapeNext
    <3>3. connects' <= 1 => OneAttempt'
      BY <1>1, <1>2, <2>2, <2>3, <2>6, OneAttemptNext
    <3>4. Lifetime'
      BY <1>1, <1>2, <2>2, <2>6, LifetimeNext
    <3> QED
      BY <3>1, <3>2, <3>3, <3>4 DEF Running
  <2> QED
    BY <1>1, <2>4, <2>5, <2>6 DEF IInv, Safe
<1>3. CASE UNCHANGED vars
  BY <1>3 DEF vars, clientVars, connectorVars, lifeVars, loopVars, queueVars, histVars,
     IInv, TypeOK, Safe, ConnectOnceIsSafe, DestroyedIdleIsSafe, Running, LoopShape,
     InDispatch, Retrying, ChannelShape, One, None, OneAttempt, Stage, Lifetime, Living,
     DestroyedIdle, NoOp
<1> QED
  BY <1>2, <1>3

LEMMA InvHolds == Spec => []IInv
BY InitInv, NextInv, PTL DEF Spec

\* A client that is told once to connect fails no assertion of the Connector:
\* there is one attempt at a time, whatever errors, retries, reconnections
\* and calls of stop() meet, for any number of retries.
THEOREM ConnectOnce == Spec => []ConnectOnceIsSafe
<1>1. IInv => ConnectOnceIsSafe
  BY DEF IInv, Safe
<1> QED
  BY <1>1, InvHolds, PTL

\* Such a client may be destroyed in the loop thread when no attempt is in
\* flight or asked for: no timer, functor or callback finds the Connector or
\* the client gone, whenever poll(2) returns.
THEOREM DestroyedBetweenAttempts == Spec => []DestroyedIdleIsSafe
<1>1. IInv => DestroyedIdleIsSafe
  BY DEF IInv, Safe
<1> QED
  BY <1>1, InvHolds, PTL

============================================================================
