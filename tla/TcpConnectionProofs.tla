------------------------- MODULE TcpConnectionProofs -------------------------
(***************************************************************************)
(* The stream of a TcpConnection, for any number of threads and messages,  *)
(* any length of them, and any way write(2) cuts them.                     *)
(***************************************************************************)
EXTENDS TcpConnection, SequenceTheorems, TLAPS

\* Output that waits in the buffer is announced to poll(2), so that
\* shutdownInLoop sees it.  Before the first message the stale bytes of the
\* Buffer are not, and disableAll withdraws the announcement.
OutputAnnounced ==
    watched /\ handed /= <<>> /\ outputBuffer_ /= <<>> => writing

\* The inductive invariant.
IInv == TypeOK /\ BytesInOrder /\ OutputAnnounced

\* What the stream's properties speak of.
streamVars == <<outputBuffer_, writing, watched, wire, handed>>

----------------------------------------------------------------------------
(* Lemmas about sequences of bytes.                                        *)

\* The message's bytes are bytes, and there is at least one.
LEMMA BytesType ==
    ASSUME NEW m \in Messages \cup {Zero}
    PROVE  Bytes(m) \in Seq(Byte) /\ Len(Bytes(m)) = MsgLen
<1>1. MsgLen \in Nat
  BY SizesAssumption
<1>2. \A i \in 1 .. MsgLen : <<m, i>> \in Byte
  BY <1>1 DEF Byte
<1>3. [i \in 1 .. MsgLen |-> <<m, i>>] \in Seq(Byte)
  BY <1>1, <1>2, IsASeq
<1> QED  BY <1>1, <1>3 DEF Bytes

LEMMA StaleType == Stale \in Seq(Byte)
<1>1. StaleLen \in Nat
  BY SizesAssumption
<1>2. \A i \in 1 .. StaleLen : <<Zero, i>> \in Byte
  BY <1>1 DEF Byte
<1> QED  BY <1>1, <1>2, IsASeq DEF Stale

\* A write that takes n elements of s cuts it in two.
LEMMA Cut ==
    ASSUME NEW s \in Seq(Byte), NEW n \in 0 .. Len(s)
    PROVE  /\ SubSeq(s, 1, n) \in Seq(Byte)
           /\ SubSeq(s, n + 1, Len(s)) \in Seq(Byte)
           /\ Len(SubSeq(s, n + 1, Len(s))) = Len(s) - n
           /\ SubSeq(s, 1, n) \o SubSeq(s, n + 1, Len(s)) = s
<1>1. Len(s) \in Nat /\ n \in Nat
  BY LenProperties
<1>2. \A i \in 1 .. Len(s) : s[i] \in Byte
  BY ElementOfSeq
<1>3. SubSeq(s, 1, n) \in Seq(Byte)
  BY <1>1, <1>2, SubSeqProperties
<1>4. /\ SubSeq(s, n + 1, Len(s)) \in Seq(Byte)
      /\ Len(SubSeq(s, n + 1, Len(s))) = Len(s) - n
  BY <1>1, <1>2, SubSeqProperties
<1>5. SubSeq(s, 1, n) \o SubSeq(s, n + 1, Len(s)) = SubSeq(s, 1, Len(s))
  <2>1. 1 \in 1 .. Len(s) + 1 /\ n \in 1 - 1 .. Len(s) /\ Len(s) \in n .. Len(s)
    BY <1>1
  <2> QED  BY <2>1, ConcatAdjacentSubSeq, Zenon
<1>6. SubSeq(s, 1, Len(s)) = s
  BY SubSeqFull
<1> QED  BY <1>3, <1>4, <1>5, <1>6

LEMMA Associative ==
    ASSUME NEW a \in Seq(Byte), NEW b \in Seq(Byte), NEW c \in Seq(Byte)
    PROVE  (a \o b) \o c = a \o (b \o c)
  BY ConcatAssociative

----------------------------------------------------------------------------
(* Steps that change the stream.                                           *)

\* The part of IInv that speaks of the stream.
StreamOK ==
    /\ outputBuffer_ \in Seq(Byte) /\ wire \in Seq(Byte) /\ handed \in Seq(Byte)
    /\ writing \in BOOLEAN /\ watched \in BOOLEAN
    /\ BytesInOrder
    /\ OutputAnnounced

LEMMA SendKeepsStream ==
    ASSUME IInv, NEW m \in Messages \cup {Zero}, NEW nwrote \in 0 .. MsgLen,
           sendInLoop(m, nwrote)
    PROVE  StreamOK'
<1> DEFINE taken == SubSeq(Bytes(m), 1, nwrote)
           rest == SubSeq(Bytes(m), nwrote + 1, MsgLen)
<1>1. /\ outputBuffer_ \in Seq(Byte) /\ wire \in Seq(Byte)
      /\ handed \in Seq(Byte) /\ writing \in BOOLEAN /\ watched \in BOOLEAN
      /\ wire \o outputBuffer_ = Stale \o handed
  BY DEF IInv, TypeOK, BytesInOrder
<1>2. MsgLen \in Nat /\ nwrote \in Nat /\ MsgLen >= 1 /\ nwrote <= MsgLen
  BY SizesAssumption
<1>3. Bytes(m) \in Seq(Byte) /\ Len(Bytes(m)) = MsgLen
  BY BytesType
<1>4. /\ taken \in Seq(Byte) /\ rest \in Seq(Byte)
      /\ Len(rest) = MsgLen - nwrote
      /\ taken \o rest = Bytes(m)
  BY <1>2, <1>3, Cut
<1>5. /\ wire' = wire \o taken
      /\ outputBuffer_' = outputBuffer_ \o rest
      /\ handed' = handed \o Bytes(m)
      /\ writing' = (writing \/ nwrote < MsgLen)
      /\ watched' = watched
  BY DEF sendInLoop
<1>6. nwrote > 0 => ~writing /\ outputBuffer_ = <<>>
  BY DEF sendInLoop, MayWriteDirectly
<1> HIDE DEF taken, rest
<1>7. /\ outputBuffer_' \in Seq(Byte) /\ wire' \in Seq(Byte)
      /\ handed' \in Seq(Byte) /\ writing' \in BOOLEAN /\ watched' \in BOOLEAN
  BY <1>1, <1>3, <1>4, <1>5, ConcatProperties
<1>8. (wire \o taken) \o (outputBuffer_ \o rest)
        = (wire \o outputBuffer_) \o (taken \o rest)
  <2>1. CASE nwrote = 0
    <3>1. taken = <<>>
      BY <1>2, <2>1, SubSeqEmpty DEF taken
    <3>2. wire \o taken = wire /\ taken \o rest = rest
      BY <1>1, <1>4, <3>1, ConcatEmptySeq
    <3>3. (wire \o outputBuffer_) \o rest = wire \o (outputBuffer_ \o rest)
      BY <1>1, <1>4, Associative
    <3> QED  BY <3>2, <3>3, Zenon
  <2>2. CASE nwrote > 0
    <3>1. outputBuffer_ \o rest = rest /\ wire \o outputBuffer_ = wire
      BY <1>1, <1>4, <1>6, <2>2, ConcatEmptySeq
    <3>2. (wire \o taken) \o rest = wire \o (taken \o rest)
      BY <1>1, <1>4, Associative
    <3> QED  BY <3>1, <3>2, Zenon
  <2>3. nwrote = 0 \/ nwrote > 0
    BY <1>2
  <2> QED  BY <2>1, <2>2, <2>3, Zenon
<1>9. (Stale \o handed) \o Bytes(m) = Stale \o (handed \o Bytes(m))
  BY <1>1, <1>3, StaleType, Associative
<1>10. BytesInOrder'
  <2>1. wire' \o outputBuffer_' = Stale \o handed'
    BY <1>1, <1>4, <1>5, <1>8, <1>9
  <2> QED  BY <2>1 DEF BytesInOrder, Stale
<1>11. OutputAnnounced'
  <2>1. CASE nwrote < MsgLen
    BY <1>5, <2>1 DEF OutputAnnounced
  <2>2. CASE nwrote = MsgLen
    <3>1. outputBuffer_ = <<>> /\ rest = <<>>
      BY <1>2, <1>4, <1>6, <2>2, EmptySeq
    <3>2. outputBuffer_' = <<>>
      BY <1>4, <1>5, <3>1, ConcatEmptySeq
    <3> QED  BY <3>2 DEF OutputAnnounced
  <2> QED  BY <1>2, <2>1, <2>2
<1> QED  BY <1>7, <1>10, <1>11 DEF StreamOK

LEMMA WriteKeepsStream ==
    ASSUME IInv, NEW n \in 0 .. Len(outputBuffer_), handleWrite(n)
    PROVE  StreamOK'
<1> DEFINE taken == SubSeq(outputBuffer_, 1, n)
           rest == SubSeq(outputBuffer_, n + 1, Len(outputBuffer_))
<1>1. /\ outputBuffer_ \in Seq(Byte) /\ wire \in Seq(Byte)
      /\ handed \in Seq(Byte) /\ writing \in BOOLEAN /\ watched \in BOOLEAN
      /\ wire \o outputBuffer_ = Stale \o handed
  BY DEF IInv, TypeOK, BytesInOrder
<1>2. /\ taken \in Seq(Byte) /\ rest \in Seq(Byte)
      /\ Len(rest) = Len(outputBuffer_) - n
      /\ taken \o rest = outputBuffer_
  BY <1>1, Cut
<1>3. /\ wire' = wire \o taken
      /\ outputBuffer_' = rest
      /\ handed' = handed
      /\ watched' = watched
      /\ writing' = IF n > 0 /\ n = Len(outputBuffer_) THEN FALSE ELSE writing
  BY DEF handleWrite, histVars
<1> HIDE DEF taken, rest
<1>4. /\ outputBuffer_' \in Seq(Byte) /\ wire' \in Seq(Byte)
      /\ handed' \in Seq(Byte) /\ writing' \in BOOLEAN /\ watched' \in BOOLEAN
  BY <1>1, <1>2, <1>3, ConcatProperties
<1>5. BytesInOrder'
  <2>1. wire' \o outputBuffer_' = Stale \o handed'
    BY <1>1, <1>2, <1>3, Associative
  <2> QED  BY <2>1 DEF BytesInOrder, Stale
<1>6. OutputAnnounced'
  <2>1. CASE n > 0 /\ n = Len(outputBuffer_)
    <3>1. rest = <<>>
      BY <1>1, <1>2, <2>1, EmptySeq, LenProperties
    <3> QED  BY <1>3, <3>1 DEF OutputAnnounced
  <2>2. CASE ~(n > 0 /\ n = Len(outputBuffer_))
    <3>1. outputBuffer_ = <<>> => rest = <<>>
      BY <1>1, <1>2, EmptySeq, LenProperties
    <3> QED  BY <1>3, <2>2, <3>1 DEF OutputAnnounced, IInv
  <2> QED  BY <2>1, <2>2
<1> QED  BY <1>4, <1>5, <1>6 DEF StreamOK

\* disableAll withdraws the channel and leaves the bytes alone.
LEMMA DisableKeepsStream ==
    ASSUME IInv, writing' = FALSE, watched' = FALSE,
           UNCHANGED <<outputBuffer_, wire, handed>>
    PROVE  StreamOK'
  BY DEF StreamOK, IInv, TypeOK, BytesInOrder, OutputAnnounced, Stale

LEMMA OthersKeepStream ==
    ASSUME IInv, UNCHANGED streamVars
    PROVE  StreamOK'
  BY DEF StreamOK, IInv, TypeOK, BytesInOrder, OutputAnnounced, Stale, streamVars

----------------------------------------------------------------------------
(* Types.                                                                  *)

\* TypeOK without the stream.
RestType ==
    /\ state_ \in States
    /\ channel \in {"new", "added", "removed"}
    /\ client \in BOOLEAN /\ connection_ \in BOOLEAN
    /\ writeCompleteCallback_ \in BOOLEAN /\ reset \in BOOLEAN
    /\ holders \subseteq Threads
    /\ tpc \in [Threads -> ThreadOp]
    /\ pc \in {"created", "establish", "poll", "dispatch", "callback",
               "functors"}
    /\ ret \in {"dispatch", "functors"}
    /\ todo \subseteq {POLLIN, POLLHUP, POLLOUT}
    /\ pending \in Seq(FunctorSet) /\ batch \in Seq(FunctorSet)
    /\ next \in Nat \ {0}
    /\ halfClosed \in BOOLEAN
    /\ fault \in Faults
    /\ accepted \subseteq (Threads \cup {LoopThread}) \X Messages
    /\ promised \subseteq Messages
    /\ crossThread \in BOOLEAN

LEMMA SplitIInv == IInv <=> RestType /\ StreamOK
  BY DEF IInv, RestType, StreamOK, TypeOK

LEMMA JoinIInv == RestType' /\ StreamOK' => IInv'
  BY DEF IInv, RestType, StreamOK, TypeOK

LEMMA FunctorTypes ==
    /\ \A op \in {"shutdownInLoop", "connectDestroyed", "writeComplete"} :
          Functor(op) \in FunctorSet
    /\ \A op \in {"idle", "setState", "shutdownInLoop"} : Functor(op) \in ThreadOp
    /\ \A m \in Messages : SendFunctor(m) \in FunctorSet /\ SendFunctor(m) \in ThreadOp
    /\ \A f \in ThreadOp :
          f.op \in {"sendInLoop", "shutdownInLoop"} => f \in FunctorSet
  BY DEF Functor, SendFunctor, FunctorSet, ThreadOp

\* Appending a functor to the pending ones.
LEMMA PushType ==
    ASSUME RestType, NEW f \in FunctorSet
    PROVE  Append(pending, f) \in Seq(FunctorSet)
  BY AppendProperties DEF RestType

\* The message of the functor being run.
LEMMA NextMessage ==
    ASSUME RestType, NEW op, RunFunctor(op)
    PROVE  batch[next].msg \in Messages \cup {Zero} /\ next' \in Nat \ {0}
<1>1. next \in 1 .. Len(batch)
  BY LenProperties DEF RestType, RunFunctor
<1>2. batch[next] \in FunctorSet
  BY <1>1, ElementOfSeq DEF RestType
<1> QED  BY <1>1, <1>2 DEF FunctorSet, RunFunctor

----------------------------------------------------------------------------
(* The inductive invariant.                                                *)

LEMMA InitIInv == Init => IInv
<1> SUFFICES ASSUME Init PROVE IInv
  OBVIOUS
<1>1. Functor("idle") \in ThreadOp
  BY FunctorTypes
<1>2. RestType
  <2>1. pending \in Seq(FunctorSet) /\ batch \in Seq(FunctorSet)
    BY EmptySeq DEF Init
  <2>2. tpc \in [Threads -> ThreadOp]
    BY <1>1 DEF Init
  <2>3. /\ state_ \in States
        /\ channel \in {"new", "added", "removed"}
        /\ pc \in {"created", "establish", "poll", "dispatch", "callback",
                   "functors"}
        /\ ret \in {"dispatch", "functors"}
        /\ fault \in Faults
    BY Zenon DEF Init, States, Faults
  <2>4. /\ client \in BOOLEAN /\ connection_ \in BOOLEAN
        /\ halfClosed \in BOOLEAN /\ crossThread \in BOOLEAN
        /\ writeCompleteCallback_ \in BOOLEAN /\ reset \in BOOLEAN
    BY Zenon DEF Init
  <2>5. /\ holders = {} /\ todo = {} /\ accepted = {} /\ promised = {}
        /\ next = 1
    BY Zenon DEF Init
  <2> QED  BY <2>1, <2>2, <2>3, <2>4, <2>5 DEF RestType
<1>3. <<>> \in Seq(Byte) /\ Stale \in Seq(Byte)
  BY StaleType, EmptySeq
<1>4. <<>> \o Stale = Stale /\ Stale \o <<>> = Stale
  BY StaleType, ConcatEmptySeq
<1>5. BytesInOrder
  BY <1>4, Zenon DEF Init, BytesInOrder
<1>6. OutputAnnounced
  BY DEF Init, OutputAnnounced
<1>7. StreamOK
  BY <1>3, <1>5, <1>6 DEF Init, StreamOK
<1> QED  BY <1>2, <1>7, SplitIInv

\* writeCompleteCallback_ is queued or nothing is.
CompleteQueued ==
    pending' = pending \/ pending' = Append(pending, Functor("writeComplete"))

\* A failing write(2) is no assert().
LEMMA WriteFaultTypes ==
    ASSUME NEW f \in WriteFaults
    PROVE  f \in Faults /\ f /= "assert" /\ (~halfClosed => f \in {"none", "reset"})
  BY DEF WriteFaults, Faults

\* sendInLoop leaves everything but the stream, the queue and fault alone.
LEMMA SendEffects ==
    ASSUME NEW m, NEW nwrote, sendInLoop(m, nwrote)
    PROVE  /\ UNCHANGED <<state_, watched, channel, halfClosed, reset>>
           /\ CompleteQueued
           /\ fault' \in Faults /\ fault' /= "assert"
           /\ channel = "added" /\ ~halfClosed => fault' \in {"none", "reset"}
<1>1. CompleteQueued
  BY DEF sendInLoop, queueWriteComplete, queueInLoop, CompleteQueued
<1>2. PICK f : /\ f \in WriteFaults \/ f = "none"
               /\ \/ fault' = f
                  \/ fault' = "removedChannel" /\ channel /= "added"
  BY DEF sendInLoop
<1>3. /\ fault' \in Faults /\ fault' /= "assert"
      /\ channel = "added" /\ ~halfClosed => fault' \in {"none", "reset"}
  <2>1. CASE f \in WriteFaults
    BY <1>2, <2>1, WriteFaultTypes DEF Faults
  <2>2. CASE f = "none"
    BY <1>2, <2>2 DEF Faults
  <2> QED  BY <1>2, <2>1, <2>2
<1> QED  BY <1>1, <1>3 DEF sendInLoop

\* handleWrite, likewise.
LEMMA WriteEffects ==
    ASSUME NEW n, handleWrite(n)
    PROVE  /\ CompleteQueued
           /\ fault' \in Faults /\ fault' /= "assert"
           /\ ~(writing /\ halfClosed) => fault' \in {"none", "reset"}
<1>1. CompleteQueued
  BY DEF handleWrite, queueWriteComplete, queueInLoop, CompleteQueued
<1>2. fault' \in WriteFaults \/ fault' = "none"
  BY DEF handleWrite
<1>3. ~writing => fault' = "none"
  BY DEF handleWrite
<1> QED  BY <1>1, <1>2, <1>3, WriteFaultTypes DEF Faults

LEMMA CompleteQueuedType ==
    ASSUME RestType, CompleteQueued
    PROVE  pending' \in Seq(FunctorSet)
<1>1. Append(pending, Functor("writeComplete")) \in Seq(FunctorSet)
  BY FunctorTypes, PushType
<1> QED  BY <1>1 DEF CompleteQueued, RestType

LEMMA ClientIInv == ASSUME IInv, LoopClient PROVE IInv'
<1>1. RestType
  BY SplitIInv
<1>2. ASSUME NEW m \in Messages, NEW nwrote \in 0 .. MsgLen, LoopSend(m, nwrote)
      PROVE  IInv'
  <2>1. sendInLoop(m, nwrote)
    BY <1>2 DEF LoopSend
  <2>2. StreamOK'
    BY <2>1, SendKeepsStream
  <2>3. /\ UNCHANGED <<state_, channel, halfClosed, reset>>
        /\ pending' \in Seq(FunctorSet)
        /\ fault' \in Faults
    BY <1>1, <2>1, SendEffects, CompleteQueuedType
  <2>4. RestType'
    BY <1>1, <1>2, <2>3 DEF RestType, LoopSend, ownerVars, loopVars
  <2> QED  BY <2>2, <2>4, JoinIInv
<1>3. CASE LoopShutdown
  <2>1. UNCHANGED streamVars
    BY <1>3 DEF LoopShutdown, streamVars
  <2>2. RestType'
    BY <1>1, <1>3 DEF RestType, LoopShutdown, ownerVars, loopVars, States,
                      SentBy, shutdownInLoop
  <2> QED  BY <2>1, <2>2, OthersKeepStream, JoinIInv
<1>4. CASE ClientDestroyed
  <2>1. UNCHANGED streamVars
    BY <1>4 DEF ClientDestroyed, streamVars, connVars, netVars, histVars
  <2>2. RestType'
    BY <1>1, <1>4 DEF RestType, ClientDestroyed, loopVars, connVars, netVars,
                      histVars
  <2> QED  BY <2>1, <2>2, OthersKeepStream, JoinIInv
<1> QED  BY <1>2, <1>3, <1>4 DEF LoopClient

LEMMA ThreadIInv ==
    ASSUME IInv, NEW t \in Threads, ThreadStep(t)
    PROVE  IInv'
<1>1. RestType
  BY SplitIInv
<1>2. UNCHANGED streamVars /\ threadUnchanged
  BY DEF ThreadStep, GetConnection, DropConnection, Send, Shutdown,
         ShutdownSetState, ThreadQueue, threadUnchanged, netVars, streamVars
<1>3. UNCHANGED <<channel, client, connection_, writeCompleteCallback_, pc, ret,
                  todo, batch, next, halfClosed, reset, fault>>
  BY <1>2 DEF threadUnchanged, ownerVars, loopVars, netVars
<1>4. tpc[t] \in ThreadOp
  BY <1>1 DEF RestType
<1>5. ASSUME GetConnection(t) \/ DropConnection(t) PROVE RestType'
  BY <1>1, <1>3, <1>5 DEF RestType, GetConnection, DropConnection
<1>6. ASSUME NEW m \in Messages, Send(t, m) PROVE RestType'
  <2>1. SendFunctor(m) \in ThreadOp
    BY FunctorTypes
  <2> QED  BY <1>1, <1>3, <1>6, <2>1 DEF RestType, Send
<1>7. ASSUME Shutdown(t) PROVE RestType'
  <2>1. Functor("setState") \in ThreadOp
    BY FunctorTypes
  <2> QED  BY <1>1, <1>3, <1>7, <2>1 DEF RestType, Shutdown
<1>8. ASSUME ShutdownSetState(t) PROVE RestType'
  <2>1. Functor("shutdownInLoop") \in ThreadOp
    BY FunctorTypes
  <2> QED  BY <1>1, <1>3, <1>8, <2>1 DEF RestType, ShutdownSetState, States, SentBy
<1>9. ASSUME ThreadQueue(t) PROVE RestType'
  <2>1. Functor("idle") \in ThreadOp /\ tpc[t] \in FunctorSet
    BY <1>4, <1>9, FunctorTypes DEF ThreadQueue
  <2>2. pending' \in Seq(FunctorSet)
    BY <1>1, <1>9, <2>1, PushType DEF ThreadQueue, queueInLoop
  <2> QED  BY <1>1, <1>3, <1>9, <2>1, <2>2 DEF RestType, ThreadQueue
<1>10. RestType'
  BY <1>5, <1>6, <1>7, <1>8, <1>9 DEF ThreadStep
<1> QED  BY <1>2, <1>10, OthersKeepStream, JoinIInv

\* handleClose, without the stream.
LEMMA CloseKeepsTypes ==
    ASSUME RestType, handleClose
    PROVE  /\ UNCHANGED <<state_, channel>>
           /\ connection_' \in BOOLEAN
           /\ pending' \in Seq(FunctorSet)
           /\ fault' \in Faults
<1>1. Append(pending, Functor("connectDestroyed")) \in Seq(FunctorSet)
  BY FunctorTypes, PushType
<1>2. pending' \in Seq(FunctorSet)
  BY <1>1 DEF handleClose, removeConnection, queueInLoop, RestType
<1> QED  BY <1>2 DEF handleClose, removeConnection, RestType, Faults

\* The handlers of the channel's events.
LEMMA EventIInv ==
    ASSUME IInv,
           \/ HandleClose \/ HandleReadMessage \/ HandleReadClose
           \/ \E n \in 0 .. Len(outputBuffer_) : handleWrite(n)
    PROVE  IInv'
<1>1. RestType
  BY SplitIInv
<1>2. CASE HandleClose \/ HandleReadClose
  <2>1. handleClose /\ UNCHANGED <<wire, halfClosed, reset, handed, accepted,
                                  promised, crossThread>>
    BY <1>2 DEF HandleClose, HandleReadClose, netVars, histVars
  <2>2. StreamOK'
    BY <2>1, DisableKeepsStream DEF handleClose
  <2>3. /\ UNCHANGED <<state_, channel>>
        /\ connection_' \in BOOLEAN
        /\ pending' \in Seq(FunctorSet)
        /\ fault' \in Faults
    BY <1>1, <2>1, CloseKeepsTypes
  <2>4. /\ todo' \subseteq {POLLIN, POLLHUP, POLLOUT}
        /\ UNCHANGED <<client, writeCompleteCallback_, holders, tpc, pc, ret,
                       batch, next>>
    BY <1>1, <1>2 DEF RestType, HandleClose, HandleReadClose
  <2>5. RestType'
    BY <1>1, <2>1, <2>3, <2>4 DEF RestType
  <2> QED  BY <2>2, <2>5, JoinIInv
<1>3. CASE HandleReadMessage
  <2>1. UNCHANGED streamVars
    BY <1>3 DEF HandleReadMessage, streamVars, connVars, netVars, histVars
  <2>2. RestType'
    BY <1>1, <1>3 DEF RestType, HandleReadMessage, connVars, ownerVars,
                      netVars, histVars
  <2> QED  BY <2>1, <2>2, OthersKeepStream, JoinIInv
<1>4. ASSUME NEW n \in 0 .. Len(outputBuffer_), handleWrite(n)
      PROVE  IInv'
  <2>1. StreamOK'
    BY <1>4, WriteKeepsStream
  <2>2. pending' \in Seq(FunctorSet) /\ fault' \in Faults
    BY <1>1, <1>4, WriteEffects, CompleteQueuedType
  <2>3. halfClosed' \in BOOLEAN
    BY <1>1, <1>4 DEF handleWrite, RestType
  <2>4. /\ todo' = {}
        /\ UNCHANGED <<state_, channel, client, connection_,
                       writeCompleteCallback_, holders, tpc, pc, ret, batch,
                       next, reset, accepted, promised, crossThread>>
    BY <1>4 DEF handleWrite, ownerVars, histVars
  <2>5. RestType'
    BY <1>1, <2>2, <2>3, <2>4 DEF RestType
  <2> QED  BY <2>1, <2>5, JoinIInv
<1> QED  BY <1>2, <1>3, <1>4

\* The functors.
LEMMA FunctorIInv ==
    ASSUME IInv,
           \/ Swap \/ \E nwrote \in 0 .. MsgLen : RunSend(nwrote)
           \/ RunShutdown \/ RunDangling \/ connectDestroyed
           \/ RunWriteComplete \/ FunctorsDone
    PROVE  IInv'
<1>1. RestType
  BY SplitIInv
<1>2. CASE Swap \/ FunctorsDone
  <2>1. UNCHANGED streamVars
    BY <1>2 DEF Swap, FunctorsDone, streamVars, connVars, netVars, histVars
  <2>2. pending' \in Seq(FunctorSet) /\ batch' \in Seq(FunctorSet)
    BY <1>1, <1>2, EmptySeq DEF Swap, FunctorsDone, RestType
  <2>3. RestType'
    BY <1>1, <1>2, <2>2 DEF RestType, Swap, FunctorsDone, connVars, ownerVars,
                            netVars, histVars
  <2> QED  BY <2>1, <2>3, OthersKeepStream, JoinIInv
<1>3. ASSUME NEW nwrote \in 0 .. MsgLen, RunSend(nwrote)
      PROVE  IInv'
  <2>1. batch[next].msg \in Messages \cup {Zero} /\ next' \in Nat \ {0}
    BY <1>1, <1>3, NextMessage DEF RunSend
  <2>2. sendInLoop(batch[next].msg, nwrote)
    BY <1>3 DEF RunSend
  <2>3. StreamOK'
    BY <2>1, <2>2, SendKeepsStream
  <2>4. /\ UNCHANGED <<state_, channel, halfClosed, reset>>
        /\ pending' \in Seq(FunctorSet)
        /\ fault' \in Faults
    BY <1>1, <2>2, SendEffects, CompleteQueuedType
  <2>5. RestType'
    BY <1>1, <1>3, <2>1, <2>4 DEF RestType, RunSend, ownerVars
  <2> QED  BY <2>3, <2>5, JoinIInv
<1>4. CASE RunShutdown \/ RunDangling \/ RunWriteComplete
  <2>1. UNCHANGED streamVars
    BY <1>4 DEF RunShutdown, RunDangling, RunWriteComplete, streamVars,
                connVars, netVars, histVars
  <2>2. next' \in Nat \ {0}
    BY <1>1, <1>4, NextMessage DEF RunShutdown, RunDangling, RunWriteComplete
  <2>3. RestType'
    <3>1. CASE RunShutdown
      <4>1. halfClosed' \in BOOLEAN
        BY <3>1 DEF RunShutdown, shutdownInLoop
      <4> QED
        BY <1>1, <2>2, <3>1, <4>1 DEF RestType, RunShutdown, connVars,
                                      ownerVars, histVars
    <3>2. CASE RunDangling
      BY <1>1, <2>2, <3>2 DEF RestType, RunDangling, connVars, ownerVars,
                              netVars, histVars, Faults
    <3>3. CASE RunWriteComplete
      BY <1>1, <2>2, <3>3 DEF RestType, RunWriteComplete, connVars, ownerVars,
                              netVars, histVars
    <3> QED  BY <1>4, <3>1, <3>2, <3>3
  <2> QED  BY <2>1, <2>3, OthersKeepStream, JoinIInv
<1>5. CASE connectDestroyed
  <2>1. StreamOK'
    BY <1>5, DisableKeepsStream DEF connectDestroyed, netVars, histVars
  <2>2. next' \in Nat \ {0}
    BY <1>1, <1>5, NextMessage DEF connectDestroyed
  <2>3. RestType'
    BY <1>1, <1>5, <2>2 DEF RestType, connectDestroyed, States, ownerVars,
                            netVars, histVars, Faults
  <2> QED  BY <2>1, <2>3, JoinIInv
<1> QED  BY <1>2, <1>3, <1>4, <1>5

LEMMA LoopIInv == ASSUME IInv, LoopStep PROVE IInv'
<1>1. RestType
  BY SplitIInv
<1>2. CASE newConnection \/ connectEstablished \/ CallbackReturns
  <2>1. UNCHANGED streamVars
    BY <1>2 DEF newConnection, connectEstablished, CallbackReturns, streamVars,
                connVars, netVars, histVars
  <2>2. RestType'
    <3>1. CASE newConnection
      BY <1>1, <3>1 DEF RestType, newConnection, connVars, netVars, histVars
    <3>2. CASE connectEstablished
      BY <1>1, <3>2 DEF RestType, connectEstablished, States, ownerVars,
                        netVars, histVars, Faults
    <3>3. CASE CallbackReturns
      BY <1>1, <3>3 DEF RestType, CallbackReturns, connVars, ownerVars,
                        netVars, histVars
    <3> QED  BY <1>2, <3>1, <3>2, <3>3
  <2> QED  BY <2>1, <2>2, OthersKeepStream, JoinIInv
<1>3. ASSUME NEW revents \in SUBSET {POLLIN, POLLHUP, POLLOUT}, Poll(revents)
      PROVE  IInv'
  <2>1. UNCHANGED streamVars
    BY <1>3 DEF Poll, streamVars, connVars, netVars, histVars
  <2>2. RestType'
    BY <1>1, <1>3 DEF RestType, Poll, connVars, ownerVars, netVars, histVars,
                      Faults
  <2> QED  BY <2>1, <2>2, OthersKeepStream, JoinIInv
<1> QED  BY <1>2, <1>3, EventIInv, FunctorIInv DEF LoopStep

LEMMA ResetIInv == ASSUME IInv, PeerResets PROVE IInv'
<1>1. RestType
  BY SplitIInv
<1>2. UNCHANGED streamVars
  BY DEF PeerResets, streamVars, connVars, histVars
<1>3. RestType'
  BY <1>1 DEF RestType, PeerResets, connVars, ownerVars, loopVars, histVars
<1> QED  BY <1>2, <1>3, OthersKeepStream, JoinIInv

LEMMA NextIInv == IInv /\ [Next]_vars => IInv'
<1> SUFFICES ASSUME IInv, [Next]_vars PROVE IInv'
  OBVIOUS
<1>1. CASE Next
  BY <1>1, LoopIInv, ClientIInv, ThreadIInv, ResetIInv DEF Next
<1>2. CASE UNCHANGED vars
  <2>1. UNCHANGED streamVars
    BY <1>2 DEF vars, connVars, netVars, histVars, streamVars
  <2>2. RestType'
    <3>1. RestType
      BY SplitIInv
    <3> QED  BY <1>2, <3>1 DEF RestType, vars, connVars, ownerVars, loopVars,
                               netVars, histVars
  <2> QED  BY <2>1, <2>2, OthersKeepStream, JoinIInv
<1> QED  BY <1>1, <1>2

LEMMA Invariance == Spec => []IInv
<1>1. Init => IInv
  BY InitIInv
<1>2. IInv /\ [Next]_vars => IInv'
  BY NextIInv
<1> QED  BY <1>1, <1>2, PTL DEF Spec

----------------------------------------------------------------------------

\* Type correctness.
THEOREM TypeCorrect == Spec => []TypeOK
<1>1. IInv => TypeOK
  BY DEF IInv
<1> QED  BY <1>1, Invariance, PTL

\* However sendInLoop and handleWrite cut the output, and whatever threads
\* and callbacks do, the peer is sent every byte once and in order, after
\* the bytes a new Buffer holds.
THEOREM StreamIsKept == Spec => []BytesInOrder
<1>1. IInv => BytesInOrder
  BY DEF IInv
<1> QED  BY <1>1, Invariance, PTL

----------------------------------------------------------------------------
(* The assert()s: close is handled once and destruction happens once.      *)

IsDestroy(f) == f.op = "connectDestroyed"

\* No functor of q, from the given place on, is connectDestroyed; at most
\* one is.
NoneIn(q, from) ==
    \A i \in 1 .. Len(q) : i >= from => ~IsDestroy(q[i])
AtMostOneIn(q, from) ==
    \A i, j \in 1 .. Len(q) :
        i >= from /\ j >= from /\ IsDestroy(q[i]) /\ IsDestroy(q[j]) => i = j

\* Before connectEstablished nobody can have changed state_.
NewIsUntouched ==
    /\ channel = "new" <=> pc \in {"created", "establish"}
    /\ channel = "new" =>
           /\ state_ = "kConnecting" /\ watched /\ client
           /\ pc = "establish" => connection_
           /\ pending = <<>> /\ batch = <<>>
           /\ \A t \in Threads : tpc[t].op = "idle"

\* After it, until connectDestroyed, the connection is up.
AddedIsUp ==
    channel = "added" => state_ \in {"kConnected", "kDisconnecting"}

\* While the channel is enabled its owner points to the connection.
OpenIsOwned == watched /\ channel = "added" /\ client => connection_

\* At most one destruction is on its way, and none before the close nor
\* after the destruction.
ClosingOnce ==
    \/ NoneIn(batch, next) /\ AtMostOneIn(pending, 1)
    \/ NoneIn(pending, 1) /\ AtMostOneIn(batch, next)
QueuesOK ==
    /\ ClosingOnce
    /\ watched /\ channel = "added" => NoneIn(pending, 1) /\ NoneIn(batch, next)
    /\ channel = "removed" => NoneIn(pending, 1) /\ NoneIn(batch, next)

RemovedIsFinal == channel = "removed" => ~watched

\* Events that close the connection are handled with the channel enabled.
CloseEventIsOpen ==
    POLLHUP \in todo \/ POLLIN \in todo =>
        pc = "dispatch" /\ watched /\ channel = "added"

\* The inductive invariant.
AInv ==
    /\ NewIsUntouched /\ AddedIsUp /\ OpenIsOwned /\ QueuesOK
    /\ RemovedIsFinal /\ CloseEventIsOpen
    /\ AssertionsHold

\* Queueing a functor that is not connectDestroyed changes nothing for it.
LEMMA PushOther ==
    ASSUME NEW q \in Seq(FunctorSet), NEW f \in FunctorSet, ~IsDestroy(f)
    PROVE  /\ NoneIn(q, 1) => NoneIn(Append(q, f), 1)
           /\ AtMostOneIn(q, 1) => AtMostOneIn(Append(q, f), 1)
<1> DEFINE p == Append(q, f)
<1>1. /\ Len(q) \in Nat /\ Len(p) = Len(q) + 1
      /\ \A i \in 1 .. Len(q) : p[i] = q[i]
      /\ p[Len(q) + 1] = f
  BY AppendProperties, LenProperties
<1> HIDE DEF p
<1>2. ASSUME NEW i \in 1 .. Len(p), IsDestroy(p[i])
      PROVE  i \in 1 .. Len(q) /\ IsDestroy(q[i])
  <2>1. i /= Len(q) + 1
    BY <1>1, <1>2
  <2>2. i \in 1 .. Len(q)
    BY <1>1, <2>1
  <2> QED  BY <1>1, <1>2, <2>2
<1>3. NoneIn(q, 1) => NoneIn(p, 1)
  BY <1>2 DEF NoneIn
<1>4. AtMostOneIn(q, 1) => AtMostOneIn(p, 1)
  BY <1>2 DEF AtMostOneIn
<1> QED  BY <1>3, <1>4 DEF p

\* Queueing connectDestroyed when there is none.
LEMMA PushDestroy ==
    ASSUME NEW q \in Seq(FunctorSet), NEW f \in FunctorSet, NoneIn(q, 1)
    PROVE  AtMostOneIn(Append(q, f), 1)
<1> DEFINE p == Append(q, f)
<1>1. /\ Len(q) \in Nat /\ Len(p) = Len(q) + 1
      /\ \A i \in 1 .. Len(q) : p[i] = q[i]
  BY AppendProperties, LenProperties
<1> HIDE DEF p
<1>2. ASSUME NEW i \in 1 .. Len(p), IsDestroy(p[i])
      PROVE  i = Len(q) + 1
  <2>1. CASE i \in 1 .. Len(q)
    BY <1>1, <1>2, <2>1 DEF NoneIn
  <2> QED  BY <1>1, <2>1
<1>3. AtMostOneIn(p, 1)
  BY <1>2 DEF AtMostOneIn
<1> QED  BY <1>3 DEF p

LEMMA EmptyHasNone == \A from \in Nat : NoneIn(<<>>, from) /\ AtMostOneIn(<<>>, from)
  BY DEF NoneIn, AtMostOneIn

\* Running a functor.
LEMMA RunAdvances ==
    ASSUME RestType, NEW op, RunFunctor(op), UNCHANGED batch
    PROVE  /\ NoneIn(batch, next) => NoneIn(batch', next')
           /\ AtMostOneIn(batch, next) => AtMostOneIn(batch', next')
<1>1. /\ next \in 1 .. Len(batch) /\ Len(batch) \in Nat /\ next' = next + 1
  BY LenProperties DEF RestType, RunFunctor
<1>2. NoneIn(batch, next) => NoneIn(batch, next + 1)
  BY <1>1 DEF NoneIn
<1>3. AtMostOneIn(batch, next) => AtMostOneIn(batch, next + 1)
  BY <1>1 DEF AtMostOneIn
<1> QED  BY <1>1, <1>2, <1>3

LEMMA RunQueues ==
    ASSUME RestType, QueuesOK, NEW op, RunFunctor(op), UNCHANGED <<pending, batch>>
    PROVE  /\ op /= "connectDestroyed" /\ UNCHANGED <<watched, channel>> => QueuesOK'
           /\ op = "connectDestroyed" =>
                  /\ channel /= "removed" /\ ~(watched /\ channel = "added")
                  /\ batch /= <<>>
                  /\ NoneIn(pending', 1) /\ NoneIn(batch', next')
<1>1. /\ next \in 1 .. Len(batch) /\ Len(batch) \in Nat /\ next' = next + 1
      /\ IsDestroy(batch[next]) <=> op = "connectDestroyed"
  BY LenProperties DEF RestType, RunFunctor, IsDestroy
<1>4. op /= "connectDestroyed" /\ UNCHANGED <<watched, channel>> => QueuesOK'
  BY RunAdvances DEF QueuesOK, ClosingOnce
<1>5. ASSUME op = "connectDestroyed"
      PROVE  /\ channel /= "removed" /\ ~(watched /\ channel = "added")
             /\ batch /= <<>>
             /\ NoneIn(pending', 1) /\ NoneIn(batch', next')
  <2>1. ~NoneIn(batch, next)
    BY <1>1, <1>5 DEF NoneIn
  <2>2. NoneIn(pending, 1) /\ AtMostOneIn(batch, next)
    BY <2>1 DEF QueuesOK, ClosingOnce
  <2>3. NoneIn(batch, next + 1)
    BY <1>1, <1>5, <2>2 DEF NoneIn, AtMostOneIn
  <2>4. batch /= <<>>
    BY <1>1, EmptySeq
  <2> QED  BY <1>1, <2>1, <2>2, <2>3, <2>4 DEF QueuesOK
<1> QED  BY <1>4, <1>5

\* A functor that is not connectDestroyed may be queued.
LEMMA QueuesAfterPush ==
    ASSUME RestType, QueuesOK, UNCHANGED <<watched, channel, batch, next>>,
           NEW f \in FunctorSet, ~IsDestroy(f),
           pending' = pending \/ pending' = Append(pending, f)
    PROVE  QueuesOK'
<1>1. /\ NoneIn(pending, 1) => NoneIn(pending', 1)
      /\ AtMostOneIn(pending, 1) => AtMostOneIn(pending', 1)
  BY PushOther DEF RestType
<1> QED  BY <1>1 DEF QueuesOK, ClosingOnce

LEMMA InitAInv == Init => AInv
<1> SUFFICES ASSUME Init PROVE AInv
  OBVIOUS
<1>1. \A t \in Threads : tpc[t].op = "idle"
  BY DEF Init, Functor
<1>2. channel = "new" /\ state_ = "kConnecting" /\ pc = "created"
      /\ pending = <<>> /\ batch = <<>> /\ next = 1 /\ todo = {} /\ fault = "none"
  BY DEF Init
<1>3. watched /\ client
  BY Zenon DEF Init
<1>4. QueuesOK
  <2>1. NoneIn(pending, 1) /\ AtMostOneIn(batch, next) /\ NoneIn(batch, next)
    BY <1>2, EmptyHasNone
  <2> QED  BY <2>1 DEF QueuesOK, ClosingOnce
<1> QED
  BY <1>1, <1>2, <1>3, <1>4 DEF AInv, NewIsUntouched, AddedIsUp, OpenIsOwned,
     RemovedIsFinal, CloseEventIsOpen, AssertionsHold

LEMMA ClientAInv == ASSUME IInv, AInv, fault = "none", LoopClient PROVE AInv'
<1>1. RestType
  BY SplitIInv
<1>2. InClientCode /\ channel /= "new"
  BY DEF LoopClient, LoopSend, LoopShutdown, ClientDestroyed, InClientCode,
         AInv, NewIsUntouched
<1>3. UNCHANGED <<watched, channel, pc, todo, batch, next>>
  BY DEF LoopClient, LoopSend, LoopShutdown, ClientDestroyed, sendInLoop,
         connVars, loopVars
<1>4. CompleteQueued /\ fault' /= "assert"
  <2>1. ASSUME NEW m \in Messages, NEW nwrote \in 0 .. MsgLen, LoopSend(m, nwrote)
        PROVE  CompleteQueued /\ fault' /= "assert"
    BY <2>1, SendEffects DEF LoopSend
  <2>2. CASE LoopShutdown \/ ClientDestroyed
    BY <2>2 DEF LoopShutdown, ClientDestroyed, CompleteQueued
  <2> QED  BY <2>1, <2>2 DEF LoopClient
<1>5. state_' = state_ \/ state_' = "kDisconnecting"
  BY DEF LoopClient, LoopSend, LoopShutdown, ClientDestroyed, sendInLoop, connVars
<1>6. (client' => connection_') \/ UNCHANGED <<client, connection_>>
  BY DEF LoopClient, LoopSend, LoopShutdown, ClientDestroyed, ownerVars
<1>7. QueuesOK'
  <2>1. pending' = pending \/ pending' = Append(pending, Functor("writeComplete"))
    BY <1>4 DEF CompleteQueued
  <2>2. Functor("writeComplete") \in FunctorSet /\ ~IsDestroy(Functor("writeComplete"))
    BY FunctorTypes DEF Functor, IsDestroy
  <2> QED  BY <1>1, <1>3, <2>1, <2>2, QueuesAfterPush DEF AInv
<1>8. NewIsUntouched' /\ RemovedIsFinal' /\ CloseEventIsOpen' /\ OpenIsOwned'
  BY <1>2, <1>3, <1>6 DEF AInv, NewIsUntouched, RemovedIsFinal,
     CloseEventIsOpen, OpenIsOwned
<1>9. AddedIsUp' /\ AssertionsHold'
  BY <1>3, <1>4, <1>5 DEF AInv, AddedIsUp, AssertionsHold
<1> QED  BY <1>7, <1>8, <1>9 DEF AInv

LEMMA ThreadAInv ==
    ASSUME IInv, AInv, fault = "none", NEW t \in Threads, ThreadStep(t)
    PROVE  AInv'
<1>1. RestType
  BY SplitIInv
<1>2. UNCHANGED <<watched, channel, client, connection_, pc, todo, batch, next,
                  fault>>
  BY DEF ThreadStep, GetConnection, DropConnection, Send, Shutdown,
         ShutdownSetState, ThreadQueue, threadUnchanged, ownerVars, loopVars
<1>3. state_' = state_ \/ state_' = "kDisconnecting"
  BY DEF ThreadStep, GetConnection, DropConnection, Send, Shutdown,
         ShutdownSetState, ThreadQueue
<1>4. channel = "new" => UNCHANGED <<state_, pending, tpc>>
  BY DEF ThreadStep, GetConnection, DropConnection, Send, Shutdown,
         ShutdownSetState, ThreadQueue, AInv, NewIsUntouched
<1>5. QueuesOK'
  <2>1. CASE ThreadQueue(t)
    <3>1. tpc[t] \in FunctorSet /\ ~IsDestroy(tpc[t])
      BY <1>1, <2>1, FunctorTypes DEF ThreadQueue, RestType, IsDestroy
    <3> QED
      BY <1>1, <1>2, <2>1, <3>1, QueuesAfterPush DEF ThreadQueue, queueInLoop, AInv
  <2>2. CASE ~ThreadQueue(t)
    <3>1. pending' = pending
      BY <2>2 DEF ThreadStep, GetConnection, DropConnection, Send, Shutdown,
                  ShutdownSetState
    <3> QED  BY <1>2, <3>1 DEF AInv, QueuesOK, ClosingOnce
  <2> QED  BY <2>1, <2>2
<1>6. NewIsUntouched' /\ RemovedIsFinal' /\ CloseEventIsOpen' /\ OpenIsOwned'
  BY <1>2, <1>4 DEF AInv, NewIsUntouched, RemovedIsFinal, CloseEventIsOpen,
     OpenIsOwned
<1>7. AddedIsUp' /\ AssertionsHold'
  BY <1>2, <1>3 DEF AInv, AddedIsUp, AssertionsHold
<1> QED  BY <1>5, <1>6, <1>7 DEF AInv

\* handleClose is entered with the channel enabled, and disables it.
LEMMA CloseAInv ==
    ASSUME IInv, AInv, fault = "none", HandleClose \/ HandleReadClose
    PROVE  AInv'
<1>1. RestType
  BY SplitIInv
<1>2. channel = "added" /\ watched /\ handleClose
  BY DEF HandleClose, HandleReadClose, AInv, CloseEventIsOpen
<1>3. /\ state_ \in {"kConnected", "kDisconnecting"} /\ (client => connection_)
      /\ NoneIn(pending, 1) /\ NoneIn(batch, next)
  BY <1>2 DEF AInv, AddedIsUp, OpenIsOwned, QueuesOK
<1>4. /\ UNCHANGED <<state_, channel, pc, batch, next, fault>>
      /\ ~watched'
      /\ pending' = Append(pending, Functor("connectDestroyed"))
  BY <1>2, <1>3 DEF HandleClose, HandleReadClose, handleClose, removeConnection,
                    queueInLoop, CloseAsserts
<1>5. POLLHUP \notin todo' /\ POLLIN \notin todo'
  BY DEF HandleClose, HandleReadClose
<1>6. AtMostOneIn(pending', 1)
  <2>1. Functor("connectDestroyed") \in FunctorSet
    BY FunctorTypes
  <2> QED  BY <1>1, <1>3, <1>4, <2>1, PushDestroy DEF RestType
<1>7. QueuesOK'
  BY <1>2, <1>3, <1>4, <1>6 DEF QueuesOK, ClosingOnce
<1> QED
  BY <1>2, <1>3, <1>4, <1>5, <1>7 DEF AInv, NewIsUntouched, AddedIsUp,
     OpenIsOwned, RemovedIsFinal, CloseEventIsOpen, AssertionsHold

\* Steps of the loop that neither close nor run a functor.
LEMMA QuietAInv ==
    ASSUME IInv, AInv, fault = "none",
           \/ newConnection \/ CallbackReturns
           \/ \E revents \in SUBSET {POLLIN, POLLHUP, POLLOUT} : Poll(revents)
           \/ HandleReadMessage
           \/ \E n \in 0 .. Len(outputBuffer_) : handleWrite(n)
    PROVE  AInv'
<1>1. RestType
  BY SplitIInv
<1>2. /\ UNCHANGED <<state_, watched, channel, client, tpc, batch, next>>
      /\ connection_ => connection_'
  BY DEF newConnection, CallbackReturns, Poll, HandleReadMessage, handleWrite,
         connVars, ownerVars
<1>8. CompleteQueued /\ fault' /= "assert"
  <2>1. CASE \E n \in 0 .. Len(outputBuffer_) : handleWrite(n)
    BY <2>1, WriteEffects
  <2>2. CASE ~\E n \in 0 .. Len(outputBuffer_) : handleWrite(n)
    BY <2>2 DEF newConnection, CallbackReturns, Poll, HandleReadMessage,
                CompleteQueued
  <2> QED  BY <2>1, <2>2
<1>3. QueuesOK'
  <2>1. pending' = pending \/ pending' = Append(pending, Functor("writeComplete"))
    BY <1>8 DEF CompleteQueued
  <2>2. Functor("writeComplete") \in FunctorSet /\ ~IsDestroy(Functor("writeComplete"))
    BY FunctorTypes DEF Functor, IsDestroy
  <2> QED  BY <1>1, <1>2, <2>1, <2>2, QueuesAfterPush DEF AInv
<1>4. NewIsUntouched'
  <2>1. CASE newConnection
    BY <1>2, <2>1 DEF AInv, NewIsUntouched, newConnection
  <2>2. CASE ~newConnection
    <3>1. channel /= "new"
      BY <2>2 DEF CallbackReturns, Poll, HandleReadMessage, handleWrite, AInv,
                  NewIsUntouched
    <3>2. pc' \notin {"created", "establish"}
      BY <1>1, <2>2, <3>1 DEF CallbackReturns, Poll, HandleReadMessage,
                              handleWrite, RestType
    <3> QED  BY <1>2, <3>1, <3>2 DEF NewIsUntouched
  <2> QED  BY <2>1, <2>2
<1>5. CloseEventIsOpen'
  <2>1. CASE newConnection \/ CallbackReturns
    BY <1>2, <2>1 DEF AInv, CloseEventIsOpen, newConnection, CallbackReturns
  <2>2. CASE \E revents \in SUBSET {POLLIN, POLLHUP, POLLOUT} : Poll(revents)
    BY <1>2, <2>2 DEF CloseEventIsOpen, Poll
  <2>3. CASE HandleReadMessage \/ \E n \in 0 .. Len(outputBuffer_) : handleWrite(n)
    BY <2>3 DEF CloseEventIsOpen, HandleReadMessage, handleWrite
  <2> QED  BY <2>1, <2>2, <2>3
<1>6. OpenIsOwned'
  BY <1>2 DEF AInv, OpenIsOwned
<1>7. AddedIsUp' /\ RemovedIsFinal' /\ AssertionsHold'
  BY <1>2, <1>8 DEF AInv, AddedIsUp, RemovedIsFinal, AssertionsHold
<1> QED  BY <1>3, <1>4, <1>5, <1>6, <1>7 DEF AInv

LEMMA EstablishedAInv ==
    ASSUME IInv, AInv, fault = "none", connectEstablished
    PROVE  AInv'
<1>1. channel = "new" /\ pc = "establish"
  BY DEF connectEstablished, AInv, NewIsUntouched
<1>2. /\ state_ = "kConnecting" /\ connection_ /\ todo' = todo
      /\ pending = <<>> /\ batch = <<>> /\ watched
  BY <1>1 DEF AInv, NewIsUntouched, connectEstablished
<1>3. /\ channel' = "added" /\ state_' = "kConnected" /\ pc' = "callback"
      /\ fault' = fault
      /\ UNCHANGED <<watched, client, connection_, pending, batch, next, todo>>
  BY <1>2 DEF connectEstablished, ownerVars
<1>4. QueuesOK'
  <2>1. next \in Nat
    BY SplitIInv DEF RestType
  <2>2. NoneIn(pending', 1) /\ NoneIn(batch', next') /\ AtMostOneIn(pending', 1)
    BY <1>2, <1>3, <2>1, EmptyHasNone
  <2> QED  BY <2>2 DEF QueuesOK, ClosingOnce
<1>5. CloseEventIsOpen'
  BY <1>1, <1>3 DEF AInv, CloseEventIsOpen
<1> QED
  BY <1>2, <1>3, <1>4, <1>5 DEF AInv, NewIsUntouched, AddedIsUp, OpenIsOwned,
     RemovedIsFinal, AssertionsHold

\* The functors.
LEMMA FunctorAInv ==
    ASSUME IInv, AInv, fault = "none",
           \/ Swap \/ \E nwrote \in 0 .. MsgLen : RunSend(nwrote)
           \/ RunShutdown \/ RunDangling \/ connectDestroyed
           \/ RunWriteComplete \/ FunctorsDone
    PROVE  AInv'
<1>1. RestType
  BY SplitIInv
<1>2. channel /= "new" /\ POLLHUP \notin todo /\ POLLIN \notin todo
  BY DEF Swap, RunSend, RunShutdown, RunDangling, connectDestroyed,
         RunWriteComplete, FunctorsDone, RunFunctor, AInv, NewIsUntouched,
         CloseEventIsOpen
<1>3. /\ UNCHANGED <<client, connection_, todo>>
      /\ pc' \notin {"created", "establish"}
  BY DEF Swap, RunSend, RunShutdown, RunDangling, connectDestroyed,
         RunWriteComplete, FunctorsDone, RunFunctor, ownerVars
<1>4. CloseEventIsOpen'
  BY <1>2, <1>3 DEF CloseEventIsOpen
<1>5. CASE connectDestroyed
  <2>1. /\ RunFunctor("connectDestroyed") /\ UNCHANGED <<pending, batch>>
        /\ channel' = "removed" /\ ~watched'
    BY <1>5 DEF connectDestroyed
  <2>2. /\ channel /= "removed" /\ NoneIn(pending', 1) /\ NoneIn(batch', next')
    BY <1>1, <2>1, RunQueues DEF AInv
  <2>3. channel = "added"
    BY <1>1, <1>2, <2>2 DEF RestType
  <2>4. fault' = fault
    BY <1>5, <2>3 DEF connectDestroyed, AInv, AddedIsUp
  <2>5. AtMostOneIn(pending', 1)
    BY <2>2 DEF NoneIn, AtMostOneIn
  <2>6. QueuesOK'
    BY <2>1, <2>2, <2>5 DEF QueuesOK, ClosingOnce
  <2> QED
    BY <1>3, <1>4, <2>1, <2>4, <2>6 DEF AInv, NewIsUntouched, AddedIsUp,
       OpenIsOwned, RemovedIsFinal, AssertionsHold
<1>6. CASE ~connectDestroyed
  <2>1. UNCHANGED <<state_, watched, channel>> /\ fault' /= "assert"
    <3>1. ASSUME NEW nwrote \in 0 .. MsgLen, RunSend(nwrote)
          PROVE  UNCHANGED <<state_, watched, channel>> /\ fault' /= "assert"
      BY <3>1, SendEffects DEF RunSend
    <3> QED
      BY <1>6, <3>1 DEF Swap, RunShutdown, RunDangling, RunWriteComplete,
                        FunctorsDone, connVars
  <2>2. ASSUME Swap PROVE QueuesOK'
    <3>1. batch' = pending /\ pending' = <<>> /\ next' = 1
      BY <2>2 DEF Swap
    <3>2. NoneIn(pending', 1)
      BY <3>1, EmptyHasNone
    <3>3. AtMostOneIn(pending, 1)
      BY DEF AInv, QueuesOK, ClosingOnce, NoneIn, AtMostOneIn
    <3> QED  BY <2>1, <3>1, <3>2, <3>3 DEF AInv, QueuesOK, ClosingOnce
  <2>3. ASSUME FunctorsDone PROVE QueuesOK'
    <3>1. batch' = <<>> /\ pending' = pending /\ next' \in Nat
      BY <1>1, <2>3 DEF FunctorsDone, RestType
    <3>2. NoneIn(batch', next')
      BY <3>1, EmptyHasNone
    <3>3. AtMostOneIn(pending, 1)
      BY DEF AInv, QueuesOK, ClosingOnce, NoneIn, AtMostOneIn
    <3> QED  BY <2>1, <3>1, <3>2, <3>3 DEF AInv, QueuesOK, ClosingOnce
  <2>4. ASSUME RunShutdown \/ RunDangling \/ RunWriteComplete PROVE QueuesOK'
    <3>1. PICK op \in {"sendInLoop", "shutdownInLoop", "writeComplete"} :
              RunFunctor(op)
      BY <2>4 DEF RunShutdown, RunDangling, RunWriteComplete
    <3>2. UNCHANGED <<pending, batch>>
      BY <2>4 DEF RunShutdown, RunDangling, RunWriteComplete
    <3> QED  BY <1>1, <2>1, <3>1, <3>2, RunQueues DEF AInv
  <2>5. ASSUME NEW nwrote \in 0 .. MsgLen, RunSend(nwrote) PROVE QueuesOK'
    <3>1. /\ RunFunctor("sendInLoop") /\ batch' = batch
          /\ pending' = pending \/ pending' = Append(pending, Functor("writeComplete"))
      BY <2>5, SendEffects DEF RunSend, CompleteQueued
    <3>2. /\ NoneIn(batch, next) => NoneIn(batch', next')
          /\ AtMostOneIn(batch, next) => AtMostOneIn(batch', next')
      BY <1>1, <3>1, RunAdvances
    <3>3. Functor("writeComplete") \in FunctorSet /\ ~IsDestroy(Functor("writeComplete"))
      BY FunctorTypes DEF Functor, IsDestroy
    <3>4. /\ NoneIn(pending, 1) => NoneIn(pending', 1)
          /\ AtMostOneIn(pending, 1) => AtMostOneIn(pending', 1)
      BY <1>1, <3>1, <3>3, PushOther DEF RestType
    <3> QED  BY <2>1, <3>2, <3>4 DEF AInv, QueuesOK, ClosingOnce
  <2>6. QueuesOK'
    BY <1>6, <2>2, <2>3, <2>4, <2>5
  <2> QED
    BY <1>2, <1>3, <1>4, <2>1, <2>6 DEF AInv, NewIsUntouched, AddedIsUp,
       OpenIsOwned, RemovedIsFinal, AssertionsHold
<1> QED  BY <1>5, <1>6

LEMMA ResetAInv == ASSUME AInv, PeerResets PROVE AInv'
  BY DEF AInv, NewIsUntouched, AddedIsUp, OpenIsOwned, QueuesOK, ClosingOnce,
     NoneIn, AtMostOneIn, RemovedIsFinal, CloseEventIsOpen, AssertionsHold,
     PeerResets, connVars, ownerVars, loopVars

LEMMA NextAInv == IInv /\ AInv /\ [Next]_vars => AInv'
<1> SUFFICES ASSUME IInv, AInv, [Next]_vars PROVE AInv'
  OBVIOUS
<1>1. CASE Next
  <2>1. fault = "none"
    BY <1>1 DEF Next
  <2>2. CASE LoopStep
    BY <2>1, <2>2, CloseAInv, QuietAInv, EstablishedAInv, FunctorAInv DEF LoopStep
  <2> QED  BY <1>1, <2>1, <2>2, ClientAInv, ThreadAInv, ResetAInv DEF Next
<1>2. CASE UNCHANGED vars
  BY <1>2 DEF AInv, NewIsUntouched, AddedIsUp, OpenIsOwned, QueuesOK,
     ClosingOnce, NoneIn, AtMostOneIn, RemovedIsFinal, CloseEventIsOpen,
     AssertionsHold, vars, connVars, ownerVars, loopVars
<1> QED  BY <1>1, <1>2

\* No assert() on the connection's state, on the owner's pointer or on the
\* removed channel fails, for any number of threads and messages.
THEOREM AssertsNeverFail == Spec => []AssertionsHold
<1>1. Init => AInv
  BY InitAInv
<1>2. IInv /\ AInv /\ [Next]_vars => AInv'
  BY NextAInv
<1>3. AInv => AssertionsHold
  BY DEF AInv
<1> QED  BY <1>1, <1>2, <1>3, Invariance, PTL DEF Spec

----------------------------------------------------------------------------

\* The write side is closed after the output: shutdownInLoop sees announced
\* output, and handleWrite calls it when the buffer has become empty.
THEOREM HalfCloseWaits == Spec => HalfCloseAfterOutput
<1> DEFINE A == ~halfClosed /\ halfClosed' /\ watched /\ handed /= <<>>
                => outputBuffer_' = <<>>
<1>1. IInv /\ [Next]_vars => [A]_vars
  <2> SUFFICES ASSUME IInv, Next, ~halfClosed, halfClosed', watched, handed /= <<>>
               PROVE  outputBuffer_' = <<>>
    BY DEF A
  <2>1. CASE LoopShutdown \/ RunShutdown
    <3>1. ~writing /\ outputBuffer_' = outputBuffer_
      BY <2>1 DEF LoopShutdown, RunShutdown, shutdownInLoop, connVars
    <3> QED  BY <3>1 DEF IInv, OutputAnnounced
  <2>2. ASSUME NEW n \in 0 .. Len(outputBuffer_), handleWrite(n)
        PROVE  outputBuffer_' = <<>>
    <3>1. outputBuffer_ \in Seq(Byte) /\ Len(outputBuffer_) \in Nat
      BY LenProperties DEF IInv, TypeOK
    <3>2. n = Len(outputBuffer_)
      BY <2>2 DEF handleWrite
    <3>3. outputBuffer_' = SubSeq(outputBuffer_, n + 1, Len(outputBuffer_))
      BY <2>2 DEF handleWrite
    <3> QED  BY <3>1, <3>2, <3>3, SubSeqEmpty
  <2>3. CASE /\ ~LoopShutdown /\ ~RunShutdown
             /\ \A n \in 0 .. Len(outputBuffer_) : ~handleWrite(n)
    <3>1. halfClosed' = halfClosed
      <4>1. CASE LoopStep
        BY <2>3, <4>1 DEF LoopStep, newConnection, connectEstablished,
           CallbackReturns, Poll, HandleClose, HandleReadMessage,
           HandleReadClose, Swap, RunSend, sendInLoop, RunDangling,
           connectDestroyed, RunWriteComplete, FunctorsDone, netVars
      <4>2. CASE LoopClient
        BY <2>3, <4>2 DEF LoopClient, LoopSend, sendInLoop, ClientDestroyed, netVars
      <4>3. CASE \E t \in Threads : ThreadStep(t)
        BY <4>3 DEF ThreadStep, GetConnection, DropConnection, Send, Shutdown,
           ShutdownSetState, ThreadQueue, threadUnchanged, netVars
      <4> QED  BY <4>1, <4>2, <4>3 DEF Next, PeerResets
    <3> QED  BY <3>1
  <2> QED  BY <2>1, <2>2, <2>3
<1>2. Spec => [][A]_vars
  BY <1>1, Invariance, PTL DEF Spec
<1> QED  BY <1>2 DEF HalfCloseAfterOutput

----------------------------------------------------------------------------
(* Lifetime: the last shared_ptr goes after the channel, and use in the    *)
(* loop thread alone is safe.                                              *)

\* A functor that is bound to a raw this.
IsRaw(f) == f.op \in {"sendInLoop", "shutdownInLoop"}
NoRaw(q) == \A i \in 1 .. Len(q) : ~IsRaw(q[i])

\* From the close to the destruction, connectDestroyed is on its way, and
\* holds a reference.
ClosingIsQueued ==
    channel = "added" /\ ~watched => ~NoneIn(pending, 1) \/ ~NoneIn(batch, next)

\* Events are handled, and callbacks called from there, before the channel
\* is removed.
DispatchIsAdded ==
    pc = "dispatch" \/ (pc = "callback" /\ ret = "dispatch") => channel = "added"

\* There is a batch only while functors run.
BatchIsForFunctors ==
    pc \in {"poll", "dispatch"} \/ (pc = "callback" /\ ret = "dispatch")
        => batch = <<>>

\* A removed channel's connection is not up, so send() does nothing.
RemovedIsDown == channel = "removed" => state_ /= "kConnected"

\* As long as other threads keep out: nothing is bound to a raw this, and
\* what was half-closed has no output and accepts none.
LoopOnly ==
    ~crossThread =>
        /\ \A t \in Threads : tpc[t].op = "idle"
        /\ NoRaw(pending) /\ NoRaw(batch)
        /\ halfClosed => state_ \in {"kDisconnecting", "kDisconnected"} /\ ~writing

\* The inductive invariant.
LInv ==
    /\ ClosingIsQueued /\ DispatchIsAdded /\ BatchIsForFunctors
    /\ RemovedIsDown /\ LoopOnly
    /\ LoopUseIsSafe

\* Queueing a functor: what is queued stays, and it counts itself.
LEMMA PushKeeps ==
    ASSUME NEW q \in Seq(FunctorSet), NEW f \in FunctorSet
    PROVE  /\ ~NoneIn(q, 1) => ~NoneIn(Append(q, f), 1)
           /\ IsDestroy(f) => ~NoneIn(Append(q, f), 1)
           /\ NoRaw(q) /\ ~IsRaw(f) => NoRaw(Append(q, f))
<1> DEFINE p == Append(q, f)
<1>1. /\ Len(q) \in Nat /\ Len(p) = Len(q) + 1
      /\ \A i \in 1 .. Len(q) : p[i] = q[i]
      /\ p[Len(q) + 1] = f
  BY AppendProperties, LenProperties
<1> HIDE DEF p
<1>2. ~NoneIn(q, 1) => ~NoneIn(p, 1)
  BY <1>1 DEF NoneIn
<1>3. IsDestroy(f) => ~NoneIn(p, 1)
  BY <1>1 DEF NoneIn
<1>4. ASSUME NoRaw(q), ~IsRaw(f), NEW i \in 1 .. Len(p)
      PROVE  ~IsRaw(p[i])
  <2>1. CASE i \in 1 .. Len(q)
    BY <1>1, <1>4, <2>1 DEF NoRaw
  <2>2. CASE i = Len(q) + 1
    BY <1>1, <1>4, <2>2
  <2> QED  BY <1>1, <2>1, <2>2
<1>5. NoRaw(q) /\ ~IsRaw(f) => NoRaw(p)
  BY <1>4 DEF NoRaw
<1> QED  BY <1>2, <1>3, <1>5 DEF p

\* The functors the loop thread itself queues are not bound to a raw this.
LEMMA OwnFunctors ==
    /\ Functor("writeComplete") \in FunctorSet /\ ~IsRaw(Functor("writeComplete"))
    /\ Functor("connectDestroyed") \in FunctorSet
    /\ ~IsRaw(Functor("connectDestroyed")) /\ IsDestroy(Functor("connectDestroyed"))
BY FunctorTypes DEF Functor, IsRaw, IsDestroy

\* Running another functor leaves connectDestroyed to be run.
LEMMA RunKeeps ==
    ASSUME RestType, NEW op, RunFunctor(op), op /= "connectDestroyed",
           UNCHANGED batch, ~NoneIn(batch, next)
    PROVE  ~NoneIn(batch', next')
<1>1. /\ next \in 1 .. Len(batch) /\ Len(batch) \in Nat /\ next' = next + 1
      /\ ~IsDestroy(batch[next])
  BY LenProperties DEF RestType, RunFunctor, IsDestroy
<1>2. PICK i \in 1 .. Len(batch) : i >= next /\ IsDestroy(batch[i])
  BY DEF NoneIn
<1>3. i >= next + 1
  BY <1>1, <1>2
<1> QED  BY <1>1, <1>2, <1>3 DEF NoneIn

\* With only the loop thread using it, no functor has a raw this.
LEMMA RawIsCrossThread ==
    ASSUME RestType, LoopOnly, NEW op \in {"sendInLoop", "shutdownInLoop"},
           RunFunctor(op)
    PROVE  crossThread
<1>1. next \in 1 .. Len(batch) /\ IsRaw(batch[next])
  BY LenProperties DEF RestType, RunFunctor, IsRaw
<1> QED  BY <1>1 DEF LoopOnly, NoRaw

\* The invariant says what the two properties say.
LEMMA LInvImplies == RestType /\ AInv /\ LInv => DestroyedAfterRemoval /\ LoopUseIsSafe
<1> SUFFICES ASSUME RestType, AInv, LInv, client, ~Alive
             PROVE  channel = "removed" /\ pc /= "dispatch"
  BY DEF LInv, DestroyedAfterRemoval
<1>1. channel /= "new"
  BY DEF AInv, NewIsUntouched, Alive
<1>2. ASSUME channel = "added" PROVE FALSE
  <2>1. CASE watched
    BY <1>2, <2>1 DEF AInv, OpenIsOwned, Alive
  <2>2. CASE ~watched
    <3>1. ~NoneIn(pending, 1) \/ ~NoneIn(batch, next)
      BY <1>2, <2>2 DEF LInv, ClosingIsQueued
    <3>2. HoldsReference(pending) \/ HoldsReference(batch)
      BY <3>1 DEF NoneIn, IsDestroy, HoldsReference, RestType
    <3> QED  BY <3>2 DEF Alive
  <2> QED  BY <2>1, <2>2
<1>3. channel = "removed"
  BY <1>1, <1>2 DEF RestType
<1> QED  BY <1>3 DEF LInv, DispatchIsAdded

LEMMA InitLInv == Init => LInv
<1> SUFFICES ASSUME Init PROVE LInv
  OBVIOUS
<1>1. channel = "new" /\ pc = "created" /\ pending = <<>> /\ batch = <<>>
      /\ fault = "none"
  BY DEF Init
<1>2. ~halfClosed
  BY Zenon DEF Init
<1>3. \A t \in Threads : tpc[t].op = "idle"
  BY DEF Init, Functor
<1>4. NoRaw(pending) /\ NoRaw(batch)
  BY <1>1 DEF NoRaw
<1> QED
  BY <1>1, <1>2, <1>3, <1>4 DEF LInv, ClosingIsQueued, DispatchIsAdded,
     BatchIsForFunctors, RemovedIsDown, LoopOnly, LoopUseIsSafe

LEMMA ClientLInv ==
    ASSUME IInv, AInv, LInv, fault = "none", LoopClient PROVE LInv'
<1>1. RestType
  BY SplitIInv
<1>2. UNCHANGED <<watched, channel, pc, ret, todo, batch, next, tpc, crossThread>>
  BY DEF LoopClient, LoopSend, LoopShutdown, ClientDestroyed, sendInLoop,
         connVars, loopVars, histVars
<1>3. channel /= "new"
  BY DEF LoopClient, LoopSend, LoopShutdown, ClientDestroyed, InClientCode,
         AInv, NewIsUntouched
<1>4. /\ ~NoneIn(pending, 1) => ~NoneIn(pending', 1)
      /\ NoRaw(pending) => NoRaw(pending')
  <2>1. ASSUME NEW m \in Messages, NEW nwrote \in 0 .. MsgLen, LoopSend(m, nwrote)
        PROVE  CompleteQueued
    BY <2>1, SendEffects DEF LoopSend
  <2>2. CompleteQueued
    BY <2>1 DEF LoopClient, LoopShutdown, ClientDestroyed, CompleteQueued
  <2> QED  BY <1>1, <2>2, PushKeeps, OwnFunctors DEF RestType, CompleteQueued
<1>5. ClosingIsQueued' /\ DispatchIsAdded' /\ BatchIsForFunctors'
  BY <1>2, <1>4 DEF LInv, ClosingIsQueued, DispatchIsAdded, BatchIsForFunctors
<1>6. RemovedIsDown'
  <2>1. state_' = state_ \/ state_' = "kDisconnecting"
    BY DEF LoopClient, LoopSend, LoopShutdown, ClientDestroyed, sendInLoop, connVars
  <2> QED  BY <1>2, <2>1 DEF LInv, RemovedIsDown
<1>7. ASSUME NEW m \in Messages, NEW nwrote \in 0 .. MsgLen, LoopSend(m, nwrote)
      PROVE  LoopOnly' /\ LoopUseIsSafe'
  <2>1. state_ = "kConnected" /\ sendInLoop(m, nwrote) /\ UNCHANGED client
    BY <1>7 DEF LoopSend, ownerVars
  <2>2. channel = "added"
    BY <1>1, <1>3, <2>1 DEF RestType, LInv, RemovedIsDown
  <2>3. ~crossThread => ~halfClosed
    BY <2>1 DEF LInv, LoopOnly
  <2>4. ~crossThread => fault' \in {"none", "reset"}
    BY <2>1, <2>2, <2>3, SendEffects
  <2>5. UNCHANGED <<state_, halfClosed>>
    BY <2>1 DEF sendInLoop
  <2> QED  BY <1>2, <1>4, <2>1, <2>3, <2>4, <2>5 DEF LInv, LoopOnly, LoopUseIsSafe
<1>8. CASE LoopShutdown
  <2>1. /\ state_ = "kConnected" /\ state_' = "kDisconnecting"
        /\ halfClosed' = (halfClosed \/ ~writing)
        /\ UNCHANGED <<writing, client, fault>>
    BY <1>8 DEF LoopShutdown, shutdownInLoop, ownerVars
  <2>2. ~crossThread => ~halfClosed
    BY <2>1 DEF LInv, LoopOnly
  <2>3. ~crossThread /\ halfClosed' => ~writing'
    BY <2>1, <2>2
  <2>4. LoopOnly'
    BY <1>2, <1>4, <2>1, <2>3 DEF LInv, LoopOnly
  <2>5. LoopUseIsSafe'
    BY <1>2, <2>1 DEF LInv, LoopUseIsSafe
  <2> QED  BY <1>5, <1>6, <2>4, <2>5 DEF LInv
<1>9. CASE ClientDestroyed
  <2>1. UNCHANGED <<state_, writing, halfClosed>> /\ ~client'
    BY <1>9 DEF ClientDestroyed, connVars, netVars
  <2>2. LoopOnly'
    BY <1>2, <1>4, <2>1 DEF LInv, LoopOnly
  <2>3. LoopUseIsSafe'
    BY <2>1 DEF LoopUseIsSafe
  <2> QED  BY <1>5, <1>6, <2>2, <2>3 DEF LInv
<1> QED  BY <1>5, <1>6, <1>7, <1>8, <1>9 DEF LoopClient, LInv

LEMMA ThreadLInv ==
    ASSUME IInv, AInv, LInv, fault = "none", NEW t \in Threads, ThreadStep(t)
    PROVE  LInv'
<1>1. RestType
  BY SplitIInv
<1>2. UNCHANGED <<watched, channel, client, pc, ret, todo, batch, next, writing,
                  halfClosed, fault>>
  BY DEF ThreadStep, GetConnection, DropConnection, Send, Shutdown,
         ShutdownSetState, ThreadQueue, threadUnchanged, ownerVars, loopVars,
         netVars
<1>3. state_' = state_ \/ state_' = "kDisconnecting"
  BY DEF ThreadStep, GetConnection, DropConnection, Send, Shutdown,
         ShutdownSetState, ThreadQueue
<1>4. crossThread' \/ UNCHANGED <<crossThread, state_, tpc, pending>>
  <2>1. tpc[t].op /= "idle" => crossThread
    BY DEF LInv, LoopOnly
  <2> QED
    BY <2>1 DEF ThreadStep, GetConnection, DropConnection, Send, Shutdown,
         ShutdownSetState, ThreadQueue
<1>5. crossThread => crossThread'
  BY DEF ThreadStep, GetConnection, DropConnection, Send, Shutdown,
         ShutdownSetState, ThreadQueue
<1>6. ~NoneIn(pending, 1) => ~NoneIn(pending', 1)
  <2>1. CASE ThreadQueue(t)
    <3>1. tpc[t] \in FunctorSet
      BY <1>1, <2>1, FunctorTypes DEF ThreadQueue, RestType
    <3> QED  BY <1>1, <2>1, <3>1, PushKeeps DEF ThreadQueue, queueInLoop, RestType
  <2>2. CASE ~ThreadQueue(t)
    BY <2>2 DEF ThreadStep, GetConnection, DropConnection, Send, Shutdown,
                ShutdownSetState
  <2> QED  BY <2>1, <2>2
<1>7. ClosingIsQueued' /\ DispatchIsAdded' /\ BatchIsForFunctors' /\ RemovedIsDown'
  BY <1>2, <1>3, <1>6 DEF LInv, ClosingIsQueued, DispatchIsAdded,
     BatchIsForFunctors, RemovedIsDown
<1>8. LoopOnly'
  BY <1>2, <1>4, <1>5 DEF LInv, LoopOnly
<1>9. LoopUseIsSafe'
  BY <1>2 DEF LoopUseIsSafe
<1> QED  BY <1>7, <1>8, <1>9 DEF LInv

\* handleClose queues connectDestroyed.
LEMMA CloseLInv ==
    ASSUME IInv, AInv, LInv, fault = "none", HandleClose \/ HandleReadClose
    PROVE  LInv'
<1>1. RestType
  BY SplitIInv
<1>2. /\ channel = "added" /\ watched /\ handleClose
      /\ UNCHANGED <<pc, ret, batch, next, tpc, halfClosed, client, crossThread>>
  BY DEF HandleClose, HandleReadClose, AInv, CloseEventIsOpen, netVars, histVars
<1>3. CloseAsserts
  BY <1>2 DEF AInv, AddedIsUp, OpenIsOwned, CloseAsserts
<1>4. /\ pending' = Append(pending, Functor("connectDestroyed"))
      /\ UNCHANGED <<state_, channel, fault>> /\ ~writing'
  BY <1>2, <1>3 DEF handleClose, removeConnection, queueInLoop
<1>5. ~NoneIn(pending', 1) /\ (NoRaw(pending) => NoRaw(pending'))
  BY <1>1, <1>4, PushKeeps, OwnFunctors DEF RestType
<1> QED
  BY <1>2, <1>4, <1>5 DEF LInv, ClosingIsQueued, DispatchIsAdded,
     BatchIsForFunctors, RemovedIsDown, LoopOnly, LoopUseIsSafe

\* handleWrite of a half-closed socket would be SIGPIPE.
LEMMA WriteLInv ==
    ASSUME IInv, AInv, LInv, fault = "none",
           NEW n \in 0 .. Len(outputBuffer_), handleWrite(n)
    PROVE  LInv'
<1>1. RestType
  BY SplitIInv
<1>2. UNCHANGED <<state_, watched, channel, client, pc, ret, batch, next, tpc,
                  crossThread>>
  BY DEF handleWrite, ownerVars, histVars
<1>3. /\ ~NoneIn(pending, 1) => ~NoneIn(pending', 1)
      /\ NoRaw(pending) => NoRaw(pending')
  <2>1. CompleteQueued
    BY WriteEffects
  <2> QED  BY <1>1, <2>1, PushKeeps, OwnFunctors DEF RestType, CompleteQueued
<1>4. ~crossThread /\ halfClosed => ~writing
  BY DEF LInv, LoopOnly
<1>5. fault' \in {"none", "reset"} \/ crossThread
  BY <1>4, WriteEffects
<1>6. \/ UNCHANGED <<writing, halfClosed>>
      \/ ~writing' /\ halfClosed' = (halfClosed \/ state_ = "kDisconnecting")
  BY DEF handleWrite
<1>7. LoopOnly'
  BY <1>2, <1>3, <1>6 DEF LInv, LoopOnly
<1> QED
  BY <1>2, <1>3, <1>5, <1>7 DEF LInv, ClosingIsQueued, DispatchIsAdded,
     BatchIsForFunctors, RemovedIsDown, LoopUseIsSafe

\* The other steps of the loop outside dePendingFunctors.
LEMMA QuietLInv ==
    ASSUME IInv, AInv, LInv, fault = "none",
           \/ newConnection \/ connectEstablished \/ CallbackReturns
           \/ \E revents \in SUBSET {POLLIN, POLLHUP, POLLOUT} : Poll(revents)
           \/ HandleReadMessage
    PROVE  LInv'
<1>1. RestType
  BY SplitIInv
<1>2. UNCHANGED <<watched, writing, client, tpc, pending, batch, next,
                  halfClosed, crossThread>>
  BY DEF newConnection, connectEstablished, CallbackReturns, Poll,
         HandleReadMessage, connVars, ownerVars, netVars, histVars
<1>3. CASE connectEstablished
  <2>1. channel = "new" /\ state_ = "kConnecting" /\ watched /\ batch = <<>>
    BY <1>3 DEF connectEstablished, AInv, NewIsUntouched
  <2>2. channel' = "added" /\ fault' = fault /\ state_' = "kConnected"
    BY <1>3, <2>1 DEF connectEstablished
  <2>3. LoopOnly'
    BY <1>2, <2>1 DEF LInv, LoopOnly
  <2> QED
    BY <1>2, <2>1, <2>2, <2>3 DEF LInv, ClosingIsQueued, DispatchIsAdded,
       BatchIsForFunctors, RemovedIsDown, LoopUseIsSafe
<1>4. CASE ~connectEstablished
  <2>1. UNCHANGED <<state_, channel>>
    BY <1>4 DEF newConnection, CallbackReturns, Poll, HandleReadMessage, connVars
  <2>2. LoopOnly' /\ ClosingIsQueued' /\ RemovedIsDown'
    BY <1>2, <2>1 DEF LInv, LoopOnly, ClosingIsQueued, RemovedIsDown
  <2>3. DispatchIsAdded' /\ BatchIsForFunctors'
    BY <1>1, <1>2, <1>4, <2>1 DEF newConnection, CallbackReturns, Poll,
       HandleReadMessage, LInv, DispatchIsAdded, BatchIsForFunctors, RestType
  <2>4. LoopUseIsSafe'
    <3>1. CASE \E revents \in SUBSET {POLLIN, POLLHUP, POLLOUT} : Poll(revents)
      <4>1. client => connection_
        BY <3>1 DEF Poll, AInv, OpenIsOwned
      <4>2. client => fault' = fault
        BY <3>1, <4>1 DEF Poll, Alive
      <4> QED  BY <1>2, <4>2 DEF LInv, LoopUseIsSafe
    <3>2. CASE newConnection \/ CallbackReturns \/ HandleReadMessage
      BY <1>2, <3>2 DEF newConnection, CallbackReturns, HandleReadMessage, LInv,
         LoopUseIsSafe
    <3> QED  BY <1>4, <3>1, <3>2
  <2> QED  BY <2>2, <2>3, <2>4 DEF LInv
<1> QED  BY <1>3, <1>4

\* The functors.
LEMMA FunctorLInv ==
    ASSUME IInv, AInv, LInv, fault = "none",
           \/ Swap \/ \E nwrote \in 0 .. MsgLen : RunSend(nwrote)
           \/ RunShutdown \/ RunDangling \/ connectDestroyed
           \/ RunWriteComplete \/ FunctorsDone
    PROVE  LInv'
<1>1. RestType
  BY SplitIInv
<1>2. UNCHANGED <<client, tpc, crossThread>>
  BY DEF Swap, RunSend, RunShutdown, RunDangling, connectDestroyed,
         RunWriteComplete, FunctorsDone, ownerVars, histVars
<1>3. DispatchIsAdded' /\ BatchIsForFunctors'
  BY DEF Swap, RunSend, RunShutdown, RunDangling, connectDestroyed,
         RunWriteComplete, FunctorsDone, RunFunctor, DispatchIsAdded,
         BatchIsForFunctors
<1>4. CASE connectDestroyed
  <2>1. /\ channel' = "removed" /\ state_' = "kDisconnected" /\ ~writing'
        /\ UNCHANGED <<pending, batch, halfClosed>>
        /\ RunFunctor("connectDestroyed")
    BY <1>4 DEF connectDestroyed, netVars
  <2>2. channel /= "removed"
    BY <1>1, <2>1, RunQueues DEF AInv
  <2>3. channel /= "new"
    BY <1>4 DEF connectDestroyed, RunFunctor, AInv, NewIsUntouched
  <2>4. channel = "added"
    BY <1>1, <2>2, <2>3 DEF RestType
  <2>5. fault' = fault
    BY <1>4, <2>4 DEF connectDestroyed, AInv, AddedIsUp
  <2> QED
    BY <1>2, <1>3, <2>1, <2>5 DEF LInv, ClosingIsQueued, RemovedIsDown, LoopOnly,
       LoopUseIsSafe
<1>5. CASE Swap \/ FunctorsDone
  <2>1. UNCHANGED <<state_, watched, channel, writing, halfClosed, fault>>
    BY <1>5 DEF Swap, FunctorsDone, connVars, netVars
  <2>2. /\ NoneIn(batch, next)
        /\ ~NoneIn(pending, 1) => ~NoneIn(pending', 1) \/ ~NoneIn(batch', next')
        /\ NoRaw(pending) /\ NoRaw(batch) => NoRaw(pending') /\ NoRaw(batch')
    <3>1. NoRaw(<<>>) /\ Len(batch) \in Nat /\ next \in Nat
      BY <1>1, LenProperties DEF NoRaw, RestType
    <3>2. CASE Swap
      <4>1. batch = <<>> /\ batch' = pending /\ pending' = <<>> /\ next' = 1
        BY <3>2 DEF Swap, LInv, BatchIsForFunctors
      <4> QED  BY <3>1, <4>1, EmptyHasNone
    <3>3. CASE FunctorsDone
      <4>1. next > Len(batch) /\ batch' = <<>> /\ pending' = pending
        BY <3>3 DEF FunctorsDone
      <4>2. NoneIn(batch, next)
        BY <3>1, <4>1 DEF NoneIn
      <4> QED  BY <3>1, <4>1, <4>2
    <3> QED  BY <1>5, <3>2, <3>3
  <2>3. ClosingIsQueued' /\ RemovedIsDown'
    BY <2>1, <2>2 DEF LInv, ClosingIsQueued, RemovedIsDown
  <2>4. LoopOnly' /\ LoopUseIsSafe'
    BY <1>2, <2>1, <2>2 DEF LInv, LoopOnly, LoopUseIsSafe
  <2> QED  BY <1>3, <2>3, <2>4 DEF LInv
<1>6. CASE RunWriteComplete
  <2>1. /\ RunFunctor("writeComplete")
        /\ UNCHANGED <<state_, watched, channel, writing, halfClosed, fault,
                       pending, batch>>
    BY <1>6 DEF RunWriteComplete, connVars, netVars
  <2>2. ~NoneIn(batch, next) => ~NoneIn(batch', next')
    BY <1>1, <2>1, RunKeeps
  <2>3. ClosingIsQueued' /\ RemovedIsDown'
    BY <2>1, <2>2 DEF LInv, ClosingIsQueued, RemovedIsDown
  <2>4. LoopOnly' /\ LoopUseIsSafe'
    BY <1>2, <2>1 DEF LInv, LoopOnly, LoopUseIsSafe
  <2> QED  BY <1>3, <2>3, <2>4 DEF LInv
<1>7. CASE RunShutdown \/ RunDangling \/ \E nwrote \in 0 .. MsgLen : RunSend(nwrote)
  <2>1. PICK op \in {"sendInLoop", "shutdownInLoop"} : RunFunctor(op)
    BY <1>7 DEF RunShutdown, RunDangling, RunSend
  <2>2. crossThread
    BY <1>1, <2>1, RawIsCrossThread DEF LInv
  <2>3. /\ UNCHANGED <<state_, watched, channel, batch>>
        /\ pending' = pending \/ pending' = Append(pending, Functor("writeComplete"))
    <3>1. ASSUME NEW nwrote \in 0 .. MsgLen, RunSend(nwrote)
          PROVE  /\ UNCHANGED <<state_, watched, channel, batch>>
                 /\ CompleteQueued
      BY <3>1, SendEffects DEF RunSend
    <3> QED
      BY <1>7, <3>1 DEF RunShutdown, RunDangling, connVars, CompleteQueued
  <2>4. ~NoneIn(batch, next) => ~NoneIn(batch', next')
    BY <1>1, <2>1, <2>3, RunKeeps
  <2>5. ~NoneIn(pending, 1) => ~NoneIn(pending', 1)
    BY <1>1, <2>3, PushKeeps, OwnFunctors DEF RestType
  <2>6. ClosingIsQueued' /\ RemovedIsDown'
    BY <2>3, <2>4, <2>5 DEF LInv, ClosingIsQueued, RemovedIsDown
  <2>7. LoopOnly' /\ LoopUseIsSafe'
    BY <1>2, <2>2 DEF LoopOnly, LoopUseIsSafe
  <2> QED  BY <1>3, <2>6, <2>7 DEF LInv
<1> QED  BY <1>4, <1>5, <1>6, <1>7

LEMMA ResetLInv == ASSUME LInv, PeerResets PROVE LInv'
  BY DEF LInv, ClosingIsQueued, DispatchIsAdded, BatchIsForFunctors,
     RemovedIsDown, LoopOnly, LoopUseIsSafe, NoneIn, NoRaw, PeerResets, connVars,
     ownerVars, loopVars, histVars

LEMMA NextLInv == IInv /\ AInv /\ LInv /\ [Next]_vars => LInv'
<1> SUFFICES ASSUME IInv, AInv, LInv, [Next]_vars PROVE LInv'
  OBVIOUS
<1>1. CASE Next
  <2>1. fault = "none"
    BY <1>1 DEF Next
  <2>2. CASE LoopStep
    BY <2>1, <2>2, CloseLInv, WriteLInv, QuietLInv, FunctorLInv DEF LoopStep
  <2> QED  BY <1>1, <2>1, <2>2, ClientLInv, ThreadLInv, ResetLInv DEF Next
<1>2. CASE UNCHANGED vars
  BY <1>2 DEF LInv, ClosingIsQueued, DispatchIsAdded, BatchIsForFunctors,
     RemovedIsDown, LoopOnly, LoopUseIsSafe, NoneIn, NoRaw, vars, connVars,
     ownerVars, loopVars, netVars, histVars
<1> QED  BY <1>1, <1>2

\* Both parts of the invariant hold throughout.
LEMMA LifetimeInvariance == Spec => [](RestType /\ AInv /\ LInv)
<1>1. Init => AInv /\ LInv
  BY InitAInv, InitLInv
<1>2. IInv /\ AInv /\ [Next]_vars => AInv'
  BY NextAInv
<1>3. IInv /\ AInv /\ LInv /\ [Next]_vars => LInv'
  BY NextLInv
<1>4. IInv => RestType
  BY SplitIInv
<1> QED  BY <1>1, <1>2, <1>3, <1>4, Invariance, PTL DEF Spec

\* While the TcpClient exists, whichever thread drops the last shared_ptr,
\* connectDestroyed has taken the Channel out of Poller before, and the
\* connection is not destroyed inside its own handleEvent.
THEOREM NeverDestroyedEarly == Spec => []DestroyedAfterRemoval
<1>1. RestType /\ AInv /\ LInv => DestroyedAfterRemoval
  BY LInvImplies
<1> QED  BY <1>1, LifetimeInvariance, PTL

\* A client that stays in the loop thread and keeps its TcpClient never runs
\* a functor on a dead connection, never enables a removed channel and never
\* writes after its half-close, for any messages and any cuts by write(2).
THEOREM LoopUseNeverFails == Spec => []LoopUseIsSafe
<1>1. RestType /\ AInv /\ LInv => LoopUseIsSafe
  BY LInvImplies
<1> QED  BY <1>1, LifetimeInvariance, PTL

============================================================================
