--------------------------- MODULE TimerQueueProofs ---------------------------
(***************************************************************************)
(* The sets of TimerQueue agree, every Timer has one owner, a canceled     *)
(* timer stays canceled and the timerfd is armed, for any number of users, *)
(* timers and addresses, any order of their calls, and a sequence number   *)
(* that wraps around.                                                      *)
(***************************************************************************)
EXTENDS TimerQueue, SequenceTheorems, WellFoundedInduction, TLAPS

----------------------------------------------------------------------------
(* The inductive invariant.                                                *)

\* There is a batch only while handleRead works it off, and then
\* cancelInLoop knows.
BatchIsHandled ==
    /\ pc /= "idle" => callingExpiredTimers_ = TRUE
    /\ pc = "idle" => expired = {}

CreatingHasAddr == \A u \in Users : creating[u].busy => creating[u].addr \in Addrs

\* The Timers alive are different ones, and only Timers that were created
\* have been canceled.
Births ==
    /\ \A a \in live : birth[a] \in 1 .. numCreated
    /\ \A a, b \in live : birth[a] = birth[b] => a = b
    /\ canceled \subseteq 1 .. numCreated

\* A Timer that was canceled is neither scheduled nor about to be; in the
\* batch, cancelingTimers_ keeps reset from restarting it.
CanceledIsKnown ==
    /\ CanceledStaysCanceled
    /\ \A a \in Queued : birth[a] \notin canceled
    /\ \A a \in Batch : birth[a] \in canceled => ActiveTimer(a) \in cancelingTimers_

\* A timer set for the invalid time, which reset() passes over when it arms
\* the timerfd, was inserted with the timerfd armed for it, and since then
\* nothing disarmed it.
InvalidArmed ==
    \A e \in timers_ : ~valid(e[1]) => timerfd_ /= 0 /\ timerfd_ <= now + 1

IInv ==
    /\ TypeOK /\ BatchIsHandled /\ CreatingHasAddr
    /\ SetsAgree /\ Ownership
    /\ Births /\ CanceledIsKnown
    /\ TimerfdArmed /\ InvalidArmed

----------------------------------------------------------------------------
(* The earliest entry.                                                     *)

Less == {p \in Nat \X Nat : p[1] < p[2]}

LEMMA LeastNatural ==
    ASSUME NEW T, T \subseteq Nat, T /= {}
    PROVE  \E x \in T : \A y \in T : x <= y
<1>1. OpToRel(<, Nat) = Less
  BY Zenon DEF OpToRel, Less
<1>2. IsWellFoundedOn(Less, Nat)
  BY <1>1, NatLessThanWellFounded, Zenon
<1>3. PICK x \in T : \A y \in T : ~(<<y, x>> \in Less)
  BY <1>2, WFMin
<1>4. \A a, b \in Nat : a < b => <<a, b>> \in Less
  BY DEF Less
<1>5. \A y \in T : ~(y < x)
  BY <1>3, <1>4
<1>6. \A y \in T : x <= y
  BY <1>5
<1> QED
  BY <1>6

LEMMA EntryType ==
    ASSUME NEW e \in Entries
    PROVE  e = <<e[1], e[2]>> /\ e[1] \in Nat /\ e[2] \in Addrs
BY DEF Entries

\* First is well defined: the order of pair<Timestamp, Timer*> has a least
\* entry in every set that is not empty.
LEMMA FirstIsLeast ==
    ASSUME NEW S, S \subseteq Entries, S /= {}
    PROVE  First(S) \in S /\ \A f \in S : First(S)[1] <= f[1]
<1> DEFINE Times == {e[1] : e \in S}
<1>1. Times \subseteq Nat /\ Times /= {}
  BY EntryType
<1>2. PICK t \in Times : \A y \in Times : t <= y
  <2> HIDE DEF Times
  <2> QED
    BY <1>1, LeastNatural
<1> DEFINE Places == {e[2] : e \in {f \in S : f[1] = t}}
<1>3. Places \subseteq Nat /\ Places /= {}
  BY <1>2, EntryType, TimerQueueAssumption
<1>4. PICK a \in Places : \A y \in Places : a <= y
  <2> HIDE DEF Places
  <2> QED
    BY <1>3, LeastNatural
<1>5. PICK e \in S : e[1] = t /\ e[2] = a
  BY <1>4
<1>6. ASSUME NEW f \in S PROVE f = e \/ Before(e, f)
  <2>1. t <= f[1] /\ (f[1] = t => a <= f[2])
    BY <1>2, <1>4
  <2>2. /\ e = <<t, a>> /\ f = <<f[1], f[2]>>
        /\ t \in Nat /\ f[1] \in Nat /\ a \in Nat /\ f[2] \in Nat
    BY <1>1, <1>3, <1>5, EntryType, TimerQueueAssumption
  <2> QED
    BY <1>5, <2>1, <2>2 DEF Before
<1>7. First(S) \in S /\ \A f \in S : f = First(S) \/ Before(First(S), f)
  BY <1>6 DEF First
<1>8. ASSUME NEW f \in S PROVE First(S)[1] <= f[1]
  <2>1. First(S)[1] \in Nat /\ f[1] \in Nat
    BY <1>7, EntryType
  <2> QED
    BY <1>7, <2>1 DEF Before
<1> QED
  BY <1>7, <1>8

----------------------------------------------------------------------------
(* The queue of functors.                                                  *)

QueuedIn(q) == {q[i].addr : i \in {j \in 1 .. Len(q) : q[j].op = "add"}}
AddsOnce(q) ==
    \A i, j \in 1 .. Len(q) :
        q[i].op = "add" /\ q[j].op = "add" /\ q[i].addr = q[j].addr => i = j

LEMMA FunctorTypes ==
    /\ \A a \in Addrs : /\ Add(a) \in FunctorSet
                        /\ Add(a).op = "add" /\ Add(a).addr = a
    /\ \A id \in TimerIds : /\ Cancel(id) \in FunctorSet
                            /\ Cancel(id).op = "cancel"
BY TimerQueueAssumption DEF Add, Cancel, FunctorSet, Seqs, TimerIds

LEMMA PushAdd ==
    ASSUME NEW q \in Seq(FunctorSet), NEW a \in Addrs
    PROVE  /\ QueuedIn(Append(q, Add(a))) = QueuedIn(q) \cup {a}
           /\ AddsOnce(q) /\ a \notin QueuedIn(q) => AddsOnce(Append(q, Add(a)))
<1> DEFINE p == Append(q, Add(a))
<1>1. Add(a) \in FunctorSet /\ Add(a).op = "add" /\ Add(a).addr = a
  BY FunctorTypes
<1>2. /\ Len(p) = Len(q) + 1 /\ Len(q) \in Nat /\ p[Len(q) + 1] = Add(a)
      /\ \A i \in 1 .. Len(q) : p[i] = q[i]
  BY <1>1
<1> HIDE DEF p
<1>3. QueuedIn(p) \subseteq QueuedIn(q) \cup {a}
  <2> SUFFICES ASSUME NEW i \in 1 .. Len(p), p[i].op = "add"
               PROVE  p[i].addr \in QueuedIn(q) \cup {a}
    BY DEF QueuedIn
  <2>1. CASE i = Len(q) + 1
    BY <1>1, <1>2, <2>1
  <2>2. CASE i /= Len(q) + 1
    <3>1. i \in 1 .. Len(q) /\ p[i] = q[i]
      BY <1>2, <2>2
    <3> QED
      BY <3>1 DEF QueuedIn
  <2> QED
    BY <2>1, <2>2
<1>4. QueuedIn(q) \subseteq QueuedIn(p)
  <2> SUFFICES ASSUME NEW i \in 1 .. Len(q), q[i].op = "add"
               PROVE  q[i].addr \in QueuedIn(p)
    BY DEF QueuedIn
  <2>1. i \in 1 .. Len(p) /\ p[i] = q[i]
    BY <1>2
  <2> QED
    BY <2>1 DEF QueuedIn
<1>5. a \in QueuedIn(p)
  <2>1. Len(q) + 1 \in 1 .. Len(p) /\ p[Len(q) + 1].op = "add"
        /\ p[Len(q) + 1].addr = a
    BY <1>1, <1>2
  <2> QED
    BY <2>1 DEF QueuedIn
<1>6. ASSUME AddsOnce(q), a \notin QueuedIn(q) PROVE AddsOnce(p)
  <2>1. \A i \in 1 .. Len(q) : q[i].op = "add" => q[i].addr /= a
    BY <1>6 DEF QueuedIn
  <2>2. \A i \in 1 .. Len(p) : i = Len(q) + 1 \/ i \in 1 .. Len(q)
    BY <1>2
  <2> QED
    BY <1>1, <1>2, <1>6, <2>1, <2>2 DEF AddsOnce
<1> QED
  BY <1>3, <1>4, <1>5, <1>6 DEF p

LEMMA PushOther ==
    ASSUME NEW q \in Seq(FunctorSet), NEW f \in FunctorSet, f.op /= "add"
    PROVE  /\ QueuedIn(Append(q, f)) = QueuedIn(q)
           /\ AddsOnce(q) => AddsOnce(Append(q, f))
<1> DEFINE p == Append(q, f)
<1>1. /\ Len(p) = Len(q) + 1 /\ Len(q) \in Nat /\ p[Len(q) + 1] = f
      /\ \A i \in 1 .. Len(q) : p[i] = q[i]
  OBVIOUS
<1> HIDE DEF p
<1>2. \A i \in 1 .. Len(p) : p[i].op = "add" => i \in 1 .. Len(q) /\ p[i] = q[i]
  BY <1>1
<1>3. \A i \in 1 .. Len(q) : i \in 1 .. Len(p) /\ p[i] = q[i]
  BY <1>1
<1>4. QueuedIn(p) = QueuedIn(q)
  BY <1>2, <1>3 DEF QueuedIn
<1>5. AddsOnce(q) => AddsOnce(p)
  BY <1>2 DEF AddsOnce
<1> QED
  BY <1>4, <1>5 DEF p

LEMMA PopFacts ==
    ASSUME NEW q \in Seq(FunctorSet), q /= <<>>
    PROVE  /\ Head(q) \in FunctorSet /\ Tail(q) \in Seq(FunctorSet)
           /\ Head(q) = q[1] /\ Len(Tail(q)) = Len(q) - 1
           /\ Len(q) \in Nat /\ Len(q) >= 1
           /\ \A i \in 1 .. Len(q) - 1 : Tail(q)[i] = q[i + 1]
OBVIOUS

LEMMA PopAdd ==
    ASSUME NEW q \in Seq(FunctorSet), q /= <<>>, Head(q).op = "add",
           AddsOnce(q)
    PROVE  /\ Head(q).addr \in QueuedIn(q)
           /\ QueuedIn(Tail(q)) = QueuedIn(q) \ {Head(q).addr}
           /\ AddsOnce(Tail(q))
<1> DEFINE p == Tail(q)
           h == Head(q)
<1>1. /\ h = q[1] /\ Len(p) = Len(q) - 1 /\ Len(q) \in Nat /\ Len(q) >= 1
      /\ \A i \in 1 .. Len(q) - 1 : p[i] = q[i + 1]
  BY PopFacts
<1>2. h.op = "add"
  OBVIOUS
<1> HIDE DEF p, h
<1>3. \A i \in 1 .. Len(p) : i + 1 \in 1 .. Len(q) /\ i + 1 /= 1 /\ p[i] = q[i + 1]
  BY <1>1
<1>4. \A i \in 1 .. Len(q) : i /= 1 => i - 1 \in 1 .. Len(p) /\ p[i - 1] = q[i]
  BY <1>1
<1>5. 1 \in 1 .. Len(q) /\ q[1].op = "add" /\ q[1].addr = h.addr
  BY <1>1, <1>2
<1>6. h.addr \in QueuedIn(q)
  BY <1>5 DEF QueuedIn
<1>7. \A i \in 1 .. Len(q) : q[i].op = "add" /\ q[i].addr = h.addr => i = 1
  BY <1>5 DEF AddsOnce
<1>8. QueuedIn(p) \subseteq QueuedIn(q) \ {h.addr}
  BY <1>3, <1>7 DEF QueuedIn
<1>9. QueuedIn(q) \ {h.addr} \subseteq QueuedIn(p)
  <2> SUFFICES ASSUME NEW i \in 1 .. Len(q), q[i].op = "add", q[i].addr /= h.addr
               PROVE  q[i].addr \in QueuedIn(p)
    BY DEF QueuedIn
  <2>1. i - 1 \in 1 .. Len(p) /\ p[i - 1] = q[i]
    BY <1>4, <1>5
  <2> QED
    BY <2>1 DEF QueuedIn
<1>10. AddsOnce(p)
  <2> SUFFICES ASSUME NEW i \in 1 .. Len(p), NEW j \in 1 .. Len(p),
                      p[i].op = "add", p[j].op = "add", p[i].addr = p[j].addr
               PROVE  i = j
    BY DEF AddsOnce
  <2>1. i + 1 = j + 1
    BY <1>3 DEF AddsOnce
  <2> QED
    BY <2>1
<1> QED
  BY <1>6, <1>8, <1>9, <1>10 DEF p, h

LEMMA PopOther ==
    ASSUME NEW q \in Seq(FunctorSet), q /= <<>>, Head(q).op /= "add"
    PROVE  /\ QueuedIn(Tail(q)) = QueuedIn(q)
           /\ AddsOnce(q) => AddsOnce(Tail(q))
<1> DEFINE p == Tail(q)
<1>1. /\ Head(q) = q[1] /\ Len(p) = Len(q) - 1 /\ Len(q) \in Nat /\ Len(q) >= 1
      /\ \A i \in 1 .. Len(q) - 1 : p[i] = q[i + 1]
  BY PopFacts
<1>2. q[1].op /= "add"
  BY <1>1
<1> HIDE DEF p
<1>3. \A i \in 1 .. Len(p) : i + 1 \in 1 .. Len(q) /\ p[i] = q[i + 1]
  BY <1>1
<1>4. \A i \in 1 .. Len(q) :
          q[i].op = "add" => i - 1 \in 1 .. Len(p) /\ p[i - 1] = q[i]
  BY <1>1, <1>2
<1>5. QueuedIn(p) \subseteq QueuedIn(q)
  BY <1>3 DEF QueuedIn
<1>6. QueuedIn(q) \subseteq QueuedIn(p)
  <2> SUFFICES ASSUME NEW i \in 1 .. Len(q), q[i].op = "add"
               PROVE  q[i].addr \in QueuedIn(p)
    BY DEF QueuedIn
  <2>1. i - 1 \in 1 .. Len(p) /\ p[i - 1] = q[i]
    BY <1>4
  <2> QED
    BY <2>1 DEF QueuedIn
<1>7. ASSUME AddsOnce(q) PROVE AddsOnce(p)
  <2> SUFFICES ASSUME NEW i \in 1 .. Len(p), NEW j \in 1 .. Len(p),
                      p[i].op = "add", p[j].op = "add", p[i].addr = p[j].addr
               PROVE  i = j
    BY DEF AddsOnce
  <2>1. i + 1 = j + 1
    BY <1>3, <1>7 DEF AddsOnce
  <2> QED
    BY <2>1
<1> QED
  BY <1>5, <1>6, <1>7 DEF p

----------------------------------------------------------------------------
(* Types.                                                                  *)

Shape == TypeOK /\ BatchIsHandled /\ CreatingHasAddr

LEMMA NextSeqType ==
    ASSUME TypeOK PROVE NextSeq \in Seqs
<1>1. numCreated + 1 \in Nat /\ SeqModulus \in Nat /\ SeqModulus > 0
  BY TimerQueueAssumption DEF TypeOK
<1>2. (numCreated + 1) % SeqModulus \in 0 .. SeqModulus - 1
  BY <1>1
<1> QED
  BY <1>2 DEF NextSeq, Seqs

LEMMA TimestampType ==
    ASSUME TypeOK, NEW when \in Timestamps PROVE when \in Nat
BY TimerQueueAssumption DEF TypeOK, Timestamps, Larger

LEMMA RearmType ==
    ASSUME now \in Nat, NEW when \in Nat, resetTimerfd(when)
    PROVE  /\ timerfd_' \in Nat /\ timerfd_' /= 0
           /\ timerfd_' <= Larger(when, now + 1)
BY TimerQueueAssumption DEF resetTimerfd, Smaller, Larger

LEMMA NewTimerType ==
    ASSUME TypeOK, NEW a \in Addrs, NEW when \in Nat, NEW i \in Intervals,
           NewTimer(a, when, i)
    PROVE  /\ live' \subseteq Addrs
           /\ expiration_' \in [Addrs -> Nat] /\ interval_' \in [Addrs -> Nat]
           /\ sequence_' \in [Addrs -> Seqs] /\ birth' \in [Addrs -> Nat]
           /\ numCreated' \in Nat
<1>1. NextSeq \in Seqs /\ i \in Nat
  BY NextSeqType, TimerQueueAssumption
<1> QED
  BY <1>1 DEF TypeOK, NewTimer

LEMMA AddInLoopType ==
    ASSUME TypeOK, NEW a \in Addrs, NEW when \in Nat, NEW s \in Seqs,
           addTimerInLoop(a, when, s)
    PROVE  /\ timers_' \subseteq Entries /\ activeTimers_' \subseteq ActiveTimers
           /\ timerfd_' \in Nat
<1>1. <<when, a>> \in Entries /\ <<a, s>> \in ActiveTimers
  BY DEF Entries, ActiveTimers
<1>2. timerfd_' \in Nat
  BY RearmType DEF TypeOK, addTimerInLoop
<1> QED
  BY <1>1, <1>2 DEF TypeOK, addTimerInLoop, insert

LEMMA CancelType ==
    ASSUME TypeOK, NEW a \in Addrs, NEW s \in Seqs, cancelInLoop(a, s)
    PROVE  /\ timers_' \subseteq Entries /\ activeTimers_' \subseteq ActiveTimers
           /\ cancelingTimers_' \subseteq ActiveTimers
           /\ live' \subseteq Addrs /\ canceled' \subseteq Nat
<1>1. <<a, s>> \in ActiveTimers /\ birth[a] \in Nat
  BY DEF ActiveTimers, TypeOK
<1> QED
  BY <1>1 DEF TypeOK, cancelInLoop

LEMMA NextShape ==
    ASSUME Shape, [Next]_vars
    PROVE  Shape'
<1> USE DEF Shape
<1>1. CASE Tick
  BY <1>1
  DEF Tick, TypeOK, BatchIsHandled, CreatingHasAddr, timerVars, setVars, readVars,
      userVars
<1>2. ASSUME NEW u \in Users, addTimer(u) PROVE Shape'
  <2>1. PICK a \in Addrs, when \in Timestamps, i \in Intervals :
            /\ NewTimer(a, when, i)
            /\ pending' = Append(pending, Add(a))
            /\ creating' = [creating EXCEPT ![u] = [busy |-> TRUE, addr |-> a]]
    BY <1>2 DEF addTimer
  <2>2. when \in Nat
    BY TimestampType
  <2>3. /\ live' \subseteq Addrs
        /\ expiration_' \in [Addrs -> Nat] /\ interval_' \in [Addrs -> Nat]
        /\ sequence_' \in [Addrs -> Seqs] /\ birth' \in [Addrs -> Nat]
        /\ numCreated' \in Nat
    BY <2>1, <2>2, NewTimerType
  <2>4. pending' \in Seq(FunctorSet)
    BY <2>1, FunctorTypes DEF TypeOK
  <2>5. creating' \in [Users -> [busy : BOOLEAN, addr : Addrs \cup {0}]]
        /\ CreatingHasAddr'
    BY <2>1 DEF TypeOK, CreatingHasAddr
  <2>6. TypeOK'
    BY <1>2, <2>3, <2>4, <2>5 DEF addTimer, TypeOK, setVars, readVars
  <2> QED
    BY <1>2, <2>5, <2>6 DEF addTimer, BatchIsHandled, setVars, readVars
<1>3. ASSUME NEW u \in Users, addTimerReturn(u) PROVE Shape'
  <2>1. PICK s \in Seqs : issued' = issued \cup {[addr |-> creating[u].addr, seq |-> s]}
    BY <1>3 DEF addTimerReturn
  <2>2. issued' \subseteq TimerIds
    BY <1>3, <2>1 DEF addTimerReturn, CreatingHasAddr, TypeOK, TimerIds
  <2>3. creating' \in [Users -> [busy : BOOLEAN, addr : Addrs \cup {0}]]
        /\ CreatingHasAddr'
    BY <1>3 DEF addTimerReturn, NotCreating, TypeOK, CreatingHasAddr
  <2>4. TypeOK'
    BY <1>3, <2>2, <2>3 DEF addTimerReturn, TypeOK, timerVars, setVars, readVars
  <2> QED
    BY <1>3, <2>3, <2>4 DEF addTimerReturn, BatchIsHandled, setVars, readVars
<1>4. ASSUME NEW u \in Users, cancel(u) PROVE Shape'
  <2>1. pending' \in Seq(FunctorSet)
    BY <1>4, FunctorTypes DEF cancel, TypeOK
  <2>2. TypeOK'
    BY <1>4, <2>1 DEF cancel, TypeOK, timerVars, setVars, readVars
  <2> QED
    BY <1>4, <2>2 DEF cancel, BatchIsHandled, CreatingHasAddr, setVars, readVars
<1>5. CASE RunAddFunctor
  <2> DEFINE a == Head(pending).addr
  <2>1. a \in Addrs /\ pending' \in Seq(FunctorSet)
    BY <1>5, PopFacts DEF RunAddFunctor, TypeOK, FunctorSet
  <2>2. expiration_[a] \in Nat /\ sequence_[a] \in Seqs
    BY <2>1 DEF TypeOK
  <2>3. addTimerInLoop(a, expiration_[a], sequence_[a])
    BY <1>5 DEF RunAddFunctor
  <2>4. /\ timers_' \subseteq Entries /\ activeTimers_' \subseteq ActiveTimers
        /\ timerfd_' \in Nat
    BY <2>1, <2>2, <2>3, AddInLoopType
  <2>5. TypeOK'
    BY <1>5, <2>1, <2>4 DEF RunAddFunctor, TypeOK, timerVars, readVars
  <2> QED
    BY <1>5, <2>5 DEF RunAddFunctor, BatchIsHandled, CreatingHasAddr, readVars
<1>6. CASE RunCancelFunctor
  <2>1. /\ Head(pending).addr \in Addrs /\ Head(pending).seq \in Seqs
        /\ pending' \in Seq(FunctorSet)
    BY <1>6, PopFacts DEF RunCancelFunctor, TypeOK, FunctorSet
  <2>2. /\ timers_' \subseteq Entries /\ activeTimers_' \subseteq ActiveTimers
        /\ cancelingTimers_' \subseteq ActiveTimers
        /\ live' \subseteq Addrs /\ canceled' \subseteq Nat
    BY <1>6, <2>1, CancelType DEF RunCancelFunctor
  <2>3. TypeOK'
    BY <1>6, <2>1, <2>2 DEF RunCancelFunctor, TypeOK, readVars
  <2> QED
    BY <1>6, <2>3 DEF RunCancelFunctor, BatchIsHandled, CreatingHasAddr, readVars
<1>7. CASE handleRead
  <2>1. Expired \subseteq Entries
    BY DEF Expired, TypeOK
  <2>2. callingExpiredTimers_' \in BOOLEAN
    BY <1>7, Zenon DEF handleRead
  <2>3. TypeOK'
    BY <1>7, <2>1, <2>2 DEF handleRead, TypeOK, timerVars, userVars
  <2> QED
    BY <1>7, <2>3 DEF handleRead, BatchIsHandled, CreatingHasAddr, userVars
<1>8. CASE RunTimer
  <2>1. TypeOK'
    BY <1>8 DEF RunTimer, TypeOK, timerVars, setVars, userVars
  <2> QED
    BY <1>8, <2>1
    DEF RunTimer, BatchIsHandled, CreatingHasAddr, setVars, userVars
<1>9. CASE LoopAddTimer
  <2>1. PICK a \in Addrs, when \in Timestamps, i \in Intervals :
            /\ NewTimer(a, when, i)
            /\ addTimerInLoop(a, when, NextSeq)
            /\ issued' = issued \cup {[addr |-> a, seq |-> NextSeq]}
    BY <1>9 DEF LoopAddTimer
  <2>2. when \in Nat /\ NextSeq \in Seqs
    BY TimestampType, NextSeqType
  <2>3. /\ live' \subseteq Addrs
        /\ expiration_' \in [Addrs -> Nat] /\ interval_' \in [Addrs -> Nat]
        /\ sequence_' \in [Addrs -> Seqs] /\ birth' \in [Addrs -> Nat]
        /\ numCreated' \in Nat
    BY <2>1, <2>2, NewTimerType
  <2>4. /\ timers_' \subseteq Entries /\ activeTimers_' \subseteq ActiveTimers
        /\ timerfd_' \in Nat
    BY <2>1, <2>2, AddInLoopType
  <2>5. issued' \subseteq TimerIds
    BY <2>1, <2>2 DEF TypeOK, TimerIds
  <2>6. TypeOK'
    BY <1>9, <2>3, <2>4, <2>5 DEF LoopAddTimer, TypeOK, readVars
  <2> QED
    BY <1>9, <2>6 DEF LoopAddTimer, BatchIsHandled, CreatingHasAddr, readVars
<1>10. CASE LoopCancel
  <2>1. PICK id \in issued : cancelInLoop(id.addr, id.seq)
    BY <1>10 DEF LoopCancel
  <2>2. id.addr \in Addrs /\ id.seq \in Seqs
    BY DEF TypeOK, TimerIds
  <2>3. /\ timers_' \subseteq Entries /\ activeTimers_' \subseteq ActiveTimers
        /\ cancelingTimers_' \subseteq ActiveTimers
        /\ live' \subseteq Addrs /\ canceled' \subseteq Nat
    BY <2>1, <2>2, CancelType
  <2>4. TypeOK'
    BY <1>10, <2>3 DEF LoopCancel, TypeOK, readVars, userVars
  <2> QED
    BY <1>10, <2>4
    DEF LoopCancel, BatchIsHandled, CreatingHasAddr, readVars, userVars
<1>11. CASE CallbackReturn
  <2>1. TypeOK'
    BY <1>11 DEF CallbackReturn, TypeOK, timerVars, setVars, userVars
  <2> QED
    BY <1>11, <2>1
    DEF CallbackReturn, BatchIsHandled, CreatingHasAddr, setVars, userVars
<1>12. CASE reset
  <2>1. Restarted \subseteq Addrs
    BY EntryType DEF Restarted, TypeOK
  <2>2. /\ timers_' \subseteq Entries /\ activeTimers_' \subseteq ActiveTimers
        /\ expiration_' \in [Addrs -> Nat]
    <3>1. \A a \in Restarted : /\ readTime + interval_[a] \in Nat
                               /\ sequence_[a] \in Seqs
      BY <2>1 DEF TypeOK
    <3>2. expiration_' \in [Addrs -> Nat]
      BY <1>12, <3>1 DEF reset, TypeOK
    <3>3. timers_' \subseteq Entries
      BY <1>12, <2>1, <3>1 DEF reset, TypeOK, Entries
    <3>4. activeTimers_' \subseteq ActiveTimers
      BY <1>12, <2>1, <3>1 DEF reset, TypeOK, ActiveTimers, ActiveTimer
    <3> QED
      BY <3>2, <3>3, <3>4
  <2>3. timerfd_' \in Nat
    <3>1. CASE timers_' = {}
      BY <1>12, <3>1 DEF reset, RearmAfter, TypeOK
    <3>2. CASE timers_' /= {}
      <4>1. First(timers_') \in Entries
        BY <2>2, <3>2, FirstIsLeast
      <4>2. First(timers_')[1] \in Nat
        BY <4>1, EntryType
      <4>3. resetTimerfd(First(timers_')[1]) \/ UNCHANGED timerfd_
        BY <1>12, <3>2 DEF reset, RearmAfter
      <4> QED
        BY <4>2, <4>3, RearmType DEF TypeOK
    <3> QED
      BY <3>1, <3>2
  <2>4. callingExpiredTimers_' \in BOOLEAN
    BY <1>12, Zenon DEF reset
  <2>5. TypeOK'
    BY <1>12, <2>2, <2>3, <2>4 DEF reset, TypeOK, userVars
  <2> QED
    BY <1>12, <2>5 DEF reset, BatchIsHandled, CreatingHasAddr, userVars
<1>13. CASE UNCHANGED vars
  <2>1. TypeOK'
    BY <1>13 DEF vars, TypeOK
  <2> QED
    BY <1>13, <2>1 DEF vars, BatchIsHandled, CreatingHasAddr
<1> QED
  BY <1>1, <1>2, <1>3, <1>4, <1>5, <1>6, <1>7, <1>8, <1>9, <1>10, <1>11,
     <1>12, <1>13
  DEF Next, LoopThread, ClientCode, User

----------------------------------------------------------------------------
(* timers_ and activeTimers_.                                              *)

LEMMA ActiveIsScheduled ==
    ASSUME TypeOK, SetsAgree, NEW t \in activeTimers_
    PROVE  /\ t = <<t[1], t[2]>> /\ t[1] \in Addrs
           /\ t[2] = sequence_[t[1]] /\ t[1] \in Scheduled
<1>1. t \in ActiveTimers
  BY DEF TypeOK
<1>2. t = <<t[1], t[2]>> /\ t[1] \in Addrs
  BY <1>1 DEF ActiveTimers
<1>3. t[2] = sequence_[t[1]] /\ <<expiration_[t[1]], t[1]>> \in timers_
  BY DEF SetsAgree
<1>4. <<expiration_[t[1]], t[1]>>[2] = t[1]
  OBVIOUS
<1>5. t[1] \in Scheduled
  BY <1>3, <1>4 DEF Scheduled
<1> QED
  BY <1>2, <1>3, <1>5

LEMMA ScheduledIsActive ==
    ASSUME TypeOK, SetsAgree, NEW a \in Scheduled
    PROVE  /\ a \in Addrs /\ <<expiration_[a], a>> \in timers_
           /\ ActiveTimer(a) \in activeTimers_
<1>1. PICK e \in timers_ : a = e[2]
  BY DEF Scheduled
<1>2. e = <<e[1], e[2]>> /\ e[2] \in Addrs
  BY EntryType DEF TypeOK
<1>3. ActiveTimer(e[2]) \in activeTimers_ /\ e[1] = expiration_[e[2]]
  BY DEF SetsAgree
<1> QED
  BY <1>1, <1>2, <1>3

\* Other Timers change.
LEMMA OthersAgree ==
    ASSUME TypeOK, SetsAgree, UNCHANGED <<timers_, activeTimers_>>,
           \A a \in Scheduled : /\ expiration_'[a] = expiration_[a]
                                /\ sequence_'[a] = sequence_[a]
    PROVE  SetsAgree' /\ Scheduled' = Scheduled
<1>1. \A e \in timers_ : e[2] \in Scheduled
  BY DEF Scheduled
<1>2. \A e \in timers_' : /\ ActiveTimer(e[2])' \in activeTimers_'
                          /\ e[1] = expiration_'[e[2]]
  BY <1>1 DEF SetsAgree, ActiveTimer
<1>3. \A t \in activeTimers_' : /\ t[2] = sequence_'[t[1]]
                                /\ <<expiration_'[t[1]], t[1]>> \in timers_'
  BY ActiveIsScheduled DEF SetsAgree
<1> QED
  BY <1>2, <1>3 DEF SetsAgree, Scheduled, ActiveTimer

\* insert, with the Timer's own fields.
LEMMA InsertAgrees ==
    ASSUME TypeOK, SetsAgree, NEW a \in Addrs, NEW when, NEW s,
           insert(a, when, s), a \notin Scheduled,
           expiration_'[a] = when, sequence_'[a] = s,
           \A b \in Scheduled : /\ expiration_'[b] = expiration_[b]
                                /\ sequence_'[b] = sequence_[b]
    PROVE  SetsAgree' /\ Scheduled' = Scheduled \cup {a}
<1>1. /\ timers_' = timers_ \cup {<<when, a>>}
      /\ activeTimers_' = activeTimers_ \cup {<<a, s>>}
  BY DEF insert
<1>2. \A e \in timers_ : e[2] \in Scheduled
  BY DEF Scheduled
<1>3. ASSUME NEW e \in timers_'
      PROVE  <<e[2], sequence_'[e[2]]>> \in activeTimers_' /\ e[1] = expiration_'[e[2]]
  <2>1. CASE e = <<when, a>>
    BY <1>1, <2>1
  <2>2. CASE e \in timers_
    BY <1>1, <1>2, <2>2 DEF SetsAgree, ActiveTimer
  <2> QED
    BY <1>1, <2>1, <2>2
<1>4. ASSUME NEW t \in activeTimers_'
      PROVE  /\ t[2] = sequence_'[t[1]]
             /\ <<expiration_'[t[1]], t[1]>> \in timers_'
  <2>1. CASE t = <<a, s>>
    BY <1>1, <2>1
  <2>2. CASE t \in activeTimers_
    <3>1. t[1] \in Scheduled
      BY <2>2, ActiveIsScheduled
    <3> QED
      BY <1>1, <2>2, <3>1 DEF SetsAgree
  <2> QED
    BY <1>1, <2>1, <2>2
<1>5. Scheduled' = Scheduled \cup {a}
  <2>1. Scheduled' = {e[2] : e \in timers_'}
    BY DEF Scheduled
  <2>2. <<when, a>> \in timers_' /\ <<when, a>>[2] = a
    BY <1>1
  <2>3. a \in Scheduled'
    BY <2>1, <2>2
  <2>4. \A e \in timers_' : e \in timers_ \/ e[2] = a
    BY <1>1
  <2> QED
    BY <1>1, <2>1, <2>3, <2>4 DEF Scheduled
<1> QED
  BY <1>3, <1>4, <1>5 DEF SetsAgree, ActiveTimer

\* The Timers at some addresses leave both sets.
LEMMA LeaveAgrees ==
    ASSUME TypeOK, SetsAgree, NEW A, UNCHANGED <<expiration_, sequence_>>,
           timers_' = {e \in timers_ : e[2] \notin A},
           activeTimers_' = {t \in activeTimers_ : t[1] \notin A}
    PROVE  SetsAgree' /\ Scheduled' = Scheduled \ A
<1>1. ASSUME NEW e \in timers_'
      PROVE  <<e[2], sequence_[e[2]]>> \in activeTimers_' /\ e[1] = expiration_[e[2]]
  BY DEF SetsAgree, ActiveTimer
<1>2. ASSUME NEW t \in activeTimers_'
      PROVE  t[2] = sequence_[t[1]] /\ <<expiration_[t[1]], t[1]>> \in timers_'
  BY DEF SetsAgree
<1>3. Scheduled' = Scheduled \ A
  BY DEF Scheduled
<1> QED
  BY <1>1, <1>2, <1>3 DEF SetsAgree, ActiveTimer

\* cancelInLoop takes the Timer out of both sets, or out of neither.
LEMMA CancelAgrees ==
    ASSUME TypeOK, SetsAgree, NEW a \in Addrs, NEW s \in Seqs,
           cancelInLoop(a, s), UNCHANGED <<expiration_, sequence_>>
    PROVE  /\ SetsAgree'
           /\ IsActive(a, s) => /\ a \in Scheduled /\ s = sequence_[a]
                                /\ Scheduled' = Scheduled \ {a}
                                /\ live' = live \ {a}
           /\ ~IsActive(a, s) => Scheduled' = Scheduled /\ live' = live
<1>1. CASE IsActive(a, s)
  <2>1. a \in Scheduled /\ s = sequence_[a]
    BY <1>1, ActiveIsScheduled DEF IsActive
  <2>2. timers_' = {e \in timers_ : e[2] \notin {a}}
    <3>1. timers_' = timers_ \ {<<expiration_[a], a>>}
      BY <1>1 DEF cancelInLoop
    <3>2. \A e \in timers_ : e[2] = a <=> e = <<expiration_[a], a>>
      BY EntryType DEF TypeOK, SetsAgree
    <3> QED
      BY <3>1, <3>2
  <2>3. activeTimers_' = {t \in activeTimers_ : t[1] \notin {a}}
    <3>1. activeTimers_' = activeTimers_ \ {<<a, s>>}
      BY <1>1 DEF cancelInLoop
    <3>2. \A t \in activeTimers_ : t[1] = a <=> t = <<a, s>>
      BY <2>1, ActiveIsScheduled
    <3> QED
      BY <3>1, <3>2
  <2>4. SetsAgree' /\ Scheduled' = Scheduled \ {a}
    BY <2>2, <2>3, LeaveAgrees
  <2> QED
    BY <1>1, <2>1, <2>4 DEF cancelInLoop
<1>2. CASE ~IsActive(a, s)
  <2>1. UNCHANGED <<timers_, activeTimers_, live>>
    BY <1>2 DEF cancelInLoop
  <2> QED
    BY <1>2, <2>1, OthersAgree
<1> QED
  BY <1>1, <1>2

\* getExpired.
LEMMA ExpiredAgrees ==
    ASSUME TypeOK, SetsAgree, handleRead
    PROVE  /\ SetsAgree'
           /\ Batch' \subseteq Scheduled
           /\ Scheduled' = Scheduled \ Batch'
<1> DEFINE A == {e[2] : e \in Expired}
<1>1. Batch' = A /\ A \subseteq Scheduled
  BY DEF handleRead, Batch, Expired, Scheduled
<1>2. timers_' = {e \in timers_ : e[2] \notin A}
  <2>1. \A e \in timers_ : e[2] \in A => e \in Expired
    <3> SUFFICES ASSUME NEW e \in timers_, NEW f \in Expired, e[2] = f[2]
                 PROVE  e \in Expired
      OBVIOUS
    <3>1. f \in timers_
      BY DEF Expired
    <3>2. e[1] = f[1] /\ e = <<e[1], e[2]>> /\ f = <<f[1], f[2]>>
      BY <3>1, EntryType DEF TypeOK, SetsAgree
    <3> QED
      BY <3>2
  <2> QED
    BY <2>1 DEF handleRead
<1>3. activeTimers_' = {t \in activeTimers_ : t[1] \notin A}
  <2>1. \A t \in activeTimers_ :
            t[1] \in A <=> t \in {ActiveTimer(e[2]) : e \in Expired}
    BY ActiveIsScheduled DEF ActiveTimer
  <2> QED
    BY <2>1 DEF handleRead
<1>4. UNCHANGED <<expiration_, sequence_>>
  BY DEF handleRead, timerVars
<1> HIDE DEF A
<1>5. SetsAgree' /\ Scheduled' = Scheduled \ A
  BY <1>2, <1>3, <1>4, LeaveAgrees
<1> QED
  BY <1>1, <1>5

\* reset.
LEMMA ResetAgrees ==
    ASSUME TypeOK, SetsAgree, reset, Scheduled \cap Batch = {}
    PROVE  /\ SetsAgree'
           /\ Restarted \subseteq Batch
           /\ Scheduled' = Scheduled \cup Restarted
<1>1. Restarted \subseteq Batch /\ Restarted \subseteq Addrs
  BY EntryType DEF Restarted, Batch, TypeOK
<1>2. /\ timers_' = timers_ \cup {<<readTime + interval_[a], a>> : a \in Restarted}
      /\ activeTimers_' = activeTimers_ \cup {<<a, sequence_[a]>> : a \in Restarted}
      /\ sequence_' = sequence_
      /\ \A a \in Addrs : expiration_'[a] = IF a \in Restarted
                             THEN readTime + interval_[a] ELSE expiration_[a]
  BY DEF reset, ActiveTimer
<1>3. \A e \in timers_ : e[2] \in Addrs /\ e[2] \notin Restarted
  BY <1>1, EntryType DEF Scheduled, TypeOK
<1>4. ASSUME NEW e \in timers_'
      PROVE  <<e[2], sequence_'[e[2]]>> \in activeTimers_' /\ e[1] = expiration_'[e[2]]
  <2>1. CASE e \in timers_
    BY <1>2, <1>3, <2>1 DEF SetsAgree, ActiveTimer
  <2>2. ASSUME NEW a \in Restarted, e = <<readTime + interval_[a], a>>
        PROVE  /\ <<e[2], sequence_'[e[2]]>> \in activeTimers_'
               /\ e[1] = expiration_'[e[2]]
    BY <1>1, <1>2, <2>2
  <2> QED
    BY <1>2, <2>1, <2>2
<1>5. ASSUME NEW t \in activeTimers_'
      PROVE  t[2] = sequence_'[t[1]] /\ <<expiration_'[t[1]], t[1]>> \in timers_'
  <2>1. CASE t \in activeTimers_
    <3>1. t[1] \in Scheduled /\ t[1] \in Addrs /\ t[1] \notin Restarted
      BY <1>1, <2>1, ActiveIsScheduled
    <3> QED
      BY <1>2, <2>1, <3>1 DEF SetsAgree
  <2>2. ASSUME NEW a \in Restarted, t = <<a, sequence_[a]>>
        PROVE  t[2] = sequence_'[t[1]] /\ <<expiration_'[t[1]], t[1]>> \in timers_'
    BY <1>1, <1>2, <2>2
  <2> QED
    BY <1>2, <2>1, <2>2
<1>6. Scheduled' = Scheduled \cup Restarted
  <2>1. Scheduled' = {e[2] : e \in timers_'}
    BY DEF Scheduled
  <2>2. ASSUME NEW a \in Restarted PROVE a \in Scheduled'
    <3>1. /\ <<readTime + interval_[a], a>> \in timers_'
          /\ <<readTime + interval_[a], a>>[2] = a
      BY <1>2
    <3> QED
      BY <2>1, <3>1
  <2>3. \A e \in timers_' : e \in timers_ \/ e[2] \in Restarted
    BY <1>2
  <2> QED
    BY <1>2, <2>1, <2>2, <2>3 DEF Scheduled
<1> QED
  BY <1>1, <1>4, <1>5, <1>6 DEF SetsAgree, ActiveTimer

----------------------------------------------------------------------------
(* Who owns a Timer, and which ones were canceled.                         *)

Owned ==
    /\ live = Scheduled \cup Batch \cup Queued
    /\ Scheduled \cap Batch = {}
    /\ Scheduled \cap Queued = {}
    /\ Batch \cap Queued = {}

Held == SetsAgree /\ Ownership /\ Births /\ CanceledIsKnown

LEMMA OwnershipSplit ==
    Ownership <=> Owned /\ AddsOnce(pending)
BY DEF Ownership, Owned, AddsOnce

LEMMA OwnershipNext ==
    ASSUME Owned', AddsOnce(pending')
    PROVE  Ownership'
BY DEF Ownership, Owned, AddsOnce

LEMMA QueuedIs == Queued = QueuedIn(pending)
BY DEF Queued, QueuedIn

LEMMA QueuedNext == Queued' = QueuedIn(pending')
BY DEF Queued, QueuedIn

\* Nothing of this part of the state changes.
LEMMA HeldStill ==
    ASSUME Held,
           UNCHANGED <<timerVars, timers_, activeTimers_, cancelingTimers_,
                       expired, pending, numCreated, canceled>>
    PROVE  Held'
<1>1. Scheduled' = Scheduled /\ Batch' = Batch /\ Queued' = Queued
  BY DEF Scheduled, Batch, Queued
<1>2. SetsAgree'
  BY DEF Held, SetsAgree, ActiveTimer, timerVars
<1>3. Ownership'
  <2>1. Owned' /\ AddsOnce(pending')
    BY <1>1, OwnershipSplit DEF Held, Owned, timerVars
  <2> QED
    BY <2>1, OwnershipNext
<1>4. Births'
  BY DEF Held, Births, timerVars
<1>5. CanceledIsKnown'
  BY <1>1 DEF Held, CanceledIsKnown, CanceledStaysCanceled, ActiveTimer, timerVars
<1> QED
  BY <1>2, <1>3, <1>4, <1>5 DEF Held

\* A new Timer is none of those that are known.
LEMMA NewTimerFacts ==
    ASSUME TypeOK, Held, NEW a \in Addrs, NEW when, NEW i,
           NewTimer(a, when, i), UNCHANGED canceled
    PROVE  /\ a \notin Scheduled /\ a \notin Batch /\ a \notin Queued
           /\ live' = live \cup {a}
           /\ expiration_'[a] = when /\ sequence_'[a] = NextSeq
           /\ birth'[a] \notin canceled
           /\ \A b \in live : /\ expiration_'[b] = expiration_[b]
                              /\ sequence_'[b] = sequence_[b]
                              /\ birth'[b] = birth[b]
           /\ Births'
<1>1. /\ a \notin live /\ live' = live \cup {a} /\ live \subseteq Addrs
      /\ numCreated \in Nat /\ numCreated' = numCreated + 1
  BY DEF NewTimer, TypeOK
<1>2. \A b \in Addrs :
          /\ expiration_'[b] = IF b = a THEN when ELSE expiration_[b]
          /\ sequence_'[b] = IF b = a THEN NextSeq ELSE sequence_[b]
          /\ birth'[b] = IF b = a THEN numCreated + 1 ELSE birth[b]
  BY DEF NewTimer, TypeOK
<1>3. numCreated + 1 \notin canceled
  BY <1>1 DEF Held, Births
<1>4. Births'
  <2>1. ASSUME NEW b \in live' PROVE birth'[b] \in 1 .. numCreated'
    BY <1>1, <1>2 DEF Held, Births
  <2>2. ASSUME NEW b \in live', NEW c \in live', birth'[b] = birth'[c]
        PROVE  b = c
    <3>1. \A d \in live : birth[d] /= numCreated + 1
      BY <1>1 DEF Held, Births
    <3> QED
      BY <1>1, <1>2, <2>2, <3>1 DEF Held, Births
  <2>3. canceled' \subseteq 1 .. numCreated'
    BY <1>1 DEF Held, Births
  <2> QED
    BY <2>1, <2>2, <2>3 DEF Births
<1>5. a \notin Scheduled /\ a \notin Batch /\ a \notin Queued
  BY <1>1 DEF Held, Ownership
<1> QED
  BY <1>1, <1>2, <1>3, <1>4, <1>5

LEMMA AddTimerHeld ==
    ASSUME TypeOK, Held, NEW u \in Users, addTimer(u)
    PROVE  Held'
<1>1. PICK a \in Addrs, when \in Timestamps, i \in Intervals :
          /\ NewTimer(a, when, i)
          /\ pending' = Append(pending, Add(a))
  BY DEF addTimer
<1>2. UNCHANGED <<timers_, activeTimers_, cancelingTimers_, expired, canceled>>
  BY DEF addTimer, setVars, readVars
<1>3. /\ a \notin Scheduled /\ a \notin Batch /\ a \notin Queued
      /\ live' = live \cup {a} /\ birth'[a] \notin canceled
      /\ \A b \in live : /\ expiration_'[b] = expiration_[b]
                         /\ sequence_'[b] = sequence_[b]
                         /\ birth'[b] = birth[b]
      /\ Births'
  BY <1>1, <1>2, NewTimerFacts
<1>4. Owned /\ AddsOnce(pending)
  BY OwnershipSplit DEF Held
<1>5. SetsAgree' /\ Scheduled' = Scheduled
  BY <1>2, <1>3, <1>4, OthersAgree DEF Held, Owned
<1>6. Queued' = Queued \cup {a} /\ AddsOnce(pending')
  BY <1>1, <1>3, <1>4, PushAdd, QueuedIs, QueuedNext DEF TypeOK
<1>7. Batch' = Batch
  BY <1>2 DEF Batch
<1>8. Ownership'
  <2>1. Owned'
    BY <1>3, <1>4, <1>5, <1>6, <1>7 DEF Owned
  <2> QED
    BY <1>6, <2>1, OwnershipNext
<1>9. CanceledIsKnown'
  <2>1. \A b \in Scheduled \cup Batch \cup Queued :
            birth'[b] = birth[b] /\ sequence_'[b] = sequence_[b]
    BY <1>3, <1>4 DEF Owned
  <2>2. \A b \in Scheduled' : birth'[b] \notin canceled'
    BY <1>2, <1>5, <2>1 DEF Held, CanceledIsKnown, CanceledStaysCanceled
  <2>3. \A b \in Queued' : birth'[b] \notin canceled'
    BY <1>2, <1>3, <1>6, <2>1 DEF Held, CanceledIsKnown
  <2>4. \A b \in Batch' : birth'[b] \in canceled'
            => <<b, sequence_'[b]>> \in cancelingTimers_'
    BY <1>2, <1>7, <2>1 DEF Held, CanceledIsKnown, ActiveTimer
  <2> QED
    BY <2>2, <2>3, <2>4 DEF CanceledIsKnown, CanceledStaysCanceled, ActiveTimer
<1> QED
  BY <1>3, <1>5, <1>8, <1>9 DEF Held

LEMMA UserCancelHeld ==
    ASSUME TypeOK, Held, NEW u \in Users, cancel(u)
    PROVE  Held'
<1>1. PICK id \in issued : pending' = Append(pending, Cancel(id))
  BY DEF cancel
<1>2. UNCHANGED <<timerVars, timers_, activeTimers_, cancelingTimers_, expired,
                  numCreated, canceled>>
  BY DEF cancel, setVars, readVars
<1>3. Cancel(id) \in FunctorSet /\ Cancel(id).op /= "add"
  BY FunctorTypes DEF TypeOK
<1>4. Queued' = Queued /\ AddsOnce(pending')
  BY <1>1, <1>3, PushOther, QueuedIs, QueuedNext, OwnershipSplit DEF TypeOK, Held
<1>5. Owned'
  BY <1>2, <1>4, OwnershipSplit DEF Held, Owned, Scheduled, Batch, timerVars
<1>6. Ownership'
  BY <1>4, <1>5, OwnershipNext
<1>7. SetsAgree' /\ Births'
  BY <1>2 DEF Held, SetsAgree, Births, ActiveTimer, timerVars
<1>8. CanceledIsKnown'
  BY <1>2, <1>4 DEF Held, CanceledIsKnown, CanceledStaysCanceled, Scheduled,
                    Batch, ActiveTimer, timerVars
<1> QED
  BY <1>6, <1>7, <1>8 DEF Held

LEMMA RunAddHeld ==
    ASSUME TypeOK, Held, RunAddFunctor
    PROVE  Held'
<1> DEFINE a == Head(pending).addr
<1>1. /\ pending /= <<>> /\ Head(pending).op = "add" /\ pending' = Tail(pending)
      /\ addTimerInLoop(a, expiration_[a], sequence_[a])
      /\ UNCHANGED <<timerVars, cancelingTimers_, expired, numCreated, canceled>>
  BY DEF RunAddFunctor, readVars
<1>2. a \in Addrs
  BY <1>1, PopFacts DEF TypeOK, FunctorSet
<1>3. Owned /\ AddsOnce(pending)
  BY OwnershipSplit DEF Held
<1>4. a \in Queued /\ Queued' = Queued \ {a} /\ AddsOnce(pending')
  BY <1>1, <1>3, PopAdd, QueuedIs, QueuedNext DEF TypeOK
<1> HIDE DEF a
<1>5. a \notin Scheduled
  BY <1>3, <1>4 DEF Owned
<1>6. SetsAgree' /\ Scheduled' = Scheduled \cup {a}
  BY <1>1, <1>2, <1>5, InsertAgrees DEF Held, addTimerInLoop, timerVars
<1>7. Batch' = Batch /\ live' = live
  BY <1>1 DEF Batch, timerVars
<1>8. Owned'
  BY <1>3, <1>4, <1>6, <1>7 DEF Owned
<1>9. Ownership'
  BY <1>4, <1>8, OwnershipNext
<1>10. Births'
  BY <1>1 DEF Held, Births, timerVars
<1>11. CanceledIsKnown'
  <2>1. birth' = birth /\ sequence_' = sequence_ /\ canceled' = canceled
        /\ cancelingTimers_' = cancelingTimers_
    BY <1>1 DEF timerVars
  <2>2. \A b \in Scheduled' : birth[b] \notin canceled
    BY <1>4, <1>6 DEF Held, CanceledIsKnown, CanceledStaysCanceled
  <2> QED
    BY <1>4, <1>7, <2>1, <2>2
    DEF Held, CanceledIsKnown, CanceledStaysCanceled, ActiveTimer
<1> QED
  BY <1>6, <1>9, <1>10, <1>11 DEF Held

LEMMA LoopAddHeld ==
    ASSUME TypeOK, Held, LoopAddTimer
    PROVE  Held'
<1>1. PICK a \in Addrs, when \in Timestamps, i \in Intervals :
          NewTimer(a, when, i) /\ addTimerInLoop(a, when, NextSeq)
  BY DEF LoopAddTimer
<1>2. UNCHANGED <<cancelingTimers_, expired, pending, canceled>>
  BY DEF LoopAddTimer, readVars
<1>3. /\ a \notin Scheduled /\ a \notin Batch /\ a \notin Queued
      /\ live' = live \cup {a} /\ birth'[a] \notin canceled
      /\ expiration_'[a] = when /\ sequence_'[a] = NextSeq
      /\ \A b \in live : /\ expiration_'[b] = expiration_[b]
                         /\ sequence_'[b] = sequence_[b]
                         /\ birth'[b] = birth[b]
      /\ Births'
  BY <1>1, <1>2, NewTimerFacts
<1>4. Owned /\ AddsOnce(pending)
  BY OwnershipSplit DEF Held
<1>5. \A b \in Scheduled \cup Batch \cup Queued : b \in live
  BY <1>4 DEF Owned
<1>6. SetsAgree' /\ Scheduled' = Scheduled \cup {a}
  <2>1. insert(a, when, NextSeq)
    BY <1>1 DEF addTimerInLoop
  <2> QED
    BY <1>3, <1>5, <2>1, InsertAgrees DEF Held
<1>7. Batch' = Batch /\ Queued' = Queued /\ AddsOnce(pending')
  BY <1>2, <1>4 DEF Batch, Queued
<1>8. Owned'
  BY <1>3, <1>4, <1>6, <1>7 DEF Owned
<1>9. Ownership'
  BY <1>7, <1>8, OwnershipNext
<1>10. CanceledIsKnown'
  <2>1. \A b \in Scheduled' : birth'[b] \notin canceled'
    BY <1>2, <1>3, <1>5, <1>6 DEF Held, CanceledIsKnown, CanceledStaysCanceled
  <2>2. \A b \in Queued' : birth'[b] \notin canceled'
    BY <1>2, <1>3, <1>5, <1>7 DEF Held, CanceledIsKnown
  <2>3. \A b \in Batch' : birth'[b] \in canceled'
            => <<b, sequence_'[b]>> \in cancelingTimers_'
    BY <1>2, <1>3, <1>5, <1>7 DEF Held, CanceledIsKnown, ActiveTimer
  <2> QED
    BY <2>1, <2>2, <2>3 DEF CanceledIsKnown, CanceledStaysCanceled, ActiveTimer
<1> QED
  BY <1>3, <1>6, <1>9, <1>10 DEF Held

\* cancelInLoop, from a functor or from client code: an active Timer is
\* deleted, one of the batch is remembered.
LEMMA CancelHeld ==
    ASSUME TypeOK, BatchIsHandled, Held, NEW a \in Addrs, NEW s \in Seqs,
           cancelInLoop(a, s),
           UNCHANGED <<expiration_, sequence_, birth, expired, numCreated>>,
           Queued' = Queued, AddsOnce(pending')
    PROVE  Held'
<1>1. /\ SetsAgree'
      /\ IsActive(a, s) => /\ a \in Scheduled /\ s = sequence_[a]
                           /\ Scheduled' = Scheduled \ {a}
                           /\ live' = live \ {a}
      /\ ~IsActive(a, s) => Scheduled' = Scheduled /\ live' = live
  BY CancelAgrees DEF Held
<1>2. Owned
  BY OwnershipSplit DEF Held
<1>3. Batch' = Batch
  BY DEF Batch
<1>4. Owned'
  BY <1>1, <1>2, <1>3 DEF Owned
<1>5. Ownership'
  BY <1>4, OwnershipNext
<1>6. canceled' = IF IsActive(a, s) \/ InBatch(a, s)
                  THEN canceled \cup {birth[a]} ELSE canceled
  BY DEF cancelInLoop
<1>7. InBatch(a, s) => a \in Batch /\ s = sequence_[a]
  BY DEF InBatch, Batch
<1>8. IsActive(a, s) \/ InBatch(a, s) => a \in live
  BY <1>1, <1>2, <1>7 DEF Owned
<1>9. Births'
  <2>1. live' \subseteq live /\ canceled' \subseteq 1 .. numCreated
    BY <1>1, <1>6, <1>8 DEF Held, Births
  <2> QED
    BY <2>1 DEF Held, Births
<1>10. \A b \in live : b /= a => (birth[b] \in canceled' <=> birth[b] \in canceled)
  BY <1>6, <1>8 DEF Held, Births
<1>11. CanceledIsKnown'
  <2>1. ASSUME NEW b \in Scheduled' PROVE birth[b] \notin canceled'
    <3>1. b \in Scheduled /\ birth[b] \notin canceled /\ b \in live
      BY <1>1, <1>2 DEF Held, CanceledIsKnown, CanceledStaysCanceled, Owned
    <3>2. CASE b /= a
      BY <1>10, <3>1, <3>2
    <3>3. CASE b = a
      BY <1>1, <1>2, <1>6, <1>7, <3>1, <3>3 DEF Owned
    <3> QED
      BY <3>2, <3>3
  <2>2. ASSUME NEW b \in Queued PROVE birth[b] \notin canceled'
    <3>1. b \in live /\ birth[b] \notin canceled /\ b \notin Scheduled /\ b \notin Batch
      BY <1>2 DEF Held, CanceledIsKnown, Owned
    <3> QED
      BY <1>1, <1>6, <1>7, <1>10, <3>1
  <2>3. ASSUME NEW b \in Batch, birth[b] \in canceled'
        PROVE  <<b, sequence_[b]>> \in cancelingTimers_'
    <3>1. cancelingTimers_ \subseteq cancelingTimers_'
      BY DEF cancelInLoop
    <3>2. b \in live /\ b \notin Scheduled
      BY <1>2 DEF Owned
    <3>3. CASE birth[b] \in canceled
      BY <3>1, <3>3 DEF Held, CanceledIsKnown, ActiveTimer
    <3>4. CASE birth[b] \notin canceled
      <4>1. b = a /\ ~IsActive(a, s) /\ InBatch(a, s)
        BY <1>1, <1>6, <1>10, <2>3, <3>2, <3>4
      <4>2. callingExpiredTimers_ = TRUE
        BY DEF BatchIsHandled, Batch
      <4>3. cancelingTimers_' = cancelingTimers_ \cup {<<a, s>>}
        BY <4>1, <4>2 DEF cancelInLoop
      <4> QED
        BY <1>7, <4>1, <4>3
    <3> QED
      BY <3>3, <3>4
  <2> QED
    BY <1>3, <2>1, <2>2, <2>3
    DEF CanceledIsKnown, CanceledStaysCanceled, ActiveTimer
<1> QED
  BY <1>1, <1>5, <1>9, <1>11 DEF Held

LEMMA RunCancelHeld ==
    ASSUME Shape, Held, RunCancelFunctor
    PROVE  Held'
<1>1. /\ pending /= <<>> /\ Head(pending).op /= "add" /\ pending' = Tail(pending)
      /\ cancelInLoop(Head(pending).addr, Head(pending).seq)
      /\ UNCHANGED <<expiration_, sequence_, birth, expired, numCreated>>
  BY DEF RunCancelFunctor, readVars
<1>2. Head(pending).addr \in Addrs /\ Head(pending).seq \in Seqs
  BY <1>1, PopFacts DEF Shape, TypeOK, FunctorSet
<1>3. Queued' = Queued /\ AddsOnce(pending')
  BY <1>1, PopOther, QueuedIs, QueuedNext, OwnershipSplit DEF Shape, TypeOK, Held
<1> QED
  BY <1>1, <1>2, <1>3, CancelHeld DEF Shape

LEMMA LoopCancelHeld ==
    ASSUME Shape, Held, LoopCancel
    PROVE  Held'
<1>1. PICK id \in issued : cancelInLoop(id.addr, id.seq)
  BY DEF LoopCancel
<1>2. UNCHANGED <<expiration_, sequence_, birth, expired, numCreated, pending>>
  BY DEF LoopCancel, readVars, userVars
<1>3. id.addr \in Addrs /\ id.seq \in Seqs
  BY DEF Shape, TypeOK, TimerIds
<1>4. Queued' = Queued /\ AddsOnce(pending')
  BY <1>2, OwnershipSplit DEF Held, Queued
<1> QED
  BY <1>1, <1>2, <1>3, <1>4, CancelHeld DEF Shape

LEMMA HandleReadHeld ==
    ASSUME Shape, Held, handleRead
    PROVE  Held'
<1>1. /\ SetsAgree' /\ Batch' \subseteq Scheduled
      /\ Scheduled' = Scheduled \ Batch'
  BY ExpiredAgrees DEF Shape, Held
<1>2. UNCHANGED <<timerVars, pending, numCreated, canceled>>
  BY DEF handleRead, userVars
<1>3. Batch = {}
  BY DEF Shape, BatchIsHandled, handleRead, Batch
<1>4. Owned /\ AddsOnce(pending)
  BY OwnershipSplit DEF Held
<1>5. Queued' = Queued /\ live' = live /\ AddsOnce(pending')
  BY <1>2, <1>4 DEF Queued, timerVars
<1>6. Owned'
  BY <1>1, <1>3, <1>4, <1>5 DEF Owned
<1>7. Ownership'
  BY <1>5, <1>6, OwnershipNext
<1>8. Births'
  BY <1>2 DEF Held, Births, timerVars
<1>9. CanceledIsKnown'
  <2>1. birth' = birth /\ canceled' = canceled
    BY <1>2 DEF timerVars
  <2> QED
    BY <1>1, <1>5, <2>1 DEF Held, CanceledIsKnown, CanceledStaysCanceled
<1> QED
  BY <1>1, <1>7, <1>8, <1>9 DEF Held

LEMMA ResetHeld ==
    ASSUME Shape, Held, reset
    PROVE  Held'
<1>1. Owned /\ AddsOnce(pending)
  BY OwnershipSplit DEF Held
<1>2. SetsAgree' /\ Restarted \subseteq Batch /\ Scheduled' = Scheduled \cup Restarted
  BY <1>1, ResetAgrees DEF Shape, Held, Owned
<1>3. /\ live' = live \ (Batch \ Restarted) /\ Batch' = {}
      /\ Queued' = Queued /\ AddsOnce(pending')
      /\ UNCHANGED <<birth, sequence_, canceled, cancelingTimers_, numCreated>>
  BY <1>1 DEF reset, Batch, Queued, userVars
<1>4. Owned'
  BY <1>1, <1>2, <1>3 DEF Owned
<1>5. Ownership'
  BY <1>3, <1>4, OwnershipNext
<1>6. Births'
  BY <1>3 DEF Held, Births
<1>7. CanceledIsKnown'
  <2>1. \A a \in Restarted : ActiveTimer(a) \notin cancelingTimers_
    BY DEF Restarted
  <2>2. \A a \in Restarted : birth[a] \notin canceled
    BY <1>2, <2>1 DEF Held, CanceledIsKnown
  <2> QED
    BY <1>2, <1>3, <2>2 DEF Held, CanceledIsKnown, CanceledStaysCanceled
<1> QED
  BY <1>2, <1>5, <1>6, <1>7 DEF Held

LEMMA NextHeld ==
    ASSUME Shape, Held, [Next]_vars
    PROVE  Held'
<1>1. CASE Tick \/ RunTimer \/ CallbackReturn \/ UNCHANGED vars
  BY <1>1, HeldStill
  DEF Tick, RunTimer, CallbackReturn, vars, timerVars, setVars, readVars, userVars
<1>2. ASSUME NEW u \in Users, User(u) PROVE Held'
  <2>1. CASE addTimer(u)
    BY <2>1, AddTimerHeld DEF Shape
  <2>2. CASE addTimerReturn(u)
    BY <2>2, HeldStill DEF addTimerReturn, setVars, readVars
  <2>3. CASE cancel(u)
    BY <2>3, UserCancelHeld DEF Shape
  <2> QED
    BY <1>2, <2>1, <2>2, <2>3 DEF User
<1>3. CASE RunAddFunctor
  BY <1>3, RunAddHeld DEF Shape
<1>4. CASE RunCancelFunctor
  BY <1>4, RunCancelHeld
<1>5. CASE handleRead
  BY <1>5, HandleReadHeld
<1>6. CASE LoopAddTimer
  BY <1>6, LoopAddHeld DEF Shape
<1>7. CASE LoopCancel
  BY <1>7, LoopCancelHeld
<1>8. CASE reset
  BY <1>8, ResetHeld
<1> QED
  BY <1>1, <1>2, <1>3, <1>4, <1>5, <1>6, <1>7, <1>8
  DEF Next, LoopThread, ClientCode

----------------------------------------------------------------------------
(* The timerfd.                                                            *)

\* Fewer entries, a later clock.
LEMMA ArmedStill ==
    ASSUME TypeOK, TypeOK', TimerfdArmed, UNCHANGED timerfd_,
           pc' = "idle" => pc = "idle",
           timers_' \subseteq timers_, now' = now \/ now' = now + 1
    PROVE  TimerfdArmed'
<1> SUFFICES ASSUME pc' = "idle", NEW e \in timers_'
             PROVE  timerfd_' /= 0 /\ timerfd_' <= Larger(e[1], now' + 1)
  BY DEF TimerfdArmed, Larger
<1>1. timerfd_ /= 0 /\ timerfd_ <= Larger(e[1], now + 1)
  BY DEF TimerfdArmed
<1>2. timerfd_ \in Nat /\ now \in Nat /\ now' \in Nat /\ e[1] \in Nat
  BY EntryType DEF TypeOK
<1>3. timerfd_' = timerfd_
  OBVIOUS
<1>4. PICK n \in Nat : n = now'
  BY <1>2
<1>5. now <= n
  BY <1>2, <1>4
<1>6. timerfd_ <= Larger(e[1], n + 1)
  BY <1>1, <1>2, <1>5 DEF Larger
<1> QED
  BY <1>1, <1>3, <1>4, <1>6

LEMMA InvalidStill ==
    ASSUME TypeOK, TypeOK', InvalidArmed, UNCHANGED timerfd_,
           timers_' \subseteq timers_, now' = now \/ now' = now + 1
    PROVE  InvalidArmed'
<1> SUFFICES ASSUME NEW e \in timers_', ~valid(e[1])
             PROVE  timerfd_' /= 0 /\ timerfd_' <= now' + 1
  BY DEF InvalidArmed
<1>1. timerfd_ /= 0 /\ timerfd_ <= now + 1
  BY DEF InvalidArmed
<1>2. timerfd_ \in Nat /\ now \in Nat
  BY DEF TypeOK
<1> QED
  BY <1>1, <1>2

\* addTimerInLoop arms the timerfd anew exactly when it has to.
LEMMA InsertArmed ==
    ASSUME TypeOK, TypeOK', TimerfdArmed, UNCHANGED <<now, pc>>,
           NEW a \in Addrs, NEW when \in Nat, NEW s,
           addTimerInLoop(a, when, s)
    PROVE  TimerfdArmed'
<1> SUFFICES ASSUME pc = "idle", NEW e \in timers_'
             PROVE  timerfd_' /= 0 /\ timerfd_' <= Larger(e[1], now + 1)
  BY DEF TimerfdArmed, Larger
<1>1. /\ timerfd_ \in Nat /\ timerfd_' \in Nat /\ now \in Nat /\ e[1] \in Nat
      /\ \A f \in timers_ : f[1] \in Nat
  BY EntryType DEF TypeOK
<1>2. e \in timers_ \/ e[1] = when
  BY DEF addTimerInLoop, insert
<1>3. CASE EarliestChanged(when)
  <2>1. timerfd_' /= 0 /\ timerfd_' <= Larger(when, now + 1)
    BY <1>1, <1>3, RearmType DEF addTimerInLoop
  <2>2. when <= e[1]
    BY <1>1, <1>2, <1>3 DEF EarliestChanged
  <2> QED
    BY <1>1, <2>1, <2>2 DEF Larger
<1>4. CASE ~EarliestChanged(when)
  <2>1. timerfd_' = timerfd_
    BY <1>4 DEF addTimerInLoop
  <2>2. PICK f \in timers_ : f[1] <= when
    BY <1>1, <1>4 DEF EarliestChanged
  <2>3. /\ timerfd_ /= 0 /\ timerfd_ <= Larger(f[1], now + 1)
        /\ \A g \in timers_ : timerfd_ <= Larger(g[1], now + 1)
    BY DEF TimerfdArmed
  <2>4. timerfd_ <= Larger(when, now + 1)
    BY <1>1, <2>2, <2>3 DEF Larger
  <2> QED
    BY <1>2, <2>1, <2>3, <2>4
<1> QED
  BY <1>3, <1>4

LEMMA InsertInvalid ==
    ASSUME TypeOK, InvalidArmed, UNCHANGED now,
           NEW a \in Addrs, NEW when \in Nat, NEW s,
           addTimerInLoop(a, when, s)
    PROVE  InvalidArmed'
<1> SUFFICES ASSUME NEW e \in timers_', ~valid(e[1])
             PROVE  timerfd_' /= 0 /\ timerfd_' <= now + 1
  BY DEF InvalidArmed
<1>1. now \in Nat /\ timerfd_ \in Nat /\ \A f \in timers_ : f[1] \in Nat
  BY EntryType DEF TypeOK
<1>2. e \in timers_ \/ e = <<when, a>>
  BY DEF addTimerInLoop, insert
<1>3. CASE EarliestChanged(when)
  <2>1. when = 0
    BY <1>1, <1>2, <1>3 DEF EarliestChanged, valid
  <2>2. resetTimerfd(when)
    BY <1>3 DEF addTimerInLoop
  <2> QED
    BY <1>1, <2>1, <2>2, RearmType DEF Larger
<1>4. CASE ~EarliestChanged(when)
  <2>1. timerfd_' = timerfd_
    BY <1>4 DEF addTimerInLoop
  <2>2. \E f \in timers_ : ~valid(f[1])
    BY <1>1, <1>2, <1>4 DEF EarliestChanged, valid
  <2> QED
    BY <2>1, <2>2 DEF InvalidArmed
<1> QED
  BY <1>3, <1>4

LEMMA ResetArmed ==
    ASSUME TypeOK, TypeOK', InvalidArmed, reset
    PROVE  TimerfdArmed' /\ InvalidArmed'
<1> SUFFICES ASSUME NEW e \in timers_'
             PROVE  /\ timerfd_' /= 0 /\ timerfd_' <= Larger(e[1], now' + 1)
                    /\ ~valid(e[1]) => timerfd_' <= now' + 1
  BY DEF TimerfdArmed, InvalidArmed, Larger
<1>1. now' = now /\ timers_' \subseteq Entries
  BY DEF reset, TypeOK
<1> DEFINE f == First(timers_')
<1>2. f \in timers_' /\ f[1] <= e[1]
  BY <1>1, FirstIsLeast
<1>3. f[1] \in Nat /\ e[1] \in Nat /\ now \in Nat /\ timerfd_ \in Nat
  BY <1>1, <1>2, EntryType DEF TypeOK
<1>4. RearmAfter(timers_')
  BY DEF reset
<1>5. CASE valid(f[1])
  <2>1. resetTimerfd(f[1])
    BY <1>4, <1>5, <1>2 DEF RearmAfter
  <2>2. /\ timerfd_' \in Nat /\ timerfd_' /= 0
        /\ timerfd_' <= Larger(f[1], now + 1)
    BY <1>3, <2>1, RearmType
  <2>3. valid(e[1])
    BY <1>2, <1>3, <1>5 DEF valid
  <2> QED
    BY <1>1, <1>2, <1>3, <2>2, <2>3 DEF Larger
<1>6. CASE ~valid(f[1])
  <2>1. timerfd_' = timerfd_
    BY <1>4, <1>6 DEF RearmAfter
  <2>2. f \in timers_
    <3>1. \A a \in Restarted : readTime + interval_[a] > 0
      <4> SUFFICES ASSUME NEW a \in Restarted PROVE readTime + interval_[a] > 0
        OBVIOUS
      <4>1. interval_[a] > 0
        BY DEF Restarted
      <4>2. a \in Addrs
        BY EntryType DEF Restarted, TypeOK
      <4>3. interval_[a] \in Nat /\ readTime \in Nat
        BY <4>2 DEF TypeOK
      <4> QED
        BY <4>1, <4>3
    <3>2. \A a \in Restarted : f /= <<readTime + interval_[a], a>>
      BY <1>6, <3>1 DEF valid
    <3> QED
      BY <1>2, <3>2 DEF reset
  <2>3. timerfd_ /= 0 /\ timerfd_ <= now + 1
    BY <1>6, <2>2 DEF InvalidArmed
  <2> QED
    BY <1>1, <1>3, <2>1, <2>3 DEF Larger
<1> QED
  BY <1>5, <1>6

LEMMA NextArmed ==
    ASSUME Shape, Shape', TimerfdArmed, InvalidArmed, [Next]_vars
    PROVE  TimerfdArmed' /\ InvalidArmed'
<1> USE DEF Shape
<1>1. ASSUME UNCHANGED timerfd_, pc' = "idle" => pc = "idle",
             timers_' \subseteq timers_, now' = now \/ now' = now + 1
      PROVE  TimerfdArmed' /\ InvalidArmed'
  BY <1>1, ArmedStill, InvalidStill
<1>2. CASE Tick \/ RunTimer \/ UNCHANGED vars
  BY <1>1, <1>2 DEF Tick, RunTimer, vars, setVars, readVars
<1>3. CASE CallbackReturn
  BY <1>3, InvalidStill DEF CallbackReturn, TimerfdArmed, setVars
<1>4. ASSUME NEW u \in Users, User(u) PROVE TimerfdArmed' /\ InvalidArmed'
  BY <1>1, <1>4 DEF User, addTimer, addTimerReturn, cancel, setVars, readVars
<1>5. CASE RunAddFunctor
  <2> DEFINE a == Head(pending).addr
  <2>1. a \in Addrs
    BY <1>5, PopFacts DEF RunAddFunctor, TypeOK, FunctorSet
  <2>2. expiration_[a] \in Nat
    BY <2>1 DEF TypeOK
  <2>3. addTimerInLoop(a, expiration_[a], sequence_[a]) /\ UNCHANGED <<now, pc>>
    BY <1>5 DEF RunAddFunctor, readVars
  <2> QED
    BY <2>1, <2>2, <2>3, InsertArmed, InsertInvalid
<1>6. CASE LoopAddTimer
  <2>1. PICK a \in Addrs, when \in Timestamps : addTimerInLoop(a, when, NextSeq)
    BY <1>6 DEF LoopAddTimer
  <2>2. when \in Nat /\ UNCHANGED <<now, pc>>
    BY <1>6, TimestampType DEF LoopAddTimer, readVars
  <2> QED
    BY <2>1, <2>2, InsertArmed, InsertInvalid
<1>7. CASE RunCancelFunctor \/ LoopCancel
  <2>1. timers_' \subseteq timers_
    BY <1>7 DEF RunCancelFunctor, LoopCancel, cancelInLoop
  <2> QED
    BY <1>1, <1>7, <2>1 DEF RunCancelFunctor, LoopCancel, readVars
<1>8. CASE handleRead
  <2>1. \A e \in timers_' : e \in timers_ /\ ~(e[1] <= now)
    BY <1>8 DEF handleRead, Expired
  <2>2. \A e \in timers_' : valid(e[1])
    BY <2>1, EntryType DEF TypeOK, valid
  <2> QED
    BY <1>8, <2>2 DEF handleRead, TimerfdArmed, InvalidArmed
<1>9. CASE reset
  BY <1>9, ResetArmed
<1> QED
  BY <1>2, <1>3, <1>4, <1>5, <1>6, <1>7, <1>8, <1>9
  DEF Next, LoopThread, ClientCode

----------------------------------------------------------------------------
(* The invariant is inductive.                                             *)

LEMMA InitIInv == Init => IInv
<1> SUFFICES ASSUME Init PROVE IInv
  OBVIOUS
<1>1. TypeOK
  <2>1. callingExpiredTimers_ \in BOOLEAN
    BY Zenon DEF Init
  <2>2. sequence_ \in [Addrs -> Seqs] /\ pending \in Seq(FunctorSet)
    BY TimerQueueAssumption DEF Init, Seqs
  <2>3. creating \in [Users -> [busy : BOOLEAN, addr : Addrs \cup {0}]]
    BY DEF Init, NotCreating
  <2> QED
    BY <2>1, <2>2, <2>3 DEF Init, TypeOK
<1>2. BatchIsHandled /\ CreatingHasAddr
  BY DEF Init, BatchIsHandled, CreatingHasAddr, NotCreating
<1>3. SetsAgree
  BY DEF Init, SetsAgree
<1>4. Scheduled = {} /\ Batch = {} /\ Queued = {}
  BY DEF Init, Scheduled, Batch, Queued
<1>5. Ownership
  BY <1>4 DEF Init, Ownership
<1>6. Births /\ CanceledIsKnown
  BY <1>4 DEF Init, Births, CanceledIsKnown, CanceledStaysCanceled
<1>7. TimerfdArmed /\ InvalidArmed
  BY DEF Init, TimerfdArmed, InvalidArmed
<1> QED
  BY <1>1, <1>2, <1>3, <1>5, <1>6, <1>7 DEF IInv

LEMMA NextIInv == IInv /\ [Next]_vars => IInv'
<1> SUFFICES ASSUME IInv, [Next]_vars PROVE IInv'
  OBVIOUS
<1>1. Shape /\ Held /\ TimerfdArmed /\ InvalidArmed
  BY DEF IInv, Shape, Held
<1>2. Shape' /\ Held' /\ TimerfdArmed' /\ InvalidArmed'
  BY <1>1, NextShape, NextHeld, NextArmed
<1> QED
  BY <1>2 DEF IInv, Shape, Held

LEMMA Invariance == Spec => []IInv
BY InitIInv, NextIInv, PTL DEF Spec

----------------------------------------------------------------------------
(* The theorems.                                                           *)

\* Every variable of the queue keeps its type: the sequence number stays in
\* range when it wraps, and the timerfd is set to a time.
THEOREM TypeCorrect == Spec => []TypeOK
<1>1. IInv => TypeOK
  BY DEF IInv
<1> QED
  BY <1>1, Invariance, PTL

\* timers_ and activeTimers_ hold the same Timers after every insert, erase,
\* expiry and restart, although a cancel() may come for a Timer that is
\* gone, that is being run, or whose address was reused.
THEOREM TheSetsAgree == Spec => []SetsAgree
<1>1. IInv => SetsAgree
  BY DEF IInv
<1> QED
  BY <1>1, Invariance, PTL

\* Every Timer object has exactly one owner among timers_, the batch of
\* handleRead and a queued addTimerInLoop: none is deleted twice, used after
\* it was deleted, or leaked.
THEOREM OneOwner == Spec => []Ownership
<1>1. IInv => Ownership
  BY DEF IInv
<1> QED
  BY <1>1, Invariance, PTL

\* A Timer that cancelInLoop found is never scheduled again, even one that
\* repeats and is canceled from its own callback.
THEOREM CancelIsFinal == Spec => []CanceledStaysCanceled
<1>1. IInv => CanceledStaysCanceled
  BY DEF IInv, CanceledIsKnown
<1> QED
  BY <1>1, Invariance, PTL

\* Whenever the loop goes back to poll(2), the timerfd will fire in time for
\* the earliest timer.
THEOREM AlwaysArmed == Spec => []TimerfdArmed
<1>1. IInv => TimerfdArmed
  BY DEF IInv
<1> QED
  BY <1>1, Invariance, PTL
===============================================================================
