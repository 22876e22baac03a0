----------------------------- MODULE TimerQueue -----------------------------
(***************************************************************************)
(* TimerQueue, Timer and TimerId (TimerQueue.h/.cpp, Timer.h/.cpp).        *)
(*                                                                         *)
(* Users call addTimer and cancel from other threads; both reach the loop  *)
(* thread as functors, executed in the order they were queued (see         *)
(* EventLoop).  Timer callbacks run in the loop thread and may add and     *)
(* cancel timers while the batch of expired timers is being worked off.    *)
(*                                                                         *)
(* Time is counted in units of the 100 microseconds that                   *)
(* howMuchTimeFromNow uses as minimum.  Timer objects live at addresses,   *)
(* which the allocator reuses.                                             *)
(***************************************************************************)
EXTENDS Integers, Sequences, FiniteSets

CONSTANTS
    Users,          \* threads other than the loop's
    Addrs,          \* addresses of Timer objects; std::set orders by them
    Intervals,      \* repeat intervals; 0: not repeated
    Delays,         \* how far ahead a timer is set; below 0: in the past
    SeqModulus,     \* 2^32 in the code: AtomicInt64 is AtomicIntegerT<int>
    MaxTimers,      \* bound: timers created
    MaxTime,        \* bound: the clock stops here
    MaxPending      \* bound: functors queued at once

ASSUME TimerQueueAssumption ==
    /\ Addrs \subseteq Nat
    /\ Intervals \subseteq Nat
    /\ Delays \subseteq Int
    /\ SeqModulus \in Nat \ {0}
    /\ MaxTimers \in Nat
    /\ MaxTime \in Nat \ {0}
    /\ MaxPending \in Nat

VARIABLES
    now,                    \* the clock
    timerfd_,               \* when it becomes readable; 0: disarmed
    live,                   \* addresses holding a Timer object
    expiration_, interval_, sequence_,      \* Timer
    birth,                  \* which Timer it is (history)
    timers_, activeTimers_, cancelingTimers_, callingExpiredTimers_,
    pc,                     \* loop thread: "idle", "calling" or "callback"
    readTime,               \* `now' of the running handleRead
    expired,                \* its batch of entries
    torun,                  \* the entries of the batch still to be run
    pending,                \* functors queued for the loop
    creating,               \* addTimer in another thread, before it returns
    issued,                 \* the TimerIds handed out
    numCreated,             \* Timer::s_numCreated_, without the wrap
    canceled                \* births that cancelInLoop met (history)

timerVars == <<live, expiration_, interval_, sequence_, birth>>
setVars == <<timers_, activeTimers_, cancelingTimers_, callingExpiredTimers_>>
readVars == <<pc, readTime, expired, torun>>
userVars == <<pending, creating, issued>>
vars == <<now, timerfd_, live, expiration_, interval_, sequence_, birth,
          timers_, activeTimers_, cancelingTimers_, callingExpiredTimers_,
          pc, readTime, expired, torun, pending, creating, issued, numCreated,
          canceled>>

Seqs == 0 .. SeqModulus - 1
Entries == Nat \X Addrs                 \* pair<Timestamp, Timer*>
ActiveTimers == Addrs \X Seqs           \* pair<Timer*, int64_t>
TimerIds == [addr : Addrs, seq : Seqs]
Add(a) == [op |-> "add", addr |-> a, seq |-> 0]
Cancel(id) == [op |-> "cancel", addr |-> id.addr, seq |-> id.seq]
FunctorSet == [op : {"add", "cancel"}, addr : Addrs, seq : Seqs]

\* What a user thread holds inside addTimer: nothing, or the new Timer's
\* address and identity.
NotCreating == [busy |-> FALSE, addr |-> 0]

TypeOK ==
    /\ now \in Nat
    /\ timerfd_ \in Nat
    /\ live \subseteq Addrs
    /\ expiration_ \in [Addrs -> Nat]
    /\ interval_ \in [Addrs -> Nat]
    /\ sequence_ \in [Addrs -> Seqs]
    /\ birth \in [Addrs -> Nat]
    /\ timers_ \subseteq Entries
    /\ activeTimers_ \subseteq ActiveTimers
    /\ cancelingTimers_ \subseteq ActiveTimers
    /\ callingExpiredTimers_ \in BOOLEAN
    /\ pc \in {"idle", "calling", "callback"}
    /\ readTime \in Nat
    /\ expired \subseteq Entries
    /\ torun \subseteq expired
    /\ pending \in Seq(FunctorSet)
    /\ creating \in [Users -> [busy : BOOLEAN, addr : Addrs \cup {0}]]
    /\ issued \subseteq TimerIds
    /\ numCreated \in Nat
    /\ canceled \subseteq Nat

Init ==
    /\ now = 1
    /\ timerfd_ = 0
    /\ live = {}
    /\ expiration_ = [a \in Addrs |-> 0]
    /\ interval_ = [a \in Addrs |-> 0]
    /\ sequence_ = [a \in Addrs |-> 0]
    /\ birth = [a \in Addrs |-> 0]
    /\ timers_ = {} /\ activeTimers_ = {} /\ cancelingTimers_ = {}
    /\ callingExpiredTimers_ = FALSE
    /\ pc = "idle" /\ readTime = 0 /\ expired = {} /\ torun = {}
    /\ pending = <<>>
    /\ creating = [u \in Users |-> NotCreating]
    /\ issued = {}
    /\ numCreated = 0
    /\ canceled = {}

----------------------------------------------------------------------------
(* timerfd.                                                                *)

Larger(x, y) == IF x > y THEN x ELSE y
Smaller(x, y) == IF x < y THEN x ELSE y

\* howMuchTimeFromNow: at least one unit ahead.  At the end of time the
\* bound takes the place of an expiration that never comes.
resetTimerfd(when) == timerfd_' = Smaller(Larger(when, now + 1), MaxTime)

\* poll(2) would report it, if timerfdChannel_ asked for POLLIN.
TimerfdReadable == timerfd_ /= 0 /\ timerfd_ <= now

Tick ==
    /\ now < MaxTime
    /\ now' = now + 1
    /\ UNCHANGED <<timerfd_, timerVars, setVars, readVars, userVars,
                   numCreated, canceled>>

----------------------------------------------------------------------------
(* The sets.                                                               *)

\* The order of pair<Timestamp, Timer*>.
Before(e, f) == e[1] < f[1] \/ (e[1] = f[1] /\ e[2] < f[2])
First(S) == CHOOSE e \in S : \A f \in S : f = e \/ Before(e, f)

ActiveTimer(a) == <<a, sequence_[a]>>

\* insert: the Timer goes into both sets.
insert(a, when, seq) ==
    /\ timers_' = timers_ \cup {<<when, a>>}
    /\ activeTimers_' = activeTimers_ \cup {<<a, seq>>}

EarliestChanged(when) == \A e \in timers_ : when < e[1]

\* addTimerInLoop for a Timer at address a with the given fields.
addTimerInLoop(a, when, seq) ==
    /\ insert(a, when, seq)
    /\ IF EarliestChanged(when) THEN resetTimerfd(when) ELSE UNCHANGED timerfd_

\* The Timer that id (a pair of address and sequence) denotes: among the
\* active ones, or in the batch being run.
IsActive(a, s) == <<a, s>> \in activeTimers_
InBatch(a, s) == a \in {e[2] : e \in expired} /\ sequence_[a] = s

\* Mutant: a timer that is not active is left alone.
cancelInLoop_IgnoresBatch(a, s) ==
    /\ IF IsActive(a, s)
       THEN /\ timers_' = timers_ \ {<<expiration_[a], a>>}
            /\ activeTimers_' = activeTimers_ \ {<<a, s>>}
            /\ live' = live \ {a}
       ELSE UNCHANGED <<timers_, activeTimers_, live>>
    /\ canceled' = IF IsActive(a, s) \/ InBatch(a, s)
                   THEN canceled \cup {birth[a]} ELSE canceled
    /\ UNCHANGED cancelingTimers_

\* Mutant: the Timer is deleted but stays in timers_.
cancelInLoop_KeepsEntry(a, s) ==
    /\ IF IsActive(a, s)
       THEN /\ activeTimers_' = activeTimers_ \ {<<a, s>>}
            /\ live' = live \ {a}
            /\ UNCHANGED <<timers_, cancelingTimers_>>
       ELSE /\ cancelingTimers_' = IF callingExpiredTimers_
                                   THEN cancelingTimers_ \cup {<<a, s>>}
                                   ELSE cancelingTimers_
            /\ UNCHANGED <<timers_, activeTimers_, live>>
    /\ canceled' = IF IsActive(a, s) \/ InBatch(a, s)
                   THEN canceled \cup {birth[a]} ELSE canceled

cancelInLoop(a, s) ==
    /\ IF IsActive(a, s)
       THEN /\ timers_' = timers_ \ {<<expiration_[a], a>>}
            /\ activeTimers_' = activeTimers_ \ {<<a, s>>}
            /\ live' = live \ {a}
            /\ UNCHANGED cancelingTimers_
       ELSE /\ cancelingTimers_' = IF callingExpiredTimers_
                                   THEN cancelingTimers_ \cup {<<a, s>>}
                                   ELSE cancelingTimers_
            /\ UNCHANGED <<timers_, activeTimers_, live>>
    /\ canceled' = IF IsActive(a, s) \/ InBatch(a, s)
                   THEN canceled \cup {birth[a]} ELSE canceled

----------------------------------------------------------------------------
(* Timer's constructor, in whichever thread: an unused address and the     *)
(* next sequence number.  runAt takes any Timestamp, one that has passed   *)
(* and the invalid one, 0, too.                                            *)

Timestamps == {Larger(0, now + d) : d \in Delays}

NextSeq == (numCreated + 1) % SeqModulus

NewTimer(a, when, interval) ==
    /\ a \in Addrs \ live
    /\ numCreated < MaxTimers
    /\ numCreated' = numCreated + 1
    /\ live' = live \cup {a}
    /\ expiration_' = [expiration_ EXCEPT ![a] = when]
    /\ interval_' = [interval_ EXCEPT ![a] = interval]
    /\ sequence_' = [sequence_ EXCEPT ![a] = NextSeq]
    /\ birth' = [birth EXCEPT ![a] = numCreated + 1]

----------------------------------------------------------------------------
(* Users in other threads.                                                 *)

\* addTimer: the Timer is created and its insertion queued ...
addTimer(u) ==
    /\ ~creating[u].busy
    /\ Len(pending) < MaxPending
    /\ \E a \in Addrs, when \in Timestamps, i \in Intervals :
          /\ NewTimer(a, when, i)
          /\ pending' = Append(pending, Add(a))
          /\ creating' = [creating EXCEPT ![u] =
                             [busy |-> TRUE, addr |-> a]]
    /\ UNCHANGED <<now, timerfd_, setVars, readVars, issued, canceled>>

\* ... and then its sequence number is read for the TimerId.  If the loop
\* has deleted the Timer meanwhile, any value may be read.
addTimerReturn(u) ==
    /\ creating[u].busy
    /\ \E s \in Seqs :
          /\ creating[u].addr \in live => s = sequence_[creating[u].addr]
          /\ issued' = issued \cup
                {[addr |-> creating[u].addr, seq |-> s]}
    /\ creating' = [creating EXCEPT ![u] = NotCreating]
    /\ UNCHANGED <<now, timerfd_, timerVars, setVars, readVars, pending,
                   numCreated, canceled>>

cancel(u) ==
    /\ ~creating[u].busy
    /\ Len(pending) < MaxPending
    /\ \E id \in issued : pending' = Append(pending, Cancel(id))
    /\ UNCHANGED <<now, timerfd_, timerVars, setVars, readVars, creating,
                   issued, numCreated, canceled>>

----------------------------------------------------------------------------
(* Functors, executed by the loop thread outside handleRead.               *)

RunAddFunctor ==
    /\ pc = "idle" /\ pending /= <<>> /\ Head(pending).op = "add"
    /\ LET a == Head(pending).addr
       IN  addTimerInLoop(a, expiration_[a], sequence_[a])
    /\ pending' = Tail(pending)
    /\ UNCHANGED <<now, timerVars, cancelingTimers_, callingExpiredTimers_,
                   readVars, creating, issued, numCreated, canceled>>

RunCancelFunctor ==
    /\ pc = "idle" /\ pending /= <<>> /\ Head(pending).op = "cancel"
    /\ cancelInLoop(Head(pending).addr, Head(pending).seq)
    /\ pending' = Tail(pending)
    /\ UNCHANGED <<now, timerfd_, expiration_, interval_, sequence_, birth,
                   callingExpiredTimers_, readVars, creating, issued,
                   numCreated>>

----------------------------------------------------------------------------
(* handleRead.                                                             *)

\* getExpired: all entries up to and including `now' leave both sets.
Expired == {e \in timers_ : e[1] <= now}

handleRead ==
    /\ pc = "idle"
    /\ TimerfdReadable
    /\ timerfd_' = 0
    /\ readTime' = now
    /\ expired' = Expired /\ torun' = Expired
    /\ timers_' = timers_ \ Expired
    /\ activeTimers_' = activeTimers_ \ {ActiveTimer(e[2]) : e \in Expired}
    /\ callingExpiredTimers_' = TRUE
    /\ cancelingTimers_' = {}
    /\ pc' = "calling"
    /\ UNCHANGED <<now, timerVars, userVars, numCreated, canceled>>

\* it->second->run() on the next entry of the batch.
RunTimer ==
    /\ pc = "calling"
    /\ torun /= {}
    /\ torun' = torun \ {First(torun)}
    /\ pc' = "callback"
    /\ UNCHANGED <<now, timerfd_, timerVars, setVars, readTime, expired,
                   userVars, numCreated, canceled>>

\* Client code in the loop thread: a timer callback, or between two
\* handleReads another channel's callback or a functor.
InClientCode == pc \in {"idle", "callback"}

\* It may add a timer: runInLoop inserts it at once.
LoopAddTimer ==
    /\ InClientCode
    /\ \E a \in Addrs, when \in Timestamps, i \in Intervals :
          /\ NewTimer(a, when, i)
          /\ addTimerInLoop(a, when, NextSeq)
          /\ issued' = issued \cup
                {[addr |-> a, seq |-> NextSeq]}
    /\ UNCHANGED <<now, cancelingTimers_, callingExpiredTimers_, readVars,
                   pending, creating, canceled>>

\* It may cancel any timer, its own included.
LoopCancel ==
    /\ InClientCode
    /\ \E id \in issued : cancelInLoop(id.addr, id.seq)
    /\ UNCHANGED <<now, timerfd_, expiration_, interval_, sequence_, birth,
                   callingExpiredTimers_, readVars, userVars, numCreated>>

CallbackReturn ==
    /\ pc = "callback"
    /\ pc' = "calling"
    /\ UNCHANGED <<now, timerfd_, timerVars, setVars, readTime, expired, torun,
                   userVars, numCreated, canceled>>

\* reset: repeated timers that were not canceled are restarted and inserted
\* again, the others deleted.
Restarted ==
    {e[2] : e \in {f \in expired : /\ interval_[f[2]] > 0
                                   /\ ActiveTimer(f[2]) \notin cancelingTimers_}}

valid(when) == when > 0

\* Mutant: the timerfd is armed only when a timer was restarted.
RearmAfter_IfRestarted(S) ==
    IF Restarted = {} THEN UNCHANGED timerfd_ ELSE resetTimerfd(First(S)[1])

\* The timerfd is armed for the earliest entry, if there is one and its time
\* is valid.
RearmAfter(S) ==
    IF S /= {} /\ valid(First(S)[1]) THEN resetTimerfd(First(S)[1])
                                     ELSE UNCHANGED timerfd_

\* Mutant: timers that do not repeat are not deleted.
reset_Leaks ==
    /\ pc = "calling"
    /\ torun = {}
    /\ callingExpiredTimers_' = FALSE
    /\ expiration_' = [a \in Addrs |-> IF a \in Restarted
                          THEN readTime + interval_[a] ELSE expiration_[a]]
    /\ timers_' = timers_ \cup {<<readTime + interval_[a], a>> : a \in Restarted}
    /\ activeTimers_' = activeTimers_ \cup {ActiveTimer(a) : a \in Restarted}
    /\ RearmAfter(timers_')
    /\ expired' = {} /\ readTime' = 0
    /\ pc' = "idle"
    /\ UNCHANGED <<now, live, interval_, sequence_, birth, cancelingTimers_,
                   torun, userVars, numCreated, canceled>>

reset ==
    /\ pc = "calling"
    /\ torun = {}
    /\ callingExpiredTimers_' = FALSE
    /\ live' = live \ ({e[2] : e \in expired} \ Restarted)
    /\ expiration_' = [a \in Addrs |-> IF a \in Restarted
                          THEN readTime + interval_[a] ELSE expiration_[a]]
    /\ timers_' = timers_ \cup {<<readTime + interval_[a], a>> : a \in Restarted}
    /\ activeTimers_' = activeTimers_ \cup {ActiveTimer(a) : a \in Restarted}
    /\ RearmAfter(timers_')
    /\ expired' = {} /\ readTime' = 0
    /\ pc' = "idle"
    /\ UNCHANGED <<now, interval_, sequence_, birth, cancelingTimers_,
                   torun, userVars, numCreated, canceled>>

----------------------------------------------------------------------------
User(u) == addTimer(u) \/ addTimerReturn(u) \/ cancel(u)

ClientCode == LoopAddTimer \/ LoopCancel

LoopThread ==
    \/ RunAddFunctor
    \/ RunCancelFunctor
    \/ handleRead
    \/ RunTimer
    \/ CallbackReturn
    \/ reset

Next == Tick \/ LoopThread \/ ClientCode \/ \E u \in Users : User(u)

Spec == Init /\ [][Next]_vars

\* Time passes, and a handleRead that has begun goes on: callbacks return.
\* That a readable timerfd is ever handled is not assumed, since its channel
\* asks poll(2) for kReadEvent, which is 0 (Channel.cpp).
FairSpec ==
    /\ Spec
    /\ WF_vars(Tick)
    /\ WF_vars(RunTimer) /\ WF_vars(CallbackReturn) /\ WF_vars(reset)

----------------------------------------------------------------------------
(* Properties.                                                             *)

\* timers_ and activeTimers_ hold the same Timers, each under its current
\* expiration and sequence number: what the size assert()s stand for, and
\* why every erase() of one entry finds exactly one.
SetsAgree ==
    /\ \A e \in timers_ : /\ ActiveTimer(e[2]) \in activeTimers_
                          /\ e[1] = expiration_[e[2]]
    /\ \A t \in activeTimers_ : /\ t[2] = sequence_[t[1]]
                                /\ <<expiration_[t[1]], t[1]>> \in timers_

\* Every Timer object is in exactly one place: in timers_, in the batch of
\* the running handleRead, or in a queued addTimerInLoop.  So nothing is
\* deleted twice, used after deletion, or leaked.
Scheduled == {e[2] : e \in timers_}
Batch == {e[2] : e \in expired}
Queued == {pending[i].addr : i \in {j \in 1 .. Len(pending) : pending[j].op = "add"}}

Ownership ==
    /\ live = Scheduled \cup Batch \cup Queued
    /\ Scheduled \cap Batch = {}
    /\ Scheduled \cap Queued = {}
    /\ Batch \cap Queued = {}
    /\ \A i, j \in 1 .. Len(pending) :
          pending[i].op = "add" /\ pending[j].op = "add"
             /\ pending[i].addr = pending[j].addr => i = j

\* A Timer that cancelInLoop found, active or in the running batch, is never
\* scheduled again, even if it repeats and cancels itself.
CanceledStaysCanceled == \A a \in Scheduled : birth[a] \notin canceled

\* Outside handleRead the timerfd is armed whenever a timer is scheduled,
\* and fires no later than the earliest expiration or, if that has passed,
\* than one unit from now.
TimerfdArmed ==
    pc = "idle" /\ timers_ /= {} =>
        /\ timerfd_ /= 0
        /\ \A e \in timers_ : timerfd_ <= Larger(e[1], now + 1)

\* A scheduled timer is canceled, or run, or its time comes and finds the
\* timerfd readable: nothing TimerQueue does makes the timerfd miss a timer.
\* (Whether the loop then notices is EventLoop's and Channel's part.)
DueTimerIsSignalled ==
    \A b \in 1 .. MaxTimers :
        (\E e \in timers_ : birth[e[2]] = b /\ e[1] <= MaxTime)
            ~> \/ b \in canceled
               \/ \E e \in expired \ torun : birth[e[2]] = b
               \/ /\ TimerfdReadable
                  /\ \E e \in timers_ : birth[e[2]] = b /\ e[1] <= now

============================================================================
