------------------------------ MODULE EventLoop ------------------------------
(***************************************************************************)
(* EventLoop (EventLoop.h/.cpp): the loop thread, and other threads that   *)
(* hand it functors with runInLoop / queueInLoop and stop it with quit().  *)
(* Channel handling is Poller's subject; here an iteration only does or    *)
(* does not run channel callbacks, which are client code like functors.    *)
(*                                                                         *)
(* A functor is a member of Functors, used once per behaviour; what it     *)
(* does when called is any sequence of the public operations.              *)
(***************************************************************************)
EXTENDS PollEvents, Sequences, FiniteSets

CONSTANTS Workers,      \* threads other than the loop's
          Functors

VARIABLES
    pc,                 \* where the loop thread is in EventLoop::loop
    quit_,
    callingPendingFunctors,
    pendingFunctors_,   \* shared, under mutex_
    functors,           \* dePendingFunctors: the local vector, what is left
    eventfd,            \* counter of wakeupFd_
    wpc,                \* what each worker is in the middle of
    given, executed,    \* functors handed over; functors called, in order
    wakeupCalled,       \* wakeup() was called since the last swap (history)
    early               \* queued by the loop thread outside loop() (history)

vars == <<pc, quit_, callingPendingFunctors, pendingFunctors_, functors,
          eventfd, wpc, given, executed, wakeupCalled, early>>

\* "created": before loop().  "test": at while(!quit_).  "poll": in poll(2).
\* "dispatch": in channel callbacks.  "flag", "swap", "run": in
\* dePendingFunctors.  "functor": in a functor it called.  "stopped": loop()
\* has returned.
LoopPcs == {"created", "test", "poll", "dispatch", "flag", "swap", "run",
            "functor", "stopped"}

TypeOK ==
    /\ pc \in LoopPcs
    /\ quit_ \in BOOLEAN
    /\ callingPendingFunctors \in BOOLEAN
    /\ pendingFunctors_ \in Seq(Functors)
    /\ functors \in Seq(Functors)
    /\ eventfd \in Nat
    /\ wpc \in [Workers -> {"idle", "wakeup"}]
    /\ given \subseteq Functors
    /\ executed \in Seq(Functors)
    /\ wakeupCalled \in BOOLEAN
    /\ early \subseteq Functors

Init ==
    /\ pc = "created"
    /\ quit_ = FALSE
    /\ callingPendingFunctors = FALSE
    /\ pendingFunctors_ = <<>>
    /\ functors = <<>>
    /\ eventfd = 0
    /\ wpc = [w \in Workers |-> "idle"]
    /\ given = {}
    /\ executed = <<>>
    /\ wakeupCalled = FALSE
    /\ early = {}

----------------------------------------------------------------------------
(* wakeupFd_.  An eventfd rejects (EINVAL) a write of fewer than 8 bytes.  *)

sizeof_int == 4
sizeof_uint64 == 8

EventfdWrite(bytes) ==
    eventfd' = IF bytes < sizeof_uint64 THEN eventfd ELSE eventfd + 1

\* EventLoop::wakeup writes an int.
wakeup ==
    /\ EventfdWrite(sizeof_int)
    /\ wakeupCalled' = TRUE

\* wakeupChannel_ was set up by enableReading: poll(2) reports POLLIN on it
\* if that is among the requested events and the counter is not zero.
WakeupReadable == POLLIN \in kReadEvent /\ eventfd > 0

----------------------------------------------------------------------------
(* Other threads.                                                          *)

\* runInLoop or queueInLoop in another thread: the push, under mutex_.
queueInLoop(w, f) ==
    /\ wpc[w] = "idle"
    /\ f \notin given
    /\ given' = given \cup {f}
    /\ pendingFunctors_' = Append(pendingFunctors_, f)
    /\ wpc' = [wpc EXCEPT ![w] = "wakeup"]
    /\ UNCHANGED <<pc, quit_, callingPendingFunctors, functors, eventfd,
                   executed, wakeupCalled, early>>

quit(w) ==
    /\ wpc[w] = "idle"
    /\ quit_' = TRUE
    /\ wpc' = [wpc EXCEPT ![w] = "wakeup"]
    /\ UNCHANGED <<pc, callingPendingFunctors, pendingFunctors_, functors,
                   eventfd, given, executed, wakeupCalled, early>>

\* Either one ends with wakeup(), since the caller is not the loop thread.
WorkerWakeup(w) ==
    /\ wpc[w] = "wakeup"
    /\ wakeup
    /\ wpc' = [wpc EXCEPT ![w] = "idle"]
    /\ UNCHANGED <<pc, quit_, callingPendingFunctors, pendingFunctors_,
                   functors, given, executed, early>>

----------------------------------------------------------------------------
(* Code in the loop thread that calls the loop: the code around loop(), a  *)
(* channel callback, a functor.                                            *)

\* looping_ is false.
OutsideLoop == pc \in {"created", "stopped"}

InClientCode == OutsideLoop \/ pc \in {"dispatch", "functor"}

\* Mutant: the loop thread never needs to wake itself up.
queueInLoopSelf_NoWakeup(f) ==
    /\ InClientCode
    /\ f \notin given
    /\ given' = given \cup {f}
    /\ pendingFunctors_' = Append(pendingFunctors_, f)
    /\ early' = IF OutsideLoop THEN early \cup {f} ELSE early
    /\ UNCHANGED <<pc, quit_, callingPendingFunctors, functors, eventfd, wpc,
                   executed, wakeupCalled>>

\* queueInLoop: here wakeup() is called only while functors are being run.
queueInLoopSelf(f) ==
    /\ InClientCode
    /\ f \notin given
    /\ given' = given \cup {f}
    /\ pendingFunctors_' = Append(pendingFunctors_, f)
    /\ IF callingPendingFunctors THEN wakeup
                                 ELSE UNCHANGED <<eventfd, wakeupCalled>>
    /\ early' = IF OutsideLoop THEN early \cup {f} ELSE early
    /\ UNCHANGED <<pc, quit_, callingPendingFunctors, functors, wpc, executed>>

\* runInLoop: the functor is called at once.
runInLoopSelf(f) ==
    /\ InClientCode
    /\ f \notin given
    /\ given' = given \cup {f}
    /\ executed' = Append(executed, f)
    /\ UNCHANGED <<pc, quit_, callingPendingFunctors, pendingFunctors_,
                   functors, eventfd, wpc, wakeupCalled, early>>

quitSelf ==
    /\ InClientCode
    /\ quit_' = TRUE
    /\ UNCHANGED <<pc, callingPendingFunctors, pendingFunctors_, functors,
                   eventfd, wpc, given, executed, wakeupCalled, early>>

----------------------------------------------------------------------------
(* EventLoop::loop.                                                        *)

\* The owner may call loop() again once it has returned.
StartLoop ==
    /\ OutsideLoop
    /\ pc' = "test"
    /\ quit_' = FALSE
    /\ UNCHANGED <<callingPendingFunctors, pendingFunctors_, functors,
                   eventfd, wpc, given, executed, wakeupCalled, early>>

\* Mutant: quit_ is reset in every iteration.
TestQuit_Reset ==
    /\ pc = "test"
    /\ pc' = "poll"
    /\ quit_' = FALSE
    /\ UNCHANGED <<callingPendingFunctors, pendingFunctors_, functors,
                   eventfd, wpc, given, executed, wakeupCalled, early>>

TestQuit ==
    /\ pc = "test"
    /\ pc' = IF quit_ THEN "stopped" ELSE "poll"
    /\ UNCHANGED <<quit_, callingPendingFunctors, pendingFunctors_, functors,
                   eventfd, wpc, given, executed, wakeupCalled, early>>

\* poll(2) returns: an event on another channel (then callbacks run), or the
\* wakeup channel, or kPollTimeMs are over.  handleRead, the callback of the
\* wakeup channel, resets the counter.
PollReturns ==
    /\ pc = "poll"
    /\ pc' \in {"dispatch", "flag"}
    /\ eventfd' = IF WakeupReadable THEN 0 ELSE eventfd
    /\ UNCHANGED <<quit_, callingPendingFunctors, pendingFunctors_, functors,
                   wpc, given, executed, wakeupCalled, early>>

CallbacksReturn ==
    /\ pc = "dispatch"
    /\ pc' = "flag"
    /\ UNCHANGED <<quit_, callingPendingFunctors, pendingFunctors_, functors,
                   eventfd, wpc, given, executed, wakeupCalled, early>>

\* dePendingFunctors: set the flag, swap under mutex_, call each functor,
\* clear the flag.
SetCalling ==
    /\ pc = "flag"
    /\ callingPendingFunctors' = TRUE
    /\ pc' = "swap"
    /\ UNCHANGED <<quit_, pendingFunctors_, functors, eventfd, wpc, given,
                   executed, wakeupCalled, early>>

Swap ==
    /\ pc = "swap"
    /\ functors' = pendingFunctors_
    /\ pendingFunctors_' = <<>>
    /\ wakeupCalled' = FALSE
    /\ pc' = "run"
    /\ UNCHANGED <<quit_, callingPendingFunctors, eventfd, wpc, given, executed,
                   early>>

\* Mutant: the vector is worked off from its end.
CallFunctor_LastFirst ==
    /\ pc = "run"
    /\ functors /= <<>>
    /\ executed' = Append(executed, functors[Len(functors)])
    /\ functors' = SubSeq(functors, 1, Len(functors) - 1)
    /\ pc' = "functor"
    /\ UNCHANGED <<quit_, callingPendingFunctors, pendingFunctors_, eventfd,
                   wpc, given, wakeupCalled, early>>

CallFunctor ==
    /\ pc = "run"
    /\ functors /= <<>>
    /\ executed' = Append(executed, Head(functors))
    /\ functors' = Tail(functors)
    /\ pc' = "functor"
    /\ UNCHANGED <<quit_, callingPendingFunctors, pendingFunctors_, eventfd,
                   wpc, given, wakeupCalled, early>>

FunctorReturns ==
    /\ pc = "functor"
    /\ pc' = "run"
    /\ UNCHANGED <<quit_, callingPendingFunctors, pendingFunctors_, functors,
                   eventfd, wpc, given, executed, wakeupCalled, early>>

\* Mutant: pendingFunctors_ is cleared after the calls.
ClearCalling_ClearsPending ==
    /\ pc = "run"
    /\ functors = <<>>
    /\ callingPendingFunctors' = FALSE
    /\ pendingFunctors_' = <<>>
    /\ pc' = "test"
    /\ UNCHANGED <<quit_, functors, eventfd, wpc, given, executed, wakeupCalled,
                   early>>

ClearCalling ==
    /\ pc = "run"
    /\ functors = <<>>
    /\ callingPendingFunctors' = FALSE
    /\ pc' = "test"
    /\ UNCHANGED <<quit_, pendingFunctors_, functors, eventfd, wpc, given,
                   executed, wakeupCalled, early>>

----------------------------------------------------------------------------
Worker(w) ==
    \/ \E f \in Functors : queueInLoop(w, f)
    \/ quit(w)
    \/ WorkerWakeup(w)

ClientCode ==
    \/ \E f \in Functors : queueInLoopSelf(f)
    \/ \E f \in Functors : runInLoopSelf(f)
    \/ quitSelf

LoopThread ==
    \/ StartLoop
    \/ TestQuit
    \/ PollReturns
    \/ CallbacksReturn
    \/ SetCalling
    \/ Swap
    \/ CallFunctor
    \/ FunctorReturns
    \/ ClearCalling

Next == LoopThread \/ ClientCode \/ \E w \in Workers : Worker(w)

Spec == Init /\ [][Next]_vars

\* The loop's owner calls loop() once, its thread keeps running, client code
\* returns, and poll(2) returns within kPollTimeMs.  A worker inside
\* queueInLoop or quit finishes it; nobody has to call them, nor loop() a
\* second time.
FairSpec ==
    /\ Spec
    /\ WF_vars(pc /= "stopped" /\ LoopThread)
    /\ \A w \in Workers : WF_vars(WorkerWakeup(w))

----------------------------------------------------------------------------
(* Properties.                                                             *)

\* The queue a caller sees is what is left of the running batch, then what
\* was queued since: the loop implements FunctorQueue with it.
Queue == INSTANCE FunctorQueue WITH queue <- functors \o pendingFunctors_
QueueSpec == Queue!Spec

Elements(s) == {s[i] : i \in 1 .. Len(s)}

\* When the loop sleeps in poll(2) although functors are pending, wakeup()
\* was called after they were queued, or their caller is about to call it.
\* The condition in queueInLoop misses one case and no other: functors the
\* loop thread itself queued while loop() was not running.
WakeupRequested ==
    pc = "poll" =>
        \/ Elements(pendingFunctors_) \subseteq early
        \/ wakeupCalled
        \/ \E w \in Workers : wpc[w] = "wakeup"

\* A functor handed to a loop is executed, unless the loop stops first.
FunctorIsExecuted ==
    \A f \in Functors :
        f \in given ~> (f \in Elements(executed) \/ pc = "stopped")

\* quit() on a running loop makes loop() return, at the latest when the
\* current poll(2) times out.
QuitStopsLoop == (quit_ /\ pc /= "created") ~> pc = "stopped"

\* wakeup() makes poll(2) return at once, by making wakeupFd_ readable:
\* runInLoop.md.
WakeupReachesPoll == pc = "poll" /\ wakeupCalled => WakeupReadable
============================================================================
