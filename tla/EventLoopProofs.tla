-------------------------- MODULE EventLoopProofs --------------------------
(***************************************************************************)
(* Proofs about EventLoop, for any set of threads and functors: the loop   *)
(* implements FunctorQueue, and queueInLoop's condition for wakeup()       *)
(* covers every functor that could be slept on.  At the end, proofs about  *)
(* the EventLoopThread whose thread constructs a loop and runs it.         *)
(***************************************************************************)
EXTENDS EventLoop, SequenceTheorems, TLAPS

----------------------------------------------------------------------------
(* The inductive invariant.                                                *)

\* The local vector is empty outside the calls of dePendingFunctors.
BatchOnlyWhileRunning == pc \notin {"run", "functor"} => functors = <<>>

\* The flag says whether dePendingFunctors is running.
FlagIsAccurate ==
    callingPendingFunctors <=> pc \in {"swap", "run", "functor"}

\* Only between the channel callbacks and the swap that follows them may a
\* functor queued inside loop() be pending without a wakeup.
WakeupPending ==
    pc \notin {"dispatch", "flag", "swap"} =>
        \/ Elements(pendingFunctors_) \subseteq early
        \/ wakeupCalled
        \/ \E w \in Workers : wpc[w] = "wakeup"

IInv ==
    /\ TypeOK
    /\ BatchOnlyWhileRunning
    /\ FlagIsAccurate
    /\ WakeupPending

LEMMA InitIInv == Init => IInv
<1> SUFFICES ASSUME Init PROVE IInv
  OBVIOUS
<1>1. TypeOK
  <2>1. <<>> \in Seq(Functors)
    OBVIOUS
  <2>2. wpc \in [Workers -> {"idle", "wakeup"}]
    BY DEF Init
  <2>3. eventfd \in Nat
    BY DEF Init
  <2>4. pc \in LoopPcs
    BY DEF Init, LoopPcs
  <2> QED
    BY <2>1, <2>2, <2>3, <2>4, Zenon DEF Init, TypeOK
<1>2. BatchOnlyWhileRunning /\ WakeupPending
  BY DEF Init, BatchOnlyWhileRunning, WakeupPending, Elements
<1>3. FlagIsAccurate
  BY DEF Init, FlagIsAccurate
<1> QED
  BY <1>1, <1>2, <1>3 DEF IInv

\* The counter stays a number, and a wakeup is recorded.
LEMMA WakeupFacts ==
    ASSUME TypeOK, wakeup PROVE eventfd' \in Nat /\ wakeupCalled' = TRUE
  BY DEF TypeOK, wakeup, EventfdWrite

LEMMA NextIInv == IInv /\ [Next]_vars => IInv'
<1> SUFFICES ASSUME IInv, [Next]_vars PROVE IInv'
  OBVIOUS
<1> USE DEF IInv
<1>1. ASSUME NEW w \in Workers, NEW f \in Functors, queueInLoop(w, f)
      PROVE  IInv'
  <2>1. wpc'[w] = "wakeup"
    BY <1>1 DEF queueInLoop, TypeOK
  <2> QED
    BY <1>1, <2>1 DEF queueInLoop, TypeOK, BatchOnlyWhileRunning,
       FlagIsAccurate, WakeupPending
<1>2. ASSUME NEW w \in Workers, quit(w) PROVE IInv'
  <2>1. wpc'[w] = "wakeup"
    BY <1>2 DEF quit, TypeOK
  <2> QED
    BY <1>2, <2>1 DEF quit, TypeOK, BatchOnlyWhileRunning, FlagIsAccurate,
       WakeupPending
<1>3. ASSUME NEW w \in Workers, WorkerWakeup(w) PROVE IInv'
  <2>1. eventfd' \in Nat /\ wakeupCalled' = TRUE
    BY <1>3, WakeupFacts DEF WorkerWakeup
  <2> QED
    BY <1>3, <2>1 DEF WorkerWakeup, TypeOK, BatchOnlyWhileRunning,
       FlagIsAccurate, WakeupPending
<1>4. ASSUME NEW f \in Functors, queueInLoopSelf(f) PROVE IInv'
  <2>1. CASE callingPendingFunctors
    <3>1. eventfd' \in Nat /\ wakeupCalled' = TRUE
      BY <1>4, <2>1, WakeupFacts DEF queueInLoopSelf
    <3> QED
      BY <1>4, <3>1 DEF queueInLoopSelf, TypeOK, BatchOnlyWhileRunning,
         FlagIsAccurate, WakeupPending
  <2>2. CASE ~callingPendingFunctors /\ pc = "dispatch"
    BY <1>4, <2>2 DEF queueInLoopSelf, OutsideLoop, TypeOK,
       BatchOnlyWhileRunning, FlagIsAccurate, WakeupPending
  <2>3. CASE ~callingPendingFunctors /\ OutsideLoop
    <3>1. Elements(pendingFunctors_') = Elements(pendingFunctors_) \cup {f}
      BY <1>4 DEF queueInLoopSelf, TypeOK, Elements
    <3>2. early' = early \cup {f} /\ UNCHANGED <<wakeupCalled, wpc, pc>>
      BY <1>4, <2>3 DEF queueInLoopSelf
    <3>3. WakeupPending'
      BY <2>3, <3>1, <3>2 DEF WakeupPending, OutsideLoop
    <3> QED
      BY <1>4, <2>3, <3>2, <3>3 DEF queueInLoopSelf, TypeOK,
         BatchOnlyWhileRunning, FlagIsAccurate
  <2>4. callingPendingFunctors \/ pc = "dispatch" \/ OutsideLoop
    BY <1>4 DEF queueInLoopSelf, InClientCode, FlagIsAccurate
  <2> QED
    BY <2>1, <2>2, <2>3, <2>4
<1>5. ASSUME NEW f \in Functors, runInLoopSelf(f) PROVE IInv'
  BY <1>5 DEF runInLoopSelf, TypeOK, BatchOnlyWhileRunning, FlagIsAccurate,
     WakeupPending
<1>6. CASE quitSelf
  BY <1>6 DEF quitSelf, TypeOK, BatchOnlyWhileRunning, FlagIsAccurate,
     WakeupPending
<1>7. CASE StartLoop
  BY <1>7 DEF StartLoop, OutsideLoop, TypeOK, LoopPcs, BatchOnlyWhileRunning,
     FlagIsAccurate, WakeupPending
<1>8. CASE TestQuit
  BY <1>8 DEF TestQuit, TypeOK, LoopPcs, BatchOnlyWhileRunning,
     FlagIsAccurate, WakeupPending
<1>9. CASE PollReturns
  BY <1>9 DEF PollReturns, TypeOK, LoopPcs, BatchOnlyWhileRunning,
     FlagIsAccurate, WakeupPending
<1>10. CASE CallbacksReturn
  BY <1>10 DEF CallbacksReturn, TypeOK, LoopPcs, BatchOnlyWhileRunning,
     FlagIsAccurate, WakeupPending
<1>11. CASE SetCalling
  BY <1>11 DEF SetCalling, TypeOK, LoopPcs, BatchOnlyWhileRunning,
     FlagIsAccurate, WakeupPending
<1>12. CASE Swap
  <2>1. Elements(pendingFunctors_') = {}
    BY <1>12 DEF Swap, Elements
  <2> QED
    BY <1>12, <2>1 DEF Swap, TypeOK, LoopPcs, BatchOnlyWhileRunning,
       FlagIsAccurate, WakeupPending
<1>13. CASE CallFunctor
  <2>1. Tail(functors) \in Seq(Functors) /\ Head(functors) \in Functors
    BY <1>13, HeadTailProperties DEF CallFunctor, TypeOK
  <2> QED
    BY <1>13, <2>1 DEF CallFunctor, TypeOK, LoopPcs, BatchOnlyWhileRunning,
       FlagIsAccurate, WakeupPending
<1>14. CASE FunctorReturns
  BY <1>14 DEF FunctorReturns, TypeOK, LoopPcs, BatchOnlyWhileRunning,
     FlagIsAccurate, WakeupPending
<1>15. CASE ClearCalling
  BY <1>15 DEF ClearCalling, TypeOK, LoopPcs, BatchOnlyWhileRunning,
     FlagIsAccurate, WakeupPending
<1>16. CASE UNCHANGED vars
  BY <1>16 DEF vars, TypeOK, BatchOnlyWhileRunning, FlagIsAccurate,
     WakeupPending
<1> QED
  BY <1>1, <1>2, <1>3, <1>4, <1>5, <1>6, <1>7, <1>8, <1>9, <1>10, <1>11,
     <1>12, <1>13, <1>14, <1>15, <1>16
     DEF Next, LoopThread, ClientCode, Worker

LEMMA Invariance == Spec => []IInv
  BY InitIInv, NextIInv, PTL DEF Spec

----------------------------------------------------------------------------
(* The theorems.                                                           *)

\* Every variable of the loop keeps its type.
THEOREM TypeCorrect == Spec => []TypeOK
<1>1. IInv => TypeOK
  BY DEF IInv
<1> QED
  BY <1>1, Invariance, PTL

\* The loop never sleeps on pending functors without a wakeup() requested,
\* except on those its own thread queued while loop() was not running.
THEOREM NeverSleepsUnrequested == Spec => []WakeupRequested
<1>1. IInv => WakeupRequested
  BY DEF IInv, WakeupPending, WakeupRequested
<1> QED
  BY <1>1, Invariance, PTL

\* The loop implements FunctorQueue: at most once, in queueing order.
THEOREM ImplementsFunctorQueue == Spec => QueueSpec
<1>1. Init => Queue!Init
  BY DEF Init, Queue!Init
<1>2. ASSUME IInv, [Next]_vars PROVE [Queue!Next]_Queue!vars
  <2> USE <1>2 DEF IInv, Queue!Next, Queue!vars
  <2> DEFINE q == functors \o pendingFunctors_
  <2>0. /\ functors \in Seq(Functors) /\ pendingFunctors_ \in Seq(Functors)
        /\ executed \in Seq(Functors)
    BY DEF TypeOK
  <2>1. ASSUME NEW f \in Functors, f \notin given, given' = given \cup {f},
               pendingFunctors_' = Append(pendingFunctors_, f),
               UNCHANGED <<functors, executed>>
        PROVE  Queue!Queue(f)
    <3>1. functors \o Append(pendingFunctors_, f) = Append(q, f)
      BY <2>0
    <3> QED
      BY <2>1, <3>1 DEF Queue!Queue
  <2>2. ASSUME NEW w \in Workers, NEW f \in Functors, queueInLoop(w, f)
        PROVE  Queue!Queue(f)
    BY <2>1, <2>2 DEF queueInLoop
  <2>3. ASSUME NEW f \in Functors, queueInLoopSelf(f)
        PROVE  Queue!Queue(f)
    BY <2>1, <2>3 DEF queueInLoopSelf
  <2>4. ASSUME NEW f \in Functors, runInLoopSelf(f)
        PROVE  Queue!Execute(f)
    BY <2>4 DEF runInLoopSelf, Queue!Execute
  <2>5. CASE CallFunctor
    <3>1. functors /= <<>> /\ executed' = Append(executed, Head(functors))
          /\ functors' = Tail(functors) /\ UNCHANGED <<given, pendingFunctors_>>
      BY <2>5 DEF CallFunctor
    <3>2. /\ q /= <<>> /\ Head(q) = Head(functors)
          /\ Tail(q) = Tail(functors) \o pendingFunctors_
      BY <2>0, <3>1
    <3> QED
      BY <3>1, <3>2 DEF Queue!ExecuteNext
  <2>6. CASE Swap
    <3>1. functors = <<>> /\ functors' = pendingFunctors_
          /\ pendingFunctors_' = <<>> /\ UNCHANGED <<given, executed>>
      BY <2>6 DEF Swap, BatchOnlyWhileRunning
    <3>2. q = pendingFunctors_ /\ pendingFunctors_ \o <<>> = pendingFunctors_
      BY <2>0, <3>1
    <3> QED
      BY <3>1, <3>2
  <2>7. ASSUME UNCHANGED <<given, functors, pendingFunctors_, executed>>
        PROVE  UNCHANGED Queue!vars
    BY <2>7
  <2>8. \/ StartLoop \/ TestQuit \/ PollReturns \/ CallbacksReturn
        \/ SetCalling \/ FunctorReturns \/ ClearCalling \/ quitSelf
        \/ (\E w \in Workers : quit(w) \/ WorkerWakeup(w))
        \/ UNCHANGED vars
        => UNCHANGED Queue!vars
    BY <2>7 DEF StartLoop, TestQuit, PollReturns, CallbacksReturn, SetCalling,
       FunctorReturns, ClearCalling, quitSelf, quit, WorkerWakeup, vars
  <2> QED
    BY <2>2, <2>3, <2>4, <2>5, <2>6, <2>8
       DEF Next, LoopThread, ClientCode, Worker
<1> QED
  BY <1>1, <1>2, Invariance, PTL DEF Spec, QueueSpec, Queue!Spec

----------------------------------------------------------------------------
(* EventLoopThread: the thread around a loop.  Its quit_ is threadQuit     *)
(* here; the loop above is not composed with it.                           *)

CONSTANT Users
VARIABLES opc, tpc, mutex_, waiting, loop_, loopObject, threadQuit, users, dangling

Thread == INSTANCE EventLoopThread WITH quit_ <- threadQuit

\* The owner's and the thread's positions: the thread runs from startLoop on.
Started == tpc = "none" <=> opc \in {"fresh", "crashed"}

\* The pointer is published once the loop exists, and stays.
Published ==
    /\ loop_ = "loop" <=>
          tpc \in {"unlock", "enter", "test", "poll", "leave", "finished"}
    /\ loopObject = "none" <=> tpc \in {"none", "construct"}
    /\ loopObject = "destroyed" <=> tpc = "finished"

\* The owner is past startLoop only with the pointer published.
Returned == opc \in {"using", "wakeup", "join", "gone"} => loop_ = "loop"

\* The thread leaves loop() only after a quit(), and a quit() comes from a
\* user or from the destructor.
LeftByQuit ==
    /\ tpc \in {"leave", "finished"} => threadQuit
    /\ threadQuit => \/ \E u \in Users : users[u] \in {"wakeup", "done", "raced"}
                     \/ opc \in {"wakeup", "join", "gone"}

ThreadIInv ==
    /\ Thread!TypeOK
    /\ Started
    /\ Published
    /\ Returned
    /\ LeftByQuit
    /\ Thread!OnlyUserQuitDangles

LEMMA ThreadInitIInv == Thread!Init => ThreadIInv
<1> SUFFICES ASSUME Thread!Init PROVE ThreadIInv
  OBVIOUS
<1>1. Thread!TypeOK
  BY Zenon DEF Thread!Init, Thread!TypeOK, Thread!OwnerPcs, Thread!ThreadPcs,
     Thread!UserStates
<1>2. Started /\ Published /\ Returned
  BY DEF Thread!Init, Started, Published, Returned
<1>3. LeftByQuit /\ Thread!OnlyUserQuitDangles
  BY DEF Thread!Init, LeftByQuit, Thread!OnlyUserQuitDangles
<1> QED
  BY <1>1, <1>2, <1>3 DEF ThreadIInv

LEMMA ThreadNextIInv == ThreadIInv /\ [Thread!Next]_(Thread!vars) => ThreadIInv'
<1> SUFFICES ASSUME ThreadIInv, [Thread!Next]_(Thread!vars) PROVE ThreadIInv'
  OBVIOUS
<1> USE DEF ThreadIInv, Thread!TypeOK, Thread!OwnerPcs, Thread!ThreadPcs,
        Thread!UserStates, Started, Published, Returned, LeftByQuit, Thread!OnlyUserQuitDangles
<1>1. CASE Thread!startLoop
  BY <1>1 DEF Thread!startLoop
<1>2. CASE Thread!startLoopLock \/ Thread!WaitReturns
  BY <1>2 DEF Thread!startLoopLock, Thread!WaitReturns
<1>3. CASE Thread!startLoopCheck
  BY <1>3 DEF Thread!startLoopCheck
<1>4. CASE Thread!SpuriousWakeup
  BY <1>4 DEF Thread!SpuriousWakeup
<1>5. CASE Thread!JoinReturns
  BY <1>5 DEF Thread!JoinReturns
<1>6. ASSUME NEW u \in Users, Thread!UserQuit(u) PROVE ThreadIInv'
  <2>1. CASE loopObject = "alive"
    <3>1. users'[u] = "wakeup"
      BY <1>6, <2>1 DEF Thread!UserQuit
    <3> QED
      BY <1>6, <2>1, <3>1 DEF Thread!UserQuit, Thread!quitLoop
  <2>2. CASE loopObject /= "alive"
    <3>1. PICK v \in Users : users[v] \in {"wakeup", "done", "raced"}
      BY <1>6, <2>2 DEF Thread!UserQuit
    <3>2. users'[v] = users[v]
      BY <1>6, <3>1 DEF Thread!UserQuit
    <3> QED
      BY <1>6, <2>2, <3>1, <3>2 DEF Thread!UserQuit, Thread!quitLoop
  <2> QED
    BY <2>1, <2>2
<1>7. CASE Thread!Destructor
  BY <1>7 DEF Thread!Destructor, Thread!quitLoop
<1>17. ASSUME NEW u \in Users, Thread!UserWakeup(u) PROVE ThreadIInv'
  <2>1. users'[u] \in {"done", "raced"}
    BY <1>17 DEF Thread!UserWakeup
  <2> QED
    BY <1>17, <2>1 DEF Thread!UserWakeup
<1>18. CASE Thread!DestructorWakeup
  BY <1>18 DEF Thread!DestructorWakeup
<1>8. CASE Thread!ConstructLoop
  BY <1>8 DEF Thread!ConstructLoop
<1>9. CASE Thread!PublishLock
  BY <1>9 DEF Thread!PublishLock
<1>10. CASE Thread!Publish
  BY <1>10 DEF Thread!Publish
<1>11. CASE Thread!PublishUnlock
  BY <1>11 DEF Thread!PublishUnlock
<1>12. CASE Thread!EnterLoop
  BY <1>12 DEF Thread!EnterLoop
<1>13. CASE Thread!TestQuit
  BY <1>13 DEF Thread!TestQuit
<1>14. CASE Thread!PollReturns
  BY <1>14 DEF Thread!PollReturns
<1>15. CASE Thread!ThreadReturns
  BY <1>15 DEF Thread!ThreadReturns
<1>16. CASE UNCHANGED Thread!vars
  BY <1>16 DEF Thread!vars
<1> QED
  BY <1>1, <1>2, <1>3, <1>4, <1>5, <1>6, <1>7, <1>8, <1>9, <1>10, <1>11, <1>12,
     <1>13, <1>14, <1>15, <1>16, <1>17, <1>18
     DEF Thread!Next, Thread!Owner, Thread!ThreadFunc

LEMMA ThreadInvariance == Thread!Spec => []ThreadIInv
  BY ThreadInitIInv, ThreadNextIInv, PTL DEF Thread!Spec

\* The mutex is held in the critical sections and nowhere else, and
\* cond_.wait() sleeps without it; every variable keeps its type.
THEOREM ThreadTypeCorrect == Thread!Spec => []Thread!TypeOK
<1>1. ThreadIInv => Thread!TypeOK
  BY DEF ThreadIInv
<1> QED
  BY <1>1, ThreadInvariance, PTL

\* startLoop returns only with the loop constructed and its address published,
\* however the threads interleave and the wait wakes up.
THEOREM StartLoopWaits == Thread!Spec => []Thread!StartLoopReturnsLoop
<1>1. ThreadIInv => Thread!StartLoopReturnsLoop
  BY DEF ThreadIInv, Returned, Published, Thread!StartLoopReturnsLoop
<1> QED
  BY <1>1, ThreadInvariance, PTL

\* A call of quit(), by ~EventLoopThread or by a user of the pointer, begins
\* on a destroyed EventLoop only if a user's quit() had reached the loop
\* before.
THEOREM OnlyUsersEndTheLoopEarly == Thread!Spec => []Thread!OnlyUserQuitDangles
<1>1. ThreadIInv => Thread!OnlyUserQuitDangles
  BY DEF ThreadIInv
<1> QED
  BY <1>1, ThreadInvariance, PTL

\* ~EventLoopThread dereferences a null loop_ only if startLoop was never
\* called.
THEOREM NullOnlyIfNeverStarted == Thread!Spec => [](opc = "crashed" => tpc = "none")
<1>1. ThreadIInv => (opc = "crashed" => tpc = "none")
  BY DEF ThreadIInv, Started
<1> QED
  BY <1>1, ThreadInvariance, PTL

============================================================================
