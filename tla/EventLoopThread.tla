--------------------------- MODULE EventLoopThread ---------------------------
(***************************************************************************)
(* EventLoopThread (EventLoopThread.h/.cpp) with the Thread, MutexLock and *)
(* Condition it uses: the owner constructs it, calls startLoop, uses the   *)
(* returned EventLoop, and destroys it, while the new thread constructs an *)
(* EventLoop on its own stack, publishes its address, runs loop() and      *)
(* destroys the EventLoop when loop() returns.  Users is a set of further  *)
(* threads that were given the pointer startLoop returned.                 *)
(***************************************************************************)
EXTENDS Naturals

CONSTANT Users

VARIABLES
    opc,        \* the owner
    tpc,        \* the thread running threadFunc
    mutex_,     \* who holds it: "none", "owner" or "thread"
    waiting,    \* the owner sleeps in cond_.wait()
    loop_,      \* the published pointer: "null" or "loop"
    loopObject, \* the EventLoop on threadFunc's stack
    quit_,      \* its quit_ flag
    users,      \* the quit() of each user of the returned pointer
    dangling    \* how the destructor's quit() met a destroyed EventLoop

vars == <<opc, tpc, mutex_, waiting, loop_, loopObject, quit_, users, dangling>>

\* "fresh": constructed.  "start": in startLoop, before the lock.  "check":
\* at while(loop_ == nullptr).  "wait": in cond_.wait().  "using": startLoop
\* returned.  "wakeup": ~EventLoopThread is in quit(), past its assignment.
\* "join": at thread_.join().  "gone": destroyed.  "crashed":
\* ~EventLoopThread dereferenced a null loop_.
OwnerPcs == {"fresh", "start", "check", "wait", "using", "wakeup", "join",
             "gone", "crashed"}

\* "none": not started.  "construct": at EventLoop loop.  "lock", "publish":
\* around the critical section.  "enter": about to call loop().  "test" and
\* "poll": in loop().  "leave": loop() returned.  "finished".
ThreadPcs == {"none", "construct", "lock", "publish", "unlock", "enter",
              "test", "poll", "leave", "finished"}

\* A user is "ready", in quit() ("wakeup"), past it ("done"), or its quit()
\* met a destroyed EventLoop: at its start ("late"), or between the
\* assignment to quit_ and the call of wakeup() ("raced").
UserStates == {"ready", "wakeup", "done", "late", "raced"}

\* The mutex is held in the critical sections and nowhere else; cond_.wait()
\* sleeps without it.
TypeOK ==
    /\ opc \in OwnerPcs
    /\ tpc \in ThreadPcs
    /\ mutex_ \in {"none", "owner", "thread"}
    /\ waiting \in BOOLEAN
    /\ loop_ \in {"null", "loop"}
    /\ loopObject \in {"none", "alive", "destroyed"}
    /\ quit_ \in BOOLEAN
    /\ users \in [Users -> UserStates]
    /\ dangling \in {"no", "late", "raced"}
    /\ mutex_ = "owner" <=> opc = "check"
    /\ mutex_ = "thread" <=> tpc \in {"publish", "unlock"}
    /\ waiting => opc = "wait"

Init ==
    /\ opc = "fresh"
    /\ tpc = "none"
    /\ mutex_ = "none"
    /\ waiting = FALSE
    /\ loop_ = "null"
    /\ loopObject = "none"
    /\ quit_ = FALSE
    /\ users = [u \in Users |-> "ready"]
    /\ dangling = "no"

----------------------------------------------------------------------------
(* The owner.                                                              *)

\* startLoop: assert(!thread_.started()), thread_.start().
startLoop ==
    /\ opc = "fresh"
    /\ opc' = "start"
    /\ tpc' = "construct"
    /\ UNCHANGED <<mutex_, waiting, loop_, loopObject, quit_, users, dangling>>

startLoopLock ==
    /\ opc = "start" /\ mutex_ = "none"
    /\ mutex_' = "owner"
    /\ opc' = "check"
    /\ UNCHANGED <<tpc, waiting, loop_, loopObject, quit_, users, dangling>>

\* Mutant: the mutex is not released while waiting.
startLoopCheck_KeepsMutex ==
    /\ opc = "check"
    /\ IF loop_ = "null"
       THEN opc' = "wait" /\ waiting' = TRUE /\ UNCHANGED mutex_
       ELSE opc' = "using" /\ mutex_' = "none" /\ UNCHANGED waiting
    /\ UNCHANGED <<tpc, loop_, loopObject, quit_, users, dangling>>

\* Either the loop is there and startLoop returns it, or cond_.wait()
\* releases the mutex and sleeps.
startLoopCheck ==
    /\ opc = "check"
    /\ mutex_' = "none"
    /\ IF loop_ = "null"
       THEN opc' = "wait" /\ waiting' = TRUE
       ELSE opc' = "using" /\ UNCHANGED waiting
    /\ UNCHANGED <<tpc, loop_, loopObject, quit_, users, dangling>>

\* pthread_cond_wait may return without a signal.
SpuriousWakeup ==
    /\ waiting
    /\ waiting' = FALSE
    /\ UNCHANGED <<opc, tpc, mutex_, loop_, loopObject, quit_, users, dangling>>

\* Mutant: `if' instead of `while' around cond_.wait().
WaitReturns_NoRecheck ==
    /\ opc = "wait" /\ ~waiting /\ mutex_ = "none"
    /\ opc' = "using"
    /\ UNCHANGED <<tpc, mutex_, waiting, loop_, loopObject, quit_, users, dangling>>

\* A woken waiter takes the mutex again and re-evaluates the condition.
WaitReturns ==
    /\ opc = "wait" /\ ~waiting /\ mutex_ = "none"
    /\ mutex_' = "owner"
    /\ opc' = "check"
    /\ UNCHANGED <<tpc, waiting, loop_, loopObject, quit_, users, dangling>>

\* EventLoop::quit begins with quit_ = true; on a destroyed loop the write
\* goes to a dead stack frame.
quitLoop == IF loopObject = "alive" THEN quit_' = TRUE ELSE UNCHANGED quit_

\* A thread that was given the pointer stops the loop.
UserQuit(u) ==
    /\ opc = "using"
    /\ users[u] = "ready"
    /\ quitLoop
    /\ users' = [users EXCEPT
           ![u] = IF loopObject = "alive" THEN "wakeup" ELSE "late"]
    /\ UNCHANGED <<opc, tpc, mutex_, waiting, loop_, loopObject, dangling>>

\* The rest of quit(): isInLoopThread() reads threadId_, wakeup() wakeupFd_.
\* The loop thread may have seen quit_ and destroyed the loop meanwhile.
UserWakeup(u) ==
    /\ users[u] = "wakeup"
    /\ users' = [users EXCEPT
           ![u] = IF loopObject = "alive" THEN "done" ELSE "raced"]
    /\ UNCHANGED <<opc, tpc, mutex_, waiting, loop_, loopObject, quit_, dangling>>

\* ~EventLoopThread: loop_->quit(), in two steps too, then thread_.join().
Destructor ==
    /\ opc \in {"fresh", "using"}
    /\ IF loop_ = "null"
       THEN opc' = "crashed" /\ UNCHANGED <<quit_, dangling>>
       ELSE /\ opc' = "wakeup"
            /\ quitLoop
            /\ dangling' = IF loopObject = "alive" THEN "no" ELSE "late"
    /\ UNCHANGED <<tpc, mutex_, waiting, loop_, loopObject, users>>

DestructorWakeup ==
    /\ opc = "wakeup"
    /\ opc' = "join"
    /\ dangling' = IF dangling = "no" /\ loopObject /= "alive" THEN "raced"
                                                            ELSE dangling
    /\ UNCHANGED <<tpc, mutex_, waiting, loop_, loopObject, quit_, users>>

JoinReturns ==
    /\ opc = "join" /\ tpc = "finished"
    /\ opc' = "gone"
    /\ UNCHANGED <<tpc, mutex_, waiting, loop_, loopObject, quit_, users, dangling>>

----------------------------------------------------------------------------
(* threadFunc.                                                             *)

ConstructLoop ==
    /\ tpc = "construct"
    /\ loopObject' = "alive"
    /\ quit_' = FALSE
    /\ tpc' = "lock"
    /\ UNCHANGED <<opc, mutex_, waiting, loop_, users, dangling>>

PublishLock ==
    /\ tpc = "lock" /\ mutex_ = "none"
    /\ mutex_' = "thread"
    /\ tpc' = "publish"
    /\ UNCHANGED <<opc, waiting, loop_, loopObject, quit_, users, dangling>>

\* Mutant: the signal is forgotten.
Publish_NoNotify ==
    /\ tpc = "publish"
    /\ loop_' = "loop"
    /\ tpc' = "unlock"
    /\ UNCHANGED <<opc, mutex_, waiting, loopObject, quit_, users, dangling>>

\* loop_ = &loop; cond_.notify().
Publish ==
    /\ tpc = "publish"
    /\ loop_' = "loop"
    /\ waiting' = FALSE
    /\ tpc' = "unlock"
    /\ UNCHANGED <<opc, mutex_, loopObject, quit_, users, dangling>>

PublishUnlock ==
    /\ tpc = "unlock"
    /\ mutex_' = "none"
    /\ tpc' = "enter"
    /\ UNCHANGED <<opc, waiting, loop_, loopObject, quit_, users, dangling>>

\* EventLoop::loop begins with quit_ = false.
EnterLoop ==
    /\ tpc = "enter"
    /\ quit_' = FALSE
    /\ tpc' = "test"
    /\ UNCHANGED <<opc, mutex_, waiting, loop_, loopObject, users, dangling>>

\* Mutant: the loop does not look at quit_.
TestQuit_Ignored ==
    /\ tpc = "test"
    /\ tpc' = "poll"
    /\ UNCHANGED <<opc, mutex_, waiting, loop_, loopObject, quit_, users, dangling>>

TestQuit ==
    /\ tpc = "test"
    /\ tpc' = IF quit_ THEN "leave" ELSE "poll"
    /\ UNCHANGED <<opc, mutex_, waiting, loop_, loopObject, quit_, users, dangling>>

\* Mutant: the loop is left after one iteration.
PollReturns_Leaves ==
    /\ tpc = "poll"
    /\ tpc' = "leave"
    /\ UNCHANGED <<opc, mutex_, waiting, loop_, loopObject, quit_, users, dangling>>

\* poll(2) returns, at the latest after kPollTimeMs.
PollReturns ==
    /\ tpc = "poll"
    /\ tpc' = "test"
    /\ UNCHANGED <<opc, mutex_, waiting, loop_, loopObject, quit_, users, dangling>>

\* The end of threadFunc destroys the EventLoop; loop_ keeps its address.
ThreadReturns ==
    /\ tpc = "leave"
    /\ loopObject' = "destroyed"
    /\ tpc' = "finished"
    /\ UNCHANGED <<opc, mutex_, waiting, loop_, quit_, users, dangling>>

----------------------------------------------------------------------------
Owner ==
    \/ startLoopLock
    \/ startLoopCheck
    \/ WaitReturns
    \/ DestructorWakeup
    \/ JoinReturns

ThreadFunc ==
    \/ ConstructLoop
    \/ PublishLock
    \/ Publish
    \/ PublishUnlock
    \/ EnterLoop
    \/ TestQuit
    \/ PollReturns
    \/ ThreadReturns

Next ==
    \/ startLoop
    \/ Destructor
    \/ SpuriousWakeup
    \/ \E u \in Users : UserQuit(u) \/ UserWakeup(u)
    \/ Owner
    \/ ThreadFunc

Spec == Init /\ [][Next]_vars

\* Both threads keep running, and a thread that keeps asking for the mutex is
\* granted it (hence the strong fairness of the steps that lock it); the
\* owner need not call anything, and no spurious wakeup has to happen.
FairSpec ==
    /\ Spec
    /\ WF_vars(ThreadFunc) /\ SF_vars(PublishLock)
    /\ SF_vars(startLoopLock) /\ WF_vars(startLoopCheck)
    /\ SF_vars(WaitReturns) /\ WF_vars(DestructorWakeup \/ JoinReturns)

----------------------------------------------------------------------------
(* Properties.                                                             *)

\* startLoop never returns before the loop exists and its address is
\* published, whatever the order of the threads and the spurious wakeups.
StartLoopReturnsLoop ==
    opc = "using" => loop_ = "loop" /\ loopObject /= "none"

\* startLoop returns: the signal cannot be lost between the owner's test of
\* loop_ and its wait.
StartLoopReturns == (opc = "start") ~> (opc = "using")

\* Once the thread is in loop(), a quit() makes it finish and lets
\* ~EventLoopThread's join return.
QuitInLoopFinishes ==
    (quit_ /\ tpc \in {"test", "poll"}) ~> (tpc = "finished")

\* Whoever calls quit(), ~EventLoopThread or a user of the pointer, finds the
\* EventLoop already destroyed when the call begins only if a user's earlier
\* quit() had reached the loop.  (A loop destroyed in the middle of quit() is
\* possible for every caller, the destructor on its own included.)
OnlyUserQuitDangles ==
    dangling = "late" \/ (\E u \in Users : users[u] = "late") =>
        \E u \in Users : users[u] \in {"wakeup", "done", "raced"}

============================================================================
