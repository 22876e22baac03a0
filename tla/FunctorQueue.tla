---------------------------- MODULE FunctorQueue ----------------------------
(***************************************************************************)
(* What EventLoop promises the callers of runInLoop and queueInLoop: a     *)
(* functor is executed at most once, by the loop, and the queued ones are  *)
(* executed in the order in which they were queued.                        *)
(***************************************************************************)
EXTENDS Sequences

CONSTANT Functors

VARIABLES
    given,      \* the functors passed to runInLoop or queueInLoop so far
    queue,      \* queued and not yet executed, oldest first
    executed    \* in the order of execution

vars == <<given, queue, executed>>

Init ==
    /\ given = {}
    /\ queue = <<>>
    /\ executed = <<>>

\* Any thread queues a functor.
Queue(f) ==
    /\ f \notin given
    /\ given' = given \cup {f}
    /\ queue' = Append(queue, f)
    /\ UNCHANGED executed

\* runInLoop in the loop thread: executed on the spot.
Execute(f) ==
    /\ f \notin given
    /\ given' = given \cup {f}
    /\ executed' = Append(executed, f)
    /\ UNCHANGED queue

\* The loop executes the oldest queued functor.
ExecuteNext ==
    /\ queue /= <<>>
    /\ executed' = Append(executed, Head(queue))
    /\ queue' = Tail(queue)
    /\ UNCHANGED given

Next == ExecuteNext \/ \E f \in Functors : Queue(f) \/ Execute(f)

Spec == Init /\ [][Next]_vars
============================================================================
