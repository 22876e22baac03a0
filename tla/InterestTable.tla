--------------------------- MODULE InterestTable ---------------------------
(* What a poller promises the owners of channels: the kernel watches each  *)
(* fd for the events its channel asks for, no more and no fewer, and an    *)
(* operation on one channel concerns one fd.                               *)
CONSTANTS Fds, Flags        \* the file descriptors, the events of a mask

VARIABLES asked, watched    \* events asked for, and watched, by fd

TypeOK ==
    /\ asked \in [Fds -> SUBSET Flags]
    /\ watched \in [Fds -> SUBSET Flags]

Init ==
    /\ asked = [f \in Fds |-> {}]
    /\ watched = asked

\* The channel of f asks for mask, or is gone.
Ask(f, mask) ==
    /\ asked' = [asked EXCEPT ![f] = mask]
    /\ watched' = asked'

Next == \E f \in Fds, mask \in SUBSET Flags : Ask(f, mask)

Spec == Init /\ [][Next]_<<asked, watched>>

============================================================================
