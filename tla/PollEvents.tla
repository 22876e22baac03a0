----------------------------- MODULE PollEvents -----------------------------
(* The event masks of <poll.h> and the ones Channel.cpp builds from them.  *)
(* A mask is the set of its flags.                                         *)
EXTENDS Integers

POLLIN == 1
POLLPRI == 2
POLLOUT == 4
POLLERR == 8
POLLHUP == 16

Flags == {POLLIN, POLLPRI, POLLOUT, POLLERR, POLLHUP}

FlagsOf(mask) == {f \in Flags : (mask \div f) % 2 = 1}

\* The masks as Channel.cpp computes them: the operator is a division.
kNoneEvent  == {}
kReadEvent  == FlagsOf(POLLIN \div POLLPRI)
kWriteEvent == FlagsOf(POLLOUT)

\* poll(2) reports these whether or not they were requested.
AlwaysReported == {POLLERR, POLLHUP}

============================================================================
