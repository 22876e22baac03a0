------------------------------ MODULE MCPoller ------------------------------
(* Model checking instance of Poller.                                      *)
EXTENDS Poller, TLC

\* Channel objects are interchangeable.
ChannelSymmetry == Permutations(Channels)

============================================================================
