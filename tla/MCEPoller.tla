----------------------------- MODULE MCEPoller -----------------------------
(* Model checking instance of EPoller.                                     *)
EXTENDS EPoller, TLC

\* Channel objects are interchangeable.
ChannelSymmetry == Permutations(Channels)

============================================================================
