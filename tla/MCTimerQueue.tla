---------------------------- MODULE MCTimerQueue ----------------------------
(* Model checking instance of TimerQueue: times ahead, and one in the past,  *)
(* which at the start of the clock is the invalid time.                      *)
EXTENDS TimerQueue

MCDelays == {-1, 2}
============================================================================
