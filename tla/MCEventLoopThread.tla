-------------------------- MODULE MCEventLoopThread --------------------------
(* Model checking instance of EventLoopThread.                             *)
EXTENDS EventLoopThread
============================================================================
