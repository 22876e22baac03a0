---------------------------- MODULE MCTcpServer ----------------------------
(* Model checking instance of TcpServer: no pool, or one of two threads.   *)
EXTENDS TcpServer

CONSTANTS io1, io2

SomePools == {<<>>, <<io1, io2>>}

============================================================================
