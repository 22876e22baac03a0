--------------------------- MODULE MCTcpConnection ---------------------------
(* Model checking instance of TcpConnection.                               *)
EXTENDS TcpConnection
============================================================================
