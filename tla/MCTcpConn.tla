----------------------------- MODULE MCTcpConn -----------------------------
(* Model-checking instance of TcpConn. *)
EXTENDS TcpConn
=============================================================================
