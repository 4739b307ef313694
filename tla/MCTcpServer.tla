---------------------------- MODULE MCTcpServer ----------------------------
(* Model-checking instance of TcpServer on its EventLoop. *)
EXTENDS TcpServer

MCArrivals == <<"c1", "c2", "c3">>
=============================================================================
