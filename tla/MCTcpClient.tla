---------------------------- MODULE MCTcpClient ----------------------------
(***************************************************************************)
(* Three sockets, used up by three deleted tasks.                          *)
(***************************************************************************)
EXTENDS TcpClient
=============================================================================
