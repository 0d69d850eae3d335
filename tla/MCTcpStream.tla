---------------------------- MODULE MCTcpStream ----------------------------
(***************************************************************************)
(* A router of one or two outputs; a recv may take all there is.           *)
(***************************************************************************)
EXTENDS TcpStream
=============================================================================
