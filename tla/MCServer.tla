------------------------------ MODULE MCServer -------------------------------
(* Model values for checking EasyTcpServer with TLC. *)
EXTENDS EasyTcpServer
==============================================================================
