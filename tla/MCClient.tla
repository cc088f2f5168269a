------------------------------ MODULE MCClient -------------------------------
(* Model values for checking EasyTcpClient with TLC. *)
EXTENDS EasyTcpClient
==============================================================================
