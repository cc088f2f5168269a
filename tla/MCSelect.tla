------------------------------ MODULE MCSelect -------------------------------
(* Model values for checking CELLSelectServer with TLC. *)
EXTENDS CELLSelectServer
==============================================================================
