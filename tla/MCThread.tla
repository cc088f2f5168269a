------------------------------ MODULE MCThread -------------------------------
(* Model values for checking CELLThread with TLC. *)
EXTENDS CELLThread, TLC

CallerSymmetry == Permutations(Callers)
==============================================================================
