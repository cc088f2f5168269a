------------------------------ MODULE MCWorker -------------------------------
(* Model values for checking CELLSemaphore and CELLLog, with the task       *)
(* server, with TLC.  They share no state, and a behaviour is one of the    *)
(* semaphore or one of the log: each moves while the other has not begun.   *)
EXTENDS CELLSemaphore, CELLLog

MCInit == SemInit /\ LogInit

MCNext ==
  \/ LogInit /\ SemNext /\ UNCHANGED <<vars, logVars>>
  \/ SemInit /\ LogNext /\ UNCHANGED semVars

\* The fairness is the log's.
MCFairSpec ==
  /\ MCInit /\ [][MCNext]_<<semVars, vars, logVars>>
  /\ WF_<<vars, logVars>>(LogWorker) /\ WF_<<vars, logVars>>(LogCloseReturn)
==============================================================================
