------------------------------ MODULE MCEarlier -------------------------------
(* Model values for checking MemoryMgr and TcpServer with TLC.  A behaviour *)
(* is one of the pools or one of the server: the server sees no difference  *)
(* between a pool and the heap, and a pool none between one thread and      *)
(* another.                                                                 *)
EXTENDS MemoryMgr, TcpServer, TLC

ThreadSymmetry == Permutations(Threads)

\* The one that has not begun.
NoServer == mainPc = "loop" /\ listening /\ \A c \in Conns : sockfd[c] = 0
NoPools ==
  /\ ready = {"obj"} /\ head["obj"] = <<"obj", 0>>
  /\ FreeSlots = DOMAIN held /\ \A t \in Threads : thread[t] = Idle

MCInit == Init /\ TcpInit

MCNext ==
  \/ NoServer /\ Next /\ UNCHANGED tcpVars
  \/ NoPools /\ TcpNext /\ UNCHANGED vars

MCSpec == MCInit /\ [][MCNext]_<<vars, tcpVars>>
==============================================================================
