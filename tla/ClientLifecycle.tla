--------------------------- MODULE ClientLifecycle ---------------------------
(***************************************************************************)
(* What the server promises about each accepted connection, whichever      *)
(* threads carry it out: it is accepted, handed to one service thread,     *)
(* taken over by that thread and by no other, and destroyed once.  A       *)
(* socket number belongs to one living connection at a time.               *)
(***************************************************************************)
CONSTANTS Clients, Servers, Fds, NoServer, NoFd

VARIABLES
  stage,    \* stage[c]: how far connection c has come
  server,   \* server[c]: the service thread it was handed to
  socket    \* socket[c]: its socket number while it lives

lifeVars == <<stage, server, socket>>

LInit ==
  /\ stage = [c \in Clients |-> "none"]
  /\ server = [c \in Clients |-> NoServer]
  /\ socket = [c \in Clients |-> NoFd]

\* The kernel gives an unused number to the new connection.
LAccept(c, fd) ==
  /\ stage[c] = "none"
  /\ \A d \in Clients : socket[d] # fd
  /\ stage' = [stage EXCEPT ![c] = "accepted"]
  /\ socket' = [socket EXCEPT ![c] = fd]
  /\ UNCHANGED server

LHandOver(c, s) ==
  /\ stage[c] = "accepted"
  /\ stage' = [stage EXCEPT ![c] = "queued"]
  /\ server' = [server EXCEPT ![c] = s]
  /\ UNCHANGED socket

LJoin(c) ==
  /\ stage[c] = "queued"
  /\ stage' = [stage EXCEPT ![c] = "serving"]
  /\ UNCHANGED <<server, socket>>

\* Destruction of one connection, or of all that one thread holds in a queue
\* or in its table.
LDestroy(C) ==
  /\ \A c \in C : stage[c] \in {"accepted", "queued", "serving"}
  /\ stage' = [c \in Clients |-> IF c \in C THEN "gone" ELSE stage[c]]
  /\ server' = [c \in Clients |-> IF c \in C THEN NoServer ELSE server[c]]
  /\ socket' = [c \in Clients |-> IF c \in C THEN NoFd ELSE socket[c]]

LNext ==
  \/ \E c \in Clients, fd \in Fds : LAccept(c, fd)
  \/ \E c \in Clients, s \in Servers : LHandOver(c, s)
  \/ \E c \in Clients : LJoin(c)
  \/ \E C \in SUBSET Clients : LDestroy(C)

LSpec == LInit /\ [][LNext]_lifeVars
==============================================================================
