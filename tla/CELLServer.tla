----------------------------- MODULE CELLServer ------------------------------
(***************************************************************************)
(* The service threads of the server: depends/include/CELLServer.hpp with  *)
(* the epoll back end of CELLEpollServer.hpp and the client objects of     *)
(* CELLClient.hpp.  Each thread owns a table of clients keyed by socket,   *)
(* takes new clients from a locked buffer that the accept thread fills,    *)
(* and drops the clients whose heartbeat stopped or whose socket failed.   *)
(*                                                                         *)
(* The buffer is a set: the order in which a batch joins changes nothing   *)
(* these modules state.  Time is abstract: any client may be found dead.   *)
(* A client pointer stays a value after its object is deleted, so that a   *)
(* dangling pointer is a state the invariants can see.                     *)
(***************************************************************************)
EXTENDS Integers, FiniteSets

CONSTANTS
  NServers,    \* service threads (nThread of server.cpp)
  Clients,     \* connections, each accepted once: the bound on accepts
  Fds,         \* socket numbers the kernel hands out, lowest wins or not
  NoClient,
  InvalidSocket

ASSUME ServerAssumption ==
  /\ NServers \in Nat \ {0}
  /\ IsFiniteSet(Clients) /\ IsFiniteSet(Fds)
  /\ NoClient \notin Clients /\ InvalidSocket \notin Fds

Servers == 1..NServers

VARIABLES
  obj,          \* obj[c]: none, socket (accepted, no object yet), object, freed
  sock,         \* sock[c]: _sockfd
  openFds,      \* socket numbers in use
  clientCount,  \* EasyTcpServer::_clientCount
  table,        \* table[s]: _clients of s, by socket
  pending,      \* pending[s]: the part of _clientsBuff not yet joined
  joined,       \* joined[s]: the part of _clientsBuff already in the table
  run,          \* run[s]: _isRun of the thread of s
  spc,          \* spc[s]: where the thread of s is
  victim,       \* victim[s]: the client being dropped by s
  failed        \* history: an epoll_wait has failed

clientVars == <<obj, sock, openFds, clientCount>>
serverVars == <<table, pending, joined, run, spc, victim, failed>>

SInit ==
  /\ obj = [c \in Clients |-> "none"]
  /\ sock = [c \in Clients |-> InvalidSocket]
  /\ openFds = {}
  /\ clientCount = 0
  /\ table = [s \in Servers |-> [fd \in Fds |-> NoClient]]
  /\ pending = [s \in Servers |-> {}]
  /\ joined = [s \in Servers |-> {}]
  /\ run = [s \in Servers |-> TRUE]
  /\ spc = [s \in Servers |-> "top"]
  /\ victim = [s \in Servers |-> NoClient]
  /\ failed = FALSE

Keys(s) == {fd \in Fds : table[s][fd] # NoClient}
Members(s) == {table[s][fd] : fd \in Keys(s)}

\* getClientCount() reads the sizes of the table and of the buffer, unlocked.
getClientCount(s) ==
  Cardinality(Keys(s)) + Cardinality(pending[s]) + Cardinality(joined[s])

\* The thread of s holds the buffer's mutex.
Locked(s) == spc[s] = "join"

Go(s, from, to) == spc[s] = from /\ spc' = [spc EXCEPT ![s] = to]

\* ~CELLClient() closes the socket of each deleted object.
DeleteClients(C) ==
  /\ obj' = [c \in Clients |-> IF c \in C THEN "freed" ELSE obj[c]]
  /\ openFds' = openFds \ {sock[c] : c \in C}
  /\ UNCHANGED sock

-----------------------------------------------------------------------------
(* The loop of OnRun *)

\* Mutant of LoopTop: the loop does not look at the flag.
LoopForever(s) ==
  /\ Go(s, "top", "peek")
  /\ UNCHANGED <<clientVars, table, pending, joined, run, victim, failed>>

LoopTop(s) ==
  /\ IF run[s] THEN Go(s, "top", "peek") ELSE Go(s, "top", "clear")
  /\ UNCHANGED <<clientVars, table, pending, joined, run, victim, failed>>

\* if (_clients.empty()), a table only this thread writes: nothing to do.
AfterJoin(s) == IF Keys(s) = {} THEN "top" ELSE "time"

\* Mutant of PeekBuffer: the test for an empty table comes first.
PeekBufferLate(s) ==
  /\ Go(s, "peek", IF Keys(s) = {} THEN "top"
                   ELSE IF pending[s] = {} THEN "time" ELSE "join")
  /\ UNCHANGED <<clientVars, table, pending, joined, run, victim, failed>>

\* if (!_clientsBuff.empty()), read without the mutex, which is then taken.
PeekBuffer(s) ==
  /\ Go(s, "peek", IF pending[s] = {} THEN AfterJoin(s) ELSE "join")
  /\ UNCHANGED <<clientVars, table, pending, joined, run, victim, failed>>

\* Mutant of JoinOne: the buffer keeps the client.
JoinOneKeeps(s, c) ==
  /\ spc[s] = "join"
  /\ c \in pending[s]
  /\ table' = [table EXCEPT ![s][sock[c]] = c]
  /\ joined' = [joined EXCEPT ![s] = @ \cup {c}]
  /\ clientCount' = clientCount + 1
  /\ UNCHANGED <<obj, sock, openFds, run, spc, victim, failed, pending>>

\* One turn of the loop over the buffer.
JoinOne(s, c) ==
  /\ spc[s] = "join"
  /\ c \in pending[s]
  /\ table' = [table EXCEPT ![s][sock[c]] = c]
  /\ pending' = [pending EXCEPT ![s] = @ \ {c}]
  /\ joined' = [joined EXCEPT ![s] = @ \cup {c}]
  /\ clientCount' = clientCount + 1
  /\ UNCHANGED <<obj, sock, openFds, run, spc, victim, failed>>

\* _clientsBuff.clear(), and the mutex is released.
JoinDone(s) ==
  /\ pending[s] = {}
  /\ joined' = [joined EXCEPT ![s] = {}]
  /\ Go(s, "join", AfterJoin(s))
  /\ UNCHANGED <<clientVars, table, pending, run, victim, failed>>

\* CheckTime(): a client whose heartbeat stopped leaves and is deleted, ...
TimeDead(s, fd) ==
  /\ table[s][fd] # NoClient
  /\ Go(s, "time", "erase")
  /\ victim' = [victim EXCEPT ![s] = table[s][fd]]
  /\ clientCount' = clientCount - 1
  /\ DeleteClients({table[s][fd]})
  /\ UNCHANGED <<table, pending, joined, run, failed>>

\* Mutant of TimeErase: the entry stays.
TimeEraseSkipped(s) ==
  /\ Go(s, "erase", "time")
  /\ victim' = [victim EXCEPT ![s] = NoClient]
  /\ UNCHANGED <<clientVars, table, pending, joined, run, failed>>

\* ... and only then taken out of the table, through the saved iterator.
TimeErase(s) ==
  /\ Go(s, "erase", "time")
  /\ table' = [table EXCEPT ![s][sock[victim[s]]] = NoClient]
  /\ victim' = [victim EXCEPT ![s] = NoClient]
  /\ UNCHANGED <<clientVars, pending, joined, run, failed>>

TimeEnd(s) ==
  /\ Go(s, "time", "events")
  /\ UNCHANGED <<clientVars, table, pending, joined, run, victim, failed>>

-----------------------------------------------------------------------------
(* DoNetEvents() *)

\* epoll_wait fails: OnRun calls Exit(), which tests the flag, ...
WaitFails(s) ==
  /\ Go(s, "events", IF run[s] THEN "exit" ELSE "clear")
  /\ failed' = TRUE
  /\ UNCHANGED <<clientVars, table, pending, joined, run, victim>>

\* ... locks the thread's mutex and clears it; OnRun leaves its loop.
ExitLocked(s) ==
  /\ Go(s, "exit", "clear")
  /\ run' = [run EXCEPT ![s] = FALSE]
  /\ UNCHANGED <<clientVars, table, pending, joined, victim, failed>>

\* Mutant of EventLost: the client stays in the table.
EventLostKeeps(s, fd) ==
  /\ table[s][fd] # NoClient
  /\ Go(s, "events", "leave")
  /\ victim' = [victim EXCEPT ![s] = table[s][fd]]
  /\ UNCHANGED <<clientVars, table, pending, joined, run, failed>>

\* An event whose recv or send fails: rmClient() takes the client out of the
\* table by its socket, ...
EventLost(s, fd) ==
  /\ table[s][fd] # NoClient
  /\ Go(s, "events", "leave")
  /\ victim' = [victim EXCEPT ![s] = table[s][fd]]
  /\ table' = [table EXCEPT ![s][sock[table[s][fd]]] = NoClient]
  /\ UNCHANGED <<clientVars, pending, joined, run, failed>>

\* Mutant of OnClientLeave: OnNetLeave() is not called.
OnClientLeaveUncounted(s) ==
  /\ Go(s, "leave", "events")
  /\ DeleteClients({victim[s]})
  /\ victim' = [victim EXCEPT ![s] = NoClient]
  /\ UNCHANGED <<clientCount, table, pending, joined, run, failed>>

\* ... and OnClientLeave() counts it out and deletes it.
OnClientLeave(s) ==
  /\ Go(s, "leave", "events")
  /\ clientCount' = clientCount - 1
  /\ DeleteClients({victim[s]})
  /\ victim' = [victim EXCEPT ![s] = NoClient]
  /\ UNCHANGED <<table, pending, joined, run, failed>>

\* The events are handled and DoMsg() has run.
EventsEnd(s) ==
  /\ Go(s, "events", "top")
  /\ UNCHANGED <<clientVars, table, pending, joined, run, victim, failed>>

-----------------------------------------------------------------------------
(* ClearClients(), the thread's destroy callback *)

ClearTable(s) ==
  /\ Go(s, "clear", "clearBuffer")
  /\ DeleteClients(Members(s))
  /\ table' = [table EXCEPT ![s] = [fd \in Fds |-> NoClient]]
  /\ UNCHANGED <<clientCount, pending, joined, run, victim, failed>>

\* Mutant of ClearBuffer: the clients that never joined are not deleted.
ClearBufferLeaks(s) ==
  /\ Go(s, "clearBuffer", "done")
  /\ pending' = [pending EXCEPT ![s] = {}]
  /\ UNCHANGED <<clientVars, table, joined, run, victim, failed>>

\* The buffer is walked and cleared without its mutex.
ClearBuffer(s) ==
  /\ Go(s, "clearBuffer", "done")
  /\ DeleteClients(pending[s])
  /\ pending' = [pending EXCEPT ![s] = {}]
  /\ UNCHANGED <<clientCount, table, joined, run, victim, failed>>

ServerStep(s) ==
  \/ LoopTop(s) \/ PeekBuffer(s) \/ JoinDone(s)
  \/ TimeErase(s) \/ TimeEnd(s) \/ OnClientLeave(s) \/ EventsEnd(s)
  \/ ClearTable(s) \/ ClearBuffer(s)
  \/ \E c \in Clients : JoinOne(s, c)

\* What the peers, the clock and the kernel may do to the clients of s.
ServerLoss(s) ==
  \/ WaitFails(s)
  \/ \E fd \in Fds : TimeDead(s, fd) \/ EventLost(s, fd)
==============================================================================
