---------------------------- MODULE EasyTcpServer ----------------------------
(***************************************************************************)
(* The server as a whole: depends/include/EasyTcpServer.hpp with the       *)
(* accept loop of EasyEpollServer.hpp, the service threads of CELLServer,  *)
(* and the main thread of server.cpp that starts and closes them.          *)
(*                                                                         *)
(* A CELLThread is seen through what module CELLThread establishes:        *)
(* Close() of a running thread clears its flag and waits, with the thread's *)
(* mutex in its hand, for the end of its callbacks; Close() of a thread    *)
(* whose Exit() has cleared the flag does not wait.                        *)
(***************************************************************************)
EXTENDS CELLServer

CONSTANTS
  MaxClient    \* _nMaxClient

ASSUME LimitAssumption == MaxClient \in Nat

VARIABLES
  accRun,     \* _isRun of the accept thread
  apc,        \* where the accept thread is
  cur,        \* the connection it is placing
  minServer,  \* pMinServer
  scan,       \* the service thread its loop looks at next
  mpc,        \* where the main thread is
  closing,    \* the service thread Close() is at
  deleted     \* the service objects Close() has deleted

accVars == <<accRun, apc, cur, minServer, scan>>
mainVars == <<mpc, closing, deleted>>
vars == <<clientVars, serverVars, accVars, mainVars>>

\* Start(n) has created the service threads and then the accept thread.
Init ==
  /\ SInit
  /\ accRun = TRUE
  /\ apc = "loop"
  /\ cur = NoClient
  /\ minServer = 1
  /\ scan = 1
  /\ mpc = "up"
  /\ closing = 1
  /\ deleted = {}

GoAccept(from, to) == apc = from /\ apc' = to

-----------------------------------------------------------------------------
(* The accept thread *)

\* The loop of OnRun looks at the flag and waits for the listening socket, ...
AcceptTop ==
  /\ GoAccept("loop", IF accRun THEN "wait" ELSE "stopped")
  /\ UNCHANGED <<clientVars, serverVars, mainVars, accRun, cur, minServer, scan>>

\* ... where no connection has come, or epoll_wait fails and Exit() tests the
\* flag, ...
AcceptIdle ==
  /\ GoAccept("wait", "loop")
  /\ UNCHANGED <<clientVars, serverVars, mainVars, accRun, cur, minServer, scan>>

AcceptFails ==
  /\ GoAccept("wait", IF accRun THEN "exit" ELSE "stopped")
  /\ UNCHANGED <<clientVars, serverVars, mainVars, accRun, cur, minServer, scan>>

\* ... takes the mutex that Close() may hold, and clears it.
AcceptExit ==
  /\ mpc # "joinAccept"
  /\ GoAccept("exit", "stopped")
  /\ accRun' = FALSE
  /\ UNCHANGED <<clientVars, serverVars, mainVars, cur, minServer, scan>>

\* The next connection: which of the unused names it has tells nothing.
NewConnection == CHOOSE c \in Clients : obj[c] = "none"

\* accept() returns a socket, even if the flag has been cleared meanwhile.
Accept(c, fd) ==
  /\ GoAccept("wait", "limit")
  /\ obj[c] = "none"
  /\ c = NewConnection
  /\ fd \notin openFds
  /\ obj' = [obj EXCEPT ![c] = "socket"]
  /\ sock' = [sock EXCEPT ![c] = fd]
  /\ openFds' = openFds \cup {fd}
  /\ cur' = c
  /\ UNCHANGED <<clientCount, serverVars, mainVars, accRun, minServer, scan>>

\* _clientCount < _nMaxClient: the client object is made.
AcceptClient ==
  /\ clientCount < MaxClient
  /\ GoAccept("limit", "scan")
  /\ obj' = [obj EXCEPT ![cur] = "object"]
  /\ minServer' = 1
  /\ scan' = 1
  /\ UNCHANGED <<sock, openFds, clientCount, serverVars, mainVars, accRun, cur>>

\* At the limit: the socket is closed.
RefuseClient ==
  /\ clientCount >= MaxClient
  /\ GoAccept("limit", "loop")
  /\ DeleteClients({cur})
  /\ cur' = NoClient
  /\ UNCHANGED <<clientCount, serverVars, mainVars, accRun, minServer, scan>>

\* One turn of addClientToCELLServer()'s search for the least loaded thread.
ScanServer ==
  /\ apc = "scan"
  /\ scan <= NServers
  /\ minServer' = IF getClientCount(minServer) > getClientCount(scan)
                  THEN scan ELSE minServer
  /\ scan' = scan + 1
  /\ UNCHANGED <<clientVars, serverVars, mainVars, accRun, apc, cur>>

\* pMinServer->addClient(pClient), under the buffer's mutex.
addClient ==
  /\ scan > NServers
  /\ ~Locked(minServer)
  /\ GoAccept("scan", "loop")
  /\ pending' = [pending EXCEPT ![minServer] = @ \cup {cur}]
  /\ cur' = NoClient
  /\ UNCHANGED <<clientVars, table, joined, run, spc, victim, failed, mainVars,
                 accRun, minServer, scan>>

-----------------------------------------------------------------------------
(* Close(), called by the main thread *)

GoMain(from, to) == mpc = from /\ mpc' = to

\* Mutant of CloseAccept: the accept thread is not waited for.
CloseAcceptNoJoin ==
  /\ GoMain("up", "servers")
  /\ accRun' = FALSE
  /\ UNCHANGED <<clientVars, serverVars, apc, cur, minServer, scan, closing, deleted>>

CloseAccept ==
  /\ GoMain("up", IF accRun THEN "joinAccept" ELSE "servers")
  /\ accRun' = FALSE
  /\ UNCHANGED <<clientVars, serverVars, apc, cur, minServer, scan, closing, deleted>>

AcceptJoined ==
  /\ apc = "stopped"
  /\ GoMain("joinAccept", "servers")
  /\ UNCHANGED <<clientVars, serverVars, accVars, closing, deleted>>

\* delete s: its destructor closes the thread, if the flag is still set.
CloseServer ==
  /\ closing \in Servers
  /\ run[closing]
  /\ GoMain("servers", "joinServer")
  /\ run' = [run EXCEPT ![closing] = FALSE]
  /\ UNCHANGED <<clientVars, table, pending, joined, spc, victim, failed, accVars,
                 closing, deleted>>

ServerGone ==
  /\ closing' = closing + 1
  /\ deleted' = deleted \cup {closing}
  /\ UNCHANGED <<clientVars, serverVars, accVars>>

ServerJoined ==
  /\ GoMain("joinServer", "servers")
  /\ spc[closing] = "done"
  /\ ServerGone

\* The flag was cleared by Exit(): Close() does not wait.
ServerSkipped ==
  /\ closing \in Servers
  /\ ~run[closing]
  /\ GoMain("servers", "servers")
  /\ ServerGone

CloseEnds ==
  /\ closing \notin Servers
  /\ GoMain("servers", "closed")
  /\ UNCHANGED <<clientVars, serverVars, accVars, closing, deleted>>

-----------------------------------------------------------------------------
AcceptStep ==
  \/ AcceptTop \/ AcceptIdle \/ AcceptExit
  \/ AcceptClient \/ RefuseClient \/ ScanServer \/ addClient

MainStep ==
  AcceptJoined \/ CloseServer \/ ServerJoined \/ ServerSkipped \/ CloseEnds

\* After its object is deleted, a service thread that still runs is undefined
\* behaviour and is not followed any further.
ServiceStep(s) ==
  /\ s \notin deleted
  /\ ServerStep(s)
  /\ UNCHANGED <<accVars, mainVars>>

\* Exit() needs the mutex that a Close() of s holds while it waits.
ServiceExit(s) ==
  /\ s \notin deleted
  /\ ~(mpc = "joinServer" /\ closing = s)
  /\ ExitLocked(s)
  /\ UNCHANGED <<accVars, mainVars>>

ServiceLoss(s) ==
  /\ s \notin deleted
  /\ ServerLoss(s)
  /\ UNCHANGED <<accVars, mainVars>>

Next ==
  \/ AcceptStep \/ AcceptFails \/ \E c \in Clients, fd \in Fds : Accept(c, fd)
  \/ \E s \in Servers :
       ServiceStep(s) \/ ServiceExit(s) \/ ServiceLoss(s)
  \/ CloseAccept \/ MainStep

Spec == Init /\ [][Next]_vars

\* The threads are scheduled, epoll_wait has a timeout of 1 ms, and Close() is
\* left to run once it has begun.  Peers, clock and the exit command are free.
Fairness ==
  /\ WF_vars(AcceptStep)
  /\ WF_vars(MainStep)
  /\ \A s \in Servers : WF_vars(ServiceStep(s) \/ ServiceExit(s))

FairSpec == Spec /\ Fairness

-----------------------------------------------------------------------------
TypeOK ==
  /\ obj \in [Clients -> {"none", "socket", "object", "freed"}]
  /\ sock \in [Clients -> Fds \cup {InvalidSocket}]
  /\ openFds \subseteq Fds
  /\ clientCount \in Int
  /\ table \in [Servers -> [Fds -> Clients \cup {NoClient}]]
  /\ pending \in [Servers -> SUBSET Clients]
  /\ joined \in [Servers -> SUBSET Clients]
  /\ run \in [Servers -> BOOLEAN]
  /\ spc \in [Servers -> {"top", "peek", "join", "time", "erase",
                          "events", "leave", "exit", "clear", "clearBuffer", "done"}]
  /\ victim \in [Servers -> Clients \cup {NoClient}]
  /\ failed \in BOOLEAN
  /\ accRun \in BOOLEAN
  /\ apc \in {"loop", "wait", "limit", "scan", "exit", "stopped"}
  /\ cur \in Clients \cup {NoClient}
  /\ minServer \in Servers
  /\ scan \in 1..(NServers + 1)
  /\ mpc \in {"up", "joinAccept", "servers", "joinServer", "closed"}
  /\ closing \in 1..(NServers + 1)
  /\ deleted \subseteq Servers

\* Thread s has client c in its buffer, its table, or in hand to drop it.
Holds(s, c) == c \in pending[s] \/ victim[s] = c \/ c \in Members(s)

\* Every pointer that a thread may still follow is to a living object: the
\* table and the buffer hold no deleted client, except the entry CheckTime()
\* is about to erase (CELLServer.hpp:101-104).
NoDanglingClient ==
  \A s \in Servers :
    /\ \A c \in pending[s] : obj[c] = "object"
    /\ \A c \in Members(s) :
         obj[c] = "object" \/ (spc[s] = "erase" /\ victim[s] = c)
    /\ spc[s] = "leave" => obj[victim[s]] = "object"

\* A client belongs to one thread, and to the accept thread only before that:
\* no object is deleted twice or served by two threads.
OneOwner ==
  \A c \in Clients, s \in Servers : Holds(s, c) =>
    /\ cur # c
    /\ \A t \in Servers : Holds(t, c) => s = t
    /\ c \in pending[s] => c \notin Members(s) /\ victim[s] # c

\* The table's key is the client's own socket, and the socket numbers the
\* kernel reuses never make a new client take a living client's place.
JoinNeverOverwrites ==
  /\ \A s \in Servers, fd \in Fds :
       table[s][fd] # NoClient => sock[table[s][fd]] = fd
  /\ \A s \in Servers : spc[s] = "join" =>
       \A c \in pending[s] : table[s][sock[c]] = NoClient

\* The connection count is the number of clients in the tables, until a thread
\* clears its table: ClearClients() does not count (CELLServer.hpp:199-212).
Erasing(s, fd) == spc[s] = "erase" /\ victim[s] = table[s][fd]

Counted == {p \in Servers \X Fds :
              table[p[1]][p[2]] # NoClient /\ ~Erasing(p[1], p[2])}

CountIsAccurate ==
  (\A s \in Servers : spc[s] \notin {"clearBuffer", "done"}) =>
    clientCount = Cardinality(Counted)
                    + Cardinality({s \in Servers : spc[s] = "leave"})

\* While no epoll_wait of a service thread has failed, a client is handed only
\* to a thread that will still look at its buffer, and the unlocked walk over
\* the buffer in ClearClients() meets no addClient().
HandedToTheLiving ==
  ~failed /\ apc # "stopped" => \A s \in Servers : run[s]

\* When Close() returns after a run without failures, every socket the server
\* accepted is closed and every thread has ended before its object went.
CloseReleasesAll ==
  ~failed => /\ \A s \in deleted : spc[s] = "done"
             /\ mpc = "closed" =>
                  \A c \in Clients : obj[c] \in {"none", "freed"}

\* The lifecycle of a connection, seen through the object, the tables and the
\* buffers.
StageOf(c) ==
  CASE obj[c] = "none" -> "none"
    [] obj[c] = "freed" -> "gone"
    [] OTHER -> IF \E s \in Servers : c \in pending[s] THEN "queued"
                ELSE IF \E s \in Servers : Holds(s, c) THEN "serving"
                ELSE "accepted"

NoServer == 0

ServerOf(c) ==
  IF StageOf(c) \in {"queued", "serving"}
  THEN CHOOSE s \in Servers : Holds(s, c) ELSE NoServer

Lifecycle == INSTANCE ClientLifecycle WITH
  NoFd <- InvalidSocket,
  stage <- [c \in Clients |-> StageOf(c)],
  server <- [c \in Clients |-> ServerOf(c)],
  socket <- [c \in Clients |->
               IF obj[c] = "freed" THEN InvalidSocket ELSE sock[c]]

ImplementsLifecycle == Lifecycle!LSpec

\* A client in a buffer is joined or deleted, unless a service thread fails.
QueuedIsServed ==
  \A c \in Clients : (\E s \in Servers : c \in pending[s])
    ~> (failed \/ \A s \in Servers : c \notin pending[s])

\* Close() comes to its end, whatever has failed before, unless it holds the
\* mutex of a thread that has passed the test of Exit() and waits for it
\* (CELLThread.hpp:56-58).
ExitStuck ==
  \/ mpc = "joinAccept" /\ apc = "exit"
  \/ mpc = "joinServer" /\ spc[closing] = "exit"

CloseTerminates == mpc # "up" ~> (mpc = "closed" \/ ExitStuck)

\* _nMaxClient is the upper limit of connected clients (EasyTcpServer.hpp:31).
WithinLimit == Cardinality({c \in Clients : obj[c] = "object"}) <= MaxClient
==============================================================================
